SPECIFICATION FairSpec
CONSTANTS
  p1 = p1
  p2 = p2
  pg = pg
  r1 = r1
  r2 = r2
  g1 = g1
  g2 = g2
  u1 = u1
  s1 = s1
  s2 = s2
  h1 = h1
  h2 = h2
  star = star
  NoPolicy = NoPolicy
  None = None
  Policies = {p1, pg}
  Routes = {r1}
  Gateways = {g1}
  Unsupported = {}
  SameNamespace <- OneNamespace
  Specs = {s1, s2}
  Hostnames = {h1, star}
  Wildcard = star
  HostLists <- WithEmptyList
  Fits <- OnlyS1Fits
  TargetsOf <- OwnTargets
  ParentsOf <- StayAtG1
  Sections <- OneSection
  Lagging = {}
  Edits = {"spec", "routeHosts", "gatewayHosts", "rejecting", "ready"}
  MaxEdits = 2
  MaxFaults = 0
CHECK_DEADLOCK FALSE
INVARIANT ConfigConverges
INVARIANT StatusConverges
PROPERTY ComesToRest
