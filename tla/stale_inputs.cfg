SPECIFICATION Spec
CONSTANTS
  p1 = p1
  p2 = p2
  pg = pg
  r1 = r1
  r2 = r2
  g1 = g1
  g2 = g2
  u1 = u1
  s1 = s1
  s2 = s2
  h1 = h1
  h2 = h2
  star = star
  NoPolicy = NoPolicy
  None = None
  Policies = {p1}
  Routes = {r1}
  Gateways = {g1}
  Unsupported = {u1}
  SameNamespace <- OneNamespace
  Specs = {s1, s2}
  Hostnames = {h1, star}
  Wildcard = star
  HostLists <- OneHostList
  Fits <- OnlyS1Fits
  TargetsOf <- AnyTarget
  ParentsOf <- AnyParents
  Sections <- TwoSections
  Lagging = {"policy", "route", "gateway"}
  Edits = {"create", "spec", "retarget", "delete", "deleteUnmarked", "route", "parents", "routeHosts", "rejecting", "gateway", "gatewayHosts", "ready", "limitador"}
  MaxEdits = 2
  MaxFaults = 0
CHECK_DEADLOCK FALSE
INVARIANT TypeOK
PROPERTY NeverLosesUpdates
PROPERTY OwnershipIsALock
