SPECIFICATION FairSpec
CONSTANTS
  p1 = p1
  p2 = p2
  r1 = r1
  g1 = g1
  g2 = g2
  u1 = u1
  s1 = s1
  s2 = s2
  s3 = s3
  h1 = h1
  star = star
  NoPolicy = NoPolicy
  None = None
  Policies = {p1}
  Routes = {r1}
  Gateways = {g1}
  Unsupported = {}
  SameNamespace <- OneNamespace
  Specs = {s1}
  Ruleless = {}
  Schemeless = {}
  Hostnames = {h1, star}
  Wildcard = star
  HostLists <- OneHostList
  Fits <- EverySpecFits
  TargetsOf <- RouteOrGateway
  ParentsOf <- AllGateways
  RouteName <- OwnRouteNames
  authConfigName <- OwnConfigNames
  Sections <- TwoSections
  Lagging = {}
  Edits = {"delete"}
  MaxEdits = 1
  MaxFaults = 0
CHECK_DEADLOCK FALSE
PROPERTY DeletedConfigGoes
