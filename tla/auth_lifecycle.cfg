SPECIFICATION FairSpec
CONSTANTS
  p1 = p1
  p2 = p2
  r1 = r1
  g1 = g1
  g2 = g2
  u1 = u1
  s1 = s1
  s2 = s2
  s3 = s3
  h1 = h1
  star = star
  NoPolicy = NoPolicy
  None = None
  Policies = {p1}
  Routes = {r1}
  Gateways = {g1, g2}
  Unsupported = {}
  SameNamespace <- OneNamespace
  Specs = {s1, s2}
  Ruleless = {s2}
  Schemeless = {}
  Hostnames = {h1, star}
  Wildcard = star
  HostLists <- WithEmptyList
  Fits <- EverySpecFits
  TargetsOf <- RouteOrGateway
  ParentsOf <- AllGateways
  RouteName <- OwnRouteNames
  authConfigName <- OwnConfigNames
  Sections <- OneSection
  Lagging = {}
  Edits = {"create", "delete", "spec", "config", "routeHosts"}
  MaxEdits = 3
  MaxFaults = 1
CHECK_DEADLOCK FALSE
INVARIANT FinalizerCoversTraces
INVARIANT ProtectionConverges
INVARIANT StatusConverges
PROPERTY SchemeFollowsRules
PROPERTY DeletionCompletes
PROPERTY ComesToRest
