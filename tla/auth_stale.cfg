SPECIFICATION Spec
CONSTANTS
  p1 = p1
  p2 = p2
  r1 = r1
  g1 = g1
  g2 = g2
  u1 = u1
  s1 = s1
  s2 = s2
  s3 = s3
  h1 = h1
  star = star
  NoPolicy = NoPolicy
  None = None
  Policies = {p1, p2}
  Routes = {r1}
  Gateways = {g1}
  Unsupported = {u1}
  SameNamespace <- OneNamespace
  Specs = {s1, s3}
  Ruleless = {}
  Schemeless = {s3}
  Hostnames = {h1, star}
  Wildcard = star
  HostLists <- OneHostList
  Fits <- EverySpecFits
  TargetsOf <- SharedOrAny
  ParentsOf <- AnyParents
  RouteName <- OwnRouteNames
  authConfigName <- OwnConfigNames
  Sections <- OneSection
  Lagging = {"gateway", "iap", "config"}
  Edits = {"create", "route", "gateway", "delete", "deleteUnmarked", "spec", "config", "annotate", "rejecting", "ready", "retarget", "parents", "routeHosts", "gatewayHosts"}
  MaxEdits = 1
  MaxFaults = 1
CHECK_DEADLOCK FALSE
INVARIANT TypeOK
PROPERTY OnlyOwnerWritesRules
PROPERTY NeverLosesUpdates
PROPERTY OwnershipIsALock
