SPECIFICATION Spec
CONSTANTS
  None = None
  MaxLabels = 2
  MaxList = 3
  Labels <- TwoLabels
  DomainLists <- TwoNames
  SubdomainLists <- OneName
  Hosts <- LongerHosts
  Methods <- TwoMethods
  Hostnames <- TwoHostnames
  Characters <- SomeCharacters
  Wildcard <- AnyHost
  HostSets <- NoneOrOne
  MatchSets <- OneOrTwoMatches
  Requests <- SomeRequests
  LimitLists <- ShortLists
  Keys <- Gateways
  Domains <- TwoDomains
  Wants <- SmallWants
  Foreign <- NoGateway
CHECK_DEADLOCK FALSE
INVARIANT HostnamesContained
INVARIANT RouteRequestsSelected
INVARIANT SameListsExactly
INVARIANT LimitsAreApplied
PROPERTY WritesNoReordering
