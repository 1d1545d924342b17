CONSTANTS
  p1 = p1
  p2 = p2
  p3 = p3
  d1 = d1
  d2 = d2
  d3 = d3
  d4 = d4
  k1 = k1
  k2 = k2
  None = None
  Deployments <- FourDeployments
  Projects <- ThreeProjects
  ProjectOf <- TwoOneOne
  Hosts <- TwoHosts
  HostOf <- HostShared
  CreatedAt <- ThirdIsOldest
  Handlers = {h1}
  PromoteUnready = TRUE
  MaxFaults = 2
SPECIFICATION FairSpec
INVARIANTS
  RouteBacked
PROPERTIES
  ImplementsAlias
  UntakenGoesLive
  NextPromoteHeals
