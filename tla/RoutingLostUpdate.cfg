CONSTANTS
  p1 = p1
  p2 = p2
  p3 = p3
  d1 = d1
  d2 = d2
  d3 = d3
  d4 = d4
  k1 = k1
  k2 = k2
  None = None
  Deployments <- ThreeDeployments
  Projects <- TwoProjects
  ProjectOf <- TwoAndOne
  Hosts <- TwoHosts
  HostOf <- HostEach
  CreatedAt <- FirstIsOlder
  Handlers = {h1, h2}
  PromoteUnready = FALSE
  MaxFaults = 0
SPECIFICATION FairSpec
PROPERTIES
  PromotedGoesLive
