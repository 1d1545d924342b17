CONSTANTS
  Deployments = {d1}
  MaxRetry = 2
  Concurrency = 2
  AgentSharesQueue = TRUE
  FaultKinds <- NoFaults
  MaxFaults = 0
SPECIFICATION FairSpec
PROPERTIES
  PushIsBuilt
