CONSTANTS
  Deployments = {d1, d2}
  MaxRetry = 1
  Concurrency = 2
  AgentSharesQueue = TRUE
  FaultKinds <- AllFaults
  MaxFaults = 2
SPECIFICATION FairSpec
INVARIANTS
  ReadyIsBacked
  AckedIsReady
  StuckNeedsFault
PROPERTIES
  SpentForever
  ImplementsLifecycle
  AcceptedEnds
