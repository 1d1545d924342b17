CONSTANTS
  j1 = j1
  j2 = j2
  Jobs <- TwoJobs
  TypeOf <- ApplyAndUpdate
  MaxRetry = 1
  MaxVersion = 1
  WorkerSharesQueue = TRUE
  FaultKinds <- AllFaults
  MaxFaults = 1
SPECIFICATION FairSpec
INVARIANTS
  DoneIsSuccess
  SuccessMeansApplied
PROPERTIES
  SuccessIsFinal
  JobVerdict
