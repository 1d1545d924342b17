CONSTANTS
  MaxAttempts = 2
  MaxOutput = 2
  BufferCap = 1
  Limit = 2
  MaxPolls = 2
  MaxViews = 1
  FaultKinds <- AllFaults
  MaxFaults = 1
SPECIFICATION FairSpec
INVARIANTS
  ShownIsPrefix
  OutputIsKept
PROPERTIES
  StreamCatchesUp
  BadgeSettles
