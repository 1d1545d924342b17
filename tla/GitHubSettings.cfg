CONSTANTS
  app_id = app_id
  private_key = private_key
  api = api
  worker = worker
  r1 = r1
  r2 = r2
  saved = saved
  env = env
  Unset = Unset
  Keep = Keep
  NotServed = NotServed
  NotConfigured = NotConfigured
  Api = api
  KeyOrder <- TwoKeys
  Values <- OneValue
  FromEnv = Unset
  Providers <- ApiAndWorker
  Requests <- TwoRequests
  TTL = 2
  FaultKinds <- AllFaults
  MaxFaults = 1
SPECIFICATION Spec
INVARIANTS
  ApiIsCurrent
  StaleAtMostTTL
