\* The pages of the dashboard, one open at a time.
SPECIFICATION Spec
CHECK_DEADLOCK FALSE
CONSTANTS
  None = None
  Blank = Blank
  Default = Default
  Orgs = {o1, o2}
  People = {u1}
  Projects = {p1, p2}
  Queries = {q1, q2}
  Templates = {t1, t2}
  Typed = Typed
  Chosen = Chosen
  Deployments = {d1, d2}
  Keys = {k1}
  NoKey = NoKey
  Names = {n1, n2}
  Invented = Invented
  s1 = s1
  s2 = s2
  Stores <- MCStores
  KindOf <- MCKindOf
  Kinds = {"postgres", "kv"}
  Jobs = {j1, j2}
  Enabled = {j1}
  Paused = {j2}
  Values = {v1}
  Cap = 3
  Batch = 2
  MaxAnswers = 4
  MaxChanges = 1
  MaxWrites = 2
  MaxLatest = 1
  MaxCreates = 2
  MaxImports = 1
  MaxBuilds = 2
  Limit = 1
  MaxPromotes = 2
  MaxForeign = 1
  MaxOutput = 3
  MaxRequests = 3
  MaxRows = 2
  MaxRuns = 2
  MaxLines = 3
  MaxChunks = 2
  LogLimit = 1
  MaxJobs = 2
  MaxPolls = 2
  Fixed = 2
  MaxProjects = 2
  MaxLoads = 2
  Notes = {m1, m2}
  Old = {m2}
INVARIANTS
  TypeOK
  LandsSoon
  WritesGoWhereListed
  ExistingIsListed
  ShownIsChosen
  BannerIsProduction
  TimersMatchPages
  TypedIsKept
  SelectionIsListed
PROPERTIES
  AddedStays
  VerdictSettles
