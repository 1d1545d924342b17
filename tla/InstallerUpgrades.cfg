CONSTANTS
  host = host
  agent = agent
  s1 = s1
  s2 = s2
  public = public
  private = private
  custom = custom
  None = None
  Operators <- Host
  Agents <- Host
  Secrets <- TwoSecrets
  UrlSafe <- OneSafe
  Detections <- TwoAddresses
  Domains <- OneDomain
  Builds <- AnyBuild
  InstallTls <- AnyInstallTls
  SettingsTls <- AnySettingsTls
  FaultKinds <- FailBetweenSteps
  MaxFaults = 2
SPECIFICATION Spec
INVARIANTS
  DatabaseReachable
  TemplateMatchesEnv
PROPERTIES
  DomainKept
