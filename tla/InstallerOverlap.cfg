CONSTANTS
  host = host
  agent = agent
  s1 = s1
  s2 = s2
  public = public
  private = private
  custom = custom
  None = None
  Operators <- Host
  Agents <- Agent
  Secrets <- TwoSecrets
  UrlSafe <- TwoSecrets
  Detections <- TwoAddresses
  Domains <- OneDomain
  Builds <- AnyBuild
  InstallTls <- AnyInstallTls
  SettingsTls <- AnySettingsTls
  FaultKinds <- NoFaults
  MaxFaults = 0
SPECIFICATION Spec
INVARIANTS
  DatabaseReachable
