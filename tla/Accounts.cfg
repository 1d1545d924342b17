CONSTANTS
  alice = alice
  bob = bob
  g1 = g1
  l1 = l1
  l2 = l2
  None = None
  Emails <- TwoEmails
  Bootstraps <- OneBootstrap
  GitHubAccounts <- OneAccount
  Logins <- TwoLogins
  FirstLogin <- AtFirst
  Requests = {r1, r2}
  MaxRenames = 1
  MaxFaults = 1
SPECIFICATION Spec
SYMMETRY Symmetry
INVARIANTS
  FirstSetupWins
  FirstIsAdmin
  OrphanUserNeedsFault
PROPERTIES
  LoginKeepsUser
