CONSTANTS
  founder = founder
  guest = guest
  first = first
  second = second
  None = None
  People <- TwoPeople
  Orgs <- TwoOrgs
  Repos = {x1}
  Founder = founder
  FirstOrg = first
  Requests = {r1, r2}
  MaxFaults = 1
SPECIFICATION OrgsSpec
SYMMETRY Symmetry
PROPERTIES
  AbandonedForever
