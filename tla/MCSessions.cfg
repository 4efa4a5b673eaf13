SPECIFICATION InParts
CONSTANTS
  User <- Users
  admin = admin
  other = other
  FirstAdmin = admin
  Token = {1, 2, 3}
  NoToken = 0
  Request = {r1, r2}
  AccessTTL = 2
  RefreshTTL = 3
  StateTTL = 1
  Leeway = 1
  Timeout = 2
  Horizon = 9
SYMMETRY Symmetric
INVARIANTS SessionGoesOn RightsFade FormerAdminStops
PROPERTIES RefinesChain
