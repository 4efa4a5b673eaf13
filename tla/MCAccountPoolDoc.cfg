SPECIFICATION Spec
CONSTANTS
  Profile = {p1, p2, p3}
  Account = {a1, a2}
  Tx = {t1, t2}
  NoTx = NoTx
  NoProfile = NoProfile
PROPERTIES ImportLeavesPrimary
