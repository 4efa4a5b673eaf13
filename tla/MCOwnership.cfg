SPECIFICATION HistorySpec
CONSTANTS
  Buyer = {b1, b2}
  Request = {r1, r2}
  NoBuyer = NoBuyer
  MaxClock = 4
  MaxRows = 4
SYMMETRY OwnershipSymmetry
INVARIANTS ReassignKeepsOneOwner
PROPERTIES PastIsFinal
