SPECIFICATION ReplacedSafety
CONSTANTS
  Callback = {c1}
  Worker = {w1}
  MaxToken = 2
  MaxRow = 2
INVARIANTS RepeatOnlyAfterLoss BlamedForOwnToken
