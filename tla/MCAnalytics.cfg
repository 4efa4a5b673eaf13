SPECIFICATION Spec
CONSTANTS
  Workers = {w1, w2}
  Buyers = {b1}
  Nobody = Nobody
  Everyone = Everyone
  Idle = Idle
  DayLen = 3
  ZoneShift = 1
  BucketLen = 2
  MaxTime = 3
  MaxSpend = 2
INVARIANTS RangesAddUp SeriesMatchesSummary SoleOwnerSeesAll NothingLost NothingInvented
SYMMETRY Symmetry
