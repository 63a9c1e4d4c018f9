SPECIFICATION Spec
CONSTANTS
  w1 = w1
  w2 = w2
  roundup1 = roundup1
  forecast1 = forecast1
  cutter1 = cutter1
  pattern1 = pattern1
  snapshot1 = snapshot1
  Workers = {w1, w2}
  Items <- SmallWeek
  Kind <- KindOfItem
  Cap = 1
  MaxCalls = 2
  Months = 2
  DbErrors = TRUE
SYMMETRY Alike
INVARIANT CapHolds
PROPERTIES GoodRowKept
