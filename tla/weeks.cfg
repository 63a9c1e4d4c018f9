CONSTANTS
  p1 = p1
  Posts = {p1}
  Days = 2
  Ticks = 3
  SchedTick = 2
  WindowDays = 4
  LastWeek = 3
  MaxManual = 1
SPECIFICATION Spec
INVARIANTS OnlyLastDayMissing NoGapBetweenBriefs NoPostProvesItself
