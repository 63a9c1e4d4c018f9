CONSTANTS
  Procs = {p1}
  Runs = {r1, r2}
  WeekLen = 6
  WindowStart = 3
  WindowEnd = 5
  ReapTimeout = 3
  TotalTimeout = 2
  StartDelay = 1
  Overlap = FALSE
SPECIFICATION FairSpec
INVARIANTS AtMostOneWorking MondayNotBlocked
PROPERTIES StatusIsFinal ScheduledOncePerWeek EveryRunEnds ImplementsFairLock
