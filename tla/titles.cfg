SPECIFICATION Spec
CONSTANTS
  None = None
  a1 = a1
  a2 = a2
  c1 = c1
  c2 = c2
  c3 = c3
  t1 = t1
  t2 = t2
  t3 = t3
  t4 = t4
  t5 = t5
  n1 = n1
  n2 = n2
  j1 = j1
  j2 = j2
  Assets = {a1, a2}
  Cands = {c1, c2, c3}
  Titles = {t1, t2, t3, t4, t5}
  Names = {n1, n2}
  Jobs = {j1, j2}
  AssetOf <- Owner
  Sure = {c1}
  Doubt = {c2}
  Stale = {c3}
  Hits <- HitsOf
  Slate <- Works
  Dated = {t5}
  MaxTries = 2
  MaxTaken = 2
  Schedules <- SmallSchedules
  InitRows <- SmallDays
INVARIANTS ClosedWithTitle
PROPERTIES RepeatsFindNothing NobodyForgotten EveryJobEnds
CHECK_DEADLOCK FALSE
