SPECIFICATION Spec
CONSTANTS
  Assets <- MCAssets
  Own = {1}
  Sourceless = {}
  New = {2}
  Workers = {"cron", "admin"}
  Schedules <- MCSchedules
  InitTables <- MCInitTables
  FreshCap = 1
  BacklogCap = 1
  PostCap = 1
  EvidenceCap = 2
  BatchLimit = 2
  CommitEvery = 2
  SkipVision = FALSE
  HasKey = TRUE
  MaxPaid = 2
  None = None
INVARIANTS NothingUncounted PaidOnce DescribedWithItsPost
CHECK_DEADLOCK FALSE
