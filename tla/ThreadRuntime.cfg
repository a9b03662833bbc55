CONSTANTS
  Threads = {t1, t2}
  NtArgs <- MCNtArgs
  WaysArgs <- MCWaysArgs
  Builds <- MCBuilds
  OmpCounts <- MCOmpCounts
  NumCores = 7
  Half = 4
  MaxCalls = 2
SPECIFICATION FairSpec
INVARIANTS TypeOK ModesExclusive NoTornConfig LocalSettingWins EnvKeepsControl
PROPERTIES CallsReturn
CHECK_DEADLOCK FALSE
