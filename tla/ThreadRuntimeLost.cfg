CONSTANTS
  Threads = {t1, t2}
  NtArgs <- LostNtArgs
  WaysArgs <- LostWaysArgs
  Builds <- LostBuilds
  OmpCounts <- MCOmpCounts
  NumCores = 7
  Half = 4
  MaxCalls = 2
SPECIFICATION Spec
INVARIANT LibrarySettingTakesEffect
CHECK_DEADLOCK FALSE
