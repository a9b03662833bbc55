CONSTANT Requests <- MCRequests
SPECIFICATION FairSpec
INVARIANTS BatchShared MeetsTeam
PROPERTIES BatchFinishes
CHECK_DEADLOCK FALSE
