CONSTANTS
  Threads = {t1, t2, t3, t4}
  MaxRounds = 3
SPECIFICATION FairSpec
INVARIANTS TypeOK NoEarlyExit ResetRacesWithNobody
PROPERTIES ImplementsBarrier EveryoneReleased
CHECK_DEADLOCK FALSE
