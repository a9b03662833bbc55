CONSTANTS
  Problems <- MCProblems
  Rntms <- MCRntms
  GemvMR = 4
SPECIFICATION Spec
INVARIANTS TeamFactorised EveryElementOnce CommsFilled TilesBalanced HeuristicNeverHurts
CHECK_DEADLOCK FALSE
