SPECIFICATION Spec
CONSTANTS
  Threads = {t1, t2}
  g1 = g1
  g2 = g2
  p1 = p1
  p2 = p2
  q1 = q1
  q2 = q2
  Keys = {g1, g2, p1, p2, q1, q2}
  KindOf <- MCKindOf
  KeySets <- MCKeySets
  DTypes <- MCDTypes
  MaxKernels = 3
  None = None
SYMMETRY Interchangeable
INVARIANTS TypeOK NoDangling FreedOnce
CHECK_DEADLOCK FALSE
