SPECIFICATION Spec
CONSTANTS
  Threads = {t1}
  g1 = g1
  g2 = g2
  p1 = p1
  p2 = p2
  q1 = q1
  q2 = q2
  Keys = {g1, g2, p1, p2, q1, q2}
  KindOf <- MCKindOf
  KeySets <- QuantKeySets
  DTypes <- MCDTypes
  MaxKernels = 2
  None = None
PROPERTIES FallbackWorks
CHECK_DEADLOCK FALSE
