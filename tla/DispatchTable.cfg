SPECIFICATION FairSpec
CONSTANTS
  Threads = {t1, t2}
  Keys <- MCKeys
  Values <- MCValues
  KeyOf <- MCKeyOf
  Hash <- MCHash
  TableSize = 1
  ChainSize = 1
  BaseSize = 1
  BucketLimits = {1, 2}
  Calls = 4
  None = None
  a = a
  b = b
  c = c
  va = va
  va2 = va2
  vb = vb
  vc = vc
INVARIANTS TypeOK KeyOnce ReadsAllocated HandedOutIsKept QueryFinds
PROPERTIES KeysStay CallsReturn Refines
CHECK_DEADLOCK FALSE
