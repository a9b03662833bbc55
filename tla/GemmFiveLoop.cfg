CONSTANTS
  Shapes <- MCShapes
  PadN = 2
  PadK = 2
SPECIFICATION FairSpec
INVARIANTS PanelIntact PackExclusive BufferFits BuffersFreedOnce ResultComplete
PROPERTIES TeamFinishes
CHECK_DEADLOCK FALSE
