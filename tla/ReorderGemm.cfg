SPECIFICATION Spec
CONSTANTS
  min_NR = 2
  k_factor = 2
  isAnalyticalShapeModelArch = TRUE
  candidateTiles <- MCTiles
  streamingTile <- MCStreamingTile
  Streaming <- MCStreaming
  DefaultBlocks <- MCDefaultBlocks
  Problems <- MCProblems
  Metadata <- MCMetadata
  Runtimes <- MCRuntimes
  Rows = {1, 5, 9}
  GemvKC = 4
  SkinnyN = 2
  SkinnyMr = 16
  Tiny <- MCTiny
INVARIANTS TypeOK ReadsWhatWasWritten BytesFixed
PROPERTIES WrittenOnce
CHECK_DEADLOCK FALSE
