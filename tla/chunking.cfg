SPECIFICATION ChunkingSpec
CONSTANTS
  Level <- MCLevel
  MaxTokens = 2
  OverlapTokens = 1
  MaxLines = 6
CHECK_DEADLOCK FALSE
INVARIANTS
  CutWhereAllowed
  TrailIsAncestors
