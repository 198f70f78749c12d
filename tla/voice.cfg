CONSTANTS
  Tabs = {a, b}
  Lines = {a, b, c}
  Count = 2
  MaxClips = 1
  Concurrency = 1
  MaxSpoken = 2
  MaxPieces = 1
  MaxKeys = 1
SPECIFICATION Spec
SYMMETRY Symmetry
CHECK_DEADLOCK FALSE
INVARIANTS
  VoiceInv
  HonestIsNotFlagged
  PasteIsFlagged
