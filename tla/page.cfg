CONSTANTS
  Count = 2
  Drafts = {1}
  MaxFaults = 1
SPECIFICATION Spec
CHECK_DEADLOCK FALSE
INVARIANTS
  PageInv
PROPERTIES
  DraftsAreKept
  WaitsEnd
