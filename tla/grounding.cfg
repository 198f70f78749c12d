SPECIFICATION GroundingSpec
CONSTANTS
  c1 = c1
  c2 = c2
  c3 = c3
  Requirements <- MCRequirements
  Skills <- MCSkills
  Chunks <- MCChunks
  Cost <- MCCost
  Levels = 2
  Floor = 2
  Supports = 2
  TopK = 2
  Pool = 2
  Budget = 3
  Common = 3782
  MaxQuestions = 2
SYMMETRY Symmetry
CHECK_DEADLOCK FALSE
INVARIANTS
  GroundingInv
  FusionKeepsDominance
  BudgetIsShared
