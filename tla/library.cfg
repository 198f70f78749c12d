SPECIFICATION Spec
CONSTANTS
  Files = {f1, f2}
  Contents = {"short", "long"}
  Passages <- MCPassages
  Absent = Absent
  Models = {m1, m2}
  Ingestions = {r1, r2}
  Questions = {q1}
  MaxIds = 4
  MaxSources = 1
SYMMETRY Symmetry
CHECK_DEADLOCK FALSE
INVARIANTS
  LibraryInv
  CitationsNeverLie
PROPERTIES
  IngestIsCareful
