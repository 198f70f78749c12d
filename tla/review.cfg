SPECIFICATION Spec
CONSTANTS
  Recruiters = {a, b}
  Readers = {x}
  MaxBusy = 2
  Evaluations = {e1, e2}
  Scores = {0, 1}
  Nobody = Nobody
SYMMETRY Symmetry
INVARIANTS
  TypeOK
  ViewsAreTrue
PROPERTIES
  OverrideIsReported
