\* The deletion and the indexing of a file run at the same time.
SPECIFICATION Spec
CONSTANTS
  Workers = {w1, w2}
  Nobody = Nobody
  Dead = Dead
  MaxParses = 1
  MaxDirect = 0
  MayDelete = TRUE
  IndexMayFail = FALSE
  MaxFaults = 0
SYMMETRY WorkerSymmetry
INVARIANTS
  HiddenOrErased
CHECK_DEADLOCK FALSE
