\* One worker, every fault: the tasks of a file that is deleted one after the other.
SPECIFICATION Spec
CONSTANTS
  Workers = {w1}
  Nobody = Nobody
  Dead = Dead
  MaxParses = 2
  MaxDirect = 1
  MayDelete = TRUE
  IndexMayFail = TRUE
  MaxFaults = 2
INVARIANTS
  HiddenOrErased
  VectorHasRow
CHECK_DEADLOCK FALSE
