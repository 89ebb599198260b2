\* Two workers, a file that may be deleted, one fault: lock, flag and the completion of the deletion.
SPECIFICATION FairSpec
CONSTANTS
  Workers = {w1, w2}
  Nobody = Nobody
  Dead = Dead
  MaxParses = 1
  MaxDirect = 0
  MayDelete = TRUE
  IndexMayFail = FALSE
  MaxFaults = 1
INVARIANTS
  OneBuilder
  IndexedIsFinal
  
PROPERTIES
  DeletionCompletes
CHECK_DEADLOCK FALSE
