\* The smallest instance in which a second deletion outlives a re-creation.
SPECIFICATION Spec
CONSTANTS
  Keys = {k1}
  Calls = {c1, c2}
  Deletes = {d1, d2}
  ExitCodes <- SmallExitCodes
  Nil = Nil
  OverlappingDeletes = TRUE
INVARIANTS NoOrphan
CHECK_DEADLOCK FALSE
