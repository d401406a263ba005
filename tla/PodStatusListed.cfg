\* GetPods before any GetPod.
SPECIFICATION StatusSpec
CONSTANTS
  Keys = {k1}
  Calls = {c1}
  Deletes = {d1}
  Readers = {r1}
  ExitCodes <- SmallExitCodes
  Nil = Nil
  OverlappingDeletes = FALSE
INVARIANTS ListedStatusIsTrue
CHECK_DEADLOCK FALSE
