\* One pod, three incarnations and two deletions; no symmetry (liveness).
SPECIFICATION FairSpec
CONSTANTS
  Keys = {k1}
  Calls = {c1, c2, c3}
  Deletes = {d1, d2}
  ExitCodes <- SmallExitCodes
  Nil = Nil
  OverlappingDeletes = FALSE
INVARIANTS NoOrphan ExclusiveLogs
PROPERTIES ImplementsPodRuntime
CHECK_DEADLOCK FALSE
