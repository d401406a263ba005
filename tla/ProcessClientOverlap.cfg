\* DeletePod calls for one pod overlap, as provider.DeletePod allows.
SPECIFICATION FairSpec
CONSTANTS
  Keys = {k1}
  Calls = {c1, c2}
  Deletes = {d1, d2, d3}
  ExitCodes <- SmallExitCodes
  Nil = Nil
  OverlappingDeletes = TRUE
INVARIANTS DeletedMeansExited NoLogLeak KillOnlyAfterTerm
PROPERTIES DeleteCompletes
CHECK_DEADLOCK FALSE
