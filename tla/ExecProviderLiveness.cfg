\* The calls as the code allows them; the API server accepts the Delete.
SPECIFICATION FairProviderSpec
CONSTANTS
  Keys = {k1}
  UIDs = {u1, u2}
  Calls = {c1, c2}
  Deletes = {d1}
  ExitCodes <- SmallExitCodes
  Nil = Nil
  OverlappingDeletes = FALSE
  WorkerWaits = FALSE
  ForcedRemoval = FALSE
  ApiMayFail = FALSE
PROPERTIES DeletionIsCarriedThrough
CHECK_DEADLOCK FALSE
