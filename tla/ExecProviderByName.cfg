\* The worker goes on while handleDeletePod is pending.
SPECIFICATION ProviderSpec
CONSTANTS
  Keys = {k1}
  UIDs = {u1, u2}
  Calls = {c1, c2}
  Deletes = {d1}
  ExitCodes <- SmallExitCodes
  Nil = Nil
  OverlappingDeletes = FALSE
  WorkerWaits = FALSE
  ForcedRemoval = FALSE
  ApiMayFail = FALSE
PROPERTIES DeletesOwnPod
CHECK_DEADLOCK FALSE
