\* Two incarnations of a pod and three attempts to create them; the API server
\* may refuse the Delete, and others may remove the pod object at any time.
SPECIFICATION ProviderSpec
CONSTANTS
  Keys = {k1}
  UIDs = {u1, u2}
  Calls = {c1, c2, c3}
  Deletes = {d1}
  ExitCodes <- SmallExitCodes
  Nil = Nil
  OverlappingDeletes = FALSE
  WorkerWaits = TRUE
  ForcedRemoval = TRUE
  ApiMayFail = TRUE
SYMMETRY Symmetry
INVARIANTS StartedOnce LiveProcessHasPod
PROPERTIES DeletesOwnPod
CHECK_DEADLOCK FALSE
