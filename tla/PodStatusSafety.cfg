\* One pod, one incarnation, two callers that race on the exit code and poll
\* for ever; no symmetry (liveness).
SPECIFICATION FairStatusSpec
CONSTANTS
  Keys = {k1}
  Calls = {c1}
  Deletes = {d1}
  Readers = {r1, r2}
  ExitCodes <- SmallExitCodes
  Nil = Nil
  OverlappingDeletes = FALSE
 
PROPERTIES EventuallyAccurate ExitIsReported
CHECK_DEADLOCK FALSE
