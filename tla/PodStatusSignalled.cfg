\* A job ended by a signal, polled for ever.
SPECIFICATION FairStatusSpec
CONSTANTS
  Keys = {k1}
  Calls = {c1}
  Deletes = {d1}
  Readers = {r1}
  ExitCodes <- SmallExitCodes
  Nil = Nil
  OverlappingDeletes = FALSE
PROPERTIES EveryExitIsReported
CHECK_DEADLOCK FALSE
