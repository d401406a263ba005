\* All configurations, tables, terminals and orders of the goroutines.
SPECIFICATION ServicesSpec
CONSTANTS
  Effects = {"NoSchedule", "NoExecute", "Never"}
  Rates = {0, 100, 101}
  Callers = {c1, c2}
  StatsPods = {pod1, pod2}
  Absent = Absent
  MaxEntries = 2
  EnvLines = 1
  CmdLines = 2
  MaxInput = 2
  MaxResizes = 2
INVARIANTS
  NodeIsConfigured FailureIsReported SummaryIsExact
  AddressIsTheMachines ClientHasOneOwner InputFollowsCommand
PROPERTIES
  InterruptEnds RequestsAreAnswered CancelEndsSearch
  ExpiryReturns WorkerEnds KeepaliveEnds 
CHECK_DEADLOCK FALSE
