------------------------------ MODULE PodStatus ------------------------------
(***************************************************************************)
(* Status reporting: GetPod and GetPodList of pkg/client/process.go under   *)
(* GetPod, GetPodStatus and GetPods of pkg/provider/macos_exec.go, running  *)
(* beside the actions of ProcessClient.                                    *)
(*                                                                         *)
(* The exit code travels through PodProcess.ExitCode, one variable per     *)
(* process that all callers share and no lock protects: a caller computes   *)
(* the code, writes it there, and reads it back to choose the phase.        *)
(***************************************************************************)
EXTENDS ProcessClient

CONSTANT Readers      \* goroutines that ask for a status

ASSUME ReadersAssumption == Nil \notin Readers

VARIABLES
  podExitCode,   \* PodProcess.ExitCode
  reader         \* what each reader is doing, and the status it returned

statusVars == <<podExitCode, reader>>
allVars == <<vars, statusVars>>

Phases == {"Running", "Succeeded", "Failed"}
Codes == ExitCodes \cup {Signalled, 0, 1}

ReaderState ==
  [pc    : {"idle", "loaded", "computed", "written", "listed", "phased", "returned"},
   via   : {"GetPod", "GetPods"},
   call  : Calls \cup {Nil},
   code  : Codes,
   phase : Phases]

StatusTypeOK ==
  /\ TypeOK
  /\ podExitCode \in [Calls -> Codes]
  /\ reader \in [Readers -> ReaderState]

Idle == [pc |-> "idle", via |-> "GetPod", call |-> Nil, code |-> 0, phase |-> "Running"]

\* CreatePod leaves ExitCode at the zero value of an int.
StatusInit ==
  /\ Init
  /\ podExitCode = [c \in Calls |-> 0]
  /\ reader = [r \in Readers |-> Idle]

-----------------------------------------------------------------------------
\* The exit code ProcessClient.GetPod computes: -1 for "running".
ExitCode(c) ==
  CASE ~waitDone[c] -> -1
    [] waitDone[c] /\ exitError[c] = "nil" -> 0
    [] waitDone[c] /\ exitError[c] = "ExitError" -> exit[c]
    [] waitDone[c] /\ exitError[c] = "Canceled" -> 1

\* A plausible slip: the test for an exit code is > 0 instead of >= 0.
PhaseMissesZero(code) == IF code > 0 THEN "Failed" ELSE "Running"

\* getPodStatusFromProcess.  StartedAt is set whenever the process is in the
\* table, so Pending is never chosen.
Phase(code) ==
  CASE code = 0 -> "Succeeded"
    [] code > 0 -> "Failed"
    [] code < 0 -> "Running"

\* GetPod and GetPodStatus: the look-up; NotFound returns without a status.
GetPodLoads(r, k) ==
  /\ reader[r] = Idle /\ processes[k] # Nil
  /\ reader' = [reader EXCEPT ![r] =
       [@ EXCEPT !.pc = "loaded", !.via = "GetPod", !.call = processes[k]]]
  /\ UNCHANGED <<vars, podExitCode>>

\* A plausible slip: a code that was computed once is taken from the cache.
GetPodComputesOnce(r) ==
  /\ reader[r].pc = "loaded"
  /\ LET cached == podExitCode[reader[r].call] IN
       reader' = [reader EXCEPT ![r] = [@ EXCEPT !.pc = "computed",
         !.code = IF cached = 0 THEN ExitCode(reader[r].call) ELSE cached]]
  /\ UNCHANGED <<vars, podExitCode>>

\* The select on waitDone.
GetPodComputes(r) ==
  /\ reader[r].pc = "loaded"
  /\ reader' = [reader EXCEPT ![r] =
       [@ EXCEPT !.pc = "computed", !.code = ExitCode(reader[r].call)]]
  /\ UNCHANGED <<vars, podExitCode>>

\* A plausible slip: the shared ExitCode is written only once the job is over.
GetPodWritesOnlyExits(r) ==
  /\ reader[r].pc = "computed"
  /\ podExitCode' = IF reader[r].code < 0 THEN podExitCode
                    ELSE [podExitCode EXCEPT ![reader[r].call] = reader[r].code]
  /\ reader' = [reader EXCEPT ![r].pc = "written"]
  /\ UNCHANGED vars

GetPodWrites(r) ==
  /\ reader[r].pc = "computed"
  /\ podExitCode' = [podExitCode EXCEPT ![reader[r].call] = reader[r].code]
  /\ reader' = [reader EXCEPT ![r].pc = "written"]
  /\ UNCHANGED vars

\* GetPods: GetPodList's Range collects the shared PodProcess as it is.  The
\* entries are independent, so one of them is followed.
GetPodsLists(r, k) ==
  /\ reader[r] = Idle /\ processes[k] # Nil
  /\ reader' = [reader EXCEPT ![r] =
       [@ EXCEPT !.pc = "listed", !.via = "GetPods", !.call = processes[k]]]
  /\ UNCHANGED <<vars, podExitCode>>

\* getPodStatusFromProcess chooses the phase from ExitCode as it is now.  The
\* two comparisons are adjacent loads of one word, which the compiler merges.
ChoosesPhase(r) ==
  /\ LET code == podExitCode[reader[r].call] IN
       reader' = [reader EXCEPT ![r] =
         [@ EXCEPT !.pc = IF Phase(code) = "Running" THEN "returned" ELSE "phased",
                   !.code = code, !.phase = Phase(code)]]
  /\ UNCHANGED <<vars, podExitCode>>

GetPodReadsPhase(r) == reader[r].pc = "written" /\ ChoosesPhase(r)

GetPodsReadsPhase(r) == reader[r].pc = "listed" /\ ChoosesPhase(r)

\* ContainerStateTerminated.ExitCode is loaded again.
ReadsTerminatedCode(r) ==
  /\ reader[r].pc = "phased"
  /\ reader' = [reader EXCEPT ![r] =
       [@ EXCEPT !.pc = "returned", !.code = podExitCode[reader[r].call]]]
  /\ UNCHANGED <<vars, podExitCode>>

\* The caller has used the status.
ReaderDone(r) ==
  /\ reader[r].pc = "returned"
  /\ reader' = [reader EXCEPT ![r] = Idle]
  /\ UNCHANGED <<vars, podExitCode>>

ReaderStep(r) ==
  \/ GetPodComputes(r)
  \/ GetPodWrites(r)
  \/ GetPodReadsPhase(r)
  \/ GetPodsReadsPhase(r)
  \/ ReadsTerminatedCode(r)
  \/ ReaderDone(r)

ClientStep == Next /\ UNCHANGED statusVars

StatusNext ==
  \/ ClientStep
  \/ \E r \in Readers, k \in Keys : GetPodLoads(r, k) \/ GetPodsLists(r, k)
  \/ \E r \in Readers : ReaderStep(r)

StatusSpec == StatusInit /\ [][StatusNext]_allVars

\* The virtual kubelet polls the status of every pod for ever; a started call
\* returns; the goroutines of ProcessClient run.
StatusFairness ==
  /\ \A c \in Calls : /\ WF_allVars(CreateStep(c) /\ UNCHANGED statusVars)
                      /\ WF_allVars(WaiterStep(c) /\ UNCHANGED statusVars)
  /\ \A r \in Readers : WF_allVars(ReaderStep(r))
  /\ \A k \in Keys : SF_allVars(\E r \in Readers : GetPodLoads(r, k))

FairStatusSpec == StatusSpec /\ StatusFairness

-----------------------------------------------------------------------------
Returned(r, via, c) ==
  reader[r].pc = "returned" /\ reader[r].via = via /\ reader[r].call = c

\* What a terminal phase claims: the process has been reaped, with status 0
\* for Succeeded; Failed may also stand for a job that was cancelled on its
\* way out.
TruePhase(c, phase) ==
  CASE phase = "Succeeded" -> waitDone[c] /\ exit[c] = 0
    [] phase = "Failed" -> waitDone[c] /\ (exit[c] > 0 \/ cancelled[c])
    [] phase = "Running" -> TRUE

\* GetPod and GetPodStatus never report a terminal phase for a process that
\* runs, nor the wrong one for a process that ended, although callers race on
\* PodProcess.ExitCode.
FinalStatusIsTrue ==
  \A r \in Readers, c \in Calls :
    Returned(r, "GetPod", c) => TruePhase(c, reader[r].phase)

\* The exit code in a terminated container's status is the job's, or the -1
\* of a slower caller that still took the job to be running; never another.
TerminatedCodeIsTrue ==
  \A r \in Readers, c \in Calls :
    Returned(r, "GetPod", c) /\ reader[r].phase # "Running" =>
      reader[r].code \in {ExitCode(c), -1}

\* Once a job has exited by itself, the polls see it: from some point on no
\* GetPod or GetPodStatus takes it to be running, however many slow callers
\* had still seen it run.
EventuallyAccurate ==
  \A r \in Readers, c \in Calls :
    waitDone[c] /\ exit[c] >= 0 ~>
      [](Returned(r, "GetPod", c) => reader[r].phase = Phase(ExitCode(c)))

InTable(c) == createKey[c] # Nil /\ processes[createKey[c]] = c

Reported(c) ==
  \E r \in Readers : Returned(r, "GetPod", c) /\ reader[r].phase # "Running"

\* A job that has exited by itself is reported as ended, unless it is deleted
\* first.
ExitIsReported ==
  \A c \in Calls :
    waitDone[c] /\ exit[c] >= 0 /\ InTable(c) ~> Reported(c) \/ ~InTable(c)

\* The same of every job, also one that a signal terminated.  It does not
\* hold: ExitCode() is -1 then, which stands for "running".
EveryExitIsReported ==
  \A c \in Calls :
    waitDone[c] /\ InTable(c) ~> Reported(c) \/ ~InTable(c)

\* GetPods does not report a terminal phase for a job that runs.  It does not
\* hold: ExitCode is 0 until somebody calls GetPod.
ListedStatusIsTrue ==
  \A r \in Readers, c \in Calls :
    Returned(r, "GetPods", c) => TruePhase(c, reader[r].phase)

=============================================================================
