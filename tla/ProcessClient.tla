---------------------------- MODULE ProcessClient ----------------------------
(***************************************************************************)
(* The runtime client of pkg/client/process.go: a table `processes' from   *)
(* pod names to the one OS process that runs the pod's command.            *)
(*                                                                         *)
(* A call of CreatePod that reaches cmd.Start owns one processState, so a  *)
(* member of Calls names the call, its process and its processState.  The  *)
(* goroutines are: the caller of CreatePod, the waiter CreatePod spawns,   *)
(* the callers of DeletePod, and the watcher of os/exec that kills the     *)
(* process when its context is cancelled.  Every step of one of them       *)
(* between two accesses to shared state is an action.                      *)
(***************************************************************************)
EXTENDS Integers

CONSTANTS
  Keys,               \* types.NamespacedName of pods
  Calls,              \* calls of CreatePod
  Deletes,            \* calls of DeletePod
  ExitCodes,          \* statuses with which a job may exit by itself
  Nil,                \* no call, no key, no exit status
  OverlappingDeletes  \* may a pod be deleted while a deletion of it is pending?

ASSUME NilAssumption == Nil \notin Calls \cup Keys \cup Int

ASSUME ExitCodesAssumption == ExitCodes \subseteq 0..255

ASSUME OverlapAssumption == OverlappingDeletes \in BOOLEAN

VARIABLES
  processes,   \* ProcessClient.processes: Keys -> processState
  createPC,    \* where each CreatePod call is
  createKey,   \* the pod it was called for
  openLogs,    \* the log files the kubelet holds open for it
  proc,        \* its OS process
  exit,        \* the status the process ended with
  exitError,   \* processState.exitError
  waitDone,    \* is processState.waitDone closed?
  termSent,    \* has SIGTERM been sent?
  cancelled,   \* has processState.cancel been called?
  deletePC,    \* where each DeletePod call is
  deleteKey,   \* the pod it was called for
  target       \* the processState it loaded

createVars == <<createPC, createKey>>
waitVars   == <<exitError, waitDone>>
procVars   == <<proc, exit>>
signalVars == <<termSent, cancelled>>
deleteVars == <<deletePC, deleteKey, target>>
vars == <<processes, createVars, openLogs, procVars, waitVars, signalVars,
          deleteVars>>

\* exec.ExitError.ExitCode() of a process that a signal terminated.
Signalled == -1

Creating == {"checked", "stdout", "stderr", "started"}
Deleting == {"loaded", "waiting", "killing", "removing"}

TypeOK ==
  /\ processes \in [Keys -> Calls \cup {Nil}]
  /\ createPC \in [Calls -> {"idle", "stored", "failed"} \cup Creating]
  /\ createKey \in [Calls -> Keys \cup {Nil}]
  /\ openLogs \in [Calls -> SUBSET {"stdout", "stderr"}]
  /\ proc \in [Calls -> {"none", "running", "zombie", "reaped"}]
  /\ exit \in [Calls -> ExitCodes \cup {Signalled, Nil}]
  /\ exitError \in [Calls -> {"nil", "ExitError", "Canceled"}]
  /\ waitDone \in [Calls -> BOOLEAN]
  /\ termSent \in [Calls -> BOOLEAN]
  /\ cancelled \in [Calls -> BOOLEAN]
  /\ deletePC \in [Deletes -> {"idle", "done", "notfound"} \cup Deleting]
  /\ deleteKey \in [Deletes -> Keys \cup {Nil}]
  /\ target \in [Deletes -> Calls \cup {Nil}]

Init ==
  /\ processes = [k \in Keys |-> Nil]
  /\ createPC = [c \in Calls |-> "idle"]
  /\ createKey = [c \in Calls |-> Nil]
  /\ openLogs = [c \in Calls |-> {}]
  /\ proc = [c \in Calls |-> "none"]
  /\ exit = [c \in Calls |-> Nil]
  /\ exitError = [c \in Calls |-> "nil"]
  /\ waitDone = [c \in Calls |-> FALSE]
  /\ termSent = [c \in Calls |-> FALSE]
  /\ cancelled = [c \in Calls |-> FALSE]
  /\ deletePC = [d \in Deletes |-> "idle"]
  /\ deleteKey = [d \in Deletes |-> Nil]
  /\ target = [d \in Deletes |-> Nil]

-----------------------------------------------------------------------------
(* CreatePod.                                                              *)

CreateReturns(c, result) == createPC' = [createPC EXCEPT ![c] = result]

\* The virtual-kubelet pod controller queues its work by pod name: it never
\* runs two CreatePod calls for one pod at a time.  CreatePod itself does not
\* exclude it: its look-up of the key and its Store are far apart.
NoCreateInProgress(k) ==
  \A c \in Calls : createKey[c] = k => createPC[c] \notin Creating

\* A plausible slip: the table is not consulted.
CreatePodUnchecked(c, k) ==
  /\ createPC[c] = "idle"
  /\ NoCreateInProgress(k)
  /\ createKey' = [createKey EXCEPT ![c] = k]
  /\ CreateReturns(c, "checked") \/ CreateReturns(c, "failed")
  /\ UNCHANGED <<processes, openLogs, procVars, waitVars, signalVars, deleteVars>>

\* The checks on the spec and on the table.  A spec without containers or
\* without a command fails like an existing entry does.
CreatePodCheck(c, k) ==
  /\ createPC[c] = "idle"
  /\ NoCreateInProgress(k)
  /\ createKey' = [createKey EXCEPT ![c] = k]
  /\ \/ processes[k] = Nil /\ CreateReturns(c, "checked")
     \/ CreateReturns(c, "failed")
  /\ UNCHANGED <<processes, openLogs, procVars, waitVars, signalVars, deleteVars>>

\* The log directory is made and owned, and stdout.log created (truncated).
CreateStdout(c) ==
  /\ createPC[c] = "checked"
  /\ \/ /\ CreateReturns(c, "stdout")
        /\ openLogs' = [openLogs EXCEPT ![c] = {"stdout"}]
     \/ /\ CreateReturns(c, "failed")
        /\ UNCHANGED openLogs
  /\ UNCHANGED <<processes, createKey, procVars, waitVars, signalVars, deleteVars>>

\* A plausible slip: stdout.log is left open when stderr.log cannot be made.
CreateStderrLeaks(c) ==
  /\ createPC[c] = "stdout"
  /\ \/ /\ CreateReturns(c, "stderr")
        /\ openLogs' = [openLogs EXCEPT ![c] = @ \cup {"stderr"}]
     \/ /\ CreateReturns(c, "failed")
        /\ UNCHANGED openLogs
  /\ UNCHANGED <<processes, createKey, procVars, waitVars, signalVars, deleteVars>>

CreateStderr(c) ==
  /\ createPC[c] = "stdout"
  /\ \/ /\ CreateReturns(c, "stderr")
        /\ openLogs' = [openLogs EXCEPT ![c] = @ \cup {"stderr"}]
     \/ /\ CreateReturns(c, "failed")
        /\ openLogs' = [openLogs EXCEPT ![c] = {}]
  /\ UNCHANGED <<processes, createKey, procVars, waitVars, signalVars, deleteVars>>

\* cmd.Start, and on success the waiter goroutine.
StartProcess(c) ==
  /\ createPC[c] = "stderr"
  /\ \/ /\ CreateReturns(c, "started")
        /\ proc' = [proc EXCEPT ![c] = "running"]
        /\ UNCHANGED openLogs
     \/ /\ CreateReturns(c, "failed")
        /\ openLogs' = [openLogs EXCEPT ![c] = {}]
        /\ UNCHANGED proc
  /\ UNCHANGED <<processes, createKey, exit, waitVars, signalVars, deleteVars>>

\* processes.Store, whatever the table holds by now.
StoreProcess(c) ==
  /\ createPC[c] = "started"
  /\ CreateReturns(c, "stored")
  /\ processes' = [processes EXCEPT ![createKey[c]] = c]
  /\ UNCHANGED <<createKey, openLogs, procVars, waitVars, signalVars, deleteVars>>

CreateStep(c) ==
  CreateStdout(c) \/ CreateStderr(c) \/ StartProcess(c) \/ StoreProcess(c)

-----------------------------------------------------------------------------
(* The OS process and the two goroutines that watch it.                    *)

Ends(c, status) ==
  /\ proc[c] = "running"
  /\ proc' = [proc EXCEPT ![c] = "zombie"]
  /\ exit' = [exit EXCEPT ![c] = status]
  /\ UNCHANGED <<processes, createVars, openLogs, waitVars, signalVars, deleteVars>>

\* The job exits by itself, or because it handles SIGTERM.
JobExits(c) == \E status \in ExitCodes : Ends(c, status)

\* A signal terminates the job: SIGTERM, a crash, a kill from elsewhere.
JobIsSignalled(c) == Ends(c, Signalled)

\* os/exec's watcher sends SIGKILL once the context is cancelled.
KillByContext(c) == cancelled[c] /\ Ends(c, Signalled)

\* cmd.Wait reaps the process.  If the context was cancelled while the job
\* was a zombie, the kill is deemed to have worked and a successful exit is
\* reported as context.Canceled.
WaiterReaps(c) ==
  /\ proc[c] = "zombie"
  /\ proc' = [proc EXCEPT ![c] = "reaped"]
  /\ \/ exit[c] # 0 /\ exitError' = [exitError EXCEPT ![c] = "ExitError"]
     \/ exit[c] = 0 /\ UNCHANGED exitError
     \/ /\ exit[c] = 0 /\ cancelled[c]
        /\ exitError' = [exitError EXCEPT ![c] = "Canceled"]
  /\ UNCHANGED <<processes, createVars, openLogs, exit, waitDone, signalVars, deleteVars>>

\* The deferred calls of the waiter, in their order.
WaiterClosesLogs(c) ==
  /\ proc[c] = "reaped" /\ openLogs[c] # {}
  /\ openLogs' = [openLogs EXCEPT ![c] = {}]
  /\ UNCHANGED <<processes, createVars, procVars, waitVars, signalVars, deleteVars>>

\* A plausible slip: the channel is closed before the log files are.
WaiterClosesDoneEarly(c) ==
  /\ proc[c] = "reaped" /\ ~waitDone[c]
  /\ waitDone' = [waitDone EXCEPT ![c] = TRUE]
  /\ UNCHANGED <<processes, createVars, openLogs, procVars, exitError, signalVars, deleteVars>>

WaiterClosesDone(c) ==
  /\ proc[c] = "reaped" /\ openLogs[c] = {} /\ ~waitDone[c]
  /\ waitDone' = [waitDone EXCEPT ![c] = TRUE]
  /\ UNCHANGED <<processes, createVars, openLogs, procVars, exitError, signalVars, deleteVars>>

WaiterStep(c) == WaiterReaps(c) \/ WaiterClosesLogs(c) \/ WaiterClosesDone(c)

-----------------------------------------------------------------------------
(* DeletePod.                                                              *)

DeleteAt(d, from, to) ==
  /\ deletePC[d] = from
  /\ deletePC' = [deletePC EXCEPT ![d] = to]

NoDeleteInProgress(k) ==
  \A d \in Deletes : deleteKey[d] = k => deletePC[d] \notin Deleting

DeletePodLoad(d, k) ==
  /\ OverlappingDeletes \/ NoDeleteInProgress(k)
  /\ DeleteAt(d, "idle", IF processes[k] = Nil THEN "notfound" ELSE "loaded")
  /\ deleteKey' = [deleteKey EXCEPT ![d] = k]
  /\ target' = [target EXCEPT ![d] = processes[k]]
  /\ UNCHANGED <<processes, createVars, openLogs, procVars, waitVars, signalVars>>

\* A plausible slip: SIGTERM is skipped for some deletions (no grace period).
DeleteSkipsSignal(d) ==
  /\ DeleteAt(d, "loaded", "waiting")
  /\ UNCHANGED <<processes, createVars, openLogs, procVars, waitVars, signalVars,
                 deleteKey, target>>

\* Process.Signal(SIGTERM); an error (the process is gone) is ignored.
DeleteSignals(d) ==
  /\ DeleteAt(d, "loaded", "waiting")
  /\ termSent' = [termSent EXCEPT ![target[d]] = TRUE]
  /\ UNCHANGED <<processes, createVars, openLogs, procVars, waitVars, cancelled,
                 deleteKey, target>>

DeleteSeesExit(d) ==
  /\ DeleteAt(d, "waiting", "removing")
  /\ waitDone[target[d]]
  /\ UNCHANGED <<processes, createVars, openLogs, procVars, waitVars, signalVars,
                 deleteKey, target>>

\* A plausible slip: the grace period ends but cancel is not called.
DeleteForgetsCancel(d) ==
  /\ DeleteAt(d, "waiting", "killing")
  /\ UNCHANGED <<processes, createVars, openLogs, procVars, waitVars, signalVars,
                 deleteKey, target>>

\* The other branch of the select: the grace period is over.  Time is not
\* modelled: the timer may fire at any moment, waitDone closed or not.
DeleteGraceExpires(d) ==
  /\ DeleteAt(d, "waiting", "killing")
  /\ cancelled' = [cancelled EXCEPT ![target[d]] = TRUE]
  /\ UNCHANGED <<processes, createVars, openLogs, procVars, waitVars, termSent,
                 deleteKey, target>>

\* A plausible slip: nobody waits for the killed process.
DeleteDoesNotWait(d) ==
  /\ DeleteAt(d, "killing", "removing")
  /\ UNCHANGED <<processes, createVars, openLogs, procVars, waitVars, signalVars,
                 deleteKey, target>>

DeleteSeesKill(d) ==
  /\ DeleteAt(d, "killing", "removing")
  /\ waitDone[target[d]]
  /\ UNCHANGED <<processes, createVars, openLogs, procVars, waitVars, signalVars,
                 deleteKey, target>>

\* processes.Delete(key), whatever the key maps to by now.
DeleteRemoves(d) ==
  /\ DeleteAt(d, "removing", "done")
  /\ processes' = [processes EXCEPT ![deleteKey[d]] = Nil]
  /\ UNCHANGED <<createVars, openLogs, procVars, waitVars, signalVars, deleteKey, target>>

DeleteStep(d) ==
  \/ DeleteSignals(d)
  \/ DeleteSeesExit(d)
  \/ DeleteGraceExpires(d)
  \/ DeleteSeesKill(d)
  \/ DeleteRemoves(d)

-----------------------------------------------------------------------------
CallStep(c) ==
  \/ CreateStep(c)
  \/ JobExits(c)
  \/ JobIsSignalled(c)
  \/ KillByContext(c)
  \/ WaiterStep(c)

Next ==
  \/ \E c \in Calls, k \in Keys : CreatePodCheck(c, k)
  \/ \E c \in Calls : CallStep(c)
  \/ \E d \in Deletes, k \in Keys : DeletePodLoad(d, k)
  \/ \E d \in Deletes : DeleteStep(d)

Spec == Init /\ [][Next]_vars

\* Goroutines that can run do run, and the kernel delivers SIGKILL.  Nothing
\* obliges a job to exit or anyone to call CreatePod or DeletePod.
Fairness ==
  /\ \A c \in Calls : /\ WF_vars(CreateStep(c))
                      /\ WF_vars(WaiterStep(c))
                      /\ WF_vars(KillByContext(c))
  /\ \A d \in Deletes : WF_vars(DeleteStep(d))

FairSpec == Spec /\ Fairness

-----------------------------------------------------------------------------
(* Properties.                                                             *)

Live(c) == proc[c] \in {"running", "zombie"}

\* DeletePod removes its entry and returns nil only once the process it
\* loaded has been reaped and its log files are closed: by either branch of
\* the select, and however exit, timer, cancel and waiter interleave.
DeletedMeansExited ==
  \A d \in Deletes : deletePC[d] \in {"removing", "done"} =>
    proc[target[d]] = "reaped" /\ openLogs[target[d]] = {}

\* Log files are open only in a CreatePod that is still under way or for a
\* process that has not been waited for: no error path of CreatePod and no
\* exit leaks a descriptor.
NoLogLeak ==
  \A c \in Calls : openLogs[c] # {} =>
    \/ createPC[c] \in {"stdout", "stderr"}
    \/ createPC[c] \in {"started", "stored"} /\ ~waitDone[c]

\* The context of a process is cancelled (SIGKILL) only by a DeletePod that
\* loaded this very process and has sent it SIGTERM before.
KillOnlyAfterTerm ==
  \A c \in Calls : cancelled[c] =>
    /\ termSent[c]
    /\ \E d \in Deletes : target[d] = c /\ deletePC[d] \in {"killing", "removing", "done"}

\* Every process that has not been reaped can still be found: it is in the
\* table under its pod, or its CreatePod is about to put it there.  What is
\* not in the table can be neither reported nor deleted.
NoOrphan ==
  \A c \in Calls : Live(c) =>
    createPC[c] = "started" \/ processes[createKey[c]] = c

\* Two incarnations of a pod never have its log files (one path per pod and
\* container, truncated by CreatePod) open at once; so they never run at once.
ExclusiveLogs ==
  \A c1, c2 \in Calls :
    c1 # c2 /\ createKey[c1] = createKey[c2] => openLogs[c1] = {} \/ openLogs[c2] = {}

\* An entry of the table is never overwritten by another, and leaves it only
\* when its own process has been waited for.
EntriesOnlyLeaveFinished ==
  [][\A k \in Keys : processes[k] # Nil /\ processes'[k] # processes[k] =>
       processes'[k] = Nil /\ waitDone[processes[k]]]_vars

\* Every DeletePod that finds its pod returns, even if the job ignores
\* SIGTERM and whatever the other calls do.
DeleteCompletes ==
  \A d \in Deletes : deletePC[d] = "loaded" ~> deletePC[d] = "done"

\* How the table and the processes implement PodRuntime.  A job is its pod's
\* from cmd.Start, before the table has it; it has ended when it is reaped; its
\* deletion is requested when a DeletePod loads it.
PodJobs ==
  [k \in Keys |->
    {c \in Calls : createKey[c] = k /\ (createPC[c] = "started" \/ processes[k] = c)}]

JobLife ==
  [c \in Calls |-> IF proc[c] = "none" THEN "unborn"
                   ELSE IF Live(c) THEN "running" ELSE "ended"]

DoomedJobs == {c \in Calls : \E d \in Deletes : target[d] = c}

Abstract == INSTANCE PodRuntime
  WITH Pods <- Keys, Jobs <- Calls, jobs <- PodJobs, life <- JobLife, doomed <- DoomedJobs

\* With one DeletePod per pod at a time, the client keeps what PodRuntime
\* promises: one job per pod, none forgotten before it has ended, and every
\* deletion carried through.
ImplementsPodRuntime == Abstract!Spec

=============================================================================
