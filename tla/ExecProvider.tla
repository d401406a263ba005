---------------------------- MODULE ExecProvider ----------------------------
(***************************************************************************)
(* CreatePod and DeletePod of pkg/provider/macos_exec.go on top of the      *)
(* runtime client, between the virtual-kubelet pod controller that calls    *)
(* them and the API server.                                                *)
(*                                                                         *)
(* External, modelled from how the provider is used: the API server holds   *)
(* at most one object per pod name, each with a fresh UID; the controller   *)
(* sees it through a lister that lags behind, has one worker per pod name,  *)
(* creates a pod that is listed and that GetPod does not find, and deletes  *)
(* one that is listed as terminating or no longer listed.                   *)
(***************************************************************************)
EXTENDS ProcessClient

CONSTANTS
  UIDs,            \* UIDs of pod objects
  WorkerWaits,     \* does the controller create a pod only when no deletion of
                   \* it is pending?  Nothing in the provider makes it wait.
  ForcedRemoval,   \* may others than the provider remove a pod object?
  ApiMayFail       \* may the API server refuse the provider's Delete?

ASSUME UIDsAssumption == Nil \notin UIDs

ASSUME EnvironmentAssumption == {WorkerWaits, ForcedRemoval, ApiMayFail} \subseteq BOOLEAN

VARIABLES
  api,         \* the object of each pod: [uid, terminating]
  lister,      \* the controller's copy of it
  usedUIDs,    \* UIDs that have been given out
  removedByOthers, \* history: pods an object of which others have removed
  worker,      \* the CreatePod call the worker of each pod made last
  createUID,   \* the pod object each CreatePod call was made for
  handler,     \* where each handleDeletePod goroutine is
  handlerKey,  \* the pod it was started for
  handlerUID   \* the pod object it was started for

apiVars == <<api, lister, usedUIDs, removedByOthers>>
workerVars == <<worker, createUID>>
handlerVars == <<handler, handlerKey, handlerUID>>
providerVars == <<apiVars, workerVars, handlerVars>>
allVars == <<vars, providerVars>>

NoObject == [uid |-> Nil, terminating |-> FALSE]
PodObject == [uid : UIDs \cup {Nil}, terminating : BOOLEAN]

ProviderTypeOK ==
  /\ TypeOK
  /\ api \in [Keys -> PodObject]
  /\ lister \in [Keys -> PodObject]
  /\ usedUIDs \subseteq UIDs
  /\ removedByOthers \subseteq Keys
  /\ worker \in [Keys -> Calls \cup {Nil}]
  /\ createUID \in [Calls -> UIDs \cup {Nil}]
  /\ handler \in [Deletes -> {"idle", "spawned", "deleting"}]
  /\ handlerKey \in [Deletes -> Keys \cup {Nil}]
  /\ handlerUID \in [Deletes -> UIDs \cup {Nil}]

ProviderInit ==
  /\ Init
  /\ api = [k \in Keys |-> NoObject]
  /\ lister = [k \in Keys |-> NoObject]
  /\ usedUIDs = {}
  /\ removedByOthers = {}
  /\ worker = [k \in Keys |-> Nil]
  /\ createUID = [c \in Calls |-> Nil]
  /\ handler = [d \in Deletes |-> "idle"]
  /\ handlerKey = [d \in Deletes |-> Nil]
  /\ handlerUID = [d \in Deletes |-> Nil]

-----------------------------------------------------------------------------
(* The API server and the lister.                                          *)

PodIsCreated(k, u) ==
  /\ api[k] = NoObject /\ u \notin usedUIDs
  /\ api' = [api EXCEPT ![k] = [uid |-> u, terminating |-> FALSE]]
  /\ usedUIDs' = usedUIDs \cup {u}
  /\ UNCHANGED <<vars, lister, removedByOthers, workerVars, handlerVars>>

PodIsTerminated(k) ==
  /\ api[k].uid # Nil /\ ~api[k].terminating
  /\ api' = [api EXCEPT ![k].terminating = TRUE]
  /\ UNCHANGED <<vars, lister, usedUIDs, removedByOthers, workerVars, handlerVars>>

PodIsRemoved(k) ==
  /\ ForcedRemoval /\ api[k].uid # Nil
  /\ api' = [api EXCEPT ![k] = NoObject]
  /\ removedByOthers' = removedByOthers \cup {k}
  /\ UNCHANGED <<vars, lister, usedUIDs, workerVars, handlerVars>>

ListerSyncs(k) ==
  /\ lister[k] # api[k]
  /\ lister' = [lister EXCEPT ![k] = api[k]]
  /\ UNCHANGED <<vars, api, usedUIDs, removedByOthers, workerVars, handlerVars>>

-----------------------------------------------------------------------------
(* The controller's worker and the provider's entry points.                *)

\* The worker is back from the CreatePod call it made last.  (DeletePod never
\* blocks it.)
WorkerFree(k) ==
  \A c \in Calls : worker[k] = c => createPC[c] \in {"stored", "failed"}

NoHandlerInProgress(k) == \A d \in Deletes : handlerKey[d] = k => handler[d] = "idle"

\* A plausible slip: a pod that is being deleted is created again.
WorkerCreatesTerminating(k, c) ==
  /\ WorkerFree(k) /\ processes[k] = Nil
  /\ WorkerWaits => NoHandlerInProgress(k)
  /\ lister[k].uid # Nil
  /\ createPC[c] = "idle" /\ createUID[c] = Nil
  /\ worker' = [worker EXCEPT ![k] = c]
  /\ createUID' = [createUID EXCEPT ![c] = lister[k].uid]
  /\ UNCHANGED <<vars, apiVars, handlerVars>>

\* The worker finds no process (provider.GetPod) and calls provider.CreatePod.
WorkerCallsCreate(k, c) ==
  /\ WorkerFree(k) /\ processes[k] = Nil
  /\ WorkerWaits => NoHandlerInProgress(k)
  /\ lister[k].uid # Nil /\ ~lister[k].terminating
  /\ createPC[c] = "idle" /\ createUID[c] = Nil
  /\ worker' = [worker EXCEPT ![k] = c]
  /\ createUID' = [createUID EXCEPT ![c] = lister[k].uid]
  /\ UNCHANGED <<vars, apiVars, handlerVars>>

\* CreatePod fetches config maps, tokens and pull secrets, any of which may
\* fail, and then calls the runtime client.
CreatePod(k) ==
  LET c == worker[k] IN
  /\ c # Nil
  /\ createPC[c] = "idle"
  /\ \/ CreatePodCheck(c, k)
     \/ /\ CreateReturns(c, "failed")
        /\ UNCHANGED <<processes, createKey, openLogs, procVars, waitVars, signalVars,
                       deleteVars>>
  /\ UNCHANGED providerVars

\* DeletePod starts handleDeletePod and returns.  The pod it is given is the
\* listed one, or the one the process was created with if none is listed.
DeletePod(k, d) ==
  /\ WorkerFree(k) /\ handler[d] = "idle"
  /\ OverlappingDeletes \/ NoHandlerInProgress(k)
  /\ \/ /\ lister[k].terminating
        /\ handlerUID' = [handlerUID EXCEPT ![d] = lister[k].uid]
     \/ /\ lister[k].uid = Nil /\ processes[k] # Nil
        /\ handlerUID' = [handlerUID EXCEPT ![d] = createUID[processes[k]]]
  /\ handler' = [handler EXCEPT ![d] = "spawned"]
  /\ handlerKey' = [handlerKey EXCEPT ![d] = k]
  /\ UNCHANGED <<vars, apiVars, workerVars>>

\* The goroutine reaches runtimeClient.DeletePod.
HandlerLoads(d) ==
  /\ handler[d] = "spawned"
  /\ handler' = [handler EXCEPT ![d] = "deleting"]
  /\ DeletePodLoad(d, handlerKey[d])
  /\ UNCHANGED <<apiVars, workerVars, handlerKey, handlerUID>>

\* The goroutine ends; the model uses its name for a later one.
HandlerEnds(d) ==
  /\ handler' = [handler EXCEPT ![d] = "idle"]
  /\ handlerKey' = [handlerKey EXCEPT ![d] = Nil]
  /\ handlerUID' = [handlerUID EXCEPT ![d] = Nil]
  /\ deletePC' = [deletePC EXCEPT ![d] = "idle"]
  /\ deleteKey' = [deleteKey EXCEPT ![d] = Nil]
  /\ target' = [target EXCEPT ![d] = Nil]
  /\ UNCHANGED <<processes, createVars, openLogs, procVars, waitVars, signalVars,
                 lister, usedUIDs, removedByOthers, workerVars>>

\* runtimeClient.DeletePod failed: the pod object is left alone.
HandlerGivesUp(d) ==
  /\ handler[d] = "deleting" /\ deletePC[d] = "notfound"
  /\ HandlerEnds(d)
  /\ UNCHANGED api

\* A plausible slip: the pod object is deleted while the process winds down.
HandlerDeletesPodEarly(d) ==
  /\ handler[d] = "deleting" /\ deletePC[d] = "waiting"
  /\ HandlerEnds(d)
  /\ api' = [api EXCEPT ![handlerKey[d]] = NoObject]

\* A plausible slip: the Delete is sent again although it was carried out.
HandlerRetriesDelete(d) ==
  /\ handler[d] = "deleting" /\ deletePC[d] = "done"
  /\ HandlerEnds(d) \/ UNCHANGED <<vars, lister, usedUIDs, removedByOthers, workerVars, handlerVars>>
  /\ api' = [api EXCEPT ![handlerKey[d]] = NoObject]

\* Pods(namespace).Delete by name, with no precondition on the UID; a failure
\* is logged and not retried.
HandlerDeletesPod(d) ==
  /\ handler[d] = "deleting" /\ deletePC[d] = "done"
  /\ HandlerEnds(d)
  /\ \/ api' = [api EXCEPT ![handlerKey[d]] = NoObject]
     \/ ApiMayFail /\ UNCHANGED api

HandlerStep(d) == HandlerLoads(d) \/ HandlerGivesUp(d) \/ HandlerDeletesPod(d)

ClientStep ==
  /\ \/ \E c \in Calls : CallStep(c)
     \/ \E d \in Deletes : DeleteStep(d)
  /\ UNCHANGED providerVars

ProviderNext ==
  \/ \E k \in Keys, u \in UIDs : PodIsCreated(k, u)
  \/ \E k \in Keys : PodIsTerminated(k) \/ PodIsRemoved(k) \/ ListerSyncs(k) \/ CreatePod(k)
  \/ \E k \in Keys, c \in Calls : WorkerCallsCreate(k, c)
  \/ \E k \in Keys, d \in Deletes : DeletePod(k, d)
  \/ \E d \in Deletes : HandlerStep(d)
  \/ ClientStep

ProviderSpec == ProviderInit /\ [][ProviderNext]_allVars

\* Goroutines run, SIGKILL is delivered, the lister catches up, and the worker
\* of a pod that is to be deleted gets its turn whenever it is free.  Nobody
\* has to create or terminate a pod, and no job has to exit.
ProviderFairness ==
  /\ \A c \in Calls : /\ WF_allVars(CreateStep(c) /\ UNCHANGED providerVars)
                      /\ WF_allVars(WaiterStep(c) /\ UNCHANGED providerVars)
                      /\ WF_allVars(KillByContext(c) /\ UNCHANGED providerVars)
  /\ \A d \in Deletes : /\ WF_allVars(DeleteStep(d) /\ UNCHANGED providerVars)
                        /\ WF_allVars(HandlerStep(d))
  /\ \A k \in Keys : /\ WF_allVars(ListerSyncs(k))
                     /\ WF_allVars(CreatePod(k))
                     /\ SF_allVars(\E d \in Deletes : DeletePod(k, d))

FairProviderSpec == ProviderSpec /\ ProviderFairness

-----------------------------------------------------------------------------
\* If calls for a pod do not overlap its deletions, the command of a pod
\* object is started at most once, however often its creation is retried, the
\* name reused and however stale the lister is: a job that has exited is not
\* run again.
StartedOnce ==
  \A c1, c2 \in Calls :
    c1 # c2 /\ createUID[c1] # Nil /\ createUID[c1] = createUID[c2] =>
      proc[c1] = "none" \/ proc[c2] = "none"

\* A process that has not been reaped runs for an object that exists, as
\* long as others remove no object of the pod: handleDeletePod deletes the
\* object last, and no process is started for an object that was deleted.
LiveProcessHasPod ==
  \A c \in Calls :
    Live(c) => api[createKey[c]].uid = createUID[c] \/ createKey[c] \in removedByOthers

\* The pod object that handleDeletePod deletes is the one DeletePod was given,
\* as long as others remove no object of the pod.
DeletesOwnPod ==
  [][\A d \in Deletes : handler[d] = "deleting" /\ handler'[d] = "idle" =>
       \/ api'[handlerKey[d]] = api[handlerKey[d]]
       \/ api[handlerKey[d]].uid = handlerUID[d]
       \/ handlerKey[d] \in removedByOthers]_allVars

\* A terminating pod whose process is in the table loses the process and then
\* its object, even if the job ignores SIGTERM.
DeletionIsCarriedThrough ==
  \A k \in Keys, u \in UIDs :
    (api[k] = [uid |-> u, terminating |-> TRUE] /\ processes[k] # Nil)
      ~> (api[k].uid # u /\ \A c \in Calls : createUID[c] = u => ~Live(c))

=============================================================================
