----------------------- MODULE ExecProviderAgreement -----------------------
(***************************************************************************)
(* When deletions of a pod do not overlap: API server, lister and provider   *)
(* agree on the pod's object, and a deletion is for the object it was        *)
(* started for. Proved on top of the invariants of ExecProviderOnce.         *)
(***************************************************************************)
EXTENDS ExecProviderOnce

\* In a module of this size a leaf waits longer than it is worked on.
USE SMTT(30), ZenonT(30), Z3T(30)

(* The call has, or may yet get, a process for the pod.                     *)
InPlay(k, c) ==
  processes[k] = c \/ (worker[k] = c /\ createPC[c] \in Creating \cup {"idle"})

(* As long as others remove no object of a pod, the API server, the lister  *)
(* and the provider agree on which object it is.                            *)
AgreeInv ==
  \A k \in Keys \ removedByOthers :
    /\ \A c \in Calls : InPlay(k, c) => api[k].uid = createUID[c] /\ lister[k].uid = createUID[c]
    /\ lister[k].uid # Nil /\ ~lister[k].terminating => api[k].uid = lister[k].uid

(* The pending deletion of a pod is for the object there is, or finds no    *)
(* process.                                                                 *)
OwnInv ==
  \A d \in Deletes : handler[d] # "idle" =>
    /\ \A d2 \in Deletes : handler[d2] # "idle" /\ handlerKey[d2] = handlerKey[d] => d2 = d
    /\ handlerKey[d] \notin removedByOthers =>
         \/ api[handlerKey[d]].uid = handlerUID[d]
         \/ processes[handlerKey[d]] = Nil /\ deletePC[d] \in {"idle", "notfound"}

(* The invariant when deletions of a pod do not overlap either.             *)
RInv == PInv /\ AgreeInv /\ OwnInv

(* A call in play was made for an object, and a pod that is being deleted    *)
(* has none besides the one in the table.                                   *)
LEMMA InPlayFacts ==
  ASSUME PInv, NEW k \in Keys, NEW c \in Calls, InPlay(k, c)
  PROVE  /\ createUID[c] # Nil
         /\ ~NoHandlerInProgress(k) => processes[k] = c
<1>1. createUID[c] # Nil
  BY NilAssumption DEF PInv, Base, Core, TableInv, WorkerInv, InPlay
<1>2. ~NoHandlerInProgress(k) => WorkerFree(k)
  BY DEF PInv, HandlerInv, NoHandlerInProgress
<1> QED BY <1>1, <1>2 DEF WorkerFree, InPlay, Creating

(* The API server, the lister and the provider keep agreeing.               *)
LEMMA AgreeInvStep == RInv /\ [ProviderNext]_allVars => AgreeInv'
<1> SUFFICES ASSUME RInv, [ProviderNext]_allVars PROVE AgreeInv'
  OBVIOUS
<1>0. PInv /\ Base /\ TypeOK /\ ProviderTypeOK /\ AgreeInv
  BY DEF RInv, PInv, Base, ProviderTypeOK
<1> USE <1>0
<1>1. ASSUME NEW k \in Keys, NEW u \in UIDs, PodIsCreated(k, u) PROVE AgreeInv'
  <2>1. api[k].uid = Nil
    BY <1>1 DEF PodIsCreated, NoObject
  <2>2. /\ UNCHANGED <<lister, removedByOthers, createUID, processes, worker, createPC>>
        /\ \A k2 \in Keys : k2 # k => api'[k2] = api[k2]
    BY <1>1 DEF PodIsCreated, vars, createVars, workerVars, ProviderTypeOK
  <2>3. k \notin removedByOthers => /\ \A c \in Calls : ~InPlay(k, c)
                                    /\ lister[k].uid = Nil \/ lister[k].terminating
    BY <2>1, InPlayFacts DEF AgreeInv
  <2>4. \A k2 \in Keys, c \in Calls : InPlay(k2, c)' => InPlay(k2, c)
    BY <2>2 DEF InPlay
  <2>5. ASSUME NEW k2 \in Keys \ removedByOthers
        PROVE  /\ \A c \in Calls : InPlay(k2, c)' => api'[k2].uid = createUID[c] /\ lister[k2].uid = createUID[c]
               /\ lister[k2].uid # Nil /\ ~lister[k2].terminating => api'[k2].uid = lister[k2].uid
    <3>1. CASE k2 = k
      <4>1. ASSUME NEW c \in Calls, InPlay(k2, c)' PROVE FALSE
        <5>1. InPlay(k, c)
          BY <2>2, <3>1, <4>1 DEF InPlay
        <5> QED BY <2>3, <3>1, <5>1
      <4>2. lister[k2].uid = Nil \/ lister[k2].terminating
        BY <2>3, <3>1
      <4> QED BY <4>1, <4>2
    <3>2. CASE k2 # k
      BY <2>2, <2>4, <3>2 DEF AgreeInv
    <3> QED BY <3>1, <3>2
  <2> QED BY <2>2, <2>5 DEF AgreeInv
<1>2. ASSUME NEW k \in Keys, PodIsTerminated(k) PROVE AgreeInv'
  <2>1. /\ UNCHANGED <<lister, removedByOthers, createUID, processes, worker, createPC>>
        /\ \A k2 \in Keys : api'[k2].uid = api[k2].uid
    BY <1>2 DEF PodIsTerminated, vars, createVars, workerVars, ProviderTypeOK, PodObject
  <2> QED BY <2>1 DEF AgreeInv, InPlay
<1>3. ASSUME NEW k \in Keys, PodIsRemoved(k) PROVE AgreeInv'
  <2>1. /\ UNCHANGED <<lister, createUID, processes, worker, createPC>>
        /\ removedByOthers' = removedByOthers \cup {k}
        /\ \A k2 \in Keys : k2 # k => api'[k2] = api[k2]
    BY <1>3 DEF PodIsRemoved, vars, createVars, workerVars, ProviderTypeOK
  <2> QED BY <2>1 DEF AgreeInv, InPlay
<1>4. ASSUME NEW k \in Keys, ListerSyncs(k) PROVE AgreeInv'
  <2>1. /\ UNCHANGED <<api, removedByOthers, createUID, processes, worker, createPC>>
        /\ lister' = [lister EXCEPT ![k] = api[k]]
    BY <1>4 DEF ListerSyncs, vars, createVars, workerVars
  <2>2. lister'[k] = api[k] /\ \A k2 \in Keys : k2 # k => lister'[k2] = lister[k2]
    BY <2>1 DEF ProviderTypeOK
  <2>3. \A k2 \in Keys, c \in Calls : InPlay(k2, c)' => InPlay(k2, c)
    BY <2>1 DEF InPlay
  <2>4. ASSUME NEW k2 \in Keys \ removedByOthers
        PROVE  /\ \A c \in Calls : InPlay(k2, c)' => api[k2].uid = createUID[c] /\ lister'[k2].uid = createUID[c]
               /\ lister'[k2].uid # Nil /\ ~lister'[k2].terminating => api[k2].uid = lister'[k2].uid
    <3>1. CASE k2 = k
      BY <2>2, <2>3, <3>1 DEF AgreeInv
    <3>2. CASE k2 # k
      BY <2>2, <2>3, <3>2 DEF AgreeInv
    <3> QED BY <3>1, <3>2
  <2> QED BY <2>1, <2>4 DEF AgreeInv
<1>5. ASSUME NEW k \in Keys, NEW c \in Calls, WorkerCallsCreate(k, c) PROVE AgreeInv'
  <2>1. /\ UNCHANGED <<api, lister, removedByOthers, processes, createPC>>
        /\ createPC[c] = "idle" /\ createUID[c] = Nil /\ processes[k] = Nil
        /\ lister[k].uid # Nil /\ ~lister[k].terminating
        /\ worker' = [worker EXCEPT ![k] = c] /\ createUID' = [createUID EXCEPT ![c] = lister[k].uid]
    BY <1>5 DEF WorkerCallsCreate, vars, createVars, apiVars
  <2>2. \A k2 \in Keys : ~InPlay(k2, c)
    BY <2>1, InPlayFacts
  <2>3. \A k2 \in Keys, c2 \in Calls : InPlay(k2, c2)' => InPlay(k2, c2) \/ (k2 = k /\ c2 = c)
    BY <2>1, <2>2, NilAssumption DEF InPlay, ProviderTypeOK
  <2>4. createUID'[c] = lister[k].uid /\ \A c2 \in Calls : c2 # c => createUID'[c2] = createUID[c2]
    BY <2>1 DEF ProviderTypeOK
  <2>5. ASSUME NEW k2 \in Keys \ removedByOthers, NEW c2 \in Calls, InPlay(k2, c2)'
        PROVE  api[k2].uid = createUID'[c2] /\ lister[k2].uid = createUID'[c2]
    <3>1. CASE InPlay(k2, c2)
      BY <2>2, <2>4, <3>1 DEF AgreeInv
    <3>2. CASE k2 = k /\ c2 = c
      BY <2>1, <2>4, <3>2 DEF AgreeInv
    <3> QED BY <2>3, <2>5, <3>1, <3>2
  <2> QED BY <2>1, <2>5 DEF AgreeInv
<1>6. ASSUME UNCHANGED <<api, lister, removedByOthers, createUID>>,
             \A k \in Keys, c \in Calls : InPlay(k, c)' => InPlay(k, c)
      PROVE  AgreeInv'
  BY <1>6 DEF AgreeInv
<1>7. ASSUME NEW k \in Keys, CreatePod(k) PROVE AgreeInv'
  <2>1. PICK c \in Calls : /\ createPC[c] = "idle"
                           /\ \E pc \in {"checked", "failed"} : createPC' = [createPC EXCEPT ![c] = pc]
    BY <1>7 DEF CreatePod, CreatePodCheck, CreateReturns, ProviderTypeOK
  <2>2. UNCHANGED <<api, lister, removedByOthers, createUID, processes, worker>>
    BY <1>7 DEF CreatePod, CreatePodCheck, providerVars, apiVars, workerVars
  <2>3. \A k2 \in Keys, c2 \in Calls : InPlay(k2, c2)' => InPlay(k2, c2)
    BY <2>1, <2>2 DEF InPlay, Creating, TypeOK
  <2> QED BY <1>6, <2>2, <2>3
<1>8. ASSUME NEW d \in Deletes, HandlerDeletesPod(d) PROVE AgreeInv'
  <2> DEFINE k == handlerKey[d]
  <2>1. /\ UNCHANGED <<lister, removedByOthers, createUID, processes, worker, createPC>>
        /\ handler[d] = "deleting" /\ deletePC[d] = "done" /\ k \in Keys
        /\ \A k2 \in Keys : k2 # k => api'[k2] = api[k2]
    BY <1>8 DEF HandlerDeletesPod, HandlerEnds, createVars, workerVars, Base, HandlerShape, ProviderTypeOK
  <2>2. \A c \in Calls : ~InPlay(k, c)
    <3>1. processes[k] = Nil /\ ~NoHandlerInProgress(k)
      BY <2>1 DEF PInv, HandlerInv, NoHandlerInProgress
    <3> QED BY <2>1, <3>1, InPlayFacts, NilAssumption
  <2>3. k \notin removedByOthers => lister[k].uid = Nil \/ lister[k].terminating
    <3>1. k \notin removedByOthers => api[k].uid = handlerUID[d]
      BY <2>1 DEF RInv, OwnInv
    <3>2. handlerUID[d] \in Retired
      BY <2>1 DEF PInv, HandlerInv
    <3>3. lister[k].uid = handlerUID[d] => lister[k].terminating
      BY <2>1, <3>2 DEF Retired
    <3> QED BY <2>1, <3>1, <3>3 DEF AgreeInv
  <2> QED BY <2>1, <2>2, <2>3 DEF AgreeInv, InPlay
<1>9. ASSUME NEW c \in Calls, Advances(c) \/ StoreProcess(c), UNCHANGED providerVars PROVE AgreeInv'
  <2>1. /\ UNCHANGED <<api, lister, removedByOthers, createUID, worker>> /\ createPC[c] \in Creating
        /\ UNCHANGED processes \/ processes' = [processes EXCEPT ![createKey[c]] = c]
        /\ \E pc \in Creating \cup {"failed", "stored"} : createPC' = [createPC EXCEPT ![c] = pc]
    BY <1>9 DEF Advances, StoreProcess, CreateReturns, Creating, providerVars, apiVars, workerVars
  <2>2. worker[createKey[c]] = c
    BY <2>1 DEF Base, WorkerInv
  <2>3. \A k2 \in Keys, c2 \in Calls : InPlay(k2, c2)' => InPlay(k2, c2)
    BY <2>1, <2>2 DEF InPlay, TypeOK
  <2> QED BY <1>6, <2>1, <2>3
<1>10. ASSUME NEW d \in Deletes, DeleteRemoves(d), UNCHANGED providerVars PROVE AgreeInv'
  <2>1. /\ UNCHANGED <<api, lister, removedByOthers, createUID, worker, createPC>>
        /\ processes' = [processes EXCEPT ![deleteKey[d]] = Nil]
    BY <1>10 DEF DeleteRemoves, createVars, providerVars, apiVars, workerVars
  <2>2. \A k2 \in Keys, c2 \in Calls : InPlay(k2, c2)' => InPlay(k2, c2)
    BY <2>1, NilAssumption DEF InPlay, TypeOK
  <2> QED BY <1>6, <2>1, <2>2
<1>11. ASSUME UNCHANGED <<api, lister, removedByOthers, createUID, processes, worker, createPC>>
       PROVE  AgreeInv'
  BY <1>11 DEF AgreeInv, InPlay
<1>12. CASE ClientStep
  BY <1>9, <1>10, <1>11, <1>12, ClientStepIs
  DEF Progresses, createVars, providerVars, apiVars, workerVars
<1> QED
  BY <1>1, <1>2, <1>3, <1>4, <1>5, <1>7, <1>8, <1>11, <1>12
  DEF ProviderNext, HandlerStep, HandlerLoads, DeletePodLoad, HandlerGivesUp, HandlerEnds, DeletePod,
      allVars, vars, createVars, providerVars, apiVars, workerVars

(* A pending deletion keeps the object it is for.                           *)
LEMMA OwnInvStep ==
  ASSUME ~OverlappingDeletes, RInv, [ProviderNext]_allVars
  PROVE  OwnInv'
<1> DEFINE Shown(d) ==
             /\ \A d2 \in Deletes : handler[d2] # "idle" /\ handlerKey[d2] = handlerKey[d] => d2 = d
             /\ handlerKey[d] \notin removedByOthers =>
                  \/ api[handlerKey[d]].uid = handlerUID[d]
                  \/ processes[handlerKey[d]] = Nil /\ deletePC[d] \in {"idle", "notfound"}
<1> SUFFICES ASSUME NEW d \in Deletes, handler'[d] # "idle" PROVE Shown(d)'
  BY Zenon DEF OwnInv
<1> DEFINE k == handlerKey[d]
<1>0. TypeOK /\ ProviderTypeOK /\ HandlerShape /\ HandlerInv /\ AgreeInv /\ OwnInv /\ WorkerInv
  BY DEF RInv, PInv, Base, ProviderTypeOK
<1>t. /\ processes \in [Keys -> Calls \cup {Nil}] /\ api \in [Keys -> PodObject]
      /\ handler \in [Deletes -> {"idle", "spawned", "deleting"}] /\ handlerKey \in [Deletes -> Keys \cup {Nil}]
      /\ handlerUID \in [Deletes -> UIDs \cup {Nil}] /\ deletePC \in [Deletes -> {"idle", "done", "notfound"} \cup Deleting]
  BY <1>0 DEF TypeOK, ProviderTypeOK
<1>h. handler[d] # "idle" => k \in Keys /\ Shown(d) /\ handlerUID[d] # Nil
  BY <1>0, <1>t DEF OwnInv, HandlerInv, HandlerShape
<1>1. ASSUME handler[d] # "idle", handlerKey'[d] = k, handlerUID'[d] = handlerUID[d],
             removedByOthers \subseteq removedByOthers',
             \A d2 \in Deletes : d2 # d /\ handler'[d2] # "idle" /\ handlerKey'[d2] = k =>
               handler[d2] # "idle" /\ handlerKey[d2] = k,
             k \notin removedByOthers' /\ api[k].uid = handlerUID[d] => api'[k].uid = api[k].uid,
             processes[k] = Nil => processes'[k] = Nil,
             processes[k] = Nil /\ deletePC[d] \in {"idle", "notfound"} => deletePC'[d] \in {"idle", "notfound"}
      PROVE  Shown(d)'
  <2>1. \A d2 \in Deletes : handler'[d2] # "idle" /\ handlerKey'[d2] = k => d2 = d
    BY <1>h, <1>1
  <2>2. k \notin removedByOthers' =>
          api'[k].uid = handlerUID[d] \/ (processes'[k] = Nil /\ deletePC'[d] \in {"idle", "notfound"})
    BY <1>h, <1>1
  <2> QED BY <1>1, <2>1, <2>2
<1> HIDE DEF Shown
<1>2. ASSUME UNCHANGED <<api, removedByOthers, processes, deletePC, handler, handlerKey, handlerUID>>
      PROVE  Shown(d)'
  BY <1>1, <1>2
<1>3. ASSUME NEW k2 \in Keys, NEW u \in UIDs, PodIsCreated(k2, u) PROVE Shown(d)'
  <2>1. UNCHANGED <<removedByOthers, processes, deletePC, handler, handlerKey, handlerUID>>
    BY <1>3 DEF PodIsCreated, vars, deleteVars, handlerVars
  <2>2. api[k2].uid = Nil /\ (k \in Keys /\ k # k2 => api'[k] = api[k])
    BY <1>t, <1>3 DEF PodIsCreated, NoObject
  <2> QED BY <1>1, <1>h, <2>1, <2>2
<1>4. ASSUME NEW k2 \in Keys, PodIsTerminated(k2) PROVE Shown(d)'
  <2>1. UNCHANGED <<removedByOthers, processes, deletePC, handler, handlerKey, handlerUID>>
    BY <1>4 DEF PodIsTerminated, vars, deleteVars, handlerVars
  <2>2. k \in Keys => api'[k].uid = api[k].uid
    BY <1>t, <1>4 DEF PodIsTerminated, PodObject
  <2> QED BY <1>1, <1>h, <2>1, <2>2
<1>5. ASSUME NEW k2 \in Keys, PodIsRemoved(k2) PROVE Shown(d)'
  <2>1. /\ UNCHANGED <<processes, deletePC, handler, handlerKey, handlerUID>>
        /\ removedByOthers' = removedByOthers \cup {k2}
    BY <1>5 DEF PodIsRemoved, vars, deleteVars, handlerVars
  <2>2. k \in Keys /\ k # k2 => api'[k] = api[k]
    BY <1>t, <1>5 DEF PodIsRemoved
  <2> QED BY <1>1, <1>h, <2>1, <2>2
<1>6. ASSUME NEW k2 \in Keys, NEW d2 \in Deletes, DeletePod(k2, d2) PROVE Shown(d)'
  <2>1. /\ UNCHANGED <<api, removedByOthers, processes, deletePC>> /\ handler[d2] = "idle"
        /\ handler' = [handler EXCEPT ![d2] = "spawned"] /\ handlerKey' = [handlerKey EXCEPT ![d2] = k2]
        /\ \E u : handlerUID' = [handlerUID EXCEPT ![d2] = u]
    BY <1>6 DEF DeletePod, vars, deleteVars, apiVars
  <2>2. \A d3 \in Deletes : handler[d3] # "idle" => handlerKey[d3] # k2
    BY <1>6 DEF DeletePod, NoHandlerInProgress
  <2>3. CASE d2 # d
    <3>1. /\ handler[d] # "idle" /\ handlerKey'[d] = k /\ handlerUID'[d] = handlerUID[d]
          /\ \A d3 \in Deletes : d3 # d2 => handler'[d3] = handler[d3] /\ handlerKey'[d3] = handlerKey[d3]
          /\ handlerKey'[d2] = k2
      BY <1>t, <2>1, <2>3
    <3> QED BY <1>1, <2>1, <2>2, <3>1
  <2>4. CASE d2 = d
    <3>1. handlerKey'[d] = k2 /\ deletePC'[d] = "idle"
      BY <1>0, <1>t, <2>1, <2>4 DEF HandlerShape
    <3>2. \A d3 \in Deletes : handler'[d3] # "idle" /\ handlerKey'[d3] = k2 => d3 = d
      BY <1>t, <2>1, <2>2, <2>4
    <3>3. handlerUID'[d] = lister[k2].uid \/ (processes[k2] # Nil /\ handlerUID'[d] = createUID[processes[k2]])
      BY <1>t, <1>6, <2>4 DEF DeletePod
    <3>4. ASSUME k2 \notin removedByOthers, processes[k2] # Nil
          PROVE  api[k2].uid = createUID[processes[k2]] /\ api[k2].uid = lister[k2].uid
      <4>1. processes[k2] \in Calls /\ InPlay(k2, processes[k2])
        BY <1>t, <3>4 DEF InPlay
      <4> QED BY <1>0, <3>4, <4>1 DEF AgreeInv
    <3> QED BY <2>1, <3>1, <3>2, <3>3, <3>4 DEF Shown
  <2> QED BY <2>3, <2>4
<1>7. ASSUME NEW d2 \in Deletes, HandlerLoads(d2) PROVE Shown(d)'
  <2>1. /\ UNCHANGED <<api, removedByOthers, processes, handlerKey, handlerUID>>
        /\ handler[d2] = "spawned" /\ handler' = [handler EXCEPT ![d2] = "deleting"]
        /\ \E pc \in {"notfound", "loaded"} :
             deletePC' = [deletePC EXCEPT ![d2] = pc] /\ (processes[handlerKey[d2]] = Nil => pc = "notfound")
    BY <1>7, Zenon DEF HandlerLoads, DeletePodLoad, DeleteAt, apiVars
  <2>2. \A d3 \in Deletes : handler'[d3] # "idle" => handler[d3] # "idle"
    BY <1>t, <2>1
  <2>3. processes[k] = Nil /\ deletePC[d] \in {"idle", "notfound"} => deletePC'[d] \in {"idle", "notfound"}
    BY <1>t, <2>1
  <2> QED BY <1>1, <2>1, <2>2, <2>3
<1>8. ASSUME NEW d2 \in Deletes, HandlerGivesUp(d2) \/ HandlerDeletesPod(d2) PROVE Shown(d)'
  <2>1. UNCHANGED <<removedByOthers, processes>> /\ handler[d2] # "idle"
    BY <1>8 DEF HandlerGivesUp, HandlerDeletesPod, HandlerEnds
  <2>2. d2 # d /\ handler'[d2] = "idle"
        /\ \A d3 \in Deletes : d3 # d2 => /\ handler'[d3] = handler[d3] /\ handlerKey'[d3] = handlerKey[d3]
                                         /\ handlerUID'[d3] = handlerUID[d3] /\ deletePC'[d3] = deletePC[d3]
    BY <1>t, <1>8 DEF HandlerGivesUp, HandlerDeletesPod, HandlerEnds
  <2>3. k \in Keys /\ handlerKey[d2] # k
    BY <1>h, <2>1, <2>2 DEF Shown
  <2>4. api'[k] = api[k]
    BY <1>t, <1>8, <2>3 DEF HandlerGivesUp, HandlerDeletesPod
  <2> QED BY <1>1, <2>1, <2>2, <2>4
<1>9. ASSUME NEW c \in Calls, StoreProcess(c), UNCHANGED providerVars PROVE Shown(d)'
  <2>1. /\ UNCHANGED <<api, removedByOthers, deletePC, handler, handlerKey, handlerUID>>
        /\ createPC[c] = "started" /\ processes' = [processes EXCEPT ![createKey[c]] = c]
    BY <1>9 DEF StoreProcess, deleteVars, providerVars, apiVars, handlerVars
  <2>2. createKey[c] # k
    BY <1>0, <2>1 DEF HandlerInv, WorkerFree, WorkerInv, Creating
  <2>3. processes'[k] = processes[k]
    BY <1>t, <1>h, <2>1, <2>2
  <2> QED BY <1>1, <2>1, <2>3
<1>10. ASSUME NEW d2 \in Deletes, Progresses(d2) \/ DeleteRemoves(d2), UNCHANGED providerVars PROVE Shown(d)'
  <2>1. /\ UNCHANGED <<api, removedByOthers, handler, handlerKey, handlerUID>> /\ deletePC[d2] \in Deleting
        /\ UNCHANGED processes \/ processes' = [processes EXCEPT ![deleteKey[d2]] = Nil]
        /\ \E pc : deletePC' = [deletePC EXCEPT ![d2] = pc]
    BY <1>10 DEF Progresses, DeleteRemoves, DeleteAt, Deleting, providerVars, apiVars, handlerVars
  <2>2. k \in Keys /\ processes[k] = Nil => processes'[k] = Nil
    BY <1>t, <2>1
  <2>3. deletePC[d] \in {"idle", "notfound"} => deletePC'[d] = deletePC[d]
    BY <1>t, <2>1 DEF Deleting
  <2> QED BY <1>1, <1>h, <2>1, <2>2, <2>3
<1>11. CASE ClientStep
  BY <1>2, <1>9, <1>10, <1>11, ClientStepIs DEF Advances, createVars, providerVars, apiVars, handlerVars
<1>12. ASSUME NEW k2 \in Keys, CreatePod(k2)
       PROVE  UNCHANGED <<api, removedByOthers, processes, deletePC, handler, handlerKey, handlerUID>>
  BY <1>12 DEF CreatePod, CreatePodCheck, deleteVars, providerVars, apiVars, handlerVars
<1> QED
  BY <1>2, <1>3, <1>4, <1>5, <1>6, <1>7, <1>8, <1>11, <1>12, ZenonT(30)
  DEF ProviderNext, HandlerStep, ListerSyncs, WorkerCallsCreate, allVars, vars, deleteVars, providerVars,
      apiVars, handlerVars

(* If the controller waits and deletions of a pod do not overlap, the full   *)
(* invariant holds.                                                         *)
THEOREM RInvariance ==
  ASSUME WorkerWaits, ~OverlappingDeletes
  PROVE  ProviderSpec => []RInv
<1>1. ProviderInit => RInv
  <2> SUFFICES ASSUME ProviderInit PROVE RInv
    OBVIOUS
  <2>1. AgreeInv /\ OwnInv
    BY NilAssumption DEF ProviderInit, Init, AgreeInv, OwnInv, InPlay, NoObject
  <2> QED BY <2>1, PInvInit DEF RInv
<1>2. RInv /\ [ProviderNext]_allVars => RInv'
  BY BaseStep, FreshInvStep, OnceInvStep, HandlerInvStep, AgreeInvStep, OwnInvStep DEF RInv, PInv
<1> QED BY <1>1, <1>2, PTL DEF ProviderSpec

(* Then a process that has not been reaped runs for an object that exists.   *)
THEOREM LiveProcessHasPodHolds ==
  ASSUME WorkerWaits, ~OverlappingDeletes
  PROVE  ProviderSpec => []LiveProcessHasPod
<1>1. RInv => LiveProcessHasPod
  <2> SUFFICES ASSUME RInv, NEW c \in Calls, Live(c)
               PROVE  InPlay(createKey[c], c) /\ createKey[c] \in Keys
    BY DEF LiveProcessHasPod, RInv, AgreeInv
  <2>1. createPC[c] \in {"started", "stored"} /\ createKey[c] \in Keys
    BY DEF RInv, PInv, Base, Core, CallInv, Live, Creating
  <2>2. CASE createPC[c] = "started"
    BY <2>1, <2>2 DEF RInv, PInv, Base, WorkerInv, InPlay, Creating
  <2>3. CASE createPC[c] = "stored"
    BY <2>1, <2>3 DEF RInv, PInv, Base, Core, SerialInv, CallInv, Live, InPlay
  <2> QED BY <2>1, <2>2, <2>3, Zenon
<1> QED BY <1>1, RInvariance, PTL

(* Then handleDeletePod deletes the object it was started for.              *)
THEOREM DeletesOwnPodHolds ==
  ASSUME WorkerWaits, ~OverlappingDeletes
  PROVE  ProviderSpec => DeletesOwnPod
<1> DEFINE Own == \A d \in Deletes : handler[d] = "deleting" /\ handler'[d] = "idle" =>
                    \/ api'[handlerKey[d]] = api[handlerKey[d]]
                    \/ api[handlerKey[d]].uid = handlerUID[d]
                    \/ handlerKey[d] \in removedByOthers
<1>1. RInv /\ [ProviderNext]_allVars => [Own]_allVars
  <2> SUFFICES ASSUME RInv, ProviderNext, NEW d \in Deletes, handler[d] = "deleting", handler'[d] = "idle",
                      handlerKey[d] \notin removedByOthers, api'[handlerKey[d]] # api[handlerKey[d]]
               PROVE  api[handlerKey[d]].uid = handlerUID[d]
    OBVIOUS
  <2>0. ProviderTypeOK /\ OwnInv
    BY DEF RInv, PInv, Base
  <2>1. ASSUME NEW d2 \in Deletes, HandlerEnds(d2) PROVE d2 = d
    BY <2>0, <2>1 DEF HandlerEnds, ProviderTypeOK
  <2>2. CASE HandlerDeletesPod(d)
    BY <2>0, <2>2 DEF HandlerDeletesPod, OwnInv
  <2>3. CASE HandlerGivesUp(d)
    BY <2>3 DEF HandlerGivesUp
  <2>4. ASSUME UNCHANGED handler PROVE FALSE
    BY <2>4
  <2>5. ASSUME NEW k \in Keys, NEW d2 \in Deletes, DeletePod(k, d2) PROVE FALSE
    BY <2>0, <2>5 DEF DeletePod, ProviderTypeOK
  <2>6. ASSUME NEW d2 \in Deletes, HandlerLoads(d2) PROVE FALSE
    BY <2>0, <2>6 DEF HandlerLoads, ProviderTypeOK
  <2>7. ASSUME NEW d2 \in Deletes, HandlerStep(d2) PROVE HandlerGivesUp(d) \/ HandlerDeletesPod(d)
    BY <2>1, <2>6, <2>7 DEF HandlerStep, HandlerGivesUp, HandlerDeletesPod
  <2> QED
    BY <2>2, <2>3, <2>4, <2>5, <2>7
    DEF ProviderNext, PodIsCreated, PodIsTerminated, PodIsRemoved, ListerSyncs, WorkerCallsCreate,
        CreatePod, ClientStep, providerVars, handlerVars
<1> QED BY <1>1, RInvariance, PTL DEF ProviderSpec, DeletesOwnPod

=============================================================================
