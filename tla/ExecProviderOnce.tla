-------------------------- MODULE ExecProviderOnce --------------------------
(***************************************************************************)
(* When the controller waits for pending deletions: the objects that a       *)
(* deletion is for are retired, so the command of an object is started at    *)
(* most once. Proved on top of the invariants of ExecProviderProofs.         *)
(***************************************************************************)
EXTENDS ExecProviderProofs

\* In a module of this size a leaf waits longer than it is worked on.
USE SMTT(30), ZenonT(30), Z3T(30)

(* The objects that will never be listed as ones to be created again.       *)
Retired ==
  {u \in usedUIDs : \A k \in Keys : /\ api[k].uid = u => api[k].terminating
                                    /\ lister[k].uid = u => lister[k].terminating}

(* Listed in the state in which the worker creates pods.                    *)
Fresh(k, u) == lister[k].uid = u /\ ~lister[k].terminating

(* A pod is created for a listed object, which is retired when it is listed *)
(* no more; a process leaves the table only after that.                     *)
FreshInv ==
  /\ \A c \in Calls, k \in Keys : worker[k] = c \/ createKey[c] = k =>
       Fresh(k, createUID[c]) \/ createUID[c] \in Retired
  /\ \A c \in Calls : createPC[c] = "stored" =>
       processes[createKey[c]] = c \/ createUID[c] \in Retired

(* Of two calls for one object one has failed.                              *)
OnceInv ==
  \A c1, c2 \in Calls : c1 # c2 /\ createUID[c1] = createUID[c2] /\ createUID[c1] # Nil =>
    createPC[c1] = "failed" \/ createPC[c2] = "failed"

(* While a deletion is pending no pod of its name is created.               *)
HandlerInv ==
  \A d \in Deletes : handler[d] # "idle" =>
    /\ handlerUID[d] # Nil
    /\ WorkerFree(handlerKey[d])
    /\ handlerUID[d] \in Retired
    /\ processes[handlerKey[d]] # Nil => createUID[processes[handlerKey[d]]] \in Retired
    /\ deletePC[d] = "done" => processes[handlerKey[d]] = Nil

PInv == Base /\ FreshInv /\ OnceInv /\ HandlerInv

-----------------------------------------------------------------------------
(* Objects that are retired stay so.                                        *)
LEMMA RetiredStable ==
  ASSUME Base, [ProviderNext]_allVars
  PROVE  Retired \subseteq Retired'
<1>0. Nil \notin usedUIDs /\ ObjectsChange
  BY ObjectStepIs, UIDsAssumption DEF Base, ProviderTypeOK
<1> USE <1>0, UIDsAssumption DEF Retired
<1>1. ASSUME NEW k \in Keys, NEW u2 \in UIDs \ usedUIDs, ApiBecomes(k, u2, FALSE),
             usedUIDs' = usedUIDs \cup {u2}
      PROVE  Retired \subseteq Retired'
  BY <1>1 DEF ApiBecomes
<1>2. ASSUME NEW k \in Keys, ApiBecomes(k, api[k].uid, TRUE), UNCHANGED usedUIDs PROVE Retired \subseteq Retired'
  BY <1>2 DEF ApiBecomes
<1>3. ASSUME NEW k \in Keys, ApiBecomes(k, Nil, FALSE), UNCHANGED usedUIDs PROVE Retired \subseteq Retired'
  BY <1>3 DEF ApiBecomes
<1>4. ASSUME NEW k \in Keys, ListerCopies(k) PROVE Retired \subseteq Retired'
  BY <1>4 DEF ListerCopies
<1>5. ASSUME UNCHANGED <<api, lister, usedUIDs>> PROVE Retired \subseteq Retired'
  BY <1>5
<1> HIDE DEF Retired
<1> QED BY <1>1, <1>2, <1>3, <1>4, <1>5, Zenon DEF ObjectsChange

(* No two pods share an object.                                             *)
LEMMA ObjectsDiffer ==
  ASSUME ObjectInv, NEW k1 \in Keys, NEW k2 \in Keys, k1 # k2, lister[k1].uid # Nil
  PROVE  api[k2].uid # lister[k1].uid /\ lister[k2].uid # lister[k1].uid
<1>1. {api[k1].uid, lister[k1].uid} \cap {api[k2].uid, lister[k2].uid} \subseteq {Nil}
  BY DEF ObjectInv
<1>2. \A u, a, S : u # Nil /\ {a, u} \cap S \subseteq {Nil} => u \notin S
  OBVIOUS
<1>3. lister[k1].uid \notin {api[k2].uid, lister[k2].uid}
  BY <1>1, <1>2, Zenon
<1> QED BY <1>3

(* A pod is created for a listed object, and its process stays until that   *)
(* object is retired.                                                       *)
LEMMA FreshInvStep == PInv /\ [ProviderNext]_allVars => FreshInv'
<1> SUFFICES ASSUME PInv, [ProviderNext]_allVars PROVE FreshInv'
  OBVIOUS
<1>0. Base /\ TypeOK /\ ProviderTypeOK /\ FreshInv /\ Retired \subseteq Retired'
  BY RetiredStable DEF PInv, Base, ProviderTypeOK
<1> DEFINE Listed == \A c \in Calls, k \in Keys : worker[k] = c \/ createKey[c] = k =>
                       Fresh(k, createUID[c]) \/ createUID[c] \in Retired
           Kept == \A c \in Calls : createPC[c] = "stored" =>
                       processes[createKey[c]] = c \/ createUID[c] \in Retired
<1>1. Listed'
  <2>1. ASSUME UNCHANGED <<worker, createUID, createKey>> PROVE Listed'
    <3> SUFFICES ASSUME NEW c \in Calls, NEW k \in Keys, worker[k] = c \/ createKey[c] = k,
                        Fresh(k, createUID[c])
                 PROVE  Fresh(k, createUID[c])' \/ createUID[c] \in Retired'
      BY <1>0, <2>1 DEF FreshInv
    <3>1. CASE UNCHANGED lister
      BY <2>1, <3>1 DEF Fresh
    <3>2. ASSUME NEW k2 \in Keys, ListerCopies(k2), k2 # k PROVE Fresh(k, createUID[c])'
      BY <2>1, <3>2 DEF ListerCopies, Fresh
    <3>3. CASE ListerCopies(k)
      <4> DEFINE u == createUID[c]
      <4>1. u \in usedUIDs
        BY <1>0, NilAssumption, UIDsAssumption DEF Base, WorkerInv, ProviderTypeOK
      <4>2. ASSUME api[k].uid # u \/ api[k].terminating PROVE u \in Retired'
        <5>1. \A k2 \in Keys : k2 # k => api[k2].uid # u /\ lister[k2].uid # u
          <6>1. u # Nil /\ u = lister[k].uid
            BY <1>0, <4>1, UIDsAssumption DEF ProviderTypeOK, Fresh
          <6> QED BY <1>0, <6>1, ObjectsDiffer DEF Base
        <5> QED BY <3>3, <4>1, <4>2, <5>1 DEF ListerCopies, Retired
      <4>3. CASE api[k].uid = u /\ ~api[k].terminating
        BY <2>1, <3>3, <4>3 DEF ListerCopies, Fresh
      <4> QED BY <2>1, <4>2, <4>3
    <3> QED BY <1>0, <3>1, <3>2, <3>3, ObjectStepIs, Zenon DEF ObjectsChange, ApiBecomes
  <2>2. ASSUME NEW k \in Keys, NEW c \in Calls, WorkerCallsCreate(k, c) PROVE Listed'
    <3>1. /\ UNCHANGED <<lister, createKey>> /\ createPC[c] = "idle" /\ createUID[c] = Nil
          /\ lister[k].uid # Nil /\ ~lister[k].terminating
          /\ worker' = [worker EXCEPT ![k] = c] /\ createUID' = [createUID EXCEPT ![c] = lister[k].uid]
      BY <2>2 DEF WorkerCallsCreate, vars, createVars, apiVars
    <3>2. createKey[c] = Nil /\ \A k2 \in Keys : worker[k2] # c
      BY <1>0, <3>1, NilAssumption DEF Base, WorkerInv
    <3> QED BY <1>0, <3>1, <3>2, NilAssumption DEF FreshInv, Fresh, ProviderTypeOK
  <2>3. ASSUME NEW k \in Keys, CreatePod(k) PROVE Listed'
    <3>1. PICK c \in Calls : c = worker[k] /\ (UNCHANGED createKey \/ createKey' = [createKey EXCEPT ![c] = k])
      BY <1>0, <2>3 DEF CreatePod, CreatePodCheck, ProviderTypeOK
    <3>2. UNCHANGED <<lister, worker, createUID>>
      BY <2>3 DEF CreatePod, providerVars, apiVars, workerVars
    <3> QED BY <1>0, <3>1, <3>2 DEF FreshInv, Fresh, ProviderTypeOK, TypeOK
  <2> HIDE DEF Listed
  <2> QED
    BY <1>0, <2>1, <2>2, <2>3, CallStepIs
    DEF callVars, Advances, StoreProcess, providerVars, workerVars
<1>2. Kept'
  <2>1. ASSUME NEW c \in Calls, StoreProcess(c), UNCHANGED providerVars PROVE Kept'
    <3>1. /\ createPC' = [createPC EXCEPT ![c] = "stored"] /\ UNCHANGED <<createKey, createUID>>
          /\ processes' = [processes EXCEPT ![createKey[c]] = c]
      BY <2>1 DEF StoreProcess, CreateReturns, providerVars, workerVars
    <3>2. createKey[c] \in Keys /\ processes[createKey[c]] = Nil
      BY <1>0, <2>1 DEF StoreProcess, Base, Core, CreateInv, CallInv, Creating
    <3> QED BY <1>0, <3>1, <3>2, NilAssumption DEF FreshInv, TypeOK
  <2>2. ASSUME NEW d \in Deletes, DeleteRemoves(d), UNCHANGED providerVars PROVE Kept'
    <3>1. /\ processes' = [processes EXCEPT ![deleteKey[d]] = Nil] /\ deletePC[d] = "removing"
          /\ UNCHANGED <<createPC, createKey, createUID>>
      BY <2>2 DEF DeleteRemoves, DeleteAt, createVars, providerVars, workerVars
    <3>2. processes[deleteKey[d]] # Nil => createUID[processes[deleteKey[d]]] \in Retired
      BY <1>0, <3>1 DEF PInv, Base, HandlerShape, HandlerInv
    <3>3. \A k \in Keys : processes'[k] = processes[k] \/ k = deleteKey[d]
      BY <1>0, <3>1 DEF TypeOK
    <3> SUFFICES ASSUME NEW c \in Calls, createPC[c] = "stored", createUID[c] \notin Retired
                 PROVE  processes'[createKey[c]] = c
      BY <1>0, <3>1
    <3>4. createKey[c] \in Keys /\ processes[createKey[c]] = c
      BY <1>0 DEF FreshInv, Base, Core, CallInv
    <3> QED BY <3>2, <3>3, <3>4, NilAssumption
  <2>3. ASSUME NEW k \in Keys, NEW c \in Calls, WorkerCallsCreate(k, c) PROVE Kept'
    BY <1>0, <2>3 DEF WorkerCallsCreate, vars, createVars, FreshInv, ProviderTypeOK
  <2>4. ASSUME NEW k \in Keys, CreatePod(k) PROVE Kept'
    <3>1. PICK c \in Calls :
            /\ createPC[c] = "idle" /\ UNCHANGED <<processes, createUID>>
            /\ \E pc \in {"checked", "failed"} : createPC' = [createPC EXCEPT ![c] = pc]
            /\ UNCHANGED createKey \/ createKey' = [createKey EXCEPT ![c] = k]
      BY <1>0, <2>4 DEF CreatePod, CreatePodCheck, CreateReturns, providerVars, workerVars, ProviderTypeOK
    <3> QED BY <1>0, <3>1 DEF FreshInv, TypeOK
  <2>5. ASSUME NEW c \in Calls, Advances(c), UNCHANGED providerVars PROVE Kept'
    BY <1>0, <2>5 DEF Advances, Creating, providerVars, workerVars, FreshInv, TypeOK
  <2>6. ASSUME UNCHANGED <<processes, createPC, createKey, createUID>> PROVE Kept'
    BY <1>0, <2>6 DEF FreshInv
  <2>7. CASE ClientStep
    BY <2>1, <2>2, <2>5, <2>6, <2>7, ClientStepIs DEF Progresses, createVars, providerVars, workerVars
  <2>8. ASSUME NEW d \in Deletes, HandlerStep(d) PROVE UNCHANGED <<processes, createPC, createKey, createUID>>
    BY <2>8 DEF HandlerStep, HandlerLoads, DeletePodLoad, HandlerGivesUp, HandlerDeletesPod, HandlerEnds,
       createVars, workerVars
  <2> HIDE DEF Kept
  <2> QED
    BY <2>3, <2>4, <2>6, <2>7, <2>8
    DEF ProviderNext, allVars, vars, createVars, providerVars, workerVars, PodIsCreated, PodIsTerminated,
        PodIsRemoved, ListerSyncs, DeletePod
<1> QED BY <1>1, <1>2 DEF FreshInv

(* An object listed as one to be created has only calls that have failed    *)
(* when the worker of its pod is free and the pod has no process.           *)
LEMMA CallsForListedFailed ==
  ASSUME PInv, NEW k \in Keys, WorkerFree(k), processes[k] = Nil,
         lister[k].uid # Nil, ~lister[k].terminating,
         NEW c \in Calls, createUID[c] = lister[k].uid
  PROVE  createPC[c] = "failed"
<1>0. TypeOK /\ ProviderTypeOK /\ ObjectInv /\ WorkerInv /\ FreshInv /\ CallInv
  BY DEF PInv, Base, ProviderTypeOK, Core
<1>1. createUID[c] \notin Retired
  BY DEF Retired
<1>2. ASSUME NEW k2 \in Keys, worker[k2] = c \/ createKey[c] = k2 PROVE k2 = k
  <2>1. lister[k2].uid = createUID[c]
    BY <1>0, <1>1, <1>2 DEF FreshInv, Fresh
  <2> QED BY <1>0, <2>1, ObjectsDiffer
<1>3. createPC[c] # "idle"
  BY <1>0, <1>2 DEF WorkerInv, WorkerFree
<1>4. createPC[c] \notin Creating
  BY <1>0, <1>2 DEF WorkerInv, CallInv, WorkerFree, Creating
<1>5. ASSUME createPC[c] = "stored" PROVE FALSE
  <2>1. createKey[c] \in Keys
    BY <1>0, <1>5 DEF CallInv
  <2>2. createKey[c] = k
    BY <1>2, <2>1
  <2>3. processes[k] = c
    BY <1>0, <1>1, <1>5, <2>2 DEF FreshInv
  <2> QED BY <2>3, NilAssumption
<1> QED BY <1>0, <1>3, <1>4, <1>5 DEF TypeOK

(* A call is made for an object only when the earlier ones have failed.     *)
LEMMA OnceInvStep == PInv /\ [ProviderNext]_allVars => OnceInv'
<1> SUFFICES ASSUME PInv, [ProviderNext]_allVars PROVE OnceInv'
  OBVIOUS
<1>0. Base /\ TypeOK /\ ProviderTypeOK /\ OnceInv
  BY DEF PInv, Base, ProviderTypeOK
<1>1. ASSUME NEW k \in Keys, NEW c \in Calls, WorkerCallsCreate(k, c) PROVE OnceInv'
  <2>1. UNCHANGED createPC /\ createUID' = [createUID EXCEPT ![c] = lister[k].uid]
    BY <1>1 DEF WorkerCallsCreate, vars, createVars
  <2>2. \A c2 \in Calls : createUID[c2] = lister[k].uid => createPC[c2] = "failed"
    BY <1>1, CallsForListedFailed DEF WorkerCallsCreate
  <2> QED BY <1>0, <2>1, <2>2 DEF OnceInv, ProviderTypeOK
<1>2. ASSUME UNCHANGED createUID,
             \A c \in Calls : createPC[c] = "failed" => createPC'[c] = "failed"
      PROVE  OnceInv'
  BY <1>0, <1>2 DEF OnceInv
<1>3. ASSUME NEW k \in Keys, CreatePod(k) PROVE OnceInv'
  BY <1>0, <1>2, <1>3 DEF CreatePod, CreatePodCheck, CreateReturns, providerVars, workerVars,
     ProviderTypeOK, TypeOK
<1>4. ASSUME NEW c \in Calls, Advances(c) \/ StoreProcess(c), UNCHANGED providerVars PROVE OnceInv'
  BY <1>0, <1>2, <1>4 DEF Advances, StoreProcess, CreateReturns, Creating, providerVars, workerVars, TypeOK
<1> QED BY <1>0, <1>1, <1>2, <1>3, <1>4, CallStepIs DEF callVars

(* If the controller creates a pod only when no deletion of it is pending,  *)
(* a pending deletion has the pod's name to itself.                         *)
LEMMA HandlerInvStep ==
  ASSUME WorkerWaits, PInv, [ProviderNext]_allVars
  PROVE  HandlerInv'
<1> DEFINE Shown(d) == /\ handlerUID[d] # Nil
                       /\ WorkerFree(handlerKey[d])
                       /\ handlerUID[d] \in Retired
                       /\ processes[handlerKey[d]] # Nil => createUID[processes[handlerKey[d]]] \in Retired
                       /\ deletePC[d] = "done" => processes[handlerKey[d]] = Nil
<1> SUFFICES ASSUME NEW d \in Deletes, handler'[d] # "idle" PROVE Shown(d)'
  BY DEF HandlerInv
<1> DEFINE k == handlerKey[d]
<1>0. /\ TypeOK /\ ProviderTypeOK /\ HandlerShape /\ HandlerInv /\ WorkerInv /\ TableInv /\ ObjectInv /\ FreshInv
      /\ Retired \subseteq Retired'
  BY RetiredStable DEF PInv, Base, ProviderTypeOK, Core
<1>t. /\ processes \in [Keys -> Calls \cup {Nil}] /\ createPC \in [Calls -> {"idle", "stored", "failed"} \cup Creating]
      /\ worker \in [Keys -> Calls \cup {Nil}] /\ createUID \in [Calls -> UIDs \cup {Nil}]
      /\ handler \in [Deletes -> {"idle", "spawned", "deleting"}] /\ handlerKey \in [Deletes -> Keys \cup {Nil}]
      /\ handlerUID \in [Deletes -> UIDs \cup {Nil}] /\ deletePC \in [Deletes -> {"idle", "done", "notfound"} \cup Deleting]
  BY <1>0 DEF TypeOK, ProviderTypeOK
<1>h. handler[d] # "idle" => k \in Keys /\ Shown(d)
  BY <1>0, <1>t DEF HandlerInv, HandlerShape
<1>1. ASSUME handler[d] # "idle", handlerKey'[d] = k, handlerUID'[d] = handlerUID[d], worker'[k] = worker[k],
             \A c \in Calls : createPC[c] \in {"stored", "failed"} => createPC'[c] = createPC[c],
             processes'[k] = processes[k] \/ processes'[k] = Nil,
             processes[k] # Nil => createUID'[processes[k]] = createUID[processes[k]],
             deletePC'[d] = "done" => deletePC[d] = "done" \/ processes'[k] = Nil
      PROVE  Shown(d)'
  <2>1. WorkerFree(handlerKey[d])'
    BY <1>h, <1>1 DEF WorkerFree
  <2>2. handlerUID'[d] # Nil /\ handlerUID'[d] \in Retired'
    BY <1>0, <1>h, <1>1
  <2>3. processes'[k] # Nil => createUID'[processes'[k]] \in Retired'
    BY <1>0, <1>h, <1>1
  <2>4. deletePC'[d] = "done" => processes'[k] = Nil
    BY <1>h, <1>1
  <2> QED BY <1>1, <2>1, <2>2, <2>3, <2>4
<1> HIDE DEF Shown
<1>2. ASSUME UNCHANGED <<callVars, processes, deletePC, handlerVars>> PROVE Shown(d)'
  BY <1>1, <1>2 DEF callVars, handlerVars
<1>3. ASSUME NEW k2 \in Keys, NEW c \in Calls, WorkerCallsCreate(k2, c) PROVE Shown(d)'
  <2>1. /\ UNCHANGED <<createPC, processes, deletePC, handler, handlerKey, handlerUID>>
        /\ worker' = [worker EXCEPT ![k2] = c] /\ createUID' = [createUID EXCEPT ![c] = lister[k2].uid]
        /\ createPC[c] = "idle"
    BY <1>3 DEF WorkerCallsCreate, vars, createVars, deleteVars, handlerVars
  <2>2. handler[d] # "idle" /\ k # k2
    BY <1>3, <2>1 DEF WorkerCallsCreate, NoHandlerInProgress
  <2>3. k \in Keys /\ worker'[k] = worker[k]
    BY <1>t, <1>h, <2>1, <2>2
  <2>4. processes[k] # Nil => processes[k] \in Calls /\ processes[k] # c
    BY <1>0, <1>t, <2>1, <2>3 DEF TableInv
  <2>5. processes[k] # Nil => createUID'[processes[k]] = createUID[processes[k]]
    BY <1>t, <2>1, <2>4
  <2> QED BY <1>1, <2>1, <2>2, <2>3, <2>5
<1>4. ASSUME NEW k2 \in Keys, CreatePod(k2) PROVE Shown(d)'
  <2>1. PICK c \in Calls : /\ createPC[c] = "idle"
                           /\ \E pc \in {"checked", "failed"} : createPC' = [createPC EXCEPT ![c] = pc]
    BY <1>t, <1>4 DEF CreatePod, CreatePodCheck, CreateReturns
  <2>2. UNCHANGED <<processes, deletePC, worker, createUID, handler, handlerKey, handlerUID>>
    BY <1>4 DEF CreatePod, CreatePodCheck, deleteVars, providerVars, workerVars, handlerVars
  <2>3. \A c2 \in Calls : createPC[c2] \in {"stored", "failed"} => createPC'[c2] = createPC[c2]
    BY <1>t, <2>1
  <2> QED BY <1>1, <2>2, <2>3
<1>5. ASSUME NEW k2 \in Keys, NEW d2 \in Deletes, DeletePod(k2, d2) PROVE Shown(d)'
  <2>1. /\ UNCHANGED <<createPC, processes, deletePC, worker, createUID>>
        /\ handler[d2] = "idle" /\ WorkerFree(k2)
        /\ handler' = [handler EXCEPT ![d2] = "spawned"] /\ handlerKey' = [handlerKey EXCEPT ![d2] = k2]
        /\ \E u : handlerUID' = [handlerUID EXCEPT ![d2] = u]
    BY <1>5 DEF DeletePod, vars, createVars, deleteVars, workerVars
  <2>2. CASE d2 # d
    BY <1>1, <1>t, <2>1, <2>2
  <2>3. CASE d2 = d
    <3>1. deletePC[d] = "idle"
      BY <1>0, <2>1, <2>3 DEF HandlerShape
    <3>2. ASSUME processes[k2] # Nil
          PROVE  createUID[processes[k2]] \in Retired \/ Fresh(k2, createUID[processes[k2]])
      <4>1. processes[k2] \in Calls /\ createKey[processes[k2]] = k2
        BY <1>0, <1>t, <3>2 DEF TableInv
      <4> QED BY <1>0, <4>1 DEF FreshInv
    <3>3. ASSUME processes[k2] # Nil PROVE createUID[processes[k2]] # Nil
      <4>1. processes[k2] \in Calls /\ createPC[processes[k2]] = "stored"
        BY <1>0, <1>t, <3>3 DEF TableInv
      <4> QED BY <1>0, <4>1 DEF WorkerInv
    <3>4. lister[k2].terminating \/ lister[k2].uid = Nil
      BY <1>5 DEF DeletePod
    <3>5. processes[k2] # Nil => createUID[processes[k2]] \in Retired
      BY <3>2, <3>3, <3>4 DEF Fresh
    <3>6. ASSUME lister[k2].terminating PROVE lister[k2].uid \in Retired /\ lister[k2].uid # Nil
      <4>1. lister[k2].uid # Nil /\ lister[k2].uid \in usedUIDs
        BY <1>0, <3>6 DEF ObjectInv
      <4>2. \A k3 \in Keys : k3 # k2 => api[k3].uid # lister[k2].uid /\ lister[k3].uid # lister[k2].uid
        BY <1>0, <4>1, ObjectsDiffer
      <4>3. api[k2].uid = lister[k2].uid => api[k2].terminating
        BY <1>0, <3>6 DEF ObjectInv
      <4> QED BY <3>6, <4>1, <4>2, <4>3 DEF Retired
    <3>7. handlerUID'[d] \in Retired /\ handlerUID'[d] # Nil
      BY <1>t, <1>5, <2>3, <3>3, <3>5, <3>6 DEF DeletePod
    <3>8. handlerKey'[d] = k2 /\ WorkerFree(handlerKey[d])'
      BY <1>t, <2>1, <2>3 DEF WorkerFree
    <3> QED BY <1>0, <2>1, <3>1, <3>5, <3>7, <3>8 DEF Shown
  <2> QED BY <2>2, <2>3
<1>6. ASSUME NEW d2 \in Deletes, HandlerLoads(d2) PROVE Shown(d)'
  <2>1. /\ UNCHANGED <<createPC, processes, worker, createUID, handlerKey, handlerUID>>
        /\ handler[d2] = "spawned" /\ handler' = [handler EXCEPT ![d2] = "deleting"]
        /\ \E pc \in {"notfound", "loaded"} : deletePC' = [deletePC EXCEPT ![d2] = pc]
    BY <1>6, Zenon DEF HandlerLoads, DeletePodLoad, DeleteAt, createVars, workerVars
  <2>2. handler[d] # "idle" /\ (deletePC'[d] = "done" => deletePC[d] = "done")
    BY <1>t, <2>1
  <2> QED BY <1>1, <2>1, <2>2
<1>7. ASSUME NEW d2 \in Deletes, HandlerEnds(d2) PROVE Shown(d)'
  <2>1. UNCHANGED <<createPC, processes, worker, createUID>>
    BY <1>7 DEF HandlerEnds, createVars, workerVars
  <2>2. /\ handler[d] # "idle" /\ handlerKey'[d] = handlerKey[d] /\ handlerUID'[d] = handlerUID[d]
        /\ deletePC'[d] = deletePC[d]
    BY <1>t, <1>7 DEF HandlerEnds
  <2> QED BY <1>1, <2>1, <2>2
<1>8. ASSUME NEW c \in Calls, Advances(c) \/ StoreProcess(c), UNCHANGED providerVars PROVE Shown(d)'
  <2>1. /\ UNCHANGED <<deletePC, worker, createUID, handler, handlerKey, handlerUID>>
        /\ createPC[c] \in Creating
        /\ UNCHANGED processes \/ processes' = [processes EXCEPT ![createKey[c]] = c]
        /\ \E pc \in Creating \cup {"failed", "stored"} : createPC' = [createPC EXCEPT ![c] = pc]
    BY <1>8, Zenon DEF Advances, StoreProcess, CreateReturns, Creating, deleteVars, providerVars, workerVars, handlerVars
  <2>2. \A c2 \in Calls : createPC[c2] \in {"stored", "failed"} => createPC'[c2] = createPC[c2]
    BY <1>t, <2>1 DEF Creating
  <2>3. worker[createKey[c]] = c
    BY <1>0, <2>1 DEF WorkerInv
  <2>4. worker[k] # c
    BY <1>h, <2>1 DEF Shown, WorkerFree, Creating
  <2>5. processes'[k] = processes[k]
    BY <1>t, <1>h, <2>1, <2>3, <2>4
  <2> QED BY <1>1, <2>1, <2>2, <2>5
<1>9. ASSUME NEW d2 \in Deletes, Progresses(d2), UNCHANGED providerVars PROVE Shown(d)'
  <2>1. /\ UNCHANGED <<processes, createPC, worker, createUID, handler, handlerKey, handlerUID>>
        /\ \E pc \in Deleting : deletePC' = [deletePC EXCEPT ![d2] = pc]
    BY <1>9, Zenon DEF Progresses, createVars, providerVars, workerVars, handlerVars
  <2>2. deletePC'[d] = "done" => deletePC[d] = "done"
    BY <1>t, <2>1 DEF Deleting
  <2> QED BY <1>1, <2>1, <2>2
<1>10. ASSUME NEW d2 \in Deletes, DeleteRemoves(d2), UNCHANGED providerVars PROVE Shown(d)'
  <2>1. /\ UNCHANGED <<createPC, worker, createUID, handler, handlerKey, handlerUID>>
        /\ processes' = [processes EXCEPT ![handlerKey[d2]] = Nil]
        /\ deletePC' = [deletePC EXCEPT ![d2] = "done"]
    BY <1>0, <1>10, Zenon DEF DeleteRemoves, DeleteAt, createVars, providerVars, workerVars, handlerVars, HandlerShape
  <2>2. k \in Keys /\ (processes'[k] = processes[k] \/ processes'[k] = Nil)
    BY <1>t, <1>h, <2>1
  <2>3. deletePC'[d] = "done" => deletePC[d] = "done" \/ processes'[k] = Nil
    BY <1>t, <2>1, <2>2
  <2> QED BY <1>1, <2>1, <2>2, <2>3
<1>11. CASE ClientStep
  BY <1>2, <1>8, <1>9, <1>10, <1>11, ClientStepIs DEF callVars, createVars, providerVars, workerVars
<1> QED
  BY <1>2, <1>3, <1>4, <1>5, <1>6, <1>7, <1>11
  DEF ProviderNext, HandlerStep, HandlerGivesUp, HandlerDeletesPod, allVars, vars, callVars, createVars,
      deleteVars, providerVars, workerVars, handlerVars, PodIsCreated, PodIsTerminated, PodIsRemoved,
      ListerSyncs

(* The invariant holds initially.                                           *)
LEMMA PInvInit == ProviderInit => PInv
<1> SUFFICES ASSUME ProviderInit PROVE PInv
  OBVIOUS
<1>1. FreshInv /\ OnceInv /\ HandlerInv
  BY NilAssumption DEF ProviderInit, Init, FreshInv, OnceInv, HandlerInv
<1> QED BY <1>1, BaseInit DEF PInv

(* If the controller waits for pending deletions, the invariant holds.      *)
THEOREM PInvariance ==
  ASSUME WorkerWaits
  PROVE  ProviderSpec => []PInv
<1>1. PInv /\ [ProviderNext]_allVars => PInv'
  BY BaseStep, FreshInvStep, OnceInvStep, HandlerInvStep DEF PInv
<1> QED BY <1>1, PInvInit, PTL DEF ProviderSpec

(* If the controller waits for pending deletions, the command of a pod       *)
(* object is started at most once, however stale the lister is, whatever     *)
(* others remove, and whether or not deletions of a pod overlap.            *)
THEOREM StartedOnceHolds ==
  ASSUME WorkerWaits
  PROVE  ProviderSpec => []StartedOnce
<1>1. PInv => StartedOnce
  BY DEF PInv, Base, Core, CallInv, OnceInv, StartedOnce, ProviderTypeOK, TypeOK
<1> QED BY <1>1, PInvariance, PTL
=============================================================================
