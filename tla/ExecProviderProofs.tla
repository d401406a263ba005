------------------------- MODULE ExecProviderProofs -------------------------
(***************************************************************************)
(* The safety properties of ExecProvider, proved for any number of pods,    *)
(* pod objects and calls, on top of what ProcessClientProofs shows of the   *)
(* runtime client.                                                          *)
(***************************************************************************)
EXTENDS ExecProvider, ProcessClientProofs

\* In a module of this size a leaf waits longer than it is worked on.
USE SMTT(30), ZenonT(30), Z3T(30)

(* Objects of different pods differ, and the lister is never ahead.         *)
ObjectInv ==
  /\ \A k \in Keys :
       /\ {api[k].uid, lister[k].uid} \subseteq usedUIDs \cup {Nil}
       /\ api[k].uid = Nil => ~api[k].terminating
       /\ lister[k].uid = Nil => ~lister[k].terminating
       /\ api[k].uid = lister[k].uid /\ lister[k].terminating => api[k].terminating
  /\ \A k1, k2 \in Keys : k1 # k2 =>
       {api[k1].uid, lister[k1].uid} \cap {api[k2].uid, lister[k2].uid} \subseteq {Nil}

(* A CreatePod call under way is the one its pod's worker made last.        *)
WorkerInv ==
  /\ \A c \in Calls :
       /\ createUID[c] \in usedUIDs \cup {Nil}
       /\ createPC[c] # "idle" => createUID[c] # Nil
       /\ createPC[c] = "idle" => createKey[c] = Nil
       /\ createPC[c] = "idle" /\ createUID[c] # Nil => \E k \in Keys : worker[k] = c
       /\ createPC[c] \in Creating => worker[createKey[c]] = c
  /\ \A k \in Keys : worker[k] # Nil => createUID[worker[k]] # Nil

(* A goroutine is in runtimeClient.DeletePod for the pod it was started for. *)
HandlerShape ==
  \A d \in Deletes :
    /\ handler[d] = "idle" <=> handlerKey[d] = Nil
    /\ deletePC[d] # "idle" => handler[d] = "deleting" /\ deleteKey[d] = handlerKey[d]

(* What holds however the controller behaves.                               *)
Base == ProviderTypeOK /\ Core /\ HandlerShape /\ ObjectInv /\ WorkerInv

-----------------------------------------------------------------------------
(* What the runtime client's own steps do to the variables the provider's   *)
(* invariants read.                                                         *)
Advances(c) ==
  /\ createPC[c] \in Creating
  /\ \E pc \in Creating \cup {"failed"} : createPC' = [createPC EXCEPT ![c] = pc]
  /\ UNCHANGED <<processes, createKey, deletePC, deleteKey>>

Progresses(d) ==
  /\ deletePC[d] \in Deleting
  /\ \E pc \in Deleting : deletePC' = [deletePC EXCEPT ![d] = pc]
  /\ UNCHANGED <<processes, createVars, deleteKey>>

(* Every step of the client is a step of Next, and is of one of five kinds. *)
LEMMA ClientStepIs ==
  ASSUME ClientStep
  PROVE  /\ Next /\ UNCHANGED providerVars
         /\ \/ UNCHANGED <<processes, createVars, deletePC, deleteKey>>
            \/ \E c \in Calls : Advances(c) \/ StoreProcess(c)
            \/ \E d \in Deletes : Progresses(d) \/ DeleteRemoves(d)
<1> USE DEF createVars, waitVars, procVars, signalVars, deleteVars, Creating, Deleting
<1>1. ASSUME NEW c \in Calls, CreateStdout(c) \/ CreateStderr(c) \/ StartProcess(c) PROVE Advances(c)
  BY <1>1 DEF Advances, CreateStdout, CreateStderr, StartProcess, CreateReturns
<1>2. ASSUME NEW c \in Calls, JobExits(c) \/ JobIsSignalled(c) \/ KillByContext(c) \/ WaiterStep(c)
      PROVE  UNCHANGED <<processes, createVars, deletePC, deleteKey>>
  BY <1>2 DEF JobExits, JobIsSignalled, KillByContext, Ends, WaiterStep, WaiterReaps, WaiterClosesLogs,
     WaiterClosesDone
<1>3. ASSUME NEW d \in Deletes,
             DeleteSignals(d) \/ DeleteSeesExit(d) \/ DeleteGraceExpires(d) \/ DeleteSeesKill(d)
      PROVE  Progresses(d)
  BY <1>3 DEF Progresses, DeleteSignals, DeleteSeesExit, DeleteGraceExpires, DeleteSeesKill, DeleteAt
<1>4. Next /\ UNCHANGED providerVars
  BY DEF ClientStep, Next
<1> QED
  BY <1>1, <1>2, <1>3, <1>4 DEF ClientStep, CallStep, CreateStep, DeleteStep

-----------------------------------------------------------------------------
(* The steps of the provider that the client does not know: a CreatePod     *)
(* that fails before it, and a goroutine that ends.                         *)
FailsEarly(c) ==
  /\ createPC[c] = "idle" /\ CreateReturns(c, "failed")
  /\ UNCHANGED <<processes, createKey, openLogs, procVars, waitVars, signalVars, deleteVars>>

(* All variables of the provider have their types.                          *)
LEMMA ProviderTypeInit == ProviderInit => ProviderTypeOK
BY TypeInit DEF ProviderInit, ProviderTypeOK, PodObject, NoObject

(* Each step keeps the types.                                               *)
LEMMA ProviderTypeStep ==
  ProviderTypeOK /\ HandlerShape /\ [ProviderNext]_allVars => ProviderTypeOK'
<1> SUFFICES ASSUME ProviderTypeOK, HandlerShape, [ProviderNext]_allVars PROVE ProviderTypeOK'
  OBVIOUS
<1> USE UIDsAssumption DEF ProviderTypeOK, apiVars, workerVars, handlerVars, providerVars, PodObject, NoObject
<1>1. ASSUME NEW k \in Keys, NEW u \in UIDs, PodIsCreated(k, u) PROVE ProviderTypeOK'
  <2>1. TypeOK'
    BY <1>1, TypeStep DEF PodIsCreated
  <2> QED BY <1>1, <2>1 DEF PodIsCreated
<1>2. ASSUME NEW k \in Keys, PodIsTerminated(k) PROVE ProviderTypeOK'
  <2>1. TypeOK'
    BY <1>2, TypeStep DEF PodIsTerminated
  <2> QED BY <1>2, <2>1, ZenonT(30) DEF PodIsTerminated
<1>3. ASSUME NEW k \in Keys, PodIsRemoved(k) PROVE ProviderTypeOK'
  <2>1. TypeOK'
    BY <1>3, TypeStep DEF PodIsRemoved
  <2> QED BY <1>3, <2>1 DEF PodIsRemoved
<1>4. ASSUME NEW k \in Keys, ListerSyncs(k) PROVE ProviderTypeOK'
  <2>1. TypeOK'
    BY <1>4, TypeStep DEF ListerSyncs
  <2> QED BY <1>4, <2>1 DEF ListerSyncs
<1>5. ASSUME NEW k \in Keys, NEW c \in Calls, WorkerCallsCreate(k, c) PROVE ProviderTypeOK'
  <2>1. TypeOK'
    BY <1>5, TypeStep DEF WorkerCallsCreate
  <2> QED BY <1>5, <2>1 DEF WorkerCallsCreate
<1>6. ASSUME NEW k \in Keys, CreatePod(k) PROVE ProviderTypeOK'
  <2>1. PICK c \in Calls : CreatePodCheck(c, k) \/ FailsEarly(c)
    BY <1>6 DEF CreatePod, FailsEarly
  <2>2. TypeOK'
    <3>1. CASE CreatePodCheck(c, k)
      BY <3>1, TypeStep DEF Next
    <3>2. CASE FailsEarly(c)
      BY <3>2 DEF FailsEarly, CreateReturns, TypeOK, procVars, waitVars, signalVars, deleteVars
    <3> QED BY <2>1, <3>1, <3>2
  <2> QED BY <1>6, <2>2 DEF CreatePod
<1>7. ASSUME NEW k \in Keys, NEW d \in Deletes, DeletePod(k, d) PROVE ProviderTypeOK'
  <2>1. TypeOK'
    BY <1>7, TypeStep DEF DeletePod
  <2>2. handlerUID' \in [Deletes -> UIDs \cup {Nil}]
    BY <1>7 DEF DeletePod, TypeOK
  <2> QED BY <1>7, <2>1, <2>2 DEF DeletePod
<1>8. ASSUME NEW d \in Deletes, HandlerLoads(d) PROVE ProviderTypeOK'
  <2>1. TypeOK'
    BY <1>8, TypeStep, NilAssumption DEF HandlerLoads, HandlerShape, Next
  <2> QED BY <1>8, <2>1 DEF HandlerLoads
<1>9. ASSUME NEW d \in Deletes, HandlerGivesUp(d) \/ HandlerDeletesPod(d) PROVE ProviderTypeOK'
  <2>1. HandlerEnds(d)
    BY <1>9 DEF HandlerGivesUp, HandlerDeletesPod
  <2>2. TypeOK'
    BY <2>1 DEF HandlerEnds, TypeOK, createVars, procVars, waitVars, signalVars
  <2>3. api' \in [Keys -> PodObject]
    <3>1. UNCHANGED api \/ api' = [api EXCEPT ![handlerKey[d]] = NoObject]
      BY <1>9 DEF HandlerGivesUp, HandlerDeletesPod
    <3>2. NoObject \in PodObject
      OBVIOUS
    <3> HIDE DEF NoObject, PodObject
    <3> QED BY <3>1, <3>2
  <2> QED BY <2>1, <2>2, <2>3 DEF HandlerEnds
<1>10. ASSUME ClientStep \/ UNCHANGED allVars PROVE ProviderTypeOK'
  <2>1. TypeOK'
    BY <1>10, ClientStepIs, TypeStep DEF allVars
  <2> QED BY <1>10, <2>1 DEF ClientStep, allVars
<1> HIDE DEF ProviderTypeOK
<1> QED
  BY <1>1, <1>2, <1>3, <1>4, <1>5, <1>6, <1>7, <1>8, <1>9, <1>10 DEF ProviderNext, HandlerStep

-----------------------------------------------------------------------------
(* A step of the provider is a step of the client or leaves it alone, except *)
(* for a CreatePod that fails early and a goroutine that ends.              *)
LEMMA ProviderStepIs ==
  ASSUME Base, [ProviderNext]_allVars
  PROVE  \/ [Next]_vars
         \/ \E c \in Calls : FailsEarly(c)
         \/ \E d \in Deletes : HandlerEnds(d) /\ deletePC[d] \in {"notfound", "done"}
<1>1. ASSUME NEW k \in Keys, CreatePod(k) PROVE \E c \in Calls : Next \/ FailsEarly(c)
  BY <1>1 DEF CreatePod, FailsEarly, Next, Base, ProviderTypeOK
<1>2. ASSUME NEW d \in Deletes, HandlerLoads(d) PROVE Next
  BY <1>2 DEF HandlerLoads, Base, HandlerShape, ProviderTypeOK, Next
<1>3. ASSUME NEW d \in Deletes, HandlerGivesUp(d) \/ HandlerDeletesPod(d)
      PROVE  HandlerEnds(d) /\ deletePC[d] \in {"notfound", "done"}
  BY <1>3 DEF HandlerGivesUp, HandlerDeletesPod
<1>4. CASE ClientStep
  BY <1>4, ClientStepIs
<1> QED
  BY <1>1, <1>2, <1>3, <1>4
  DEF ProviderNext, HandlerStep, allVars, PodIsCreated, PodIsTerminated, PodIsRemoved, ListerSyncs,
      WorkerCallsCreate, DeletePod

(* The core of the client's invariant, whoever calls the client.            *)
LEMMA ProviderCoreStep == Base /\ [ProviderNext]_allVars => Core'
<1> SUFFICES ASSUME Base, [ProviderNext]_allVars PROVE Core'
  OBVIOUS
<1>0. Core /\ TypeOK
  BY DEF Base, Core
<1> USE NilAssumption DEF createVars, waitVars, procVars, signalVars, deleteVars, Creating, Deleting
<1>1. CASE [Next]_vars
  BY <1>0, <1>1, CoreStep
<1>2. ASSUME NEW c \in Calls, FailsEarly(c) PROVE Core'
  <2>1. TypeOK' /\ CallInv'
    BY <1>0, <1>2 DEF Core, TypeOK, CallInv, FailsEarly, CreateReturns
  <2>2. TableInv' /\ CreateInv'
    BY <1>0, <1>2 DEF Core, TypeOK, TableInv, CreateInv, FailsEarly, CreateReturns
  <2>3. DeleteInv'
    BY <1>0, <1>2 DEF Core, TypeOK, DeleteInv, FailsEarly, CreateReturns
  <2>4. ~OverlappingDeletes => SerialInv'
    BY <1>0, <1>2 DEF Core, TypeOK, SerialInv, FailsEarly, CreateReturns
  <2> QED BY <2>1, <2>2, <2>3, <2>4 DEF Core
<1>3. ASSUME NEW d \in Deletes, HandlerEnds(d), deletePC[d] \in {"notfound", "done"} PROVE Core'
  <2>1. TypeOK' /\ CallInv' /\ TableInv' /\ CreateInv'
    BY <1>0, <1>3 DEF Core, TypeOK, CallInv, TableInv, CreateInv, HandlerEnds
  <2>2. DeleteInv'
    BY <1>0, <1>3 DEF Core, TypeOK, DeleteInv, HandlerEnds
  <2>3. ~OverlappingDeletes => SerialInv'
    BY <1>0, <1>3 DEF Core, TypeOK, SerialInv, HandlerEnds
  <2> QED BY <2>1, <2>2, <2>3 DEF Core
<1> QED BY <1>1, <1>2, <1>3, ProviderStepIs

(* Goroutines and their calls of the client stay in step.                   *)
LEMMA HandlerShapeStep == Base /\ [ProviderNext]_allVars => HandlerShape'
<1> SUFFICES ASSUME Base, [ProviderNext]_allVars PROVE HandlerShape'
  OBVIOUS
<1>0. TypeOK /\ ProviderTypeOK /\ HandlerShape
  BY DEF Base, ProviderTypeOK
<1> USE NilAssumption DEF HandlerShape
<1>1. ASSUME NEW k \in Keys, NEW d \in Deletes, DeletePod(k, d) PROVE HandlerShape'
  BY <1>0, <1>1 DEF DeletePod, ProviderTypeOK, vars, deleteVars
<1>2. ASSUME NEW d \in Deletes, HandlerLoads(d) PROVE HandlerShape'
  BY <1>0, <1>2 DEF HandlerLoads, DeletePodLoad, DeleteAt, ProviderTypeOK, TypeOK
<1>3. ASSUME NEW d \in Deletes, HandlerGivesUp(d) \/ HandlerDeletesPod(d) PROVE HandlerShape'
  <2>1. HandlerEnds(d)
    BY <1>3 DEF HandlerGivesUp, HandlerDeletesPod
  <2> QED BY <1>0, <2>1 DEF HandlerEnds, ProviderTypeOK, TypeOK
<1>4. ASSUME NEW d \in Deletes, Progresses(d) \/ DeleteRemoves(d), UNCHANGED providerVars
      PROVE  HandlerShape'
  <2>1. /\ UNCHANGED <<handler, handlerKey, deleteKey>> /\ deletePC[d] # "idle"
        /\ \E pc \in Deleting \cup {"done"} : deletePC' = [deletePC EXCEPT ![d] = pc]
    BY <1>4 DEF Progresses, DeleteRemoves, DeleteAt, Deleting, providerVars, handlerVars
  <2> QED BY <1>0, <2>1 DEF TypeOK, Deleting
<1>5. ASSUME UNCHANGED <<handler, handlerKey, deleteKey, deletePC>> PROVE HandlerShape'
  BY <1>0, <1>5
<1>6. CASE ClientStep
  BY <1>4, <1>5, <1>6, ClientStepIs
  DEF Advances, StoreProcess, deleteVars, providerVars, handlerVars
<1>7. ASSUME NEW k \in Keys, CreatePod(k) PROVE UNCHANGED <<handler, handlerKey, deleteKey, deletePC>>
  BY <1>7 DEF CreatePod, CreatePodCheck, deleteVars, providerVars, handlerVars
<1> HIDE DEF HandlerShape
<1> QED
  BY <1>1, <1>2, <1>3, <1>5, <1>6, <1>7
  DEF ProviderNext, HandlerStep, allVars, PodIsCreated, PodIsTerminated, PodIsRemoved, ListerSyncs,
      WorkerCallsCreate, vars, deleteVars, providerVars, handlerVars

-----------------------------------------------------------------------------
(* How the objects of the API server and the lister change in a step.       *)
ApiBecomes(k, u, t) ==
  /\ \A k2 \in Keys : /\ k2 # k => api'[k2] = api[k2]
                      /\ k2 = k => api'[k2].uid = u /\ api'[k2].terminating = t
  /\ UNCHANGED lister

ListerCopies(k) ==
  /\ \A k2 \in Keys : /\ k2 # k => lister'[k2] = lister[k2]
                      /\ k2 = k => lister'[k2] = api[k]
  /\ UNCHANGED <<api, usedUIDs>>

ObjectsChange ==
  \/ UNCHANGED <<api, lister, usedUIDs>>
  \/ \E k \in Keys, u \in UIDs \ usedUIDs :
       api[k].uid = Nil /\ ApiBecomes(k, u, FALSE) /\ usedUIDs' = usedUIDs \cup {u}
  \/ \E k \in Keys : ApiBecomes(k, api[k].uid, TRUE) /\ api[k].uid # Nil /\ UNCHANGED usedUIDs
  \/ \E k \in Keys : ApiBecomes(k, Nil, FALSE) /\ UNCHANGED usedUIDs
  \/ \E k \in Keys : ListerCopies(k)

(* Every step changes the objects in one of these ways or not at all.       *)
LEMMA ObjectStepIs ==
  ASSUME Base, [ProviderNext]_allVars
  PROVE  ObjectsChange
<1>0. ProviderTypeOK
  BY DEF Base
<1> USE <1>0 DEF ApiBecomes, ProviderTypeOK, PodObject, NoObject
<1>1. ASSUME NEW k \in Keys, NEW u \in UIDs, PodIsCreated(k, u) PROVE ObjectsChange
  BY <1>1 DEF PodIsCreated, ObjectsChange
<1>2. ASSUME NEW k \in Keys, PodIsTerminated(k) PROVE ObjectsChange
  BY <1>2 DEF PodIsTerminated, ObjectsChange
<1>3. ASSUME NEW k \in Keys, PodIsRemoved(k) PROVE ObjectsChange
  BY <1>3 DEF PodIsRemoved, ObjectsChange
<1>4. ASSUME NEW k \in Keys, ListerSyncs(k) PROVE ObjectsChange
  BY <1>4 DEF ListerSyncs, ListerCopies, ObjectsChange
<1>5. ASSUME NEW d \in Deletes, HandlerDeletesPod(d) PROVE ObjectsChange
  <2>1. handlerKey[d] \in Keys /\ UNCHANGED <<lister, usedUIDs>>
    BY <1>5 DEF HandlerDeletesPod, HandlerEnds, Base, HandlerShape
  <2>2. UNCHANGED api \/ api' = [api EXCEPT ![handlerKey[d]] = NoObject]
    BY <1>5 DEF HandlerDeletesPod
  <2>3. CASE api' = [api EXCEPT ![handlerKey[d]] = NoObject]
    BY <2>1, <2>3 DEF ObjectsChange
  <2> QED BY <2>1, <2>2, <2>3 DEF ObjectsChange
<1>6. ASSUME UNCHANGED <<api, lister, usedUIDs>> PROVE ObjectsChange
  BY <1>6 DEF ObjectsChange
<1> QED
  BY <1>1, <1>2, <1>3, <1>4, <1>5, <1>6, Zenon
  DEF ProviderNext, HandlerStep, allVars, CreatePod, WorkerCallsCreate, DeletePod, HandlerLoads,
      HandlerGivesUp, HandlerEnds, ClientStep, providerVars, apiVars

(* Objects stay apart, and the lister behind.                               *)
LEMMA ObjectInvStep == Base /\ [ProviderNext]_allVars => ObjectInv'
<1> SUFFICES ASSUME Base, [ProviderNext]_allVars PROVE ObjectInv'
  OBVIOUS
<1>0. ObjectInv /\ ObjectsChange
  BY ObjectStepIs DEF Base
<1> USE <1>0, UIDsAssumption DEF ObjectInv
<1>1. ASSUME NEW k \in Keys, NEW u \in UIDs \ usedUIDs, api[k].uid = Nil, ApiBecomes(k, u, FALSE),
             usedUIDs' = usedUIDs \cup {u}
      PROVE  ObjectInv'
  BY <1>1 DEF ApiBecomes
<1>2. ASSUME NEW k \in Keys, ApiBecomes(k, api[k].uid, TRUE), api[k].uid # Nil, UNCHANGED usedUIDs
      PROVE  ObjectInv'
  BY <1>2 DEF ApiBecomes
<1>3. ASSUME NEW k \in Keys, ApiBecomes(k, Nil, FALSE), UNCHANGED usedUIDs PROVE ObjectInv'
  BY <1>3 DEF ApiBecomes
<1>4. ASSUME NEW k \in Keys, ListerCopies(k) PROVE ObjectInv'
  BY <1>4 DEF ListerCopies
<1>5. ASSUME UNCHANGED <<api, lister, usedUIDs>> PROVE ObjectInv'
  BY <1>5
<1> HIDE DEF ObjectInv
<1> QED BY <1>1, <1>2, <1>3, <1>4, <1>5, Zenon DEF ObjectsChange

-----------------------------------------------------------------------------
(* The variables of the calls of CreatePod.                                 *)
callVars == <<worker, createUID, createPC, createKey>>

(* How a step changes them.                                                 *)
LEMMA CallStepIs ==
  ASSUME Base, [ProviderNext]_allVars
  PROVE  \/ UNCHANGED callVars
         \/ \E k \in Keys, c \in Calls : WorkerCallsCreate(k, c)
         \/ \E k \in Keys : CreatePod(k)
         \/ \E c \in Calls : (Advances(c) \/ StoreProcess(c)) /\ UNCHANGED providerVars
<1> USE DEF callVars, providerVars, workerVars, createVars
<1>1. CASE ClientStep
  BY <1>1, ClientStepIs DEF Progresses, DeleteRemoves
<1>2. ASSUME NEW d \in Deletes, HandlerStep(d) PROVE UNCHANGED callVars
  BY <1>2 DEF HandlerStep, HandlerLoads, DeletePodLoad, HandlerGivesUp, HandlerDeletesPod, HandlerEnds
<1> QED
  BY <1>1, <1>2
  DEF ProviderNext, allVars, vars, PodIsCreated, PodIsTerminated, PodIsRemoved, ListerSyncs, DeletePod

(* A step of the client moves one call on, and none back to the start.      *)
LEMMA OneCallMoves ==
  ASSUME TypeOK, NEW c \in Calls, Advances(c) \/ StoreProcess(c)
  PROVE  \A c2 \in Calls :
           createPC'[c2] = createPC[c2] \/ (c2 = c /\ createPC'[c2] \notin {"idle"})
<1>1. PICK pc \in Creating \cup {"failed", "stored"} : createPC' = [createPC EXCEPT ![c] = pc]
  BY DEF Advances, StoreProcess, CreateReturns, Creating
<1>2. pc # "idle"
  BY DEF Creating
<1>3. createPC \in [Calls -> {"idle", "stored", "failed"} \cup Creating]
  BY DEF TypeOK
<1> QED BY <1>1, <1>2, <1>3

(* Calls under way and workers stay in step.                                *)
LEMMA WorkerInvStep == Base /\ [ProviderNext]_allVars => WorkerInv'
<1> SUFFICES ASSUME Base, [ProviderNext]_allVars PROVE WorkerInv'
  OBVIOUS
<1>0. TypeOK /\ ProviderTypeOK /\ WorkerInv /\ CallInv
  BY DEF Base, ProviderTypeOK, Core
<1>a. usedUIDs \subseteq usedUIDs'
  BY ObjectStepIs, ZenonT(30) DEF ObjectsChange, ListerCopies
<1> USE <1>0, <1>a, NilAssumption, UIDsAssumption DEF WorkerInv, providerVars, workerVars, createVars, Creating
<1>1. ASSUME NEW k \in Keys, NEW c \in Calls, WorkerCallsCreate(k, c) PROVE WorkerInv'
  <2>1. lister[k].uid # Nil /\ lister[k].uid \in usedUIDs
    BY <1>1 DEF WorkerCallsCreate, Base, ObjectInv
  <2>2. /\ UNCHANGED <<createPC, createKey>> /\ WorkerFree(k)
        /\ worker' = [worker EXCEPT ![k] = c] /\ createUID' = [createUID EXCEPT ![c] = lister[k].uid]
    BY <1>1, Zenon DEF WorkerCallsCreate, vars
  <2>3. /\ worker'[k] = c /\ \A k2 \in Keys : k2 # k => worker'[k2] = worker[k2]
        /\ createUID'[c] = lister[k].uid /\ \A c2 \in Calls : c2 # c => createUID'[c2] = createUID[c2]
    BY <2>2 DEF ProviderTypeOK
  <2>4. \A c2 \in Calls : createPC[c2] \in Creating \cup {"idle"} => worker[k] # c2
    BY <2>2 DEF WorkerFree
  <2>5. \A c2 \in Calls : createPC[c2] \in Creating => createKey[c2] \in Keys
    BY DEF CallInv
  <2>6. \A k2 \in Keys : worker'[k2] # Nil => worker'[k2] \in Calls
    BY <2>2 DEF ProviderTypeOK
  <2> QED BY <2>1, <2>2, <2>3, <2>4, <2>5, <2>6
<1>2. ASSUME NEW k \in Keys, CreatePod(k) PROVE WorkerInv'
  <2>1. PICK c \in Calls : c = worker[k] /\ createPC[c] = "idle" /\ createUID[c] # Nil
    BY <1>2 DEF CreatePod, ProviderTypeOK
  <2>2. UNCHANGED <<worker, createUID>>
    BY <1>2 DEF CreatePod
  <2>3. CASE CreatePodCheck(c, k)
    BY <2>1, <2>2, <2>3 DEF CreatePodCheck, CreateReturns, ProviderTypeOK, TypeOK
  <2>4. CASE FailsEarly(c)
    BY <2>1, <2>2, <2>4 DEF FailsEarly, CreateReturns, ProviderTypeOK, TypeOK
  <2> QED BY <1>2, <2>1, <2>3, <2>4 DEF CreatePod, FailsEarly
<1>3. ASSUME NEW c \in Calls, Advances(c) \/ StoreProcess(c), UNCHANGED providerVars PROVE WorkerInv'
  <2>1. UNCHANGED <<createKey, worker, createUID>> /\ createPC[c] \in Creating
    BY <1>3 DEF Advances, StoreProcess, CreateReturns
  <2>2. \A c2 \in Calls : createPC'[c2] = createPC[c2] \/ (c2 = c /\ createPC'[c2] # "idle")
    BY <1>3, OneCallMoves
  <2> QED BY <2>1, <2>2
<1>4. ASSUME UNCHANGED callVars PROVE WorkerInv'
  BY <1>4 DEF callVars
<1> HIDE DEF WorkerInv
<1> QED BY <1>1, <1>2, <1>3, <1>4, CallStepIs

(* What holds however the controller behaves is kept by every step.         *)
LEMMA BaseStep == Base /\ [ProviderNext]_allVars => Base'
BY ProviderTypeStep, ProviderCoreStep, HandlerShapeStep, ObjectInvStep, WorkerInvStep DEF Base

(* It holds initially.                                                      *)
LEMMA BaseInit == ProviderInit => Base
<1> SUFFICES ASSUME ProviderInit PROVE Base
  OBVIOUS
<1>1. ProviderTypeOK /\ Core
  BY ProviderTypeInit, InvInit DEF ProviderInit, Inv
<1>2. HandlerShape /\ ObjectInv /\ WorkerInv
  BY UIDsAssumption, NilAssumption
  DEF ProviderInit, Init, HandlerShape, ObjectInv, WorkerInv, NoObject, Creating
<1> QED BY <1>1, <1>2 DEF Base

(* And so it always holds.                                                  *)
THEOREM BaseInvariance == ProviderSpec => []Base
BY BaseInit, BaseStep, PTL DEF ProviderSpec

(* Type correctness of the provider on top of the client.                   *)
THEOREM ProviderTypeCorrect == ProviderSpec => []ProviderTypeOK
<1>1. Base => ProviderTypeOK
  BY DEF Base
<1> QED BY <1>1, BaseInvariance, PTL

(* If deletions of a pod do not overlap, the provider loses no process of    *)
(* the runtime client, whether or not the controller waits for deletions,    *)
(* and although goroutines end, are started again and creations fail early. *)
THEOREM ProviderHasNoOrphan ==
  ASSUME ~OverlappingDeletes
  PROVE  ProviderSpec => [](NoOrphan /\ ExclusiveLogs)
<1>1. Base => NoOrphan /\ ExclusiveLogs
  BY CoreIsSafe DEF Base
<1> QED BY <1>1, BaseInvariance, PTL
=============================================================================
