------------------------- MODULE ProcessClientProofs -------------------------
(***************************************************************************)
(* The safety properties of ProcessClient, proved for any number of pods,   *)
(* CreatePod calls and DeletePod calls.                                     *)
(***************************************************************************)
EXTENDS ProcessClient, TLAPS

\* In a module of this size a leaf waits longer than it is worked on.
USE SMTT(30), ZenonT(30), Z3T(30)

(* What ties the phases of a CreatePod call to its process and log files.   *)
CallInv ==
  \A c \in Calls :
    /\ createPC[c] \in Creating \cup {"stored"} => createKey[c] \in Keys
    /\ createPC[c] \in {"idle", "checked", "failed"} => openLogs[c] = {}
    /\ proc[c] # "none" <=> createPC[c] \in {"started", "stored"}
    /\ waitDone[c] => proc[c] = "reaped" /\ openLogs[c] = {}

(* An entry is the finished CreatePod call of its own pod.                  *)
TableInv ==
  \A k \in Keys : processes[k] # Nil =>
    createKey[processes[k]] = k /\ createPC[processes[k]] = "stored"

(* One CreatePod per pod gets past the look-up at a time, and until it      *)
(* stores its process the table has no entry for the pod.                   *)
CreateInv ==
  \A c \in Calls : createPC[c] \in Creating =>
    /\ processes[createKey[c]] = Nil
    /\ \A c2 \in Calls : createPC[c2] \in Creating /\ createKey[c2] = createKey[c] => c2 = c

(* How far a DeletePod call has come tells how far its target has.          *)
DeleteInv ==
  \A d \in Deletes :
    /\ deletePC[d] \in {"idle", "notfound"} => target[d] = Nil
    /\ deletePC[d] \in Deleting \cup {"done"} =>
         /\ target[d] \in Calls /\ deleteKey[d] \in Keys
         /\ createPC[target[d]] = "stored" /\ createKey[target[d]] = deleteKey[d]
    /\ deletePC[d] \in {"waiting", "killing", "removing", "done"} => termSent[target[d]]
    /\ deletePC[d] \in {"removing", "done"} => waitDone[target[d]]

(* If deletions of a pod do not overlap, a pending one owns the entry of    *)
(* its pod, so that only entries of finished processes are removed.         *)
SerialInv ==
  /\ \A d \in Deletes : deletePC[d] \in Deleting =>
       /\ processes[deleteKey[d]] = target[d]
       /\ \A d2 \in Deletes : deletePC[d2] \in Deleting /\ deleteKey[d2] = deleteKey[d] => d2 = d
  /\ \A c \in Calls : createPC[c] = "stored" =>
       waitDone[c] \/ processes[createKey[c]] = c

(* What also holds when calls are made by the provider (ExecProviderProofs).  *)
Core ==
  /\ TypeOK
  /\ CallInv
  /\ TableInv
  /\ CreateInv
  /\ DeleteInv
  /\ ~OverlappingDeletes => SerialInv

Inv == Core /\ KillOnlyAfterTerm

-----------------------------------------------------------------------------
(* The variables of ProcessClient have their types initially.               *)
LEMMA TypeInit == Init => TypeOK
BY DEF Init, TypeOK

(* Every step keeps the types.                                              *)
LEMMA TypeStep == TypeOK /\ [Next]_vars => TypeOK'
<1> SUFFICES ASSUME TypeOK, [Next]_vars PROVE TypeOK'
  OBVIOUS
<1> USE DEF TypeOK, Creating, Deleting, createVars, waitVars, procVars, signalVars, deleteVars
<1>1. ASSUME NEW c \in Calls, NEW k \in Keys, CreatePodCheck(c, k) PROVE TypeOK'
  BY <1>1 DEF CreatePodCheck, CreateReturns
<1>2. ASSUME NEW c \in Calls, CreateStep(c) PROVE TypeOK'
  <2>1. CASE CreateStdout(c)
    BY <2>1 DEF CreateStdout, CreateReturns
  <2>2. CASE CreateStderr(c)
    BY <2>2 DEF CreateStderr, CreateReturns
  <2>3. CASE StartProcess(c)
    BY <2>3 DEF StartProcess, CreateReturns
  <2>4. CASE StoreProcess(c)
    BY <2>4, Zenon DEF StoreProcess, CreateReturns
  <2> QED BY <1>2, <2>1, <2>2, <2>3, <2>4 DEF CreateStep
<1>3. ASSUME NEW c \in Calls, NEW s \in ExitCodes \cup {Signalled}, Ends(c, s) PROVE TypeOK'
  BY <1>3 DEF Ends
<1>4. ASSUME NEW c \in Calls, WaiterStep(c) PROVE TypeOK'
  <2>1. CASE WaiterReaps(c)
    BY <2>1 DEF WaiterReaps
  <2>2. CASE WaiterClosesLogs(c)
    BY <2>2 DEF WaiterClosesLogs
  <2>3. CASE WaiterClosesDone(c)
    BY <2>3 DEF WaiterClosesDone
  <2> QED BY <1>4, <2>1, <2>2, <2>3 DEF WaiterStep
<1>5. ASSUME NEW d \in Deletes, NEW k \in Keys, DeletePodLoad(d, k) PROVE TypeOK'
  BY <1>5 DEF DeletePodLoad, DeleteAt
<1>6. ASSUME NEW d \in Deletes, DeleteStep(d) PROVE TypeOK'
  <2>1. CASE DeleteSignals(d)
    BY <2>1, Zenon DEF DeleteSignals, DeleteAt
  <2>2. CASE DeleteSeesExit(d)
    BY <2>2 DEF DeleteSeesExit, DeleteAt
  <2>3. CASE DeleteGraceExpires(d)
    BY <2>3, Zenon DEF DeleteGraceExpires, DeleteAt
  <2>4. CASE DeleteSeesKill(d)
    BY <2>4 DEF DeleteSeesKill, DeleteAt
  <2>5. CASE DeleteRemoves(d)
    BY <2>5, Zenon DEF DeleteRemoves, DeleteAt
  <2> QED BY <1>6, <2>1, <2>2, <2>3, <2>4, <2>5 DEF DeleteStep
<1>7. CASE UNCHANGED vars
  BY <1>7 DEF vars
<1> QED
  BY <1>1, <1>2, <1>3, <1>4, <1>5, <1>6, <1>7
  DEF Next, CallStep, JobExits, JobIsSignalled, KillByContext

(* Type correctness of the runtime client, for all constants.               *)
THEOREM TypeCorrect == Spec => []TypeOK
BY TypeInit, TypeStep, PTL DEF Spec

-----------------------------------------------------------------------------
(* The inductive invariant holds initially.                                 *)
LEMMA InvInit == Init => Inv
BY TypeInit
DEF Init, Inv, Core, CallInv, TableInv, CreateInv, DeleteInv, KillOnlyAfterTerm, SerialInv, Creating,
    Deleting

(* Every step keeps the core of the invariant: one step of the proof for    *)
(* each action, one below it for each conjunct.                             *)
LEMMA CoreStep == Core /\ [Next]_vars => Core'
<1> SUFFICES ASSUME Core, [Next]_vars PROVE Core'
  OBVIOUS
<1> USE NilAssumption DEF createVars, waitVars, procVars, signalVars, deleteVars, Creating, Deleting
<1>0. TypeOK /\ TypeOK'
  BY TypeStep DEF Core
<1> DEFINE SI == ~OverlappingDeletes => SerialInv
           Rest == CallInv /\ TableInv /\ CreateInv /\ DeleteInv /\ SI
<1>a. Rest
  BY DEF Core
<1> HIDE DEF SI, Rest
<1>1. ASSUME NEW c \in Calls, NEW k \in Keys, CreatePodCheck(c, k) PROVE Rest'
  <2>1. CallInv'
    BY <1>0, <1>a, <1>1 DEF Rest, TypeOK, CallInv, CreatePodCheck, CreateReturns,
       NoCreateInProgress
  <2>2. TableInv'
    BY <1>0, <1>a, <1>1 DEF Rest, TypeOK, TableInv, CreatePodCheck, CreateReturns,
       NoCreateInProgress
  <2>3. CreateInv'
    BY <1>0, <1>a, <1>1 DEF Rest, TypeOK, CreateInv, TableInv, CallInv, CreatePodCheck,
       CreateReturns, NoCreateInProgress
  <2>4. DeleteInv'
    BY <1>0, <1>a, <1>1 DEF Rest, TypeOK, DeleteInv, TableInv, CallInv, CreatePodCheck,
       CreateReturns, NoCreateInProgress
  <2>5. SI'
    BY <1>0, <1>a, <1>1 DEF Rest, TypeOK, SI, SerialInv, DeleteInv, TableInv, CreateInv,
       CallInv, CreatePodCheck, CreateReturns, NoCreateInProgress
  <2> QED BY <2>1, <2>2, <2>3, <2>4, <2>5 DEF Rest
<1>2. ASSUME NEW c \in Calls, CreateStdout(c) PROVE Rest'
  <2>1. CallInv'
    BY <1>0, <1>a, <1>2 DEF Rest, TypeOK, CallInv, CreateStdout, CreateReturns
  <2>2. TableInv'
    BY <1>0, <1>a, <1>2 DEF Rest, TypeOK, TableInv, CreateStdout, CreateReturns
  <2>3. CreateInv'
    BY <1>0, <1>a, <1>2 DEF Rest, TypeOK, CreateInv, TableInv, CallInv, CreateStdout,
       CreateReturns
  <2>4. DeleteInv'
    BY <1>0, <1>a, <1>2 DEF Rest, TypeOK, DeleteInv, TableInv, CallInv, CreateStdout,
       CreateReturns
  <2>5. SI'
    BY <1>0, <1>a, <1>2 DEF Rest, TypeOK, SI, SerialInv, DeleteInv, TableInv, CreateInv,
       CallInv, CreateStdout, CreateReturns
  <2> QED BY <2>1, <2>2, <2>3, <2>4, <2>5 DEF Rest
<1>3. ASSUME NEW c \in Calls, CreateStderr(c) PROVE Rest'
  <2>1. CallInv'
    BY <1>0, <1>a, <1>3 DEF Rest, TypeOK, CallInv, CreateStderr, CreateReturns
  <2>2. TableInv'
    BY <1>0, <1>a, <1>3 DEF Rest, TypeOK, TableInv, CreateStderr, CreateReturns
  <2>3. CreateInv'
    BY <1>0, <1>a, <1>3 DEF Rest, TypeOK, CreateInv, TableInv, CallInv, CreateStderr,
       CreateReturns
  <2>4. DeleteInv'
    BY <1>0, <1>a, <1>3 DEF Rest, TypeOK, DeleteInv, TableInv, CallInv, CreateStderr,
       CreateReturns
  <2>5. SI'
    BY <1>0, <1>a, <1>3 DEF Rest, TypeOK, SI, SerialInv, DeleteInv, TableInv, CreateInv,
       CallInv, CreateStderr, CreateReturns
  <2> QED BY <2>1, <2>2, <2>3, <2>4, <2>5 DEF Rest
<1>4. ASSUME NEW c \in Calls, StartProcess(c) PROVE Rest'
  <2>1. CallInv'
    BY <1>0, <1>a, <1>4 DEF Rest, TypeOK, CallInv, StartProcess, CreateReturns
  <2>2. TableInv'
    BY <1>0, <1>a, <1>4 DEF Rest, TypeOK, TableInv, StartProcess, CreateReturns
  <2>3. CreateInv'
    BY <1>0, <1>a, <1>4 DEF Rest, TypeOK, CreateInv, TableInv, CallInv, StartProcess,
       CreateReturns
  <2>4. DeleteInv'
    BY <1>0, <1>a, <1>4 DEF Rest, TypeOK, DeleteInv, TableInv, CallInv, StartProcess,
       CreateReturns
  <2>5. SI'
    BY <1>0, <1>a, <1>4 DEF Rest, TypeOK, SI, SerialInv, DeleteInv, TableInv, CreateInv,
       CallInv, StartProcess, CreateReturns
  <2> QED BY <2>1, <2>2, <2>3, <2>4, <2>5 DEF Rest
<1>5. ASSUME NEW c \in Calls, StoreProcess(c) PROVE Rest'
  <2>1. CallInv'
    BY <1>0, <1>a, <1>5 DEF Rest, TypeOK, CallInv, StoreProcess, CreateReturns
  <2>2. TableInv'
    BY <1>0, <1>a, <1>5 DEF Rest, TypeOK, TableInv, StoreProcess, CreateReturns
  <2>3. CreateInv'
    BY <1>0, <1>a, <1>5 DEF Rest, TypeOK, CreateInv, TableInv, CallInv, StoreProcess,
       CreateReturns
  <2>4. DeleteInv'
    BY <1>0, <1>a, <1>5 DEF Rest, TypeOK, DeleteInv, TableInv, CallInv, StoreProcess,
       CreateReturns
  <2>5. SI'
    BY <1>0, <1>a, <1>5 DEF Rest, TypeOK, SI, SerialInv, DeleteInv, TableInv, CreateInv,
       CallInv, StoreProcess, CreateReturns
  <2> QED BY <2>1, <2>2, <2>3, <2>4, <2>5 DEF Rest
<1>6. ASSUME NEW c \in Calls, NEW s, Ends(c, s) PROVE Rest'
  <2>1. CallInv'
    BY <1>0, <1>a, <1>6 DEF Rest, TypeOK, CallInv, Ends
  <2>2. TableInv' /\ CreateInv' /\ DeleteInv' /\ SI'
    BY <1>a, <1>6 DEF Rest, TableInv, CreateInv, DeleteInv, SI, SerialInv,
       Ends
  <2> QED BY <2>1, <2>2 DEF Rest
<1>7. ASSUME NEW c \in Calls, WaiterReaps(c) PROVE Rest'
  <2>1. CallInv'
    BY <1>0, <1>a, <1>7 DEF Rest, TypeOK, CallInv, WaiterReaps
  <2>2. TableInv' /\ CreateInv' /\ DeleteInv' /\ SI'
    BY <1>a, <1>7 DEF Rest, TableInv, CreateInv, DeleteInv, SI, SerialInv,
       WaiterReaps
  <2> QED BY <2>1, <2>2 DEF Rest
<1>8. ASSUME NEW c \in Calls, WaiterClosesLogs(c) PROVE Rest'
  <2>1. CallInv'
    BY <1>0, <1>a, <1>8 DEF Rest, TypeOK, CallInv, WaiterClosesLogs
  <2>2. TableInv' /\ CreateInv' /\ DeleteInv' /\ SI'
    BY <1>a, <1>8 DEF Rest, TableInv, CreateInv, DeleteInv, SI, SerialInv,
       WaiterClosesLogs
  <2> QED BY <2>1, <2>2 DEF Rest
<1>9. ASSUME NEW c \in Calls, WaiterClosesDone(c) PROVE Rest'
  <2>1. CallInv'
    BY <1>0, <1>a, <1>9 DEF Rest, TypeOK, CallInv, WaiterClosesDone
  <2>2. DeleteInv'
    BY <1>0, <1>a, <1>9 DEF Rest, TypeOK, DeleteInv, TableInv, CallInv, WaiterClosesDone
  <2>3. SI'
    BY <1>0, <1>a, <1>9 DEF Rest, TypeOK, SI, SerialInv, DeleteInv, TableInv, CreateInv,
       CallInv, WaiterClosesDone
  <2>4. TableInv' /\ CreateInv'
    BY <1>a, <1>9 DEF Rest, TableInv, CreateInv, WaiterClosesDone
  <2> QED BY <2>1, <2>2, <2>3, <2>4 DEF Rest
<1>10. ASSUME NEW d \in Deletes, NEW k \in Keys, DeletePodLoad(d, k) PROVE Rest'
  <2>1. DeleteInv'
    BY <1>0, <1>a, <1>10 DEF Rest, TypeOK, DeleteInv, TableInv, CallInv, DeletePodLoad,
       DeleteAt, NoDeleteInProgress
  <2>3. SI'
    BY <1>0, <1>a, <1>10 DEF Rest, TypeOK, SI, SerialInv, DeleteInv, TableInv, CreateInv,
       CallInv, DeletePodLoad, DeleteAt, NoDeleteInProgress
  <2>4. CallInv' /\ TableInv' /\ CreateInv'
    BY <1>a, <1>10 DEF Rest, CallInv, TableInv, CreateInv, DeletePodLoad, DeleteAt,
       NoDeleteInProgress
  <2> QED BY <2>1, <2>3, <2>4 DEF Rest
<1>11. ASSUME NEW d \in Deletes, DeleteSignals(d) PROVE Rest'
  <2>1. DeleteInv'
    BY <1>0, <1>a, <1>11 DEF Rest, TypeOK, DeleteInv, TableInv, CallInv, DeleteSignals, DeleteAt
  <2>3. SI'
    BY <1>0, <1>a, <1>11 DEF Rest, TypeOK, SI, SerialInv, DeleteInv, TableInv, CreateInv,
       CallInv, DeleteSignals, DeleteAt
  <2>4. CallInv' /\ TableInv' /\ CreateInv'
    BY <1>a, <1>11 DEF Rest, CallInv, TableInv, CreateInv, DeleteSignals, DeleteAt
  <2> QED BY <2>1, <2>3, <2>4 DEF Rest
<1>12. ASSUME NEW d \in Deletes, DeleteSeesExit(d) PROVE Rest'
  <2>1. DeleteInv'
    BY <1>0, <1>a, <1>12 DEF Rest, TypeOK, DeleteInv, TableInv, CallInv, DeleteSeesExit,
       DeleteAt
  <2>3. SI'
    BY <1>0, <1>a, <1>12 DEF Rest, TypeOK, SI, SerialInv, DeleteInv, TableInv, CreateInv,
       CallInv, DeleteSeesExit, DeleteAt
  <2>4. CallInv' /\ TableInv' /\ CreateInv'
    BY <1>a, <1>12 DEF Rest, CallInv, TableInv, CreateInv, DeleteSeesExit, DeleteAt
  <2> QED BY <2>1, <2>3, <2>4 DEF Rest
<1>13. ASSUME NEW d \in Deletes, DeleteGraceExpires(d) PROVE Rest'
  <2>1. DeleteInv'
    BY <1>0, <1>a, <1>13 DEF Rest, TypeOK, DeleteInv, TableInv, CallInv, DeleteGraceExpires,
       DeleteAt
  <2>3. SI'
    BY <1>0, <1>a, <1>13 DEF Rest, TypeOK, SI, SerialInv, DeleteInv, TableInv, CreateInv,
       CallInv, DeleteGraceExpires, DeleteAt
  <2>4. CallInv' /\ TableInv' /\ CreateInv'
    BY <1>a, <1>13 DEF Rest, CallInv, TableInv, CreateInv, DeleteGraceExpires, DeleteAt
  <2> QED BY <2>1, <2>3, <2>4 DEF Rest
<1>14. ASSUME NEW d \in Deletes, DeleteSeesKill(d) PROVE Rest'
  <2>1. DeleteInv'
    BY <1>0, <1>a, <1>14 DEF Rest, TypeOK, DeleteInv, TableInv, CallInv, DeleteSeesKill,
       DeleteAt
  <2>3. SI'
    BY <1>0, <1>a, <1>14 DEF Rest, TypeOK, SI, SerialInv, DeleteInv, TableInv, CreateInv,
       CallInv, DeleteSeesKill, DeleteAt
  <2>4. CallInv' /\ TableInv' /\ CreateInv'
    BY <1>a, <1>14 DEF Rest, CallInv, TableInv, CreateInv, DeleteSeesKill, DeleteAt
  <2> QED BY <2>1, <2>3, <2>4 DEF Rest
<1>15. ASSUME NEW d \in Deletes, DeleteRemoves(d) PROVE Rest'
  <2>1. TableInv'
    BY <1>0, <1>a, <1>15 DEF Rest, TypeOK, TableInv, DeleteRemoves, DeleteAt
  <2>2. CreateInv'
    BY <1>0, <1>a, <1>15 DEF Rest, TypeOK, CreateInv, TableInv, CallInv, DeleteRemoves, DeleteAt
  <2>3. DeleteInv'
    BY <1>0, <1>a, <1>15 DEF Rest, TypeOK, DeleteInv, TableInv, CallInv, DeleteRemoves, DeleteAt
  <2>5. SI'
    BY <1>0, <1>a, <1>15 DEF Rest, TypeOK, SI, SerialInv, DeleteInv, TableInv, CreateInv,
       CallInv, DeleteRemoves, DeleteAt
  <2>6. CallInv'
    BY <1>a, <1>15 DEF Rest, CallInv, DeleteRemoves, DeleteAt
  <2> QED BY <2>1, <2>2, <2>3, <2>5, <2>6 DEF Rest
<1>16. ASSUME UNCHANGED vars PROVE Rest'
  BY <1>a, <1>16
  DEF vars, Rest, SI, CallInv, TableInv, CreateInv, DeleteInv, SerialInv
<1>17. Rest'
  BY <1>1, <1>2, <1>3, <1>4, <1>5, <1>6, <1>7, <1>8, <1>9, <1>10, <1>11, <1>12, <1>13, <1>14,
       <1>15, <1>16
  DEF Next, CallStep, CreateStep, JobExits, JobIsSignalled, KillByContext, WaiterStep, DeleteStep
<1> QED
  BY <1>0, <1>17 DEF Core, Rest, SI

(* SIGKILL is prepared by the DeletePod that has sent SIGTERM, and a call    *)
(* keeps its target.                                                        *)
LEMMA KillStep == Inv /\ [Next]_vars => KillOnlyAfterTerm'
<1> SUFFICES ASSUME Inv, [Next]_vars PROVE KillOnlyAfterTerm'
  OBVIOUS
<1> USE NilAssumption DEF createVars, waitVars, procVars, signalVars, deleteVars, Deleting
<1>0. TypeOK /\ DeleteInv /\ KillOnlyAfterTerm
  BY DEF Inv, Core
<1>1. ASSUME NEW d \in Deletes, NEW k \in Keys, DeletePodLoad(d, k) PROVE KillOnlyAfterTerm'
  BY <1>0, <1>1 DEF TypeOK, KillOnlyAfterTerm, DeleteInv, DeletePodLoad, DeleteAt
<1>2. ASSUME NEW d \in Deletes, DeleteSignals(d) PROVE KillOnlyAfterTerm'
  BY <1>0, <1>2 DEF TypeOK, KillOnlyAfterTerm, DeleteInv, DeleteSignals, DeleteAt
<1>3. ASSUME NEW d \in Deletes, DeleteSeesExit(d) \/ DeleteSeesKill(d) PROVE KillOnlyAfterTerm'
  BY <1>0, <1>3 DEF TypeOK, KillOnlyAfterTerm, DeleteInv, DeleteSeesExit, DeleteSeesKill, DeleteAt
<1>4. ASSUME NEW d \in Deletes, DeleteGraceExpires(d) PROVE KillOnlyAfterTerm'
  BY <1>0, <1>4 DEF TypeOK, KillOnlyAfterTerm, DeleteInv, DeleteGraceExpires, DeleteAt
<1>5. ASSUME NEW d \in Deletes, DeleteRemoves(d) PROVE KillOnlyAfterTerm'
  BY <1>0, <1>5 DEF TypeOK, KillOnlyAfterTerm, DeleteInv, DeleteRemoves, DeleteAt
<1>6. ASSUME UNCHANGED <<signalVars, deleteVars>> PROVE KillOnlyAfterTerm'
  BY <1>0, <1>6 DEF KillOnlyAfterTerm
<1> QED
  BY <1>1, <1>2, <1>3, <1>4, <1>5, <1>6
  DEF Next, vars, CallStep, CreatePodCheck, CreateStep, CreateStdout, CreateStderr, StartProcess,
      StoreProcess, JobExits, JobIsSignalled, KillByContext, Ends, WaiterStep, WaiterReaps,
      WaiterClosesLogs, WaiterClosesDone, DeleteStep

(* Every step keeps the inductive invariant.                                *)
LEMMA InvStep == Inv /\ [Next]_vars => Inv'
BY CoreStep, KillStep DEF Inv

(* The inductive invariant, for all constants.                              *)
THEOREM Invariance == Spec => []Inv
BY InvInit, InvStep, PTL DEF Spec

-----------------------------------------------------------------------------
(* DeletePod returns nil only when its process has been reaped and the logs  *)
(* are closed, whether or not deletions overlap.                            *)
THEOREM DeletedMeansExitedHolds == Spec => []DeletedMeansExited
<1>1. Inv => DeletedMeansExited
  BY DEF Inv, Core, CallInv, DeleteInv, DeletedMeansExited, Deleting
<1> QED BY <1>1, Invariance, PTL

(* No path of CreatePod and no exit leaks a log file.                        *)
THEOREM NoLogLeakHolds == Spec => []NoLogLeak
<1>1. Inv => NoLogLeak
  BY DEF Inv, Core, TypeOK, CallInv, NoLogLeak, Creating
<1> QED BY <1>1, Invariance, PTL

(* SIGKILL comes from a DeletePod of this very process, after SIGTERM.       *)
THEOREM KillOnlyAfterTermHolds == Spec => []KillOnlyAfterTerm
<1>1. Inv => KillOnlyAfterTerm
  BY DEF Inv, Core
<1> QED BY <1>1, Invariance, PTL

(* If deletions of a pod do not overlap, an unreaped process is in the       *)
(* table or about to be, and two calls for a pod do not both have log files  *)
(* open: whoever calls the client.                                          *)
LEMMA CoreIsSafe ==
  ASSUME ~OverlappingDeletes, Core
  PROVE  NoOrphan /\ ExclusiveLogs
<1>1. NoOrphan
  BY DEF Core, TypeOK, CallInv, SerialInv, NoOrphan, Live
<1>2. ASSUME NEW c1 \in Calls, NEW c2 \in Calls, c1 # c2, createKey[c1] = createKey[c2],
             openLogs[c1] # {}, openLogs[c2] # {}
      PROVE  FALSE
  <2> DEFINE Holds(c) == createPC[c] \in Creating \/ (createPC[c] = "stored" /\ ~waitDone[c])
  <2>1. Holds(c1) /\ Holds(c2)
    BY <1>2 DEF Core, TypeOK, CallInv, Creating
  <2>2. CASE createPC[c1] \in Creating /\ createPC[c2] \in Creating
    BY <1>2, <2>2 DEF Core, CreateInv
  <2>3. CASE createPC[c1] = "stored" \/ createPC[c2] = "stored"
    BY <1>2, <2>1, <2>3, NilAssumption DEF Core, CreateInv, SerialInv
  <2> QED BY <2>1, <2>2, <2>3
<1> QED BY <1>1, <1>2 DEF ExclusiveLogs

(* If deletions of a pod do not overlap, no process is lost from the table.  *)
THEOREM NoOrphanHolds ==
  ASSUME ~OverlappingDeletes
  PROVE  Spec => []NoOrphan
<1>1. Inv => NoOrphan
  BY CoreIsSafe DEF Inv
<1> QED BY <1>1, Invariance, PTL

(* If deletions of a pod do not overlap, two incarnations of it never have   *)
(* its log files open at once.                                              *)
THEOREM ExclusiveLogsHolds ==
  ASSUME ~OverlappingDeletes
  PROVE  Spec => []ExclusiveLogs
<1>1. Inv => ExclusiveLogs
  BY CoreIsSafe DEF Inv
<1> QED BY <1>1, Invariance, PTL

(* If deletions of a pod do not overlap, an entry of the table is never      *)
(* overwritten, and leaves only when its process has been waited for.        *)
THEOREM EntriesOnlyLeaveFinishedHolds ==
  ASSUME ~OverlappingDeletes
  PROVE  Spec => EntriesOnlyLeaveFinished
<1> DEFINE Kept == \A k \in Keys : processes[k] # Nil /\ processes'[k] # processes[k] =>
                     processes'[k] = Nil /\ waitDone[processes[k]]
<1>1. Inv /\ [Next]_vars => [Kept]_vars
  <2> SUFFICES ASSUME Inv, Next PROVE Kept
    OBVIOUS
  <2>1. ASSUME NEW c \in Calls, StoreProcess(c) PROVE Kept
    BY <2>1 DEF StoreProcess, Inv, Core, TypeOK, CreateInv, CallInv, Creating
  <2>2. ASSUME NEW d \in Deletes, DeleteRemoves(d) PROVE Kept
    BY <2>2 DEF DeleteRemoves, DeleteAt, Inv, Core, TypeOK, DeleteInv, SerialInv, Deleting
  <2>3. ASSUME UNCHANGED processes PROVE Kept
    BY <2>3
  <2> HIDE DEF Kept
  <2> QED
    BY <2>1, <2>2, <2>3, Zenon
    DEF Next, CallStep, CreatePodCheck, CreateStep, CreateStdout, CreateStderr, StartProcess,
        JobExits, JobIsSignalled, KillByContext, Ends, WaiterStep, WaiterReaps, WaiterClosesLogs,
        WaiterClosesDone, DeletePodLoad, DeleteStep, DeleteSignals, DeleteSeesExit,
        DeleteGraceExpires, DeleteSeesKill
<1> QED BY <1>1, Invariance, PTL DEF Spec, EntriesOnlyLeaveFinished

-----------------------------------------------------------------------------
(* The three state functions of the refinement mapping after a step that     *)
(* changes nothing they read.                                               *)
LEMMA MappingStutters ==
  ASSUME UNCHANGED <<processes, createPC, createKey, proc, target>>
  PROVE  UNCHANGED Abstract!vars
BY DEF Abstract!vars, PodJobs, JobLife, DoomedJobs, Live

(* If deletions of a pod do not overlap, every step of the client is a step  *)
(* of PodRuntime or leaves it alone.                                        *)
LEMMA StepRefines ==
  ASSUME ~OverlappingDeletes, Inv, [Next]_vars
  PROVE  [Abstract!Next]_(Abstract!vars)
<1> USE NilAssumption DEF createVars, waitVars, procVars, signalVars, deleteVars, Creating, Deleting
<1>0. TypeOK
  BY DEF Inv, Core
<1> DEFINE Goal == [Abstract!Next]_(Abstract!vars)
<1>1. ASSUME NEW c \in Calls, NEW k \in Keys, CreatePodCheck(c, k) PROVE Goal
  <2>1. PodJobs' = PodJobs
    BY <1>0, <1>1 DEF CreatePodCheck, CreateReturns, Inv, Core, TypeOK, TableInv, PodJobs
  <2>2. UNCHANGED <<JobLife, DoomedJobs>>
    BY <1>1 DEF CreatePodCheck, JobLife, DoomedJobs, Live
  <2> QED BY <2>1, <2>2 DEF Abstract!vars
<1>2. ASSUME NEW c \in Calls, CreateStdout(c) \/ CreateStderr(c) PROVE Goal
  <2>1. PodJobs' = PodJobs
    BY <1>0, <1>2 DEF CreateStdout, CreateStderr, CreateReturns, TypeOK, PodJobs
  <2>2. UNCHANGED <<JobLife, DoomedJobs>>
    BY <1>2 DEF CreateStdout, CreateStderr, JobLife, DoomedJobs, Live
  <2> QED BY <2>1, <2>2 DEF Abstract!vars
<1>3. ASSUME NEW c \in Calls, StartProcess(c) PROVE Goal
  <2>1. createKey[c] \in Keys /\ PodJobs[createKey[c]] = {}
    BY <1>0, <1>3 DEF StartProcess, Inv, Core, TypeOK, CallInv, CreateInv, PodJobs
  <2>2. DoomedJobs' = DoomedJobs
    BY <1>3 DEF StartProcess, DoomedJobs
  <2>3. CASE createPC' = [createPC EXCEPT ![c] = "started"] /\ proc' = [proc EXCEPT ![c] = "running"]
    <3>1. PodJobs' = [PodJobs EXCEPT ![createKey[c]] = {c}]
      <4>1. ASSUME NEW k \in Keys
            PROVE  PodJobs'[k] = IF k = createKey[c] THEN {c} ELSE PodJobs[k]
        BY <1>0, <1>3, <2>1, <2>3 DEF StartProcess, TypeOK, PodJobs
      <4> QED BY <4>1, Zenon DEF PodJobs
    <3>2. JobLife[c] = "unborn" /\ JobLife' = [JobLife EXCEPT ![c] = "running"]
      BY <1>0, <1>3, <2>3, Zenon DEF StartProcess, Inv, Core, TypeOK, CallInv, JobLife, Live
    <3> QED BY <2>1, <2>2, <3>1, <3>2, Zenon DEF Abstract!Next, Abstract!Start
  <2>4. CASE createPC' = [createPC EXCEPT ![c] = "failed"] /\ UNCHANGED proc
    <3>1. PodJobs' = PodJobs /\ JobLife' = JobLife
      BY <1>0, <1>3, <2>4 DEF StartProcess, TypeOK, PodJobs, JobLife, Live
    <3> QED BY <2>2, <3>1 DEF Abstract!vars
  <2> QED BY <1>3, <2>3, <2>4 DEF StartProcess, CreateReturns
<1>4. ASSUME NEW c \in Calls, StoreProcess(c) PROVE Goal
  <2>1. PodJobs' = PodJobs
    BY <1>0, <1>4 DEF StoreProcess, CreateReturns, Inv, Core, TypeOK, CallInv, TableInv, CreateInv, PodJobs
  <2>2. UNCHANGED <<JobLife, DoomedJobs>>
    BY <1>4 DEF StoreProcess, JobLife, DoomedJobs, Live
  <2> QED BY <2>1, <2>2 DEF Abstract!vars
<1>5. ASSUME NEW c \in Calls, NEW s, Ends(c, s) PROVE Goal
  <2>1. UNCHANGED <<PodJobs, JobLife, DoomedJobs>>
    BY <1>0, <1>5 DEF Ends, TypeOK, PodJobs, JobLife, DoomedJobs, Live
  <2> QED BY <2>1 DEF Abstract!vars
<1>6. ASSUME NEW c \in Calls, WaiterReaps(c) PROVE Goal
  <2>1. JobLife[c] = "running" /\ JobLife' = [JobLife EXCEPT ![c] = "ended"]
    BY <1>0, <1>6, Zenon DEF WaiterReaps, TypeOK, JobLife, Live
  <2>2. UNCHANGED <<PodJobs, DoomedJobs>>
    BY <1>6 DEF WaiterReaps, PodJobs, DoomedJobs
  <2> QED BY <2>1, <2>2, Zenon DEF Abstract!Next, Abstract!End
<1>7. ASSUME NEW d \in Deletes, NEW k \in Keys, DeletePodLoad(d, k) PROVE Goal
  <2>1. UNCHANGED <<PodJobs, JobLife>>
    BY <1>7 DEF DeletePodLoad, PodJobs, JobLife, Live
  <2>2. target[d] = Nil /\ target' = [target EXCEPT ![d] = processes[k]]
    BY <1>7 DEF DeletePodLoad, DeleteAt, Inv, Core, DeleteInv
  <2>3. CASE processes[k] = Nil
    BY <1>0, <2>1, <2>2, <2>3 DEF TypeOK, DoomedJobs, Abstract!vars
  <2>4. CASE processes[k] # Nil
    <3>1. processes[k] \in Calls /\ processes[k] \in PodJobs[k]
      BY <1>0, <2>4 DEF Inv, Core, TypeOK, TableInv, PodJobs
    <3>2. DoomedJobs' = DoomedJobs \cup {processes[k]}
      BY <1>0, <2>2, <3>1 DEF TypeOK, DoomedJobs
    <3> QED BY <2>1, <3>1, <3>2 DEF Abstract!Next, Abstract!RequestDeletion
  <2> QED BY <2>3, <2>4
<1>8. ASSUME NEW d \in Deletes, DeleteRemoves(d) PROVE Goal
  <2> DEFINE k == deleteKey[d]
             c == target[d]
  <2>1. k \in Keys /\ c \in Calls /\ processes[k] = c /\ createKey[c] = k /\ waitDone[c]
    BY <1>8 DEF DeleteRemoves, DeleteAt, Inv, Core, DeleteInv, SerialInv
  <2>2. PodJobs[k] = {c}
    BY <1>0, <2>1 DEF Inv, Core, TypeOK, TableInv, CreateInv, PodJobs
  <2>3. c \in DoomedJobs /\ JobLife[c] = "ended"
    BY <2>1 DEF Inv, Core, CallInv, DoomedJobs, JobLife, Live
  <2>4. PodJobs' = [PodJobs EXCEPT ![k] = {}]
    <3>1. ASSUME NEW k2 \in Keys
          PROVE  PodJobs'[k2] = IF k2 = k THEN {} ELSE PodJobs[k2]
      BY <1>0, <1>8, <2>1, <2>2 DEF DeleteRemoves, Inv, Core, TypeOK, CreateInv, PodJobs
    <3> QED BY <3>1, Zenon DEF PodJobs
  <2>5. UNCHANGED <<JobLife, DoomedJobs>>
    BY <1>8, Zenon DEF DeleteRemoves, JobLife, DoomedJobs, Live
  <2> QED BY <2>1, <2>2, <2>3, <2>4, <2>5, Zenon DEF Abstract!Next, Abstract!Forget
<1>9. ASSUME UNCHANGED <<processes, createPC, createKey, proc, target>> PROVE Goal
  BY <1>9, MappingStutters
<1> HIDE DEF Goal
<1>10. Goal
  BY <1>1, <1>2, <1>3, <1>4, <1>5, <1>6, <1>7, <1>8, <1>9
  DEF Next, vars, CallStep, CreateStep, JobExits, JobIsSignalled, KillByContext, WaiterStep,
      WaiterClosesLogs, WaiterClosesDone, DeleteStep, DeleteSignals, DeleteSeesExit,
      DeleteGraceExpires, DeleteSeesKill
<1> QED BY <1>10 DEF Goal

(* If deletions of a pod do not overlap, the client implements the safety    *)
(* part of PodRuntime: one job per pod, started once, forgotten only when    *)
(* its deletion was requested and it has ended.                             *)
THEOREM RefinesPodRuntime ==
  ASSUME ~OverlappingDeletes
  PROVE  Spec => Abstract!Safety
<1>1. Init => Abstract!Init
  BY NilAssumption DEF Init, Abstract!Init, PodJobs, JobLife, DoomedJobs, Live
<1>2. Inv /\ [Next]_vars => [Abstract!Next]_(Abstract!vars)
  BY StepRefines
<1> QED BY <1>1, <1>2, Invariance, PTL DEF Spec, Abstract!Safety

=============================================================================
