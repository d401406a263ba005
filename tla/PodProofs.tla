------------------------------ MODULE PodProofs ------------------------------
(***************************************************************************)
(* Pods that are there: GetPod and GetPodStatus, for any number of pods,     *)
(* calls and concurrent readers, GetStatsSummary, for any number of pods and *)
(* callers, with a goroutine for each pod, and the mounts of a container,    *)
(* for any number of mounts and sources.                                     *)
(***************************************************************************)
EXTENDS PodStatus, Metrics, Mounts, ProcessClientProofs

\* In a module of this size a leaf waits longer than it is worked on.
USE SMTT(30), ZenonT(30), Z3T(30)

(* How the exit status and the error of cmd.Wait go together.               *)
ExitInv ==
  \A c \in Calls :
    /\ proc[c] \in {"none", "running", "zombie"} => exitError[c] = "nil"
    /\ proc[c] \in {"zombie", "reaped"} => exit[c] \in ExitCodes \cup {Signalled}
    /\ proc[c] = "reaped" =>
         /\ exitError[c] = "ExitError" <=> exit[c] # 0
         /\ exitError[c] = "Canceled" => cancelled[c]

(* A code that GetPod may have computed for a process: "running", or what    *)
(* the process that has ended will be reported with for ever.               *)
Computable(c, code) == code = -1 \/ (waitDone[c] /\ code = ExitCode(c))

(* Once a reader of GetPod has written ExitCode, no reader will find the     *)
(* initial 0 there, nor any other code that was not computed.               *)
Sound(state) ==
  LET c == state.call IN
  /\ state.pc # "idle" => c \in Calls
  /\ state.pc = "computed" => Computable(c, state.code)
  /\ state.via = "GetPod" =>
       /\ state.pc # "listed"
       /\ state.pc \in {"written", "phased", "returned"} => Computable(c, podExitCode[c])
       /\ state.pc \in {"phased", "returned"} /\ state.phase # "Running" =>
            /\ waitDone[c] /\ ExitCode(c) >= 0
            /\ state.phase = IF ExitCode(c) = 0 THEN "Succeeded" ELSE "Failed"
       /\ state.pc = "returned" => Computable(c, state.code)

ReaderInv == \A r \in Readers : Sound(reader[r])

StatusInv == Inv /\ StatusTypeOK /\ ExitInv /\ ReaderInv

-----------------------------------------------------------------------------
(* Phase chooses among three phases.                                        *)
LEMMA PhaseIs ==
  ASSUME NEW code \in Int
  PROVE  /\ Phase(code) \in Phases
         /\ Phase(code) = "Running" <=> code < 0
         /\ Phase(code) = "Succeeded" <=> code = 0
         /\ Phase(code) = "Failed" <=> code > 0
BY DEF Phase, Phases

(* GetPod computes a code.                                                  *)
LEMMA ExitCodeIs ==
  ASSUME TypeOK, CallInv, ExitInv, NEW c \in Calls
  PROVE  ExitCode(c) \in Codes /\ Computable(c, ExitCode(c))
<1>1. CASE ~waitDone[c]
  BY <1>1 DEF TypeOK, ExitCode, Codes, Computable, Signalled
<1>2. CASE waitDone[c]
  <2>1. proc[c] = "reaped" /\ exit[c] \in ExitCodes \cup {Signalled}
    BY <1>2 DEF CallInv, ExitInv
  <2>2. exitError[c] \in {"nil", "ExitError", "Canceled"}
    BY DEF TypeOK
  <2> QED BY <1>2, <2>1, <2>2 DEF ExitCode, Codes, Computable
<1> QED BY <1>1, <1>2

\* Exit codes are numbers.
LEMMA CodesAreIntegers == Codes \subseteq Int
BY ExitCodesAssumption DEF Codes, Signalled

\* It holds before the first call.
LEMMA StatusInvInit == StatusInit => StatusInv
<1> SUFFICES ASSUME StatusInit PROVE StatusInv
  OBVIOUS
<1>1. Inv
  BY InvInit DEF StatusInit
<1>2. StatusTypeOK
  BY <1>1 DEF Inv, Core, StatusInit, StatusTypeOK, Idle, ReaderState, Codes, Phases
<1>3. ExitInv /\ ReaderInv
  BY DEF StatusInit, Init, ExitInv, ReaderInv, Sound, Idle
<1> QED BY <1>1, <1>2, <1>3 DEF StatusInv

-----------------------------------------------------------------------------
(* A step of the client leaves the result of a process that has been waited  *)
(* for as it is.                                                            *)
LEMMA ClientKeeps ==
  ASSUME Inv, ExitInv, Next
  PROVE  /\ ExitInv'
         /\ \A c \in Calls : waitDone[c] =>
              waitDone'[c] /\ exit'[c] = exit[c] /\ exitError'[c] = exitError[c]
<1> DEFINE Goal == /\ ExitInv'
                   /\ \A c \in Calls : waitDone[c] =>
                        waitDone'[c] /\ exit'[c] = exit[c] /\ exitError'[c] = exitError[c]
<1> SUFFICES Goal
  OBVIOUS
<1> USE DEF createVars, waitVars, procVars, signalVars, deleteVars, TypeOK, ExitInv
<1>0. TypeOK /\ CallInv
  BY DEF Inv, Core
<1>1. ASSUME NEW c \in Calls, NEW k \in Keys, CreatePodCheck(c, k) PROVE Goal
  BY <1>0, <1>1 DEF CreatePodCheck
<1>2. ASSUME NEW c \in Calls, CreateStdout(c) \/ CreateStderr(c) \/ StoreProcess(c) PROVE Goal
  BY <1>0, <1>2 DEF CreateStdout, CreateStderr, StoreProcess
<1>3. ASSUME NEW c \in Calls, StartProcess(c) PROVE Goal
  <2>1. proc[c] = "none"
    BY <1>0, <1>3 DEF StartProcess, CallInv
  <2> QED BY <1>0, <1>3, <2>1 DEF StartProcess
<1>4. ASSUME NEW c \in Calls, NEW status \in ExitCodes \cup {Signalled}, Ends(c, status) PROVE Goal
  BY <1>0, <1>4 DEF Ends, CallInv
<1>5. ASSUME NEW c \in Calls, WaiterReaps(c) PROVE Goal
  BY <1>0, <1>5 DEF WaiterReaps, CallInv
<1>6. ASSUME NEW c \in Calls, WaiterClosesLogs(c) \/ WaiterClosesDone(c) PROVE Goal
  BY <1>0, <1>6 DEF WaiterClosesLogs, WaiterClosesDone
<1>7. ASSUME NEW d \in Deletes, NEW k \in Keys, DeletePodLoad(d, k) PROVE Goal
  BY <1>0, <1>7 DEF DeletePodLoad
<1>8. ASSUME NEW d \in Deletes, DeleteStep(d) PROVE Goal
  BY <1>0, <1>8 DEF DeleteStep, DeleteSignals, DeleteSeesExit, DeleteGraceExpires, DeleteSeesKill,
     DeleteRemoves
<1> QED BY <1>1, <1>2, <1>3, <1>4, <1>5, <1>6, <1>7, <1>8
    DEF Next, CallStep, CreateStep, WaiterStep, JobExits, JobIsSignalled, KillByContext

(* What holds of the readers is not disturbed by the client.                *)
LEMMA ClientStepKeepsReaders ==
  ASSUME StatusInv, Next, UNCHANGED statusVars
  PROVE  StatusInv'
<1>1. Inv'
  BY InvStep DEF StatusInv
<1>2. StatusTypeOK'
  BY <1>1 DEF StatusInv, Inv, Core, StatusTypeOK, statusVars
<1>3. /\ ExitInv'
      /\ \A c \in Calls : waitDone[c] =>
           waitDone'[c] /\ exit'[c] = exit[c] /\ exitError'[c] = exitError[c]
  BY ClientKeeps DEF StatusInv
<1>4. \A c \in Calls : waitDone[c] => waitDone'[c] /\ ExitCode(c)' = ExitCode(c)
  BY <1>3, Zenon DEF ExitCode
<1>5. ASSUME NEW c \in Calls, NEW CONSTANT code, Computable(c, code) PROVE Computable(c, code)'
  BY <1>4, <1>5 DEF Computable
<1>6. ReaderInv'
  <2>1. UNCHANGED <<podExitCode, reader>>
    BY DEF statusVars
  <2>2. ASSUME NEW r \in Readers PROVE Sound(reader[r])'
    BY <1>4, <1>5, <2>1 DEF StatusInv, ReaderInv, Sound
  <2> QED BY <2>2 DEF ReaderInv
<1> QED BY <1>1, <1>2, <1>3, <1>6 DEF StatusInv

-----------------------------------------------------------------------------
(* A step of a reader replaces its own record, and writes ExitCode of its    *)
(* process only.                                                            *)
Moves(r, state) ==
  /\ state \in ReaderState
  /\ reader' = [reader EXCEPT ![r] = state]
  /\ UNCHANGED vars

(* A reader that only moves leaves the others sound.                        *)
LEMMA MoveStep ==
  ASSUME StatusInv, NEW r \in Readers, NEW CONSTANT state, Moves(r, state), Sound(state),
         UNCHANGED podExitCode
  PROVE  StatusInv'
<1>1. UNCHANGED vars /\ reader' = [reader EXCEPT ![r] = state] /\ reader \in [Readers -> ReaderState]
  BY DEF Moves, StatusInv, StatusTypeOK
<1>2. Inv' /\ ExitInv'
  <2>1. Inv'
    BY <1>1, InvStep DEF StatusInv
  <2>2. ExitInv'
    BY <1>1 DEF StatusInv, ExitInv, vars, procVars, waitVars, signalVars
  <2> QED BY <2>1, <2>2
<1>3. StatusTypeOK'
  BY <1>1, <1>2 DEF Moves, StatusInv, Inv, Core, StatusTypeOK
<1>4. \A s \in Readers : Sound(reader[s])
  BY DEF StatusInv, ReaderInv
<1>5. \A s \in Readers : reader'[s] = IF s = r THEN state ELSE reader[s]
  BY <1>1
<1>6. \A c : waitDone'[c] = waitDone[c] /\ ExitCode(c)' = ExitCode(c) /\ podExitCode'[c] = podExitCode[c]
  BY <1>1 DEF ExitCode, vars, waitVars, procVars
<1>7. ReaderInv'
  BY <1>4, <1>5, <1>6 DEF ReaderInv, Sound, Computable
<1> QED BY <1>2, <1>3, <1>7 DEF StatusInv

\* Every step of a status call preserves it.
LEMMA ReaderStepKeeps ==
  ASSUME StatusInv, NEW r \in Readers,
         ReaderStep(r) \/ \E k \in Keys : GetPodLoads(r, k) \/ GetPodsLists(r, k)
  PROVE  StatusInv'
<1>0. /\ StatusTypeOK /\ TypeOK /\ CallInv /\ ExitInv
      /\ reader[r] \in ReaderState /\ Sound(reader[r]) /\ podExitCode \in [Calls -> Codes]
  BY DEF StatusInv, Inv, Core, ReaderInv, StatusTypeOK
<1> USE ReadersAssumption, NilAssumption
<1>1. ASSUME NEW k \in Keys, NEW to \in {"loaded", "listed"}, NEW via \in {"GetPod", "GetPods"},
             via = "GetPod" => to = "loaded", processes[k] # Nil, reader[r] = Idle, UNCHANGED <<vars, podExitCode>>,
             reader' = [reader EXCEPT ![r] = [@ EXCEPT !.pc = to, !.via = via, !.call = processes[k]]]
      PROVE  StatusInv'
  <2> DEFINE state == [reader[r] EXCEPT !.pc = to, !.via = via, !.call = processes[k]]
  <2>1. processes[k] \in Calls
    BY <1>0, <1>1 DEF TypeOK
  <2>2. /\ state \in ReaderState /\ state.pc \in {"loaded", "listed"} /\ state.call \in Calls
        /\ state.pc = to /\ state.call = processes[k] /\ state.via = via
    BY <1>0, <2>1, Zenon DEF ReaderState
  <2>3. reader' = [reader EXCEPT ![r] = state]
    BY <1>1
  <2> HIDE DEF state
  <2>4. Sound(state) /\ Moves(r, state)
    BY <1>1, <2>2, <2>3, Zenon DEF Sound, Moves
  <2> QED BY <1>1, <2>4, MoveStep
<1>2. ASSUME GetPodComputes(r) PROVE StatusInv'
  <2> DEFINE state == [reader[r] EXCEPT !.pc = "computed", !.code = ExitCode(reader[r].call)]
  <2>1. reader[r].pc = "loaded" /\ reader[r].call \in Calls /\ UNCHANGED <<vars, podExitCode>>
    BY <1>0, <1>2 DEF GetPodComputes, Sound
  <2>2. ExitCode(reader[r].call) \in Codes /\ Computable(reader[r].call, ExitCode(reader[r].call))
    BY <1>0, <2>1, ExitCodeIs
  <2>3. /\ state \in ReaderState /\ state.pc = "computed" /\ state.call = reader[r].call
        /\ state.code = ExitCode(reader[r].call)
    BY <1>0, <2>2, Zenon DEF ReaderState
  <2>4. reader' = [reader EXCEPT ![r] = state]
    BY <1>2 DEF GetPodComputes
  <2> HIDE DEF state
  <2>5. Sound(state) /\ Moves(r, state)
    BY <2>1, <2>2, <2>3, <2>4 DEF Sound, Moves
  <2> QED BY <2>1, <2>5, MoveStep
<1>3. ASSUME GetPodWrites(r) PROVE StatusInv'
  <2> DEFINE c == reader[r].call
             code == reader[r].code
             state == [reader[r] EXCEPT !.pc = "written"]
  <2>1. /\ reader[r].pc = "computed" /\ c \in Calls /\ code \in Codes /\ Computable(c, code)
        /\ podExitCode' = [podExitCode EXCEPT ![c] = code] /\ UNCHANGED vars
    BY <1>0, <1>3 DEF GetPodWrites, Sound, ReaderState
  <2>2. /\ state \in ReaderState /\ state.pc = "written" /\ state.call = c
        /\ reader' = [reader EXCEPT ![r] = state]
    BY <1>0, <1>3 DEF GetPodWrites, ReaderState, StatusTypeOK
  <2>3. \A b : waitDone'[b] = waitDone[b] /\ ExitCode(b)' = ExitCode(b)
    BY <2>1 DEF ExitCode, vars, waitVars, procVars
  <2>4. Inv' /\ ExitInv'
    <3>1. Inv'
      BY <2>1, InvStep DEF StatusInv
    <3>2. ExitInv'
      BY <1>0, <2>1 DEF ExitInv, vars, procVars, waitVars, signalVars
    <3> QED BY <3>1, <3>2
  <2> HIDE DEF c, code, state
  <2>5. StatusTypeOK'
    BY <1>0, <2>1, <2>2, <2>4 DEF StatusTypeOK, Inv, Core
  <2>6. \A b \in Calls : podExitCode'[b] = IF b = c THEN code ELSE podExitCode[b]
    BY <1>0, <2>1
  <2>7. \A s \in Readers : reader'[s] = IF s = r THEN state ELSE reader[s]
    BY <1>0, <2>2 DEF StatusTypeOK
  <2>8. \A s \in Readers : Sound(reader[s])
    BY DEF StatusInv, ReaderInv
  <2>9. ReaderInv'
    <3> SUFFICES ASSUME NEW s \in Readers PROVE Sound(reader[s])'
      BY DEF ReaderInv
    <3>1. CASE s = r
      BY <2>1, <2>2, <2>3, <2>6, <2>7, <3>1 DEF Sound, Computable
    <3>2. CASE s # r
      BY <2>1, <2>3, <2>6, <2>7, <2>8, <3>2 DEF Sound, Computable
    <3> QED BY <3>1, <3>2
  <2> QED BY <2>4, <2>5, <2>9 DEF StatusInv
<1>4. ASSUME ChoosesPhase(r), reader[r].pc \in {"written", "listed"} PROVE StatusInv'
  <2> DEFINE c == reader[r].call
             code == podExitCode[c]
             state == [reader[r] EXCEPT
                        !.pc = IF Phase(code) = "Running" THEN "returned" ELSE "phased",
                        !.code = code, !.phase = Phase(code)]
  <2>1. c \in Calls /\ code \in Codes /\ code \in Int
    BY <1>0, <1>4, CodesAreIntegers, Zenon DEF Sound
  <2>2. /\ Phase(code) \in Phases /\ (Phase(code) = "Running" <=> code < 0)
        /\ code >= 0 => Phase(code) = IF code = 0 THEN "Succeeded" ELSE "Failed"
    BY <2>1, PhaseIs
  <2>3. UNCHANGED <<vars, podExitCode>> /\ reader' = [reader EXCEPT ![r] = state]
    BY <1>4 DEF ChoosesPhase
  <2>4. state \in ReaderState /\ state.call = c /\ state.code = code /\ state.phase = Phase(code)
        /\ state.pc \in {"returned", "phased"} /\ state.via = reader[r].via
    <3> HIDE DEF code
    <3> QED BY <1>0, <2>1, <2>2, Zenon DEF ReaderState
  <2>5. reader[r].via = "GetPod" => Computable(c, code)
    <3>1. CASE reader[r].pc = "written"
      BY <1>0, <3>1 DEF Sound
    <3>2. CASE reader[r].pc = "listed"
      BY <1>0, <3>2 DEF Sound
    <3> QED BY <1>4, <3>1, <3>2
  <2> HIDE DEF state
  <2>6. Sound(state)
    BY <2>1, <2>2, <2>4, <2>5 DEF Sound, Computable
  <2> QED BY <2>3, <2>4, <2>6, MoveStep, Zenon DEF Moves
<1>5. ASSUME ReadsTerminatedCode(r) PROVE StatusInv'
  <2> DEFINE c == reader[r].call
             code == podExitCode[c]
             state == [reader[r] EXCEPT !.pc = "returned", !.code = code]
  <2>1. c \in Calls /\ code \in Codes /\ reader[r].pc = "phased"
    BY <1>0, <1>5 DEF ReadsTerminatedCode, Sound
  <2>2. UNCHANGED <<vars, podExitCode>> /\ reader' = [reader EXCEPT ![r] = state]
    BY <1>5 DEF ReadsTerminatedCode
  <2>3. /\ state \in ReaderState /\ state.pc = "returned" /\ state.call = c /\ state.code = code
        /\ state.phase = reader[r].phase /\ state.via = reader[r].via
    <3> HIDE DEF code
    <3> QED BY <1>0, <2>1, Zenon DEF ReaderState
  <2> HIDE DEF state
  <2>4. Sound(state)
    BY <1>0, <2>1, <2>3 DEF Sound
  <2> QED BY <2>2, <2>3, <2>4, MoveStep, Zenon DEF Moves
<1>6. ASSUME ReaderDone(r) PROVE StatusInv'
  <2>1. Idle \in ReaderState /\ Sound(Idle)
    BY DEF Idle, ReaderState, Codes, Phases, Sound
  <2> QED BY <1>6, <2>1, MoveStep, Zenon DEF ReaderDone, Moves
<1>7. ASSUME NEW k \in Keys, GetPodLoads(r, k) PROVE StatusInv'
  BY <1>1, <1>7, Zenon DEF GetPodLoads
<1>8. ASSUME NEW k \in Keys, GetPodsLists(r, k) PROVE StatusInv'
  BY <1>1, <1>8, Zenon DEF GetPodsLists
<1> QED BY <1>2, <1>3, <1>4, <1>5, <1>6, <1>7, <1>8
    DEF ReaderStep, GetPodReadsPhase, GetPodsReadsPhase

\* The inductive invariant of the client and its status callers holds in every
\* reachable state.
THEOREM StatusInvariance == StatusSpec => []StatusInv
<1>1. ASSUME StatusInv, UNCHANGED allVars PROVE StatusInv'
  <2>1. UNCHANGED vars /\ UNCHANGED statusVars
    BY <1>1 DEF allVars
  <2>2. Inv'
    BY <1>1, <2>1, InvStep DEF StatusInv
  <2>3. ExitInv' /\ StatusTypeOK'
    BY <1>1, <2>1, <2>2
    DEF StatusInv, Inv, Core, ExitInv, StatusTypeOK, vars, procVars, waitVars, signalVars, statusVars
  <2>4. ReaderInv'
    <3>1. \A c : waitDone'[c] = waitDone[c] /\ ExitCode(c)' = ExitCode(c)
      BY <2>1 DEF ExitCode, vars, procVars, waitVars
    <3>2. reader' = reader /\ podExitCode' = podExitCode
      BY <2>1 DEF statusVars
    <3> QED BY <1>1, <3>1, <3>2 DEF StatusInv, ReaderInv, Sound, Computable
  <2> QED BY <2>2, <2>3, <2>4 DEF StatusInv
<1>2. StatusInv /\ [StatusNext]_allVars => StatusInv'
  BY <1>1, ClientStepKeepsReaders, ReaderStepKeeps DEF StatusNext, ClientStep
<1> QED BY StatusInvInit, <1>2, PTL DEF StatusSpec

-----------------------------------------------------------------------------
(* GetPod and GetPodStatus report a terminal phase only for a process that   *)
(* has been waited for, and the right one, however readers race on ExitCode. *)
THEOREM FinalStatusIsTrueHolds == StatusSpec => []FinalStatusIsTrue
<1>1. StatusInv => FinalStatusIsTrue
  <2> SUFFICES ASSUME StatusInv, NEW r \in Readers, NEW c \in Calls, Returned(r, "GetPod", c)
               PROVE  TruePhase(c, reader[r].phase)
    BY DEF FinalStatusIsTrue
  <2>1. TypeOK /\ CallInv /\ ExitInv /\ Sound(reader[r]) /\ reader[r].phase \in Phases
    BY DEF StatusInv, Inv, Core, StatusTypeOK, ReaderInv, ReaderState
  <2>2. CASE reader[r].phase = "Running"
    BY <2>2 DEF TruePhase
  <2>3. CASE reader[r].phase # "Running"
    <3>1. /\ waitDone[c] /\ ExitCode(c) >= 0
          /\ reader[r].phase = IF ExitCode(c) = 0 THEN "Succeeded" ELSE "Failed"
      BY <2>1, <2>3 DEF Sound, Returned
    <3>2. /\ proc[c] = "reaped" /\ exit[c] \in Int
          /\ exitError[c] \in {"nil", "ExitError", "Canceled"}
      <4>1. proc[c] = "reaped" /\ exit[c] \in ExitCodes \cup {Signalled}
        BY <2>1, <3>1 DEF CallInv, ExitInv
      <4>2. exit[c] \in Int
        BY <4>1, CodesAreIntegers DEF Codes
      <4>3. exitError[c] \in {"nil", "ExitError", "Canceled"}
        BY <2>1 DEF TypeOK
      <4> QED BY <4>1, <4>2, <4>3
    <3>3. CASE exitError[c] = "nil"
      <4>1. ExitCode(c) = 0
        BY <3>1, <3>3 DEF ExitCode
      <4>2. reader[r].phase = "Succeeded" /\ exit[c] = 0
        BY <2>1, <3>1, <3>2, <3>3, <4>1 DEF ExitInv
      <4> QED BY <3>1, <4>2, Zenon DEF TruePhase
    <3>4. CASE exitError[c] = "ExitError"
      <4>1. ExitCode(c) = exit[c] /\ exit[c] # 0
        BY <2>1, <3>1, <3>2, <3>4 DEF ExitCode, ExitInv
      <4>2. reader[r].phase = "Failed" /\ exit[c] > 0
        BY <3>1, <3>2, <4>1
      <4> QED BY <3>1, <4>2, Zenon DEF TruePhase
    <3>5. CASE exitError[c] = "Canceled"
      <4>1. ExitCode(c) = 1 /\ cancelled[c]
        BY <2>1, <3>1, <3>2, <3>5 DEF ExitCode, ExitInv
      <4>2. reader[r].phase = "Failed"
        BY <3>1, <4>1
      <4> QED BY <3>1, <4>1, <4>2 DEF TruePhase
    <3> QED BY <3>2, <3>3, <3>4, <3>5
  <2> QED BY <2>2, <2>3
<1> QED BY <1>1, StatusInvariance, PTL

(* The exit code in a terminated container's status is the job's, or the -1  *)
(* of a slower reader; never the initial 0 or another.                      *)
THEOREM TerminatedCodeIsTrueHolds == StatusSpec => []TerminatedCodeIsTrue
<1>1. StatusInv => TerminatedCodeIsTrue
  BY DEF StatusInv, ReaderInv, Sound, Computable, TerminatedCodeIsTrue, Returned
<1> QED BY <1>1, StatusInvariance, PTL

(* Type correctness of the status callers on top of the client.             *)
THEOREM StatusTypeCorrect == StatusSpec => []StatusTypeOK
<1>1. StatusInv => StatusTypeOK
  BY DEF StatusInv
<1> QED BY <1>1, StatusInvariance, PTL

-----------------------------------------------------------------------------
(* GetStatsSummary: a slot for each pod that ran, filled by its goroutine.   *)

MetricsTypeInv ==
  /\ runningPods \subseteq StatsPods
  /\ metricsSync \in Callers \cup {Absent}
  /\ callerPC \in [Callers -> {"idle", "locking", "locked", "waiting", "summary", "error"}]
  /\ groupFailed \in [Callers -> BOOLEAN]
  /\ DOMAIN listed = Callers /\ DOMAIN wasRunning = Callers
  /\ DOMAIN statsWorker = Callers /\ DOMAIN results = Callers
  /\ \A c \in Callers :
       /\ statsWorker[c] \in [DOMAIN listed[c] -> {"asking", "none"}]
       /\ results[c] \in [DOMAIN listed[c] -> StatsPods \cup {Absent}]

(* The mutex is held exactly from Lock to the return, and goroutines run    *)
(* only while the call waits for them.                                      *)
LockInv ==
  \A c \in Callers :
    /\ metricsSync = c <=> callerPC[c] \in {"locked", "waiting"}
    /\ callerPC[c] # "waiting" => \A i \in DOMAIN statsWorker[c] : statsWorker[c][i] = "none"

(* A slot is filled exactly when the goroutine of its pod has ended, unless  *)
(* a goroutine of the call failed.                                          *)
SlotIsExact(c, i) ==
  /\ listed[c][i] \notin wasRunning[c] => statsWorker[c][i] = "none" /\ results[c][i] = Absent
  /\ listed[c][i] \in wasRunning[c] =>
       \/ statsWorker[c][i] = "asking"
       \/ results[c][i] = listed[c][i]
       \/ groupFailed[c]

SlotInv ==
  \A c \in Callers :
    /\ callerPC[c] \in {"waiting", "summary"} => \A i \in DOMAIN listed[c] : SlotIsExact(c, i)
    /\ callerPC[c] = "summary" => ~groupFailed[c]

MetricsInv == MetricsTypeInv /\ LockInv /\ SlotInv

-----------------------------------------------------------------------------
\* The invariant holds before the first request.
LEMMA MetricsInvInit == MetricsInit => MetricsInv
BY MetricsAssumption DEF MetricsInit, MetricsInv, MetricsTypeInv, LockInv, SlotInv

slotVars == <<listed, wasRunning, statsWorker, results, groupFailed>>

\* What a slot should hold is a matter of these variables only.
LEMMA SlotsKept ==
  ASSUME UNCHANGED slotVars, NEW c, NEW i PROVE SlotIsExact(c, i)' <=> SlotIsExact(c, i)
BY Zenon DEF slotVars, SlotIsExact

(* A call that takes or leaves the mutex and touches no slot: it may return  *)
(* a summary if its goroutines have ended and none has failed.              *)
LEMMA CallMoves ==
  ASSUME MetricsInv, NEW c \in Callers, NEW how \in {"locking", "locked", "summary", "error"},
         callerPC' = [callerPC EXCEPT ![c] = how], UNCHANGED <<runningPods, slotVars>>, AllDone(c),
         metricsSync' \in Callers \cup {Absent},
         \A b \in Callers : metricsSync' = b <=> callerPC'[b] \in {"locked", "waiting"},
         how = "summary" => callerPC[c] = "waiting" /\ ~groupFailed[c]
  PROVE  MetricsInv'
<1>1. callerPC'[c] = how /\ \A b \in Callers : b # c => callerPC'[b] = callerPC[b]
  BY DEF MetricsInv, MetricsTypeInv
<1>2. MetricsTypeInv'
  <2>1. callerPC' \in [Callers -> {"idle", "locking", "locked", "waiting", "summary", "error"}]
    BY DEF MetricsInv, MetricsTypeInv
  <2> QED BY <2>1, Zenon DEF slotVars, MetricsInv, MetricsTypeInv
<1>3. LockInv'
  <2> SUFFICES ASSUME NEW b \in Callers, callerPC'[b] # "waiting"
               PROVE  \A i \in DOMAIN statsWorker'[b] : statsWorker'[b][i] = "none"
    BY Zenon DEF LockInv
  <2>1. CASE b = c
    BY <2>1, Zenon DEF slotVars, AllDone
  <2>2. CASE b # c
    <3>1. callerPC[b] # "waiting"
      BY <1>1, <2>2
    <3> QED BY <3>1, Zenon DEF slotVars, MetricsInv, LockInv
  <2> QED BY <2>1, <2>2
<1>4. SlotInv'
  <2> SUFFICES ASSUME NEW b \in Callers
               PROVE  /\ callerPC'[b] \in {"waiting", "summary"} => \A i \in DOMAIN listed'[b] : SlotIsExact(b, i)'
                      /\ callerPC'[b] = "summary" => ~groupFailed'[b]
    BY Zenon DEF SlotInv
  <2>1. callerPC'[b] \in {"waiting", "summary"} => callerPC[b] \in {"waiting", "summary"}
    BY <1>1
  <2>2. callerPC'[b] = "summary" => ~groupFailed[b]
    BY <1>1 DEF MetricsInv, SlotInv
  <2> QED BY <2>1, <2>2, SlotsKept, Zenon DEF slotVars, MetricsInv, SlotInv
<1> QED BY <1>2, <1>3, <1>4 DEF MetricsInv

\* A step that is no caller's: only the set of running pods may change.
LEMMA PodsMove ==
  ASSUME MetricsInv, runningPods' \subseteq StatsPods, UNCHANGED <<metricsSync, callerPC, slotVars>>
  PROVE  MetricsInv'
<1>1. MetricsTypeInv'
  BY Zenon DEF slotVars, MetricsInv, MetricsTypeInv
<1>2. LockInv'
  BY Zenon DEF slotVars, MetricsInv, LockInv
<1>3. SlotInv'
  BY SlotsKept, Zenon DEF slotVars, MetricsInv, SlotInv
<1> QED BY <1>1, <1>2, <1>3 DEF MetricsInv

(* A step of one call changes nothing that the invariant says of another.   *)
LEMMA MetricsInvStep == MetricsInv /\ [MetricsNext]_metricsVars => MetricsInv'
<1> SUFFICES ASSUME MetricsInv, [MetricsNext]_metricsVars PROVE MetricsInv'
  OBVIOUS
<1> USE MetricsAssumption DEF MetricsInv, Set
<1>1. ASSUME NEW c \in Callers, Request(c) PROVE MetricsInv'
  <2>1. callerPC' = [callerPC EXCEPT ![c] = "locking"] /\ UNCHANGED <<runningPods, metricsSync, slotVars>>
        /\ callerPC[c] = "idle"
    BY <1>1, Zenon DEF Request, slotVars
  <2>2. AllDone(c) /\ metricsSync' \in Callers \cup {Absent}
    BY <2>1 DEF MetricsTypeInv, LockInv, AllDone
  <2>3. \A b \in Callers : metricsSync' = b <=> callerPC'[b] \in {"locked", "waiting"}
    BY <2>1 DEF MetricsTypeInv, LockInv
  <2> QED BY <2>1, <2>2, <2>3, CallMoves, Zenon
<1>2. ASSUME NEW c \in Callers, Lock(c) PROVE MetricsInv'
  <2>1. callerPC' = [callerPC EXCEPT ![c] = "locked"] /\ UNCHANGED <<runningPods, slotVars>>
        /\ callerPC[c] = "locking" /\ metricsSync = Absent /\ metricsSync' = c
    BY <1>2 DEF Lock, slotVars
  <2>2. AllDone(c) /\ metricsSync' \in Callers \cup {Absent}
    BY <2>1 DEF MetricsTypeInv, LockInv, AllDone
  <2>3. \A b \in Callers : metricsSync' = b <=> callerPC'[b] \in {"locked", "waiting"}
    BY <2>1 DEF MetricsTypeInv, LockInv
  <2> QED BY <2>1, <2>2, <2>3, CallMoves, Zenon
<1>3. ASSUME NEW c \in Callers, ReturnsEarly(c) PROVE MetricsInv'
  <2>1. callerPC' = [callerPC EXCEPT ![c] = "error"] /\ UNCHANGED <<runningPods, slotVars>>
        /\ callerPC[c] = "locked" /\ metricsSync' = Absent
    BY <1>3 DEF ReturnsEarly, CallReturns, Unlocked, slotVars
  <2>2. AllDone(c) /\ metricsSync' \in Callers \cup {Absent}
    BY <2>1 DEF MetricsTypeInv, LockInv, AllDone
  <2>3. \A b \in Callers : metricsSync' = b <=> callerPC'[b] \in {"locked", "waiting"}
    BY <2>1 DEF MetricsTypeInv, LockInv
  <2> QED BY <2>1, <2>2, <2>3, CallMoves, Zenon
<1>4. ASSUME NEW c \in Callers, ListsPods(c) PROVE MetricsInv'
  <2>1. PICK order \in Orders(StatsPods) \cup {<<>>} :
          /\ Set(listed, c, order)
          /\ Set(statsWorker, c, [i \in DOMAIN order |->
                              IF order[i] \in runningPods THEN "asking" ELSE "none"])
          /\ Set(results, c, [i \in DOMAIN order |-> Absent])
    BY <1>4, Zenon DEF ListsPods
  <2>2. /\ callerPC[c] = "locked" /\ Set(wasRunning, c, runningPods) /\ Set(groupFailed, c, FALSE)
        /\ Set(callerPC, c, "waiting") /\ UNCHANGED <<runningPods, metricsSync, callersLeft>>
    BY <1>4 DEF ListsPods
  <2>3. MetricsTypeInv'
    BY <2>1, <2>2 DEF MetricsTypeInv
  <2>4. LockInv'
    BY <2>1, <2>2 DEF MetricsTypeInv, LockInv
  <2>5. ASSUME NEW b \in Callers, b # c
        PROVE  /\ callerPC'[b] = callerPC[b] /\ listed'[b] = listed[b] /\ wasRunning'[b] = wasRunning[b]
               /\ statsWorker'[b] = statsWorker[b] /\ results'[b] = results[b] /\ groupFailed'[b] = groupFailed[b]
    BY <2>1, <2>2, <2>5 DEF MetricsTypeInv
  <2>6. \A i \in DOMAIN listed'[c] : SlotIsExact(c, i)'
    BY <2>1, <2>2 DEF MetricsTypeInv, SlotIsExact
  <2>7. SlotInv'
    BY <2>2, <2>5, <2>6 DEF MetricsTypeInv, SlotInv, SlotIsExact
  <2> QED BY <2>3, <2>4, <2>7
<1>5. ASSUME NEW c \in Callers, NEW i \in 1..Len(statsWorker[c]), PodStats(c, i) PROVE MetricsInv'
  <2>1. /\ callerPC[c] = "waiting" /\ i \in DOMAIN listed[c] /\ statsWorker[c][i] = "asking"
        /\ statsWorker' = [statsWorker EXCEPT ![c][i] = "none"]
        /\ UNCHANGED <<runningPods, metricsSync, callersLeft, callerPC, listed, wasRunning>>
    BY <1>5 DEF PodStats, MetricsTypeInv
  <2>2. \/ /\ listed[c][i] \in runningPods
           /\ results' = [results EXCEPT ![c][i] = listed[c][i]] /\ groupFailed' = groupFailed
        \/ results' = results /\ groupFailed' = [groupFailed EXCEPT ![c] = TRUE]
    BY <1>5 DEF PodStats, PodOf
  <2>a. \A b \in Callers : statsWorker'[b] \in [DOMAIN listed[b] -> {"asking", "none"}]
    BY <2>1 DEF MetricsTypeInv
  <2>b. \A b \in Callers : results'[b] \in [DOMAIN listed[b] -> StatsPods \cup {Absent}]
    <3>1. ASSUME NEW p \in StatsPods, results' = [results EXCEPT ![c][i] = p], NEW b \in Callers
          PROVE  results'[b] \in [DOMAIN listed[b] -> StatsPods \cup {Absent}]
      BY <2>1, <3>1 DEF MetricsTypeInv
    <3>2. runningPods \subseteq StatsPods
      BY DEF MetricsTypeInv
    <3> QED BY <2>2, <3>1, <3>2, Zenon DEF MetricsTypeInv
  <2>3. MetricsTypeInv'
    <3>1. DOMAIN results' = Callers /\ groupFailed' \in [Callers -> BOOLEAN]
      BY <2>2, Zenon DEF MetricsTypeInv
    <3> QED BY <2>1, <2>a, <2>b, <3>1, Zenon DEF MetricsTypeInv
  <2>4. LockInv'
    BY <2>1 DEF MetricsTypeInv, LockInv
  <2>5. ASSUME NEW b \in Callers, b # c
        PROVE  statsWorker'[b] = statsWorker[b] /\ results'[b] = results[b] /\ groupFailed'[b] = groupFailed[b]
    BY <2>1, <2>2, <2>5 DEF MetricsTypeInv
  <2>6. ASSUME NEW j \in DOMAIN listed[c] PROVE SlotIsExact(c, j)'
    <3>1. SlotIsExact(c, j)
      BY <2>1 DEF SlotInv
    <3>2. CASE j = i
      BY <2>1, <2>2, <3>1, <3>2 DEF MetricsTypeInv, SlotIsExact
    <3>3. CASE j # i
      <4>1. statsWorker'[c][j] = statsWorker[c][j] /\ results'[c][j] = results[c][j]
            /\ (groupFailed[c] => groupFailed'[c])
        BY <2>1, <2>2, <3>3 DEF MetricsTypeInv
      <4> QED BY <2>1, <3>1, <4>1 DEF SlotIsExact
    <3> QED BY <3>2, <3>3
  <2>7. SlotInv'
    BY <2>1, <2>5, <2>6 DEF SlotInv, SlotIsExact
  <2> QED BY <2>3, <2>4, <2>7
<1>6. ASSUME NEW c \in Callers, GroupWaits(c) PROVE MetricsInv'
  <2> DEFINE how == IF groupFailed[c] THEN "error" ELSE "summary"
  <2>1. callerPC' = [callerPC EXCEPT ![c] = how] /\ UNCHANGED <<runningPods, slotVars>>
        /\ callerPC[c] = "waiting" /\ metricsSync' = Absent /\ AllDone(c)
    BY <1>6, Zenon DEF GroupWaits, CallReturns, Unlocked, slotVars
  <2>2. how \in {"summary", "error"} /\ (how = "summary" => ~groupFailed[c])
    OBVIOUS
  <2> HIDE DEF how
  <2>3. \A b \in Callers : metricsSync' = b <=> callerPC'[b] \in {"locked", "waiting"}
    BY <2>1, <2>2 DEF MetricsTypeInv, LockInv
  <2>4. metricsSync' \in Callers \cup {Absent} /\ how \in {"locking", "locked", "summary", "error"}
    BY <2>1, <2>2
  <2> QED BY <2>1, <2>2, <2>3, <2>4, CallMoves, Zenon
<1>7. ASSUME NEW c \in Callers, Collected(c) PROVE MetricsInv'
  BY <1>7 DEF Collected, MetricsTypeInv, LockInv, SlotInv, SlotIsExact
<1>8. ASSUME NEW c \in Callers, CallerLeaves(c) PROVE MetricsInv'
  BY <1>8, PodsMove, Zenon DEF CallerLeaves, slotVars, MetricsTypeInv
<1>9. ASSUME NEW p \in StatsPods, PodChanges(p) PROVE MetricsInv'
  <2>1. runningPods' \subseteq StatsPods /\ UNCHANGED <<metricsSync, callerPC, slotVars>>
    BY <1>9 DEF PodChanges, slotVars, MetricsTypeInv
  <2> QED BY <2>1, PodsMove
<1>10. ASSUME UNCHANGED metricsVars PROVE MetricsInv'
  BY <1>10, PodsMove, Zenon DEF metricsVars, slotVars, MetricsTypeInv
<1> QED BY <1>1, <1>2, <1>3, <1>4, <1>5, <1>6, <1>7, <1>8, <1>9, <1>10 DEF MetricsNext, MetricsCallStep

\* The inductive invariant of GetStatsSummary holds in every reachable state.
THEOREM MetricsInvariance == MetricsSpec => []MetricsInv
BY MetricsInvInit, MetricsInvStep, PTL DEF MetricsSpec

-----------------------------------------------------------------------------
(* The summary GetStatsSummary returns describes every pod that was running  *)
(* when the pods were listed, each in its own slot, and no other.           *)
THEOREM SummaryIsExactHolds == MetricsSpec => []SummaryIsExact
<1>1. ASSUME MetricsInv PROVE SummaryIsExact
  <2> SUFFICES ASSUME NEW c \in Callers, callerPC[c] = "summary", NEW i \in DOMAIN listed[c]
               PROVE  results[c][i] = IF listed[c][i] \in wasRunning[c] THEN listed[c][i] ELSE Absent
    BY DEF SummaryIsExact
  <2>1. SlotIsExact(c, i) /\ ~groupFailed[c]
    BY <1>1 DEF MetricsInv, SlotInv
  <2>2. statsWorker[c][i] = "none"
    BY <1>1 DEF MetricsInv, MetricsTypeInv, LockInv
  <2> QED BY <2>1, <2>2, Zenon DEF SlotIsExact
<1> QED BY <1>1, MetricsInvariance, PTL

(* GetStatsSummary leaves no goroutine behind, and only the call that holds  *)
(* the mutex has any.                                                       *)
THEOREM NoStrayGoroutineHolds == MetricsSpec => []NoStrayGoroutine
<1>1. MetricsInv => NoStrayGoroutine
  BY Zenon DEF MetricsInv, LockInv, NoStrayGoroutine
<1> QED BY <1>1, MetricsInvariance, PTL

-----------------------------------------------------------------------------
(* CreateContainerMounts: after each mount, the result lists the supported   *)
(* ones among those gone through, and the files of the mount it is at are    *)
(* those of the sources gone through.                                       *)

\* No position.
LEMMA SelectsNothing ==
  ASSUME NEW s
  PROVE  Selects(<<>>, s, {})
<1>1. <<>> \in [1..0 -> {}] /\ Len(<<>>) = 0
  OBVIOUS
<1> QED BY <1>1, Zenon DEF Selects

\* One more position, after all the others.
LEMMA SelectsOneMore ==
  ASSUME NEW S, NEW t \in Seq(S), NEW s \in Seq(S), NEW P \in SUBSET (1..Len(s)), NEW n \in 1..Len(s),
         \A p \in P : p < n, Selects(t, s, P)
  PROVE  Selects(Append(t, s[n]), s, P \cup {n})
<1>0. Len(t) \in Nat
  OBVIOUS
<1>1. PICK at \in [1..Len(t) -> P] :
        /\ \A i, j \in 1..Len(t) : i < j => at[i] < at[j]
        /\ \A p \in P : \E i \in 1..Len(t) : at[i] = p
        /\ \A i \in 1..Len(t) : t[i] = s[at[i]]
  BY Zenon DEF Selects
<1> DEFINE m == Len(t) + 1
           u == Append(t, s[n])
           next == [i \in 1..m |-> IF i = m THEN n ELSE at[i]]
<1>2. Len(t) \in Nat /\ Len(u) = m /\ u[m] = s[n] /\ \A i \in 1..Len(t) : u[i] = t[i]
  OBVIOUS
<1>3. next \in [1..m -> P \cup {n}]
  BY <1>1, <1>2
<1>4. next[m] = n /\ \A i \in 1..Len(t) : next[i] = at[i] /\ at[i] \in P
  BY <1>1, <1>2
<1> HIDE DEF next, u
<1>5. \A i, j \in 1..m : i < j => next[i] < next[j]
  <2> TAKE i, j \in 1..m
  <2> HAVE i < j
  <2>1. CASE j = m
    <3>1. i \in 1..Len(t)
      BY <1>2, <2>1
    <3>2. next[i] \in P /\ next[j] = n
      BY <1>4, <2>1, <3>1
    <3> QED BY <3>2, Zenon
  <2>2. CASE j # m
    <3>1. i \in 1..Len(t) /\ j \in 1..Len(t)
      BY <1>0, <2>2
    <3>2. at[i] < at[j] /\ next[i] = at[i] /\ next[j] = at[j]
      BY <1>1, <1>4, <3>1
    <3> QED BY <3>2
  <2> QED BY <2>1, <2>2
<1>6. \A p \in P \cup {n} : \E i \in 1..m : next[i] = p
  <2>1. ASSUME NEW p \in P PROVE \E i \in 1..m : next[i] = p
    <3>1. PICK i \in 1..Len(t) : at[i] = p
      BY <1>1
    <3>2. i \in 1..m /\ next[i] = p
      BY <1>0, <1>4, <3>1
    <3> QED BY <3>2
  <2>2. \E i \in 1..m : next[i] = n
    BY <1>2, <1>4
  <2> QED BY <2>1, <2>2
<1>7. \A i \in 1..m : u[i] = s[next[i]]
  BY <1>1, <1>2, <1>4
<1> QED BY <1>2, <1>3, <1>5, <1>6, <1>7 DEF Selects, u

GoneThrough == {i \in 1..(nextMount - 1) : SupportedAt(i)}

\* The directory of a mount, and for a projected volume the files.
IsProvided(name) ==
  /\ <<name>> \in paths
  /\ volumeKind[name] = "projected" =>
       \A s \in Range(projected) \ {"fieldRef"} : <<name, s>> \in paths

MountInv ==
  /\ volumeMounts \in Seq(Volumes) /\ mounts \in Seq(Volumes)
  /\ nextMount \in 1..(Len(volumeMounts) + 1) /\ nextSource \in Nat \ {0}
  /\ projected \in Seq(MountMaps \cup {"token", "namespace", "fieldRef"})
  /\ mountPC = "idle" => volumeMounts = <<>> /\ mounts = <<>>
  /\ mountPC \in {"idle", "mounting"} => nextSource = 1
  /\ mountPC = "projecting" =>
       /\ nextMount <= Len(volumeMounts) /\ volumeKind[Volume] = "projected" /\ <<Volume>> \in paths
       /\ \A j \in 1..Len(projected) :
            j < nextSource /\ projected[j] # "fieldRef" => <<Volume, projected[j]>> \in paths
  /\ mountPC = "returned" => nextMount = Len(volumeMounts) + 1
  /\ Selects(mounts, volumeMounts, GoneThrough)
  /\ \A i \in 1..Len(mounts) : IsProvided(mounts[i])

\* Nothing has been mounted.
LEMMA MountInvInit == MountInit => MountInv
<1> SUFFICES ASSUME MountInit PROVE MountInv
  OBVIOUS
<1>1. GoneThrough = {} /\ Len(mounts) = 0
  BY DEF MountInit, GoneThrough
<1>2. Selects(mounts, volumeMounts, {})
  BY SelectsNothing DEF MountInit
<1> QED BY <1>1, <1>2 DEF MountInit, MountInv

(* A mount that is added is the next supported one, and is provided.        *)
LEMMA AddsMount ==
  ASSUME MountInv, Mounted(Volume), UNCHANGED mountInputs, paths \subseteq paths',
         NEW name, name = Volume, IsProvided(name)',
         nextMount <= Len(volumeMounts), SupportedAt(nextMount), mountPC' = "mounting"
  PROVE  MountInv'
<1>1. /\ volumeMounts[nextMount] \in Volumes /\ mounts' = Append(mounts, volumeMounts[nextMount])
      /\ nextMount' = nextMount + 1 /\ nextSource' = 1 /\ nextMount \in 1..Len(volumeMounts)
      /\ UNCHANGED <<volumeMounts, volumeKind, projected, extracted>>
  BY DEF MountInv, Mounted, Volume, mountInputs
<1>2. GoneThrough' = GoneThrough \cup {nextMount}
  BY <1>1 DEF GoneThrough, SupportedAt
<1>3. GoneThrough \in SUBSET (1..Len(volumeMounts)) /\ \A p \in GoneThrough : p < nextMount
  BY <1>1 DEF GoneThrough
<1>4. Selects(mounts', volumeMounts, GoneThrough \cup {nextMount})
  BY <1>1, <1>3, SelectsOneMore, Zenon DEF MountInv
<1>5. Selects(mounts, volumeMounts, GoneThrough)'
  BY <1>1, <1>2, <1>4
<1>6. ASSUME NEW i \in 1..Len(mounts') PROVE IsProvided(mounts[i])'
  <2>1. mounts \in Seq(Volumes) /\ Len(mounts') = Len(mounts) + 1 /\ mounts'[Len(mounts')] = name
        /\ \A j \in 1..Len(mounts) : mounts'[j] = mounts[j]
    BY <1>1 DEF MountInv, Volume
  <2>2. CASE i = Len(mounts')
    BY <2>1, <2>2 DEF IsProvided
  <2>3. CASE i # Len(mounts')
    <3>1. i \in 1..Len(mounts) /\ mounts'[i] = mounts[i]
      BY <2>1, <2>3
    <3>2. IsProvided(mounts[i])
      BY <3>1 DEF MountInv
    <3> QED BY <1>1, <3>1, <3>2 DEF IsProvided
  <2> QED BY <2>2, <2>3
<1> QED BY <1>1, <1>5, <1>6 DEF MountInv

(* Each step of the loop keeps what has been provided; a mount is added when *)
(* its directory, and every file of a projected one, has been written.      *)
LEMMA MountInvStep == MountInv /\ [MountNext]_mountVars => MountInv'
<1> SUFFICES ASSUME MountInv, [MountNext]_mountVars PROVE MountInv'
  OBVIOUS
<1> USE DEF mountInputs
<1>1. ASSUME CreateContainerMounts PROVE MountInv'
  <2>1. mountPC = "idle" /\ mountPC' = "mounting" /\ UNCHANGED <<nextMount, nextSource, mounts, paths>>
    BY <1>1 DEF CreateContainerMounts
  <2>2. volumeMounts = <<>> /\ mounts = <<>> /\ nextMount = 1
    BY <2>1 DEF MountInv
  <2>3. volumeMounts' \in Seq(Volumes) /\ projected' \in Seq(MountMaps \cup {"token", "namespace", "fieldRef"})
    BY <1>1, MountsAssumption DEF CreateContainerMounts, ListsUpTo
  <2>4. GoneThrough = {} /\ GoneThrough' = {}
    BY <2>1, <2>2 DEF GoneThrough
  <2>5. Selects(mounts, volumeMounts, GoneThrough)'
    <3>1. Selects(<<>>, volumeMounts', {})
      BY SelectsNothing
    <3> QED BY <2>1, <2>2, <2>4, <3>1
  <2>6. nextMount' \in 1..(Len(volumeMounts') + 1) /\ nextSource' = 1 /\ Len(mounts') = 0
    BY <2>1, <2>2, <2>3 DEF MountInv
  <2> QED BY <2>1, <2>2, <2>3, <2>5, <2>6 DEF MountInv
<1>2. ASSUME Skips PROVE MountInv'
  <2>1. /\ mountPC = "mounting" /\ nextMount <= Len(volumeMounts) /\ nextMount' = nextMount + 1
        /\ ~SupportedAt(nextMount)
        /\ UNCHANGED <<volumeMounts, volumeKind, projected, extracted, nextSource, mounts, paths, mountPC>>
    BY <1>2 DEF Skips, Volume, SupportedAt
  <2>2. GoneThrough' = GoneThrough
    BY <2>1 DEF MountInv, GoneThrough, SupportedAt
  <2> QED BY <2>1, <2>2 DEF MountInv, IsProvided
<1>3. ASSUME MakesDirectory PROVE MountInv'
  <2>1. /\ mountPC = "mounting" /\ nextMount <= Len(volumeMounts) /\ SupportedAt(nextMount)
        /\ paths' = paths \cup {<<Volume>>} /\ UNCHANGED <<volumeMounts, volumeKind, projected, extracted>>
    BY <1>3 DEF MakesDirectory, Volume, SupportedAt
  <2>2. CASE volumeKind[Volume] = "projected"
    <3>1. mountPC' = "projecting" /\ UNCHANGED <<nextMount, nextSource, mounts>>
      BY <1>3, <2>2 DEF MakesDirectory
    <3>2. Volume' = Volume /\ GoneThrough' = GoneThrough
      BY <2>1, <3>1 DEF Volume, GoneThrough, SupportedAt
    <3>3. \A i \in 1..Len(mounts) : IsProvided(mounts[i])'
      BY <2>1, <3>1 DEF MountInv, IsProvided
    <3> QED BY <2>1, <2>2, <3>1, <3>2, <3>3 DEF MountInv
  <2>3. CASE volumeKind[Volume] # "projected"
    <3>1. Mounted(Volume) /\ mountPC' = "mounting"
      BY <1>3, <2>1, <2>3 DEF MakesDirectory
    <3>2. ASSUME NEW name, name = Volume PROVE IsProvided(name)'
      BY <2>1, <2>3, <3>2 DEF IsProvided
    <3> QED BY <2>1, <3>1, <3>2, AddsMount
  <2> QED BY <2>2, <2>3
<1>4. ASSUME WritesSource PROVE MountInv'
  <2> DEFINE s == projected[nextSource]
  <2>1. /\ mountPC = "projecting" /\ nextSource \in 1..Len(projected) /\ nextSource' = nextSource + 1
        /\ s \in MountMaps => s \in extracted
        /\ paths' = paths \cup IF s \in Unprovided THEN {} ELSE {<<Volume, s>>}
        /\ UNCHANGED <<volumeMounts, volumeKind, projected, extracted, nextMount, mounts, mountPC>>
    BY <1>4 DEF WritesSource, Extracted, MountInv
  <2>2. paths \subseteq paths' /\ (s # "fieldRef" => <<Volume, s>> \in paths')
    BY <2>1 DEF Unprovided
  <2>3. Volume' = Volume /\ GoneThrough' = GoneThrough
    BY <2>1 DEF Volume, GoneThrough, SupportedAt
  <2>4. \A i \in 1..Len(mounts) : IsProvided(mounts[i])'
    BY <2>1, <2>2 DEF MountInv, IsProvided
  <2>5. \A j \in 1..Len(projected) :
          j < nextSource' /\ projected[j] # "fieldRef" => <<Volume, projected[j]>> \in paths'
    <3> TAKE j \in 1..Len(projected)
    <3>1. CASE j = nextSource
      BY <2>2, <3>1
    <3>2. CASE j # nextSource
      <4>1. j < nextSource' => j < nextSource
        BY <2>1, <3>2 DEF MountInv
      <4> QED BY <2>1, <2>2, <4>1 DEF MountInv
    <3> QED BY <3>1, <3>2
  <2> QED BY <2>1, <2>2, <2>3, <2>4, <2>5 DEF MountInv
<1>5. ASSUME ProjectionEnds PROVE MountInv'
  <2>1. /\ mountPC = "projecting" /\ nextSource > Len(projected) /\ Mounted(Volume) /\ mountPC' = "mounting"
        /\ UNCHANGED <<volumeMounts, volumeKind, projected, extracted, paths>>
    BY <1>5 DEF ProjectionEnds
  <2>2. /\ nextMount <= Len(volumeMounts) /\ volumeKind[Volume] = "projected" /\ <<Volume>> \in paths
        /\ \A j \in 1..Len(projected) : projected[j] # "fieldRef" => <<Volume, projected[j]>> \in paths
    BY <2>1 DEF MountInv
  <2>3. SupportedAt(nextMount)
    BY <2>2 DEF Volume, SupportedAt
  <2>4. DOMAIN projected = 1..Len(projected)
    BY DEF MountInv
  <2>5. ASSUME NEW name, name = Volume PROVE IsProvided(name)'
    BY <2>1, <2>2, <2>4, <2>5 DEF IsProvided, Range
  <2> QED BY <2>1, <2>2, <2>3, <2>5, AddsMount
<1>6. ASSUME MountsReturn \/ MountFails \/ UNCHANGED mountVars PROVE MountInv'
  <2>1. UNCHANGED <<volumeMounts, volumeKind, projected, extracted, nextMount, nextSource, mounts, paths>>
    BY <1>6 DEF MountsReturn, MountFails, mountVars
  <2>2. Volume' = Volume /\ GoneThrough' = GoneThrough
    BY <2>1 DEF Volume, GoneThrough, SupportedAt
  <2>3. \A i \in 1..Len(mounts) : IsProvided(mounts[i])'
    BY <2>1 DEF MountInv, IsProvided
  <2> QED BY <1>6, <2>1, <2>2, <2>3 DEF MountInv, MountsReturn, MountFails, mountVars
<1> QED BY <1>1, <1>2, <1>3, <1>4, <1>5, <1>6 DEF MountNext

(* CreateContainerMounts returns the supported mounts of the container, in   *)
(* their order and each with its directory and all its files, for any        *)
(* number of mounts, volumes and sources.                                   *)
THEOREM MountsAreCompleteHolds == MountSpec => []MountsAreComplete
<1>1. ASSUME MountInv PROVE MountsAreComplete
  <2>1. DOMAIN mounts = 1..Len(mounts) /\ DOMAIN volumeMounts = 1..Len(volumeMounts)
    BY <1>1 DEF MountInv
  <2>2. mountPC = "returned" => GoneThrough = {i \in DOMAIN volumeMounts : SupportedAt(i)}
    BY <1>1, <2>1 DEF MountInv, GoneThrough
  <2> QED BY <1>1, <2>1, <2>2, Zenon DEF MountInv, MountsAreComplete, IsProvided
<1> QED BY <1>1, MountInvInit, MountInvStep, PTL DEF MountSpec

=============================================================================
