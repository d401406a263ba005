-------------------------------- MODULE VMData --------------------------------
(***************************************************************************)
(* VirtualMachineData of internal/data/vm/vmdata.go: a sync.Map and, beside  *)
(* it, an atomic counter of its entries.  Each call on the map or on the    *)
(* counter is one step.  The map is the set of keys stored and, for each,   *)
(* what is stored: the goroutines whose update the information contains.    *)
(***************************************************************************)
EXTENDS Integers, FiniteSets

CONSTANTS
  VMThreads, VMs,
  VMOverlap       \* may an update overlap other updates and removals of its key?

ASSUME VMDataAssumption ==
  /\ VMs # {}
  /\ VMOverlap \in BOOLEAN /\ IsFiniteSet(VMThreads) /\ IsFiniteSet(VMs)

VARIABLES stored, vmData, counter, vmPC, vmKey, vmInfo

vmVars == <<stored, vmData, counter, vmPC, vmKey, vmInfo>>

VMDataTypeOK ==
  /\ stored \subseteq VMs
  /\ vmData \in [VMs -> SUBSET VMThreads]
  /\ counter \in Int
  /\ vmPC \in [VMThreads -> {"idle", "incrementing", "decrementing", "updating"}]
  /\ vmKey \in [VMThreads -> VMs]
  /\ vmInfo \in [VMThreads -> SUBSET VMThreads]

VMDataInit ==
  /\ stored = {} /\ vmData = [k \in VMs |-> {}] /\ counter = 0
  /\ vmPC = [t \in VMThreads |-> "idle"]
  /\ vmKey = [t \in VMThreads |-> CHOOSE k \in VMs : TRUE] /\ vmInfo = [t \in VMThreads |-> {}]

Updating(k) == {t \in VMThreads : vmPC[t] = "updating" /\ vmKey[t] = k}
Goes(t, where) == vmPC' = [vmPC EXCEPT ![t] = where]

\* A plausible slip: Load, then Store, in place of LoadOrStore.
StoreAnyway(k) == {}

LoadOrStore(k) == IF k \in stored THEN vmData[k] ELSE {}

\* GetOrCreateVirtualMachineInfo: LoadOrStore; a new entry is counted next.
GetOrCreate(t, k) ==
  /\ vmPC[t] = "idle"
  /\ vmData' = [vmData EXCEPT ![k] = LoadOrStore(k)]
  /\ stored' = stored \cup {k}
  /\ Goes(t, IF k \in stored THEN "idle" ELSE "incrementing")
  /\ UNCHANGED <<counter, vmKey, vmInfo>>

IncrementCount(t) ==
  /\ vmPC[t] = "incrementing" /\ Goes(t, "idle")
  /\ counter' = counter + 1
  /\ UNCHANGED <<stored, vmData, vmKey, vmInfo>>

\* A plausible slip: the count goes down although there was no entry.
VMFoundAnyway(k) == TRUE

VMFound(k) == k \in stored

\* RemoveVirtualMachineInfo: LoadAndDelete; a deleted entry is counted next.
RemoveVirtualMachineInfo(t, k) ==
  /\ vmPC[t] = "idle" /\ VMFound(k)
  /\ VMOverlap \/ Updating(k) = {}
  /\ stored' = stored \ {k} /\ vmData' = [vmData EXCEPT ![k] = {}]
  /\ Goes(t, "decrementing")
  /\ UNCHANGED <<counter, vmKey, vmInfo>>

DecrementCount(t) ==
  /\ vmPC[t] = "decrementing" /\ Goes(t, "idle")
  /\ counter' = counter - 1
  /\ UNCHANGED <<stored, vmData, vmKey, vmInfo>>

\* UpdateVirtualMachineInfo: Load, the callback, Store.
UpdateLoads(t, k) ==
  /\ vmPC[t] = "idle" /\ k \in stored
  /\ VMOverlap \/ Updating(k) = {}
  /\ Goes(t, "updating")
  /\ vmKey' = [vmKey EXCEPT ![t] = k] /\ vmInfo' = [vmInfo EXCEPT ![t] = vmData[k]]
  /\ UNCHANGED <<stored, vmData, counter>>

UpdateStores(t) ==
  /\ vmPC[t] = "updating" /\ Goes(t, "idle")
  /\ vmData' = [vmData EXCEPT ![vmKey[t]] = vmInfo[t] \cup {t}]
  /\ stored' = stored \cup {vmKey[t]}
  /\ vmInfo' = [vmInfo EXCEPT ![t] = {}]
  /\ UNCHANGED <<counter, vmKey>>

VMDataNext ==
  \E t \in VMThreads :
    \/ \E k \in VMs : GetOrCreate(t, k) \/ RemoveVirtualMachineInfo(t, k) \/ UpdateLoads(t, k)
    \/ IncrementCount(t) \/ DecrementCount(t) \/ UpdateStores(t)

VMDataSpec == VMDataInit /\ [][VMDataNext]_vmVars

-----------------------------------------------------------------------------
Pending(where) == Cardinality({t \in VMThreads : vmPC[t] = where})

\* The counter differs from the number of entries by exactly the calls that
\* are between their step on the map and their step on the counter: it may be
\* off, and even negative, meanwhile, and never drifts.
CounterFollows ==
  counter + Pending("incrementing") - Pending("decrementing") = Cardinality(stored)

\* What an update has written stays until the machine is removed: creating
\* the entry again, or another update, loses nothing of it.
UpdatesAreKept ==
  [][\A k \in stored \cap stored' : vmData[k] \subseteq vmData'[k]]_vmVars

=============================================================================
