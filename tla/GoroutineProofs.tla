--------------------------- MODULE GoroutineProofs ---------------------------
(***************************************************************************)
(* Goroutines that share state, for any number of them and every order of    *)
(* their steps.  The two in-memory stores of the resource manager: the       *)
(* counter and the contents of VirtualMachineData, if updates do not         *)
(* overlap, and the properties of ContainerData.  Start-up, where run waits  *)
(* for the node it has started.  The SSH dial and the SSH session.           *)
(***************************************************************************)
EXTENDS VMData, ContainerData, Startup, SSHDial, SSHSession, FiniteSetTheorems, TLAPS

\* In a module of this size a leaf waits longer than it is worked on.
USE SMTT(30), ZenonT(30), Z3T(30)

Waiting(where) == {t \in VMThreads : vmPC[t] = where}

(* An update under way owns its entry: the entry stays, and holds what the  *)
(* update has loaded.                                                       *)
UpdateInv ==
  \A t \in VMThreads : vmPC[t] = "updating" =>
    /\ vmKey[t] \in stored /\ vmInfo[t] = vmData[vmKey[t]]
    /\ \A u \in VMThreads : vmPC[u] = "updating" /\ vmKey[u] = vmKey[t] => u = t

VMInv == VMDataTypeOK /\ UpdateInv /\ CounterFollows

-----------------------------------------------------------------------------
(* The sets that are counted are finite.                                    *)
LEMMA Finite ==
  ASSUME VMDataTypeOK
  PROVE  /\ IsFiniteSet(stored) /\ Cardinality(stored) \in Nat
         /\ \A w : IsFiniteSet(Waiting(w)) /\ Cardinality(Waiting(w)) \in Nat
<1>1. IsFiniteSet(stored) /\ Cardinality(stored) \in Nat
  BY VMDataAssumption, FS_Subset, FS_CardinalityType DEF VMDataTypeOK
<1>2. ASSUME NEW w PROVE IsFiniteSet(Waiting(w)) /\ Cardinality(Waiting(w)) \in Nat
  <2>1. Waiting(w) \in SUBSET VMThreads
    BY DEF Waiting
  <2> QED BY <2>1, VMDataAssumption, FS_Subset, FS_CardinalityType
<1> QED BY <1>1, <1>2

\* It holds for the empty map.
LEMMA VMInvInit == VMDataInit => VMInv
<1> SUFFICES ASSUME VMDataInit PROVE VMInv
  OBVIOUS
<1>1. VMDataTypeOK
  <2>1. (CHOOSE k \in VMs : TRUE) \in VMs
    BY VMDataAssumption
  <2> QED BY <2>1 DEF VMDataInit, VMDataTypeOK
<1>2. UpdateInv
  BY DEF VMDataInit, UpdateInv
<1>3. Waiting("incrementing") = {} /\ Waiting("decrementing") = {}
  BY DEF VMDataInit, Waiting
<1>4. CounterFollows
  BY <1>3, FS_EmptySet DEF VMDataInit, CounterFollows, Pending, Waiting
<1> QED BY <1>1, <1>2, <1>4 DEF VMInv

(* Every variable keeps its type, and updates own their entries.            *)
LEMMA TypeAndUpdateStep ==
  ASSUME ~VMOverlap, VMDataTypeOK, UpdateInv, [VMDataNext]_vmVars
  PROVE  VMDataTypeOK' /\ UpdateInv'
<1> USE DEF VMDataTypeOK, UpdateInv, Goes
<1>1. ASSUME NEW t \in VMThreads, NEW k \in VMs, GetOrCreate(t, k)
      PROVE  VMDataTypeOK' /\ UpdateInv'
  BY <1>1 DEF GetOrCreate, LoadOrStore
<1>2. ASSUME NEW t \in VMThreads, NEW k \in VMs, RemoveVirtualMachineInfo(t, k)
      PROVE  VMDataTypeOK' /\ UpdateInv'
  BY <1>2 DEF RemoveVirtualMachineInfo, Updating, VMFound
<1>3. ASSUME NEW t \in VMThreads, NEW k \in VMs, UpdateLoads(t, k)
      PROVE  VMDataTypeOK' /\ UpdateInv'
  BY <1>3 DEF UpdateLoads, Updating
<1>4. ASSUME NEW t \in VMThreads, IncrementCount(t) PROVE VMDataTypeOK' /\ UpdateInv'
  BY <1>4 DEF IncrementCount
<1>5. ASSUME NEW t \in VMThreads, DecrementCount(t) PROVE VMDataTypeOK' /\ UpdateInv'
  BY <1>5 DEF DecrementCount
<1>6. ASSUME NEW t \in VMThreads, UpdateStores(t) PROVE VMDataTypeOK' /\ UpdateInv'
  BY <1>6 DEF UpdateStores
<1>7. ASSUME UNCHANGED vmVars PROVE VMDataTypeOK' /\ UpdateInv'
  BY <1>7 DEF vmVars
<1> QED BY <1>1, <1>2, <1>3, <1>4, <1>5, <1>6, <1>7 DEF VMDataNext

(* A goroutine that goes elsewhere leaves one of the counted sets or joins  *)
(* it.                                                                      *)
LEMMA Moves ==
  ASSUME VMDataTypeOK, NEW t \in VMThreads, NEW from, NEW to, from # to, vmPC[t] = from, Goes(t, to)
  PROVE  /\ Waiting(to)' = Waiting(to) \cup {t} /\ t \notin Waiting(to)
         /\ Waiting(from)' = Waiting(from) \ {t} /\ t \in Waiting(from)
         /\ \A w : w \notin {from, to} => Waiting(w)' = Waiting(w)
BY DEF VMDataTypeOK, Waiting, Goes

\* Every step keeps the counter and the entries in line.
LEMMA CounterStep ==
  ASSUME ~VMOverlap, VMInv, [VMDataNext]_vmVars
  PROVE  CounterFollows'
<1> DEFINE I == Waiting("incrementing")
           D == Waiting("decrementing")
<1>0. VMDataTypeOK /\ counter + Cardinality(I) - Cardinality(D) = Cardinality(stored)
  BY DEF VMInv, CounterFollows, Pending, Waiting
<1> SUFFICES counter' + Cardinality(I') - Cardinality(D') = Cardinality(stored')
  BY DEF CounterFollows, Pending, Waiting
<1>f. /\ IsFiniteSet(stored) /\ Cardinality(stored) \in Nat /\ counter \in Int
      /\ IsFiniteSet(I) /\ Cardinality(I) \in Nat /\ IsFiniteSet(D) /\ Cardinality(D) \in Nat
  BY <1>0, Finite DEF VMDataTypeOK
<1>1. ASSUME NEW t \in VMThreads, NEW k \in VMs, GetOrCreate(t, k)
      PROVE  counter' + Cardinality(I') - Cardinality(D') = Cardinality(stored')
  <2>1. CASE k \in stored
    <3>1. stored' = stored /\ vmPC' = vmPC /\ counter' = counter
      BY <1>0, <1>1, <2>1 DEF GetOrCreate, Goes, VMDataTypeOK
    <3>2. I' = I /\ D' = D
      BY <3>1 DEF Waiting
    <3> HIDE DEF I, D
    <3> QED BY <1>0, <3>1, <3>2
  <2>2. CASE k \notin stored
    <3>1. vmPC[t] = "idle" /\ Goes(t, "incrementing") /\ stored' = stored \cup {k} /\ counter' = counter
      BY <1>1, <2>2 DEF GetOrCreate
    <3>2. I' = I \cup {t} /\ t \notin I /\ D' = D
      BY <1>0, <3>1, Moves
    <3> HIDE DEF I, D
    <3>3. Cardinality(I') = Cardinality(I) + 1 /\ Cardinality(stored') = Cardinality(stored) + 1
      BY <1>f, <2>2, <3>1, <3>2, FS_AddElement, Zenon
    <3> QED BY <1>0, <1>f, <3>1, <3>2, <3>3
  <2> QED BY <2>1, <2>2
<1>2. ASSUME NEW t \in VMThreads, NEW k \in VMs, RemoveVirtualMachineInfo(t, k)
      PROVE  counter' + Cardinality(I') - Cardinality(D') = Cardinality(stored')
  <2>1. /\ vmPC[t] = "idle" /\ Goes(t, "decrementing") /\ k \in stored
        /\ stored' = stored \ {k} /\ counter' = counter
    BY <1>2 DEF RemoveVirtualMachineInfo, VMFound
  <2>2. D' = D \cup {t} /\ t \notin D /\ I' = I
    BY <1>0, <2>1, Moves
  <2> HIDE DEF I, D
  <2>3. Cardinality(D') = Cardinality(D) + 1 /\ Cardinality(stored') = Cardinality(stored) - 1
    BY <1>f, <2>1, <2>2, FS_AddElement, FS_RemoveElement, Zenon
  <2> QED BY <1>0, <1>f, <2>1, <2>2, <2>3
<1>3. ASSUME NEW t \in VMThreads, NEW k \in VMs, UpdateLoads(t, k)
      PROVE  counter' + Cardinality(I') - Cardinality(D') = Cardinality(stored')
  <2>1. vmPC[t] = "idle" /\ Goes(t, "updating") /\ stored' = stored /\ counter' = counter
    BY <1>3 DEF UpdateLoads
  <2>2. I' = I /\ D' = D
    BY <1>0, <2>1, Moves
  <2> HIDE DEF I, D
  <2> QED BY <1>0, <2>1, <2>2
<1>4. ASSUME NEW t \in VMThreads, IncrementCount(t)
      PROVE  counter' + Cardinality(I') - Cardinality(D') = Cardinality(stored')
  <2>1. /\ vmPC[t] = "incrementing" /\ Goes(t, "idle")
        /\ stored' = stored /\ counter' = counter + 1
    BY <1>4 DEF IncrementCount
  <2>2. I' = I \ {t} /\ t \in I /\ D' = D
    BY <1>0, <2>1, Moves
  <2> HIDE DEF I, D
  <2>3. Cardinality(I') = Cardinality(I) - 1
    BY <1>f, <2>2, FS_RemoveElement, Zenon
  <2> QED BY <1>0, <1>f, <2>1, <2>2, <2>3
<1>5. ASSUME NEW t \in VMThreads, DecrementCount(t)
      PROVE  counter' + Cardinality(I') - Cardinality(D') = Cardinality(stored')
  <2>1. /\ vmPC[t] = "decrementing" /\ Goes(t, "idle")
        /\ stored' = stored /\ counter' = counter - 1
    BY <1>5 DEF DecrementCount
  <2>2. D' = D \ {t} /\ t \in D /\ I' = I
    BY <1>0, <2>1, Moves
  <2> HIDE DEF I, D
  <2>3. Cardinality(D') = Cardinality(D) - 1
    BY <1>f, <2>2, FS_RemoveElement, Zenon
  <2> QED BY <1>0, <1>f, <2>1, <2>2, <2>3
<1>6. ASSUME NEW t \in VMThreads, UpdateStores(t)
      PROVE  counter' + Cardinality(I') - Cardinality(D') = Cardinality(stored')
  <2>1. vmPC[t] = "updating" /\ Goes(t, "idle") /\ stored' = stored /\ counter' = counter
    BY <1>6 DEF UpdateStores, VMInv, UpdateInv
  <2>2. I' = I /\ D' = D
    BY <1>0, <2>1, Moves
  <2> HIDE DEF I, D
  <2> QED BY <1>0, <2>1, <2>2
<1>7. ASSUME UNCHANGED vmVars
      PROVE  counter' + Cardinality(I') - Cardinality(D') = Cardinality(stored')
  <2>1. I' = I /\ D' = D /\ counter' = counter /\ stored' = stored
    BY <1>7 DEF vmVars, Waiting
  <2> HIDE DEF I, D
  <2> QED BY <1>0, <2>1
<1> QED BY <1>1, <1>2, <1>3, <1>4, <1>5, <1>6, <1>7 DEF VMDataNext

(* The inductive invariant of VirtualMachineData.                           *)
THEOREM VMInvariance ==
  ASSUME ~VMOverlap
  PROVE  VMDataSpec => []VMInv
<1>1. VMInv /\ [VMDataNext]_vmVars => VMInv'
  BY TypeAndUpdateStep, CounterStep DEF VMInv
<1> QED BY VMInvInit, <1>1, PTL DEF VMDataSpec

-----------------------------------------------------------------------------
(* The counter never drifts from the number of machines stored, whatever    *)
(* calls of GetOrCreate and Remove interleave.                              *)
THEOREM CounterFollowsHolds ==
  ASSUME ~VMOverlap
  PROVE  VMDataSpec => []CounterFollows
<1>1. VMInv => CounterFollows
  BY DEF VMInv
<1> QED BY <1>1, VMInvariance, PTL

(* What UpdateVirtualMachineInfo has written stays until the machine is     *)
(* removed.                                                                 *)
THEOREM UpdatesAreKeptHolds ==
  ASSUME ~VMOverlap
  PROVE  VMDataSpec => UpdatesAreKept
<1> DEFINE Kept == \A k \in stored \cap stored' : vmData[k] \subseteq vmData'[k]
<1>1. VMInv /\ [VMDataNext]_vmVars => [Kept]_vmVars
  <2> SUFFICES ASSUME VMInv, VMDataNext PROVE Kept
    OBVIOUS
  <2> USE DEF VMInv, VMDataTypeOK
  <2>1. ASSUME NEW t \in VMThreads, NEW k \in VMs, GetOrCreate(t, k) PROVE Kept
    BY <2>1 DEF GetOrCreate, LoadOrStore
  <2>2. ASSUME NEW t \in VMThreads, NEW k \in VMs, RemoveVirtualMachineInfo(t, k) PROVE Kept
    BY <2>2 DEF RemoveVirtualMachineInfo
  <2>3. ASSUME NEW t \in VMThreads, NEW k \in VMs, UpdateLoads(t, k) PROVE Kept
    BY <2>3 DEF UpdateLoads
  <2>4. ASSUME NEW t \in VMThreads, IncrementCount(t) \/ DecrementCount(t) PROVE Kept
    BY <2>4 DEF IncrementCount, DecrementCount
  <2>5. ASSUME NEW t \in VMThreads, UpdateStores(t) PROVE Kept
    BY <2>5 DEF UpdateStores, UpdateInv
  <2> QED BY <2>1, <2>2, <2>3, <2>4, <2>5 DEF VMDataNext
<1>2. VMInv /\ [VMDataNext]_vmVars => [\A k \in stored \cap stored' : vmData[k] \subseteq vmData'[k]]_vmVars
  BY <1>1
<1> QED BY <1>2, VMInvariance, PTL DEF VMDataSpec, UpdatesAreKept

-----------------------------------------------------------------------------
AccessType ==
  [op : {"none", "remove", "get"} \cup Storing, pod : Pods \cup {Nil}, map : Maps \cup {Nil},
   name : Names \cup {Nil}, seen : SUBSET Names, result : [Names -> Threads \cup {Nil}]]

ContainerTypeInv ==
  /\ podMaps \in [Pods -> Maps \cup {Nil}]
  /\ infos \in [Maps -> [Names -> Threads \cup {Nil}]]
  /\ access \in [Threads -> AccessType]

(* A call that is under way has a map; one that stores has a name and a pod. *)
AccessInv ==
  \A t \in Threads :
    /\ access[t].op # "none" => access[t].map \in Maps
    /\ access[t].op \in Storing => access[t].name \in Names /\ access[t].pod \in Pods

(* No two pods share an inner map.                                          *)
OwnMaps == \A j, k \in Pods : podMaps[j] # Nil /\ podMaps[j] = podMaps[k] => j = k

(* If stores and removals do not overlap, a store works on its pod's map.    *)
StoresHitTable ==
  \A t \in Threads : access[t].op \in Storing => podMaps[access[t].pod] = access[t].map

ContainerInv ==
  /\ ContainerTypeInv /\ AccessInv /\ OwnMaps /\ RemovedOnce
  /\ ~ContainerOverlap => StoresHitTable

-----------------------------------------------------------------------------
\* The invariant holds for empty maps.
LEMMA ContainerInvInit == ContainerInit => ContainerInv
BY DEF ContainerInit, ContainerInv, ContainerTypeInv, AccessType, AccessInv, OwnMaps, RemovedOnce, StoresHitTable, NoAccess, Empty,
       Storing

(* What a call that begins looks like.                                      *)
LEMMA BeginsIs ==
  ASSUME ContainerTypeInv, NEW t \in Threads, NEW operation \in {"remove", "get"} \cup Storing,
         NEW k \in Pods, NEW m \in Maps, NEW n \in Names \cup {Nil}, AccessBegins(t, operation, k, m, n)
  PROVE  /\ access' \in [Threads -> AccessType]
         /\ access'[t].op = operation /\ access'[t].pod = k /\ access'[t].map = m /\ access'[t].name = n
         /\ \A u \in Threads \ {t} : access'[u] = access[u]
BY Zenon DEF ContainerTypeInv, AccessType, AccessBegins, NoAccess, Empty

(* What a call that has ended looks like.                                   *)
LEMMA EndsIs ==
  ASSUME ContainerTypeInv, NEW t \in Threads, access' = [access EXCEPT ![t] = NoAccess]
  PROVE  /\ access' \in [Threads -> AccessType]
         /\ access'[t].op = "none" /\ access'[t].map = Nil
         /\ \A u \in Threads \ {t} : access'[u] = access[u]
BY DEF ContainerTypeInv, AccessType, NoAccess, Empty

(* One step preserves the invariant.                                        *)
LEMMA ContainerInvStep == ContainerInv /\ [ContainerNext]_containerVars => ContainerInv'
<1> SUFFICES ASSUME ContainerInv, [ContainerNext]_containerVars PROVE ContainerInv'
  OBVIOUS
<1> USE ContainerDataAssumption
<1>0. ContainerTypeInv /\ AccessInv /\ OwnMaps /\ RemovedOnce /\ (~ContainerOverlap => StoresHitTable)
  BY DEF ContainerInv
<1>1. ASSUME NEW t \in Threads, NEW k \in Pods, NEW n \in Names, NEW m \in Maps,
             NEW operation \in Storing, StoreLoads(t, operation, k, n, m)
      PROVE  ContainerInv'
  <2> DEFINE val == OuterLoadOrStore(k, m)
  <2>1. /\ val \in Maps /\ m \in Free /\ access[t].op = "none"
        /\ podMaps' = [podMaps EXCEPT ![k] = val]
        /\ podMaps[k] = Nil => val = m
        /\ podMaps[k] # Nil => val = podMaps[k]
        /\ AccessBegins(t, operation, k, val, n)
    BY <1>0, <1>1 DEF StoreLoads, OuterLoadOrStore, ContainerTypeInv
  <2> HIDE DEF val
  <2>2. infos' \in [Maps -> [Names -> Threads \cup {Nil}]]
    BY <1>0, <1>1 DEF StoreLoads, ContainerTypeInv, Empty
  <2>3. /\ access' \in [Threads -> AccessType]
        /\ access'[t].op = operation /\ access'[t].pod = k /\ access'[t].map = val /\ access'[t].name = n
        /\ \A u \in Threads \ {t} : access'[u] = access[u]
    BY <1>0, <2>1, BeginsIs
  <2>4. ContainerTypeInv'
    BY <1>0, <2>1, <2>2, <2>3 DEF ContainerTypeInv
  <2>5. AccessInv'
    BY <1>0, <2>1, <2>3 DEF AccessInv
  <2>6. \A j \in Pods : podMaps[j] # m
    BY <2>1 DEF Free
  <2>7. OwnMaps'
    BY <1>0, <2>1, <2>6 DEF OwnMaps, ContainerTypeInv
  <2>8. \A u \in Threads : access[u].map # m
    BY <2>1 DEF Free
  <2>9. RemovedOnce'
    <3>1. ASSUME NEW u \in Threads, access'[u].op = "remove" PROVE u # t /\ access'[u] = access[u]
      BY <2>3, <3>1 DEF Storing
    <3>2. ASSUME NEW u \in Threads, access[u].op = "remove", NEW j \in Pods
          PROVE  podMaps'[j] # access[u].map
      BY <1>0, <2>1, <2>8, <3>2 DEF RemovedOnce, ContainerTypeInv
    <3> QED BY <1>0, <3>1, <3>2 DEF RemovedOnce
  <2>10. ASSUME ~ContainerOverlap PROVE StoresHitTable'
    <3>1. ASSUME NEW u \in Threads, u # t, access[u].op \in Storing
          PROVE  podMaps'[access[u].pod] = access[u].map
      BY <1>0, <2>1, <2>10, <3>1 DEF StoresHitTable, AccessInv, ContainerTypeInv, Storing
    <3>2. podMaps'[access'[t].pod] = access'[t].map
      BY <1>0, <2>1, <2>3 DEF ContainerTypeInv
    <3> QED BY <2>3, <3>1, <3>2 DEF StoresHitTable
  <2> QED BY <2>4, <2>5, <2>7, <2>9, <2>10 DEF ContainerInv
<1>2. ASSUME NEW t \in Threads, NEW k \in Pods, RemoveAll(t, k) PROVE ContainerInv'
  <2>1. /\ podMaps[k] \in Maps /\ podMaps' = [podMaps EXCEPT ![k] = Nil] /\ infos' = infos
        /\ access[t].op = "none" /\ AccessBegins(t, "remove", k, podMaps[k], Nil)
    BY <1>0, <1>2 DEF RemoveAll, Deleted, ContainerTypeInv
  <2>2. /\ access' \in [Threads -> AccessType]
        /\ access'[t].op = "remove" /\ access'[t].map = podMaps[k]
        /\ \A u \in Threads \ {t} : access'[u] = access[u]
    BY <1>0, <2>1, BeginsIs
  <2>3. ContainerTypeInv' /\ OwnMaps'
    BY <1>0, <2>1, <2>2 DEF ContainerTypeInv, OwnMaps
  <2>4. AccessInv'
    BY <1>0, <2>1, <2>2 DEF AccessInv, Storing
  <2>5. RemovedOnce'
    <3>1. ASSUME NEW u \in Threads, access'[u].op = "remove", NEW j \in Pods
          PROVE  podMaps'[j] # access'[u].map
      <4>1. CASE u = t
        BY <1>0, <2>1, <2>2, <4>1 DEF OwnMaps, ContainerTypeInv
      <4>2. CASE u # t
        BY <1>0, <2>1, <2>2, <3>1, <4>2 DEF RemovedOnce, AccessInv, ContainerTypeInv
      <4> QED BY <4>1, <4>2
    <3>2. ASSUME NEW u \in Threads, NEW v \in Threads \ {u},
                 access'[u].op = "remove", access'[v].op = "remove"
          PROVE  access'[u].map # access'[v].map
      BY <1>0, <2>2, <3>2 DEF RemovedOnce
    <3> QED BY <3>1, <3>2 DEF RemovedOnce
  <2>6. ASSUME ~ContainerOverlap PROVE StoresHitTable'
    <3>1. \A u \in Threads : access[u].op \in Storing => access[u].pod # k
      BY <1>2, <2>6 DEF RemoveAll, Active
    <3> QED BY <1>0, <2>1, <2>2, <2>6, <3>1 DEF StoresHitTable, AccessInv, Storing, ContainerTypeInv
  <2> QED BY <2>3, <2>4, <2>5, <2>6 DEF ContainerInv
<1>3. ASSUME NEW t \in Threads, NEW k \in Pods, GetAll(t, k) PROVE ContainerInv'
  <2>1. /\ podMaps[k] \in Maps /\ podMaps' = podMaps /\ infos' = infos
        /\ access[t].op = "none" /\ AccessBegins(t, "get", k, podMaps[k], Nil)
    BY <1>0, <1>3 DEF GetAll, ContainerTypeInv
  <2>2. /\ access' \in [Threads -> AccessType]
        /\ access'[t].op = "get" /\ access'[t].map = podMaps[k]
        /\ \A u \in Threads \ {t} : access'[u] = access[u]
    BY <1>0, <2>1, BeginsIs
  <2> QED BY <1>0, <2>1, <2>2
      DEF ContainerInv, ContainerTypeInv, AccessInv, OwnMaps, RemovedOnce, StoresHitTable, Storing
<1>4. ASSUME NEW t \in Threads, StoreStores(t) PROVE ContainerInv'
  <2>1. access' = [access EXCEPT ![t] = NoAccess] /\ podMaps' = podMaps
    BY <1>4 DEF StoreStores
  <2>2. /\ access' \in [Threads -> AccessType]
        /\ access'[t].op = "none"
        /\ \A u \in Threads \ {t} : access'[u] = access[u]
    BY <1>0, <2>1, EndsIs, Zenon
  <2>3. infos' \in [Maps -> [Names -> Threads \cup {Nil}]]
    BY <1>0, <1>4, ZenonT(30) DEF StoreStores, InnerValue, ContainerTypeInv, AccessInv
  <2> QED BY <1>0, <2>1, <2>2, <2>3
      DEF ContainerInv, ContainerTypeInv, AccessInv, OwnMaps, RemovedOnce, StoresHitTable, Storing
<1>5. ASSUME NEW t \in Threads, NEW n \in Names, RangeVisits(t, n) PROVE ContainerInv'
  <2>1. /\ podMaps' = podMaps /\ infos' = infos
        /\ access' = [access EXCEPT ![t].seen = @ \cup {n}, ![t].result[n] = infos[access[t].map][n]]
        /\ access[t].op \in {"remove", "get"}
    BY <1>5 DEF RangeVisits
  <2> DEFINE found == infos[access[t].map][n]
             visited == [access[t] EXCEPT !.seen = @ \cup {n}, !.result[n] = found]
  <2>a. found \in Threads \cup {Nil} /\ access[t] \in AccessType
    BY <1>0, <2>1 DEF ContainerTypeInv, AccessInv
  <2>b. /\ visited \in AccessType
        /\ visited.op = access[t].op /\ visited.map = access[t].map
        /\ visited.pod = access[t].pod /\ visited.name = access[t].name
    <3> HIDE DEF found
    <3> QED BY <2>a, Zenon DEF AccessType
  <2>c. access' = [access EXCEPT ![t] = visited]
    BY <1>0, <2>1, <2>a, Zenon DEF ContainerTypeInv, AccessType
  <2>2. /\ access' \in [Threads -> AccessType]
        /\ \A u \in Threads : /\ access'[u].op = access[u].op /\ access'[u].map = access[u].map
                              /\ access'[u].pod = access[u].pod /\ access'[u].name = access[u].name
    <3> HIDE DEF visited
    <3> QED BY <1>0, <2>b, <2>c DEF ContainerTypeInv
  <2> QED BY <1>0, <2>1, <2>2
      DEF ContainerInv, ContainerTypeInv, AccessInv, OwnMaps, RemovedOnce, StoresHitTable
<1>6. ASSUME NEW t \in Threads, RangeReturns(t) PROVE ContainerInv'
  <2>1. access' = [access EXCEPT ![t] = NoAccess] /\ podMaps' = podMaps /\ infos' = infos
    BY <1>6 DEF RangeReturns
  <2>2. /\ access' \in [Threads -> AccessType]
        /\ access'[t].op = "none"
        /\ \A u \in Threads \ {t} : access'[u] = access[u]
    BY <1>0, <2>1, EndsIs, Zenon
  <2> QED BY <1>0, <2>1, <2>2
      DEF ContainerInv, ContainerTypeInv, AccessInv, OwnMaps, RemovedOnce, StoresHitTable, Storing
<1>7. ASSUME UNCHANGED containerVars PROVE ContainerInv'
  BY <1>0, <1>7 DEF containerVars, ContainerInv, ContainerTypeInv, AccessInv, OwnMaps, RemovedOnce, StoresHitTable
<1> QED BY <1>1, <1>2, <1>3, <1>4, <1>5, <1>6, <1>7 DEF ContainerNext

\* The inductive invariant of the nested maps holds in every reachable state.
THEOREM ContainerInvariance == ContainerSpec => []ContainerInv
BY ContainerInvInit, ContainerInvStep, PTL DEF ContainerSpec

-----------------------------------------------------------------------------
(* RemoveAllContainerInfo hands the containers of a pod to one caller only,  *)
(* also if stores overlap it.                                               *)
THEOREM RemovedOnceHolds == ContainerSpec => []RemovedOnce
<1>1. ContainerInv => RemovedOnce
  BY DEF ContainerInv
<1> QED BY <1>1, ContainerInvariance, PTL

(* What is stored about a container is replaced by SetContainerInfo or      *)
(* removed with its pod, and lost in no other way.                          *)
THEOREM InfosAreKeptHolds == ContainerSpec => InfosAreKept
<1> DEFINE Kept ==
      \A k \in Pods, n \in Names : GetContainerInfo(k, n) # Nil =>
        \/ GetContainerInfo(k, n)' = GetContainerInfo(k, n)
        \/ podMaps'[k] = Nil
        \/ \E t \in Threads : access[t].op = "set" /\ GetContainerInfo(k, n)' = t
<1>1. ContainerInv /\ [ContainerNext]_containerVars => [Kept]_containerVars
  <2> SUFFICES ASSUME ContainerInv, ContainerNext PROVE Kept
    OBVIOUS
  <2> USE ContainerDataAssumption DEF GetContainerInfo
  <2>0. ContainerTypeInv /\ AccessInv
    BY DEF ContainerInv
  <2>1. ASSUME NEW t \in Threads, NEW j \in Pods, NEW o \in Names, NEW m \in Maps,
               NEW operation \in Storing, StoreLoads(t, operation, j, o, m)
        PROVE  Kept
    <3>1. \A k \in Pods : podMaps[k] # m
      BY <2>1 DEF StoreLoads, Free
    <3>2. ASSUME NEW k \in Pods, podMaps[k] # Nil PROVE podMaps'[k] = podMaps[k]
      BY <2>0, <2>1, <3>2 DEF StoreLoads, OuterLoadOrStore, ContainerTypeInv
    <3>3. ASSUME NEW k \in Pods, podMaps[k] # Nil PROVE infos'[podMaps[k]] = infos[podMaps[k]]
      BY <2>0, <2>1, <3>1, <3>3 DEF StoreLoads, ContainerTypeInv
    <3> QED BY <3>2, <3>3
  <2>2. ASSUME NEW t \in Threads, NEW j \in Pods, RemoveAll(t, j) PROVE Kept
    BY <2>0, <2>2 DEF RemoveAll, Deleted, ContainerTypeInv
  <2>3. ASSUME NEW t \in Threads, NEW j \in Pods, GetAll(t, j) PROVE Kept
    BY <2>3 DEF GetAll
  <2>4. ASSUME NEW t \in Threads, StoreStores(t) PROVE Kept
    <3> DEFINE c == access[t]
    <3>1. /\ c.op \in Storing /\ c.map \in Maps /\ c.name \in Names /\ podMaps' = podMaps
          /\ infos' = [infos EXCEPT ![c.map][c.name] = InnerValue(c, t)]
      BY <2>0, <2>4 DEF StoreStores, AccessInv, Storing
    <3>2. ASSUME NEW n \in Names, NEW k \in Pods, podMaps[k] # Nil
          PROVE  infos'[podMaps[k]][n] = IF podMaps[k] = c.map /\ n = c.name THEN InnerValue(c, t)
                                      ELSE infos[podMaps[k]][n]
      <4> HIDE DEF c
      <4> QED BY <2>0, <3>1, <3>2 DEF ContainerTypeInv
    <3>3. c.op = "set" \/ infos[c.map][c.name] = Nil \/ InnerValue(c, t) = infos[c.map][c.name]
      BY <3>1 DEF InnerValue, Storing
    <3>4. InnerValue(c, t) = t \/ InnerValue(c, t) = infos[c.map][c.name]
      BY DEF InnerValue
    <3> QED BY <3>1, <3>2, <3>3, <3>4
  <2>5. ASSUME NEW t \in Threads, NEW n \in Names, RangeVisits(t, n) PROVE Kept
    BY <2>5 DEF RangeVisits
  <2>6. ASSUME NEW t \in Threads, RangeReturns(t) PROVE Kept
    BY <2>6 DEF RangeReturns
  <2> QED BY <2>1, <2>2, <2>3, <2>4, <2>5, <2>6, Zenon DEF ContainerNext
<1> QED BY <1>1, ContainerInvariance, PTL DEF ContainerSpec, InfosAreKept

(* If stores and removals of a pod do not overlap, what SetContainerInfo or  *)
(* GetOrCreateContainerInfo has stored is in the map when it returns.       *)
THEOREM StoredIsKnownHolds ==
  ASSUME ~ContainerOverlap
  PROVE  ContainerSpec => StoredIsKnown
<1> DEFINE Known ==
      \A t \in Threads : access[t].op \in Storing /\ access'[t].op = "none" =>
        \/ podMaps[access[t].pod] = access[t].map
        \/ \E u \in Threads : /\ access[u].op = "remove" /\ access[u].map = access[t].map
                              /\ access[t].name \notin access[u].seen
<1>1. ContainerInv /\ [ContainerNext]_containerVars => [Known]_containerVars
  BY DEF ContainerInv, StoresHitTable
<1> QED BY <1>1, ContainerInvariance, PTL DEF ContainerSpec, StoredIsKnown

-----------------------------------------------------------------------------
(* Startup: what run has checked by the time it is at each of its steps, and *)
(* what the node has returned by the time run looks at it.                  *)

Started == {"selecting", "readying", "finishing"}

RateChecked == runPC \in {"options", "provider", "starting"} \cup Started => config.rate \in 0..100

TaintSet ==
  runPC \in {"provider", "starting"} \cup Started => taint = IF config.disableTaint THEN "none" ELSE config.effect

PlatformChecked == runPC \in {"starting"} \cup Started => config.platform = "darwin" /\ config.port # "text"

NodeFollowsRun ==
  /\ runPC \in {"parsing", "tracing", "options", "provider", "starting", "returned"} \cup Started
  /\ node \in {"none", "running", "done"}
  /\ node # "none" => runPC \in Started \cup {"returned"}
  /\ runPC # "returned" => exitStatus = "none"

ErrorFollowsNode ==
  /\ node # "done" => nodeErr = "none"
  /\ node = "done" => nodeErr \in {"nil", "canceled", "failed"}
  /\ nodeErr = "canceled" => interrupted

StartupInv ==
  /\ NodeFollowsRun /\ ErrorFollowsNode
  /\ RateChecked /\ TaintSet /\ PlatformChecked
  /\ NodeIsConfigured /\ FailureIsReported

\* Before the flags are read there is no node and no exit.
LEMMA StartupInvInit == StartupInit => StartupInv
BY Zenon DEF StartupInit, StartupInv, Started, RateChecked, TaintSet, PlatformChecked,
       NodeFollowsRun, ErrorFollowsNode, NodeIsConfigured, FailureIsReported

(* Each step of run establishes what the next one relies on; the node and   *)
(* the interrupt, which act at any time, do not touch the configuration.    *)
LEMMA StartupInvStep == StartupInv /\ [StartupNext]_startupVars => StartupInv'
<1> SUFFICES ASSUME StartupInv, [StartupNext]_startupVars PROVE StartupInv'
  OBVIOUS
<1> USE DEF StartupInv, Started, RateChecked, TaintSet, PlatformChecked,
            NodeFollowsRun, ErrorFollowsNode, NodeIsConfigured, FailureIsReported,
            GoesOn, RunReturns, ExitWith, RunError, nodeState
<1>1. ASSUME NEW c \in Configs, ParsesFlags(c) PROVE StartupInv'
  BY <1>1 DEF ParsesFlags
<1>2. ASSUME ConfigureTracing PROVE StartupInv'
  BY <1>2 DEF ConfigureTracing, DetermineSampler
<1>3. ASSUME ApplyOptions PROVE StartupInv'
  BY <1>3 DEF ApplyOptions, TaintSupported
<1>4. ASSUME NewProvider PROVE StartupInv'
  BY <1>4 DEF NewProvider
<1>5. ASSUME StartsNode PROVE StartupInv'
  BY <1>5 DEF StartsNode
<1>6. ASSUME SelectsError PROVE StartupInv'
  BY <1>6 DEF SelectsError
<1>7. ASSUME SelectsContext PROVE StartupInv'
  BY <1>7 DEF SelectsContext, InterruptSeen
<1>8. ASSUME WaitReady PROVE StartupInv'
  BY <1>8 DEF WaitReady
<1>9. ASSUME Finishes PROVE StartupInv'
  BY <1>9 DEF Finishes
<1>10. ASSUME NodeReady PROVE StartupInv'
  BY <1>10 DEF NodeReady
<1>11. ASSUME NEW err \in {"nil", "canceled", "failed"}, NodeStops(err) PROVE StartupInv'
  BY <1>11 DEF NodeStops
<1>12. ASSUME Interrupt PROVE StartupInv'
  BY <1>12 DEF Interrupt
<1>13. ASSUME TimeoutElapses PROVE StartupInv'
  BY <1>13 DEF TimeoutElapses
<1>14. ASSUME UNCHANGED startupVars PROVE StartupInv'
  BY <1>14 DEF startupVars
<1> QED
  BY <1>1, <1>2, <1>3, <1>4, <1>5, <1>6, <1>7, <1>8, <1>9, <1>10, <1>11, <1>12, <1>13, <1>14, Zenon
  DEF StartupNext, RunStep

(* Whatever run has gone through is checked: the invariant of start-up holds *)
(* in every reachable state.                                                *)
THEOREM StartupInvariance == StartupSpec => []StartupInv
BY StartupInvInit, StartupInvStep, PTL DEF StartupSpec

(* run starts a node only on darwin, with a sample rate in range, a numeric  *)
(* port and the taint that was asked for, for any effects and rates.         *)
THEOREM NodeIsConfiguredHolds == StartupSpec => []NodeIsConfigured
<1>1. StartupInv => NodeIsConfigured
  BY DEF StartupInv
<1> QED BY <1>1, StartupInvariance, PTL

(* The process exits cleanly only if it was interrupted or node.Run returned *)
(* nil, whichever of run's three waits the end of the node meets.           *)
THEOREM FailureIsReportedHolds == StartupSpec => []FailureIsReported
<1>1. StartupInv => FailureIsReported
  BY DEF StartupInv
<1> QED BY <1>1, StartupInvariance, PTL

-----------------------------------------------------------------------------
(* DialContext: the client is in one pair of hands at a time.  Until the     *)
(* goroutine is done it has the client; the result says who got it.         *)

DialInv ==
  /\ caller # "returned" => dialResult = "none"
  /\ handshaker \in {"none", "handshaking"} => sshClient = "none"
  /\ handshaker = "none" => caller # "waiting"
  /\ caller \in {"idle", "dialing"} => handshaker = "none"
  /\ dialResult = "client" => handshaker = "done"
  /\ closedBy = "worker" => handshaker = "done" /\ sshClient = "closed"
  /\ ClientHasOneOwner

\* Before the dial there is no client.
LEMMA DialInvInit == DialInit => DialInv
BY Zenon DEF DialInit, DialInv, ClientHasOneOwner

(* The rendezvous hands the client over; the goroutine closes it only in the *)
(* state where the rendezvous can no longer happen.                         *)
LEMMA DialInvStep == DialInv /\ [DialNext]_dialVars => DialInv'
<1> SUFFICES ASSUME DialInv, [DialNext]_dialVars PROVE DialInv'
  OBVIOUS
<1> USE DEF DialInv, ClientHasOneOwner, DialReturns, handshakeVars
<1>1. ASSUME DialContext PROVE DialInv'
  BY <1>1 DEF DialContext
<1>2. ASSUME Dials PROVE DialInv'
  BY <1>2 DEF Dials
<1>3. ASSUME NEW ok \in BOOLEAN, HandshakeEnds(ok) PROVE DialInv'
  BY <1>3 DEF HandshakeEnds
<1>4. ASSUME Delivers PROVE DialInv'
  BY <1>4 DEF Delivers
<1>5. ASSUME CallerGivesUp PROVE DialInv'
  BY <1>5 DEF CallerGivesUp
<1>6. ASSUME WorkerGivesUp PROVE DialInv'
  BY <1>6 DEF WorkerGivesUp, AfterGivingUp
<1>7. ASSUME StartsKeepalive PROVE DialInv'
  BY <1>7 DEF StartsKeepalive
<1>8. ASSUME ClosesClient PROVE DialInv'
  BY <1>8 DEF ClosesClient
<1>9. ASSUME KeepaliveTicks \/ KeepaliveReplied \/ KeepaliveStops PROVE DialInv'
  BY <1>9 DEF KeepaliveTicks, KeepaliveReplied, KeepaliveStops
<1>10. ASSUME DialEnvironment PROVE DialInv'
  BY <1>10 DEF DialEnvironment
<1>11. ASSUME UNCHANGED dialVars PROVE DialInv'
  BY <1>11 DEF dialVars
<1> QED
  BY <1>1, <1>2, <1>3, <1>4, <1>5, <1>6, <1>7, <1>8, <1>9, <1>10, <1>11, Zenon DEF DialNext

(* A client DialContext has made is either returned to the caller, who alone *)
(* closes it, or closed by the goroutine: none is left open and none is      *)
(* closed under its owner, however the expiry and the handshake interleave. *)
THEOREM ClientHasOneOwnerHolds == DialSpec => []ClientHasOneOwner
<1>1. DialInv => ClientHasOneOwner
  BY DEF DialInv
<1> QED BY <1>1, DialInvInit, DialInvStep, PTL DEF DialSpec

-----------------------------------------------------------------------------
(* A session without a terminal: nobody copies input beside ExecuteCommand,  *)
(* and ExecuteCommand copies none before the command is written.            *)

SessionInv ==
  /\ stdinPipe \in Seq({"env", "cmd", "input"})
  /\ session = "idle" => stdinPipe = <<>> /\ copier = "none"
  /\ ~tty => copier = "none" /\ session # "setup"
  /\ ~tty /\ session \in {"sizing", "starting", "writing"} =>
       \A i \in DOMAIN stdinPipe : stdinPipe[i] # "input"
  /\ InputFollowsCommand

\* Nothing has been written.
LEMMA SessionInvInit == SessionInit => SessionInv
BY DEF SessionInit, SessionInv, InputFollowsCommand

(* The only steps that write are those of the goroutine, which does not run  *)
(* without a terminal, of the command, before which there is no input, and   *)
(* of the copying, after which there is nothing but input.                  *)
LEMMA SessionInvStep == SessionInv /\ [SessionNext]_sessionVars => SessionInv'
<1> SUFFICES ASSUME SessionInv, [SessionNext]_sessionVars PROVE SessionInv'
  OBVIOUS
<1> USE DEF SessionInv, InputFollowsCommand, clientVars
<1>1. ASSUME NEW hasTTY \in BOOLEAN, NEW hasStdin \in BOOLEAN, SetupSessionIO(hasTTY, hasStdin)
      PROVE  SessionInv'
  BY <1>1 DEF SetupSessionIO
<1>2. ASSUME GetConsoleSize PROVE SessionInv'
  BY <1>2 DEF GetConsoleSize, WithoutTerminal
<1>3. ASSUME SetupTTYSession PROVE SessionInv'
  BY <1>3 DEF SetupTTYSession
<1>4. ASSUME CopierCopies PROVE SessionInv'
  BY <1>4 DEF CopierCopies, Forwards
<1>5. ASSUME HandleTerminalResizing PROVE SessionInv'
  BY <1>5 DEF HandleTerminalResizing
<1>6. ASSUME Starts PROVE SessionInv'
  BY <1>6 DEF Starts, AfterCommand
<1>7. ASSUME WritesLine PROVE SessionInv'
  <2>1. PICK kind \in {"env", "cmd"} : stdinPipe' = Append(stdinPipe, kind)
    BY <1>7 DEF WritesLine
  <2>2. session = "writing" /\ UNCHANGED <<tty, session, copier>>
    BY <1>7 DEF WritesLine
  <2> QED BY <2>1, <2>2
<1>8. ASSUME WritesEnd PROVE SessionInv'
  BY <1>8 DEF WritesEnd, AfterCommand
<1>9. ASSUME MainCopies PROVE SessionInv'
  <2>1. session = "copying" /\ session' \in {"copying", "waiting", "returned"} /\ UNCHANGED <<tty, copier>>
    BY <1>9 DEF MainCopies
  <2>2. CASE stdinPipe' = Append(stdinPipe, "input")
    <3>1. /\ stdinPipe' \in Seq({"env", "cmd", "input"}) /\ Len(stdinPipe') = Len(stdinPipe) + 1
          /\ DOMAIN stdinPipe' = 1..Len(stdinPipe') /\ DOMAIN stdinPipe = 1..Len(stdinPipe)
          /\ stdinPipe'[Len(stdinPipe')] = "input"
          /\ \A i \in 1..Len(stdinPipe) : stdinPipe'[i] = stdinPipe[i]
      BY <2>2
    <3> QED BY <2>1, <3>1
  <2>3. CASE stdinPipe' = stdinPipe
    BY <2>1, <2>3
  <2> QED BY <1>9, <2>2, <2>3 DEF MainCopies, Forwards
<1>10. ASSUME Waits PROVE SessionInv'
  BY <1>10 DEF Waits
<1>11. ASSUME ClientSends \/ ClientResizes \/ RemoteEnds PROVE SessionInv'
  BY <1>11 DEF ClientSends, ClientResizes, RemoteEnds
<1>12. ASSUME UNCHANGED sessionVars PROVE SessionInv'
  BY <1>12 DEF sessionVars
<1> QED
  BY <1>1, <1>2, <1>3, <1>4, <1>5, <1>6, <1>7, <1>8, <1>9, <1>10, <1>11, <1>12, Zenon DEF SessionNext

(* Without a terminal the remote shell reads the environment and the whole   *)
(* command before the first line of the client's input, for any number of    *)
(* lines of each.                                                           *)
THEOREM InputFollowsCommandHolds == SessionSpec => []InputFollowsCommand
<1>1. SessionInv => InputFollowsCommand
  BY DEF SessionInv
<1> QED BY <1>1, SessionInvInit, SessionInvStep, PTL DEF SessionSpec

=============================================================================
