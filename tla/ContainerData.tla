---------------------------- MODULE ContainerData ----------------------------
(***************************************************************************)
(* ContainerData of internal/data/container/containerdata.go: a sync.Map of *)
(* pods whose values are pointers to sync.Maps of containers.  Each call on *)
(* a map, and each entry that Range visits, is one step.  The information   *)
(* about a container is represented by the goroutine that stored it.        *)
(***************************************************************************)
EXTENDS Integers, FiniteSets

CONSTANTS
  Threads, Pods, Names,
  Maps,         \* the inner maps in memory
  Nil,
  ContainerOverlap       \* may stores overlap a removal of their pod?

ASSUME ContainerDataAssumption == ContainerOverlap \in BOOLEAN /\ Nil \notin Threads \cup Maps

VARIABLES
  podMaps,         \* the outer map
  infos,        \* the contents of the inner maps
  access          \* what each goroutine is doing

containerVars == <<podMaps, infos, access>>

Empty == [n \in Names |-> Nil]
NoAccess == [op |-> "none", pod |-> Nil, map |-> Nil, name |-> Nil, seen |-> {}, result |-> Empty]

ContainerInit ==
  /\ podMaps = [k \in Pods |-> Nil]
  /\ infos = [m \in Maps |-> Empty]
  /\ access = [t \in Threads |-> NoAccess]

Storing == {"set", "create"}
Active(k, operations) == {t \in Threads : access[t].pod = k /\ access[t].op \in operations}
Free == {m \in Maps : /\ \A k \in Pods : podMaps[k] # m
                      /\ \A t \in Threads : access[t].map # m}

AccessBegins(t, operation, k, m, n) ==
  access' = [access EXCEPT ![t] =
    [NoAccess EXCEPT !.op = operation, !.pod = k, !.map = m, !.name = n]]

\* A plausible slip: Load, then Store, in place of LoadOrStore.
OuterStoreAnyway(k, m) == m

OuterLoadOrStore(k, m) == IF podMaps[k] = Nil THEN m ELSE podMaps[k]

\* The first half of SetContainerInfo and GetOrCreateContainerInfo; m is the
\* empty map they bring along.
StoreLoads(t, operation, k, n, m) ==
  LET val == OuterLoadOrStore(k, m) IN
  /\ access[t].op = "none" /\ m \in Free
  /\ ContainerOverlap \/ Active(k, {"remove"}) = {}
  /\ podMaps' = [podMaps EXCEPT ![k] = val]
  /\ infos' = IF val = m THEN [infos EXCEPT ![m] = Empty] ELSE infos
  /\ AccessBegins(t, operation, k, val, n)

\* A plausible slip: what is there is replaced by what was to be created.
CreateAnyway(c, t) == t

InnerValue(c, t) == IF c.op = "create" /\ infos[c.map][c.name] # Nil
                    THEN infos[c.map][c.name] ELSE t

\* The second half: Store, or LoadOrStore.
StoreStores(t) ==
  LET c == access[t] IN
  /\ c.op \in Storing
  /\ infos' = [infos EXCEPT ![c.map][c.name] = InnerValue(c, t)]
  /\ access' = [access EXCEPT ![t] = NoAccess]
  /\ UNCHANGED podMaps

\* A plausible slip: Load here, and Delete after the entries were read.
LeftInPlace(k) == podMaps[k]

Deleted(k) == Nil

\* RemoveAllContainerInfo: LoadAndDelete, then Range.
RemoveAll(t, k) ==
  /\ access[t].op = "none" /\ podMaps[k] # Nil
  /\ ContainerOverlap \/ Active(k, Storing) = {}
  /\ podMaps' = [podMaps EXCEPT ![k] = Deleted(k)]
  /\ AccessBegins(t, "remove", k, podMaps[k], Nil)
  /\ UNCHANGED infos

\* GetAllContainerInfo and, for each pod, GetAllData: Load, then Range.
GetAll(t, k) ==
  /\ access[t].op = "none" /\ podMaps[k] # Nil
  /\ AccessBegins(t, "get", k, podMaps[k], Nil)
  /\ UNCHANGED <<podMaps, infos>>

RangeVisits(t, n) ==
  LET c == access[t] IN
  /\ c.op \in {"remove", "get"} /\ n \notin c.seen
  /\ access' = [access EXCEPT ![t].seen = @ \cup {n}, ![t].result[n] = infos[c.map][n]]
  /\ UNCHANGED <<podMaps, infos>>

RangeReturns(t) ==
  /\ access[t].op \in {"remove", "get"} /\ access[t].seen = Names
  /\ access' = [access EXCEPT ![t] = NoAccess]
  /\ UNCHANGED <<podMaps, infos>>

ContainerNext ==
  \E t \in Threads :
    \/ \E k \in Pods :
         \/ \E n \in Names, m \in Maps, operation \in Storing : StoreLoads(t, operation, k, n, m)
         \/ RemoveAll(t, k)
         \/ GetAll(t, k)
    \/ StoreStores(t)
    \/ \E n \in Names : RangeVisits(t, n)
    \/ RangeReturns(t)

ContainerSpec == ContainerInit /\ [][ContainerNext]_containerVars

-----------------------------------------------------------------------------
\* GetContainerInfo, as if it read both maps at once.
GetContainerInfo(k, n) == IF podMaps[k] = Nil THEN Nil ELSE infos[podMaps[k]][n]

\* The containers of a pod are handed to one caller of RemoveAllContainerInfo
\* only, and nobody finds them any more: they are not cleaned up twice.
RemovedOnce ==
  \A t \in Threads : access[t].op = "remove" =>
    /\ \A k \in Pods : podMaps[k] # access[t].map
    /\ \A u \in Threads \ {t} : access[u].op = "remove" => access[u].map # access[t].map

\* What is stored about a container changes only because it is set again, or
\* because its pod is removed as a whole: no store of another container or
\* goroutine hides it, and GetOrCreateContainerInfo replaces nothing.
InfosAreKept ==
  [][\A k \in Pods, n \in Names : GetContainerInfo(k, n) # Nil =>
       \/ GetContainerInfo(k, n)' = GetContainerInfo(k, n)
       \/ podMaps'[k] = Nil
       \/ \E t \in Threads : access[t].op = "set" /\ GetContainerInfo(k, n)' = t]_containerVars

\* When SetContainerInfo or GetOrCreateContainerInfo returns, the information
\* is in the map or in the result of a removal under way.  It holds if no
\* store overlaps a removal of its pod.
StoredIsKnown ==
  [][\A t \in Threads : access[t].op \in Storing /\ access'[t].op = "none" =>
       \/ podMaps[access[t].pod] = access[t].map
       \/ \E u \in Threads : /\ access[u].op = "remove" /\ access[u].map = access[t].map
                             /\ access[t].name \notin access[u].seen]_containerVars

=============================================================================
