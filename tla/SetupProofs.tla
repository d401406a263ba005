----------------------------- MODULE SetupProofs -----------------------------
(***************************************************************************)
(* What is worked out before a node or a pod is there, for lists of any      *)
(* length: the address of the node, the address of a virtual machine and the *)
(* credentials of a pod.  They are loops over lists; what a loop has done    *)
(* after i elements is shown by induction on i.                              *)
(***************************************************************************)
EXTENDS NodeSetup, VMAddress, PodCredentials, WellFoundedInduction, TLAPS

\* In a module of this size a leaf waits longer than it is worked on.
USE SMTT(30), ZenonT(30), Z3T(30)

-----------------------------------------------------------------------------
(* Numbers, sequences and loops.                                            *)

\* Every non-empty set of numbers has a least element.
LEMMA LeastElement ==
  ASSUME NEW S \in SUBSET Nat, S # {}
  PROVE  \E m \in S : \A n \in S : m <= n
<1>1. PICK m \in S : \A n \in S : ~(<<n, m>> \in OpToRel(<, Nat))
  BY NatLessThanWellFounded, WFMin, Zenon
<1>2. \A n \in S : ~(n < m)
  BY <1>1, Zenon DEF OpToRel
<1> QED BY <1>2

\* Min chooses it.
LEMMA MinIsLeast ==
  ASSUME NEW S \in SUBSET Nat, S # {}
  PROVE  Min(S) \in S /\ \A n \in S : Min(S) <= n
BY LeastElement, Zenon DEF Min

\* Induction up to n, for a set of numbers instead of a predicate.
LEMMA UpTo ==
  ASSUME NEW n \in Nat, NEW S, 0 \in S, \A i \in 1..n : i - 1 \in S => i \in S
  PROVE  0..n \subseteq S
<1>1. SUFFICES ASSUME (0..n) \ S # {} PROVE FALSE
  OBVIOUS
<1>2. PICK m \in (0..n) \ S : \A i \in (0..n) \ S : m <= i
  <2>1. (0..n) \ S \in SUBSET Nat
    OBVIOUS
  <2> QED BY <1>1, <2>1, LeastElement, Zenon
<1>3. m # 0 /\ m \in 1..n /\ m - 1 \in 0..n /\ ~(m <= m - 1)
  BY <1>2
<1>4. m - 1 \in S
  BY <1>2, <1>3
<1> QED BY <1>2, <1>3, <1>4

(* The runs of a loop of n steps that starts with b: the value after each    *)
(* step, where step i is the function D[i] on T.                            *)
Runs(n, T, b, D) ==
  {g \in [1..n -> T] : \A i \in 1..n : g[i] = D[i][IF i = 1 THEN b ELSE g[i - 1]]}

\* A loop has a run, which is what makes a recursive function well defined.
LEMMA LoopHasRun ==
  ASSUME NEW n \in Nat, NEW T, NEW b \in T, NEW D \in [1..n -> [T -> T]]
  PROVE  Runs(n, T, b, D) # {}
<1> DEFINE S == {m \in 0..n : Runs(m, T, b, D) # {}}
<1>1. 0 \in S
  <2>1. [i \in 1..0 |-> b] \in Runs(0, T, b, D)
    BY DEF Runs
  <2> QED BY <2>1
<1>2. ASSUME NEW m \in 1..n, m - 1 \in S PROVE m \in S
  <2>1. PICK g \in [1..(m - 1) -> T] : \A i \in 1..(m - 1) : g[i] = D[i][IF i = 1 THEN b ELSE g[i - 1]]
    BY <1>2 DEF Runs
  <2> DEFINE x == IF m = 1 THEN b ELSE g[m - 1]
  <2>2. x \in T /\ D[m][x] \in T
    <3>1. m # 1 => m - 1 \in 1..(m - 1)
      OBVIOUS
    <3>2. x \in T
      BY <2>1, <3>1
    <3> HIDE DEF x
    <3> QED BY <3>2
  <2> DEFINE h == [i \in 1..m |-> IF i = m THEN D[m][x] ELSE g[i]]
  <2> HIDE DEF x
  <2>3. h \in [1..m -> T] /\ h[m] = D[m][x] /\ \A i \in 1..(m - 1) : h[i] = g[i]
    BY <2>1, <2>2
  <2> HIDE DEF h
  <2>4. ASSUME NEW i \in 1..m PROVE h[i] = D[i][IF i = 1 THEN b ELSE h[i - 1]]
    <3>1. i # 1 => i - 1 \in 1..(m - 1) /\ h[i - 1] = g[i - 1]
      BY <2>3
    <3>2. CASE i = m
      BY <2>3, <3>1, <3>2 DEF x
    <3>3. CASE i # m
      <4>1. i \in 1..(m - 1)
        BY <3>3
      <4> QED BY <2>1, <2>3, <3>1, <4>1
    <3> QED BY <3>2, <3>3
  <2>5. h \in Runs(m, T, b, D)
    BY <2>3, <2>4 DEF Runs
  <2>6. m \in 0..n
    OBVIOUS
  <2> QED BY <2>5, <2>6
<1>3. n \in S
  <2> HIDE DEF S
  <2>1. 0..n \subseteq S
    BY <1>1, <1>2, UpTo, Zenon
  <2> QED BY <2>1
<1> QED BY <1>3

\* Each step, if it begins in T, does what D says.
Follows(h, n, T, b, D) ==
  \A i \in 1..n : LET x == IF i = 1 THEN b ELSE h[i - 1] IN x \in T => h[i] = D[i][x]

\* What a loop goes through stays in the type of its steps.
LEMMA RunIsTyped ==
  ASSUME NEW n \in Nat, NEW T, NEW b \in T, NEW D \in [1..n -> [T -> T]], NEW h, Follows(h, n, T, b, D)
  PROVE  \A i \in 1..n : h[i] \in T
<1> DEFINE S == {i \in 0..n : i = 0 \/ h[i] \in T}
<1>1. 0 \in S
  OBVIOUS
<1>2. ASSUME NEW i \in 1..n, i - 1 \in S PROVE i \in S
  <2> DEFINE x == IF i = 1 THEN b ELSE h[i - 1]
  <2>1. x \in T
    BY <1>2
  <2>2. h[i] = D[i][x]
    BY <2>1 DEF Follows
  <2> HIDE DEF x
  <2>3. h[i] \in T
    BY <2>1, <2>2
  <2> QED BY <2>3
<1> HIDE DEF S
<1>3. 0..n \subseteq S
  BY <1>1, <1>2, UpTo, Zenon
<1> QED BY <1>3 DEF S

\* A sequence of bounded length is a sequence.
LEMMA ListIsSeq ==
  ASSUME NEW T, NEW n \in Nat, NEW s \in ListsUpTo(T, n)
  PROVE  s \in Seq(T) /\ DOMAIN s = 1..Len(s)
<1>1. PICK m \in 0..n : s \in [1..m -> T]
  BY DEF ListsUpTo
<1>2. DOMAIN s = 1..m /\ \A i \in 1..m : s[i] \in T
  BY <1>1
<1>3. s \in Seq(T)
  BY <1>1
<1> QED BY <1>3

-----------------------------------------------------------------------------
(* ConfigureNode: the two passes over the interfaces.                       *)

IPv4At(i) == {a \in 1..Len(i.addrs) : i.addrs[a] = "ipv4"}

\* findValidIP returns the first IPv4 address of an interface, if it has one.
LEMMA FindValidIPIsFirst ==
  ASSUME NEW i \in Interface
  PROVE  LET a == FindValidIP(i) IN
         /\ a = 0 <=> IPv4At(i) = {}
         /\ a # 0 => a \in IPv4At(i) /\ \A b \in IPv4At(i) : a <= b
<1>1. FindValidIP(i) = IF IPv4At(i) # {} THEN Min(IPv4At(i)) ELSE 0
  BY DEF FindValidIP, FirstIndex, IPv4At
<1>2. IPv4At(i) \in SUBSET Nat /\ 0 \notin IPv4At(i)
  BY DEF IPv4At
<1> QED BY <1>1, <1>2, MinIsLeast

ValidOf(interfaces, ethernet) ==
  {i \in 1..Len(interfaces) : interfaces[i].ethernet = ethernet /\ IPv4At(interfaces[i]) # {}}

\* A pass returns the first interface of its kind with a valid address.
LEMMA FirstValidIsFirst ==
  ASSUME NEW interfaces \in Seq(Interface), NEW ethernet \in BOOLEAN
  PROVE  LET f == FirstValid(interfaces, ethernet) IN
         /\ f = 0 <=> ValidOf(interfaces, ethernet) = {}
         /\ f # 0 => f \in ValidOf(interfaces, ethernet) /\ \A i \in ValidOf(interfaces, ethernet) : f <= i
<1> DEFINE V == {i \in 1..Len(interfaces) : interfaces[i].ethernet = ethernet /\ FindValidIP(interfaces[i]) # 0}
<1>1. FirstValid(interfaces, ethernet) = IF V # {} THEN Min(V) ELSE 0
  BY DEF FirstValid, FirstIndex
<1>2. V = ValidOf(interfaces, ethernet)
  BY FindValidIPIsFirst DEF ValidOf
<1>3. V \in SUBSET Nat /\ 0 \notin V
  OBVIOUS
<1> HIDE DEF V
<1> QED BY <1>1, <1>2, <1>3, MinIsLeast

(* What GetActiveInterface returns, if anything, has a valid address, and no *)
(* interface that is preferred to it has one.                               *)
LEMMA ActiveIsPreferred ==
  ASSUME NEW interfaces \in Seq(Interface), GetActiveInterface(interfaces) # 0
  PROVE  LET c == GetActiveInterface(interfaces) IN
         /\ c \in 1..Len(interfaces) /\ IPv4At(interfaces[c]) # {}
         /\ \A i \in 1..Len(interfaces) :
              \/ interfaces[i].ethernet /\ ~interfaces[c].ethernet
              \/ interfaces[i].ethernet = interfaces[c].ethernet /\ i < c
              => IPv4At(interfaces[i]) = {}
<1> DEFINE c == GetActiveInterface(interfaces)
<1>1. \A i \in 1..Len(interfaces) : interfaces[i].ethernet \in BOOLEAN
  <2>1. \A i \in Interface : i.ethernet \in BOOLEAN
    BY DEF Interface
  <2>2. \A i \in 1..Len(interfaces) : interfaces[i] \in Interface
    OBVIOUS
  <2> QED BY <2>1, <2>2
<1>2. CASE FirstValid(interfaces, TRUE) # 0
  <2>1. c \in ValidOf(interfaces, TRUE) /\ \A i \in ValidOf(interfaces, TRUE) : c <= i
    BY <1>2, FirstValidIsFirst, Zenon DEF GetActiveInterface
  <2> HIDE DEF c
  <2>2. c \in 1..Len(interfaces) /\ IPv4At(interfaces[c]) # {} /\ interfaces[c].ethernet = TRUE
    BY <2>1 DEF ValidOf
  <2>3. ASSUME NEW i \in 1..Len(interfaces), interfaces[i].ethernet = TRUE, i < c PROVE IPv4At(interfaces[i]) = {}
    <3> DEFINE V == ValidOf(interfaces, TRUE)
    <3>1. \A n \in V : c <= n
      BY <2>1, Zenon
    <3> HIDE DEF V
    <3>2. i \notin V
      BY <2>2, <2>3, <3>1
    <3> QED BY <2>3, <3>2 DEF V, ValidOf
  <2> QED BY <1>1, <2>2, <2>3, Zenon DEF c
<1>3. CASE FirstValid(interfaces, TRUE) = 0
  <2>1. c \in ValidOf(interfaces, FALSE) /\ \A i \in ValidOf(interfaces, FALSE) : c <= i
    BY <1>3, FirstValidIsFirst, Zenon DEF GetActiveInterface
  <2>2. ValidOf(interfaces, TRUE) = {}
    BY <1>3, FirstValidIsFirst, Zenon
  <2> HIDE DEF c
  <2>3. c \in 1..Len(interfaces) /\ IPv4At(interfaces[c]) # {} /\ interfaces[c].ethernet = FALSE
    BY <2>1 DEF ValidOf
  <2>4. ASSUME NEW i \in 1..Len(interfaces), interfaces[i].ethernet = FALSE, i < c PROVE IPv4At(interfaces[i]) = {}
    <3> DEFINE V == ValidOf(interfaces, FALSE)
    <3>1. \A n \in V : c <= n
      BY <2>1, Zenon
    <3> HIDE DEF V
    <3>2. i \notin V
      BY <2>3, <2>4, <3>1
    <3> QED BY <2>4, <3>2 DEF V, ValidOf
  <2>5. ASSUME NEW i \in 1..Len(interfaces), interfaces[i].ethernet = TRUE PROVE IPv4At(interfaces[i]) = {}
    BY <2>2, <2>5 DEF ValidOf
  <2> QED BY <1>1, <2>3, <2>4, <2>5, Zenon DEF c
<1> QED BY <1>2, <1>3, Zenon

\* The address in the status is the preferred one of the interfaces seen.
AddressChosen ==
  LET chosen == nodeStatus.address[1]
      addr == nodeStatus.address[2]
  IN /\ chosen \in 1..Len(seen) /\ addr \in IPv4At(seen[chosen])
     /\ \A b \in IPv4At(seen[chosen]) : addr <= b
     /\ \A i \in 1..Len(seen) :
          \/ seen[i].ethernet /\ ~seen[chosen].ethernet
          \/ seen[i].ethernet = seen[chosen].ethernet /\ i < chosen
          => IPv4At(seen[i]) = {}

Status ==
  [capacity : {{}, GetNodeCapacity}, allocatable : {{}, GetNodeCapacity}, conditions : {{}, GetNodeConditions},
   address : {<<>>} \cup (Nat \X Nat), endpoints : BOOLEAN, info : BOOLEAN, cpuLabel : BOOLEAN]

SetupInv ==
  /\ ifs \in Seq(Interface) /\ seen \in Seq(Interface) /\ nodeStatus \in Status
  /\ setupPC \in {"info", "returned"} => AddressChosen

\* Nothing has been set.
LEMMA SetupInvInit == SetupInit => SetupInv
BY DEF SetupInit, SetupInv, Blank, Status

(* The address is chosen among the interfaces there are at that moment; what *)
(* happens to them later does not matter.                                   *)
LEMMA SetupInvStep == SetupInv /\ [SetupNext]_setupVars => SetupInv'
<1> SUFFICES ASSUME SetupInv, [SetupNext]_setupVars PROVE SetupInv'
  OBVIOUS
<1> USE DEF SetupInv, SetupFails
<1>1. ASSUME NEW interfaces \in ListsUpTo(Interface, MaxInterfaces), ConfigureNode(interfaces) PROVE SetupInv'
  <2>1. interfaces \in Seq(Interface)
    BY NodeAssumption DEF ListsUpTo
  <2> QED BY <1>1, <2>1 DEF ConfigureNode, AddressChosen
<1>2. ASSUME SetsCapacity PROVE SetupInv'
  <2>1. nodeStatus' \in Status
    BY <1>2, Zenon DEF SetsCapacity, Status
  <2> QED BY <1>2, <2>1 DEF SetsCapacity
<1>3. ASSUME SetsAddresses PROVE SetupInv'
  <2>1. CASE SetupFails
    BY <1>3, <2>1 DEF SetsAddresses
  <2>2. CASE /\ RetrieveNodeIPAddress(ifs) # <<>>
             /\ nodeStatus' = [nodeStatus EXCEPT !.address = RetrieveNodeIPAddress(ifs), !.endpoints = TRUE]
             /\ seen' = ifs /\ setupPC' = "info" /\ ifs' = ifs
    <3> DEFINE c == GetActiveInterface(ifs)  a == FindValidIP(ifs[c])
    <3>1. c # 0 /\ RetrieveNodeIPAddress(ifs) = <<c, a>>
      BY <2>2 DEF RetrieveNodeIPAddress
    <3>2. /\ c \in 1..Len(ifs) /\ IPv4At(ifs[c]) # {}
          /\ \A i \in 1..Len(ifs) :
               \/ ifs[i].ethernet /\ ~ifs[c].ethernet
               \/ ifs[i].ethernet = ifs[c].ethernet /\ i < c
               => IPv4At(ifs[i]) = {}
      BY <3>1, ActiveIsPreferred, Zenon
    <3> HIDE DEF c
    <3>3. ifs[c] \in Interface
      BY <3>2
    <3>4. a \in IPv4At(ifs[c]) /\ \A b \in IPv4At(ifs[c]) : a <= b
      BY <3>2, <3>3, FindValidIPIsFirst
    <3> HIDE DEF a
    <3>5. a \in Nat /\ c \in Nat
      BY <3>2, <3>4 DEF IPv4At
    <3>6. nodeStatus' \in Status /\ nodeStatus'.address = <<c, a>>
      <4>1. <<c, a>> \in {<<>>} \cup (Nat \X Nat)
        BY <3>5
      <4> QED BY <2>2, <3>1, <4>1, Zenon DEF Status
    <3>7. AddressChosen'
      BY <2>2, <3>2, <3>4, <3>6 DEF AddressChosen, IPv4At
    <3> QED BY <2>2, <3>6, <3>7
  <2> QED BY <1>3, <2>1, <2>2 DEF SetsAddresses
<1>4. ASSUME SetsInfo PROVE SetupInv'
  <2>1. nodeStatus' \in Status /\ nodeStatus'.address = nodeStatus.address /\ seen' = seen /\ setupPC = "info"
    BY <1>4, Zenon DEF SetsInfo, Status
  <2>2. AddressChosen'
    BY <2>1 DEF AddressChosen, IPv4At
  <2> QED BY <1>4, <2>1, <2>2, Zenon DEF SetsInfo
<1>5. ASSUME InterfaceLost PROVE SetupInv'
  BY <1>5 DEF InterfaceLost
<1>6. ASSUME UNCHANGED setupVars PROVE SetupInv'
  BY <1>6, Zenon DEF setupVars, AddressChosen, IPv4At
<1> QED BY <1>1, <1>2, <1>3, <1>4, <1>5, <1>6 DEF SetupNext

(* ConfigureNode sets the address that is preferred among the interfaces it  *)
(* saw, for any number of interfaces and addresses: the first IPv4 address   *)
(* of the first Ethernet interface that has one, or else of the first other. *)
THEOREM AddressIsPreferredHolds == SetupSpec => []AddressIsPreferred
<1>1. ASSUME SetupInv PROVE AddressIsPreferred
  <2> SUFFICES ASSUME setupPC = "returned" PROVE AddressIsPreferred
    BY DEF AddressIsPreferred
  <2> DEFINE chosen == nodeStatus.address[1]  addr == nodeStatus.address[2]
  <2>1. /\ chosen \in 1..Len(seen) /\ addr \in IPv4At(seen[chosen])
        /\ \A b \in IPv4At(seen[chosen]) : addr <= b
        /\ \A i \in 1..Len(seen) :
             \/ seen[i].ethernet /\ ~seen[chosen].ethernet
             \/ seen[i].ethernet = seen[chosen].ethernet /\ i < chosen
             => IPv4At(seen[i]) = {}
    BY <1>1, Zenon DEF SetupInv, AddressChosen
  <2>2. DOMAIN seen = 1..Len(seen)
    BY <1>1 DEF SetupInv
  <2>3. \A i \in 1..Len(seen) : DOMAIN seen[i].addrs = 1..Len(seen[i].addrs)
    <3> TAKE i \in 1..Len(seen)
    <3>1. seen[i] \in Interface
      BY <1>1 DEF SetupInv
    <3>2. seen[i].addrs \in ListsUpTo(Addr, MaxAddrs)
      BY <3>1 DEF Interface
    <3> QED BY <3>2, NodeAssumption, ListIsSeq
  <2> HIDE DEF chosen, addr
  <2>4. seen[chosen].addrs[addr] = "ipv4" /\ \A a \in 1 .. addr - 1 : seen[chosen].addrs[a] # "ipv4"
    BY <2>1 DEF IPv4At
  <2>5. ASSUME NEW i \in 1..Len(seen), IPv4At(seen[i]) = {} PROVE "ipv4" \notin Range(seen[i].addrs)
    BY <2>3, <2>5 DEF IPv4At, Range
  <2> QED BY <2>1, <2>2, <2>4, <2>5 DEF AddressIsPreferred, chosen, addr
<1> QED BY <1>1, SetupInvInit, SetupInvStep, PTL DEF SetupSpec

-----------------------------------------------------------------------------
(* RetrieveIPFromARPTable: an address whose octets have no leading zero is   *)
(* printed in full, and only its own line is as long.                       *)

\* The line arp prints for an address, spelled out for each shape of octets.
LEMMA PrintedShape ==
  ASSUME NEW a, NEW b, NEW c, NEW d
  PROVE  LET line == NormalizeMACAddress(<<<<a, b>>, <<c, d>>>>) IN
         /\ a # "0" /\ c # "0" =>
              /\ Len(line) = 5 /\ DOMAIN line = 1..5
              /\ line[1] = a /\ line[2] = b /\ line[4] = c /\ line[5] = d
         /\ a = "0" \/ c = "0" => Len(line) \in Nat /\ Len(line) < 5
<1>1. CASE a # "0" /\ c # "0"
  BY <1>1 DEF NormalizeMACAddress, NormalizeOctet
<1>2. CASE a # "0" /\ c = "0"
  BY <1>2 DEF NormalizeMACAddress, NormalizeOctet
<1>3. CASE a = "0" /\ c # "0"
  BY <1>3 DEF NormalizeMACAddress, NormalizeOctet
<1>4. CASE a = "0" /\ c = "0"
  BY <1>4 DEF NormalizeMACAddress, NormalizeOctet
<1> QED BY <1>1, <1>2, <1>3, <1>4

Digits == {"0", "a", "A"}
Addresses == (Digits \X Digits) \X (Digits \X Digits)

(* The line that contains an address without leading zeros is the line of    *)
(* that address.                                                            *)
LEMMA FullLineIsItsOwn ==
  ASSUME NEW t \in Addresses, NEW m \in Addresses, t[1][1] # "0", t[2][1] # "0",
         IsIn(NormalizeMACAddress(t), NormalizeMACAddress(m))
  PROVE  m = t
<1> DEFINE a == t[1][1]  b == t[1][2]  c == t[2][1]  d == t[2][2]
           e == m[1][1]  f == m[1][2]  g == m[2][1]  h == m[2][2]
<1>1. t = <<<<a, b>>, <<c, d>>>>
  BY DEF Addresses
<1>2. m = <<<<e, f>>, <<g, h>>>>
  BY DEF Addresses
<1> HIDE DEF a, b, c, d, e, f, g, h
<1>3. a # "0" /\ c # "0"
  BY DEF a, c
<1> DEFINE line == NormalizeMACAddress(t)  other == NormalizeMACAddress(m)
<1>4. Len(line) = 5 /\ DOMAIN line = 1..5 /\ line[1] = a /\ line[2] = b /\ line[4] = c /\ line[5] = d
  BY <1>1, <1>3, PrintedShape
<1>5. CASE e = "0" \/ g = "0"
  <2>1. Len(other) \in Nat /\ Len(other) < 5
    BY <1>2, <1>5, PrintedShape
  <2> QED BY <1>4, <2>1 DEF IsIn
<1>6. CASE e # "0" /\ g # "0"
  <2>1. Len(other) = 5 /\ other[1] = e /\ other[2] = f /\ other[4] = g /\ other[5] = h
    BY <1>2, <1>6, PrintedShape
  <2>2. \A j \in DOMAIN line : line[j] = other[j]
    <3>1. PICK i \in 0..0 : \A j \in DOMAIN line : line[j] = other[i + j]
      BY <1>4, <2>1 DEF IsIn
    <3> QED BY <1>4, <3>1
  <2>3. a = e /\ b = f /\ c = g /\ d = h
    BY <1>4, <2>1, <2>2
  <2> QED BY <1>1, <1>2, <2>3
<1> QED BY <1>5, <1>6

\* The lower-case form of an address is an address, with the same leading zeros.
LEMMA LowerIsAddress ==
  ASSUME NEW t \in Addresses
  PROVE  /\ LowerMAC(t) \in Addresses
         /\ t[1][1] # "0" => LowerMAC(t)[1][1] # "0"
         /\ t[2][1] # "0" => LowerMAC(t)[2][1] # "0"
<1> DEFINE low(i, j) == Lower(t[i][j])
<1>1. \A i, j \in 1..2 : t[i][j] \in Digits
  BY DEF Addresses
<1>2. \A i, j \in 1..2 : low(i, j) \in Digits /\ (t[i][j] # "0" => low(i, j) # "0")
  BY <1>1 DEF Lower, Digits
<1> HIDE DEF low
<1> DEFINE row(i) == [j \in 1..2 |-> low(i, j)]
<1>3. \A i \in 1..2 : row(i) = <<low(i, 1), low(i, 2)>>
  OBVIOUS
<1>4. row(1) = <<low(1, 1), low(1, 2)>> /\ row(2) = <<low(2, 1), low(2, 2)>>
  BY <1>3
<1>5. LowerMAC(t) = [i \in 1..2 |-> row(i)]
  BY Zenon DEF LowerMAC, low
<1> HIDE DEF row
<1>6. LowerMAC(t) = <<row(1), row(2)>>
  BY <1>5
<1>7. LowerMAC(t) = <<<<low(1, 1), low(1, 2)>>, <<low(2, 1), low(2, 2)>>>>
  BY <1>4, <1>6
<1> QED BY <1>2, <1>7 DEF Addresses

ArpInv ==
  /\ table \in Seq(MACs(Octets))
  /\ pollPC = "idle" => foundMAC = <<>>
  /\ pollPC # "idle" => target \in Addresses
  /\ AddressIsTheMachines

\* Nothing has been found.
LEMMA ArpInvInit == ArpInit => ArpInv
BY DEF ArpInit, ArpInv, AddressIsTheMachines

\* The addresses of the model are pairs of pairs of digits.
LEMMA MACsAreAddresses == MACs(Octets) \subseteq Addresses /\ MACs(Octets \cup {<<"A", "a">>}) \subseteq Addresses
<1>1. Octets \subseteq Digits \X Digits /\ <<"A", "a">> \in Digits \X Digits
  BY DEF Octets, Digits
<1> QED BY <1>1 DEF MACs, Addresses

(* A scan that finds a line finds the line of the machine; the table may     *)
(* change between two scans, and the target does not.                       *)
LEMMA ArpInvStep == ArpInv /\ [ArpNext]_arpVars => ArpInv'
<1> SUFFICES ASSUME ArpInv, [ArpNext]_arpVars PROVE ArpInv'
  OBVIOUS
<1> USE DEF ArpInv, AddressIsTheMachines
<1>1. ASSUME NEW mac \in MACs(Octets \cup {<<"A", "a">>}), SearchBegins(mac) PROVE ArpInv'
  BY <1>1, MACsAreAddresses, Zenon DEF SearchBegins
<1>2. ASSUME RunsArp PROVE ArpInv'
  <2> DEFINE found == {i \in DOMAIN table : Matches(table[i])}
             first == CHOOSE i \in found : \A j \in found : i <= j
  <2>1. pollPC = "polling" /\ pollPC' # "idle" /\ UNCHANGED <<target, table>>
    BY <1>2 DEF RunsArp
  <2>2. CASE foundMAC' = foundMAC
    BY <2>1, <2>2
  <2>3. CASE found # {} /\ foundMAC' = table[first]
    <3>1. found \in SUBSET Nat
      OBVIOUS
    <3>2. \E i \in found : \A j \in found : i <= j
      BY <2>3, <3>1, LeastElement, Zenon
    <3>3. first \in found
      BY <3>2
    <3> HIDE DEF first
    <3>4. foundMAC' \in Addresses /\ Matches(foundMAC')
      BY <2>3, <3>3, MACsAreAddresses
    <3>5. LowerMAC(target) \in Addresses
      BY <2>1, LowerIsAddress
    <3>6. ASSUME target[1][1] # "0", target[2][1] # "0" PROVE foundMAC' = LowerMAC(target)
      <4>1. LowerMAC(target)[1][1] # "0" /\ LowerMAC(target)[2][1] # "0"
        BY <2>1, <3>6, LowerIsAddress
      <4> QED BY <3>4, <3>5, <4>1, FullLineIsItsOwn DEF Matches
    <3>7. LowerMAC(target)' = LowerMAC(target)
      BY <2>1 DEF LowerMAC
    <3> QED BY <2>1, <3>6, <3>7
  <2> QED BY <1>2, <2>2, <2>3 DEF RunsArp
<1>3. ASSUME Sleeps \/ SeesContext \/ Captures \/ CaptureSeesContext PROVE ArpInv'
  BY <1>3 DEF Sleeps, SeesContext, Captures, CaptureSeesContext, LowerMAC
<1>4. ASSUME ArpEnvironment PROVE ArpInv'
  <2>1. table' \in Seq(MACs(Octets))
    BY <1>4 DEF ArpEnvironment
  <2> QED BY <1>4, <2>1 DEF ArpEnvironment, LowerMAC
<1>5. ASSUME UNCHANGED arpVars PROVE ArpInv'
  BY <1>5 DEF arpVars, LowerMAC
<1> QED BY <1>1, <1>2, <1>3, <1>4, <1>5, Zenon DEF ArpNext, ArpStep

(* RetrieveIPFromARPTable returns the address of the machine it looks for,   *)
(* for tables of any length that change while it polls, if no octet of the   *)
(* machine's MAC address begins with a zero.                                *)
THEOREM AddressIsTheMachinesHolds == ArpSpec => []AddressIsTheMachines
<1>1. ArpInv => AddressIsTheMachines
  BY DEF ArpInv
<1> QED BY <1>1, ArpInvInit, ArpInvStep, PTL DEF ArpSpec

-----------------------------------------------------------------------------
(* CreatePod: findProjections looks at every source it needs, although it     *)
(* leaves the inner loop early.                                              *)

Found == [svcProj : BOOLEAN, cmProj : ConfigMaps \cup {"none"}, left : BOOLEAN]

\* A source has been taken note of.
Seen(f, s) == (s = "token" => f.svcProj) /\ (s \in ConfigMaps => f.cmProj # "none")

\* What has been found stays found.
Grows(f, h) == (f.svcProj => h.svcProj) /\ (f.cmProj # "none" => h.cmProj # "none")

\* The loop is left only when nothing is missing.
LeftWithAll(f) == f.left => f.svcProj /\ f.cmProj # "none"

\* The body of the inner loop takes note of its source.
LEMMA ScanSourceFinds ==
  ASSUME NEW f \in Found, NEW s \in Sources
  PROVE  LET h == ScanSource(f, s) IN
         h \in Found /\ (LeftWithAll(f) => Grows(f, h) /\ LeftWithAll(h) /\ Seen(h, s))
BY CredentialsAssumption, Zenon DEF Found, Sources, ScanSource, BothFound, Seen, Grows, LeftWithAll

(* The inner loop, unrolled: the values after each source.                   *)
LEMMA ScanVolumeRun ==
  ASSUME NEW f \in Found, NEW v \in Seq(Sources)
  PROVE  \E g \in [1..Len(v) -> Found] :
           /\ \A i \in 1..Len(v) : g[i] = ScanSource(IF i = 1 THEN [f EXCEPT !.left = FALSE] ELSE g[i - 1], v[i])
           /\ ScanVolume(f, v) = IF v = <<>> THEN [f EXCEPT !.left = FALSE] ELSE g[Len(v)]
<1> DEFINE n == Len(v)
           b == [f EXCEPT !.left = FALSE]
           D == [i \in 1..n |-> [x \in Found |-> ScanSource(x, v[i])]]
           after[i \in DOMAIN v] == ScanSource(IF i = 1 THEN b ELSE after[i - 1], v[i])
<1>1. n \in Nat /\ b \in Found /\ DOMAIN v = 1..n /\ \A i \in 1..n : v[i] \in Sources
  <2>1. b \in Found
    BY Zenon DEF Found
  <2> HIDE DEF b
  <2> QED BY <2>1
<1>2. ScanVolume(f, v) = IF v = <<>> THEN b ELSE after[n]
  BY DEF ScanVolume, Loop
<1> HIDE DEF n, b
<1>3. D \in [1..n -> [Found -> Found]]
  <2>1. \A i \in 1..n, x \in Found : ScanSource(x, v[i]) \in Found
    BY <1>1, ScanSourceFinds
  <2> QED BY <2>1
<1>4. PICK g \in [1..n -> Found] : \A i \in 1..n : g[i] = D[i][IF i = 1 THEN b ELSE g[i - 1]]
  <2> HIDE DEF D
  <2>1. Runs(n, Found, b, D) # {}
    BY <1>1, <1>3, LoopHasRun
  <2> QED BY <2>1 DEF Runs
<1>5. ASSUME NEW i \in 1..n PROVE g[i] = ScanSource(IF i = 1 THEN b ELSE g[i - 1], v[i])
  <2> DEFINE x == IF i = 1 THEN b ELSE g[i - 1]
  <2>1. x \in Found
    <3>1. i # 1 => i - 1 \in 1..n
      BY <1>1
    <3> QED BY <1>1, <1>4, <3>1
  <2>2. g[i] = D[i][x]
    BY <1>4
  <2> HIDE DEF x
  <2>3. g[i] = ScanSource(x, v[i])
    BY <2>1, <2>2
  <2> QED BY <2>3 DEF x
<1>6. g = [i \in DOMAIN v |-> ScanSource(IF i = 1 THEN b ELSE g[i - 1], v[i])]
  BY <1>1, <1>4, <1>5
<1>7. after = [i \in DOMAIN v |-> ScanSource(IF i = 1 THEN b ELSE after[i - 1], v[i])]
  BY <1>6, Zenon
<1> HIDE DEF after
<1>8. \A i \in 1..n : after[i] = ScanSource(IF i = 1 THEN b ELSE after[i - 1], v[i])
  BY <1>1, <1>7
<1>9. \A i \in 1..n : after[i] \in Found
  <2>1. Follows(after, n, Found, b, D)
    BY <1>8 DEF Follows
  <2> HIDE DEF D
  <2> QED BY <1>1, <1>3, <2>1, RunIsTyped
<1>10. after \in [1..n -> Found]
  BY <1>1, <1>7, <1>9
<1> QED BY <1>2, <1>8, <1>10, Zenon DEF n, b

\* The inner loop takes note of every source of the volume.
LEMMA ScanVolumeFinds ==
  ASSUME NEW f \in Found, NEW v \in Seq(Sources)
  PROVE  LET h == ScanVolume(f, v) IN
         h \in Found /\ Grows(f, h) /\ \A j \in 1..Len(v) : Seen(h, v[j])
<1> DEFINE n == Len(v)
           b == [f EXCEPT !.left = FALSE]
<1>1. PICK g \in [1..n -> Found] :
        /\ \A i \in 1..n : g[i] = ScanSource(IF i = 1 THEN b ELSE g[i - 1], v[i])
        /\ ScanVolume(f, v) = IF v = <<>> THEN b ELSE g[n]
  BY ScanVolumeRun
<1> DEFINE val(i) == IF i = 0 THEN b ELSE g[i]
           S == {i \in 0..n : Grows(f, val(i)) /\ LeftWithAll(val(i)) /\ \A j \in 1..i : Seen(val(i), v[j])}
<1>2. n \in Nat /\ (v = <<>> <=> n = 0) /\ \A i \in 1..n : v[i] \in Sources
  OBVIOUS
<1>3. b \in Found /\ Grows(f, b) /\ LeftWithAll(b)
  BY Zenon DEF Found, Grows, LeftWithAll
<1> HIDE DEF n, b
<1>4. /\ \A i \in 0..n : val(i) \in Found
      /\ \A i \in 1..n : val(i) = ScanSource(val(i - 1), v[i])
      /\ ScanVolume(f, v) = val(n)
  BY <1>1, <1>2, <1>3
<1>5. val(0) = b
  OBVIOUS
<1> HIDE DEF val
<1>6. 0 \in S
  BY <1>2, <1>3, <1>5
<1>7. ASSUME NEW i \in 1..n, i - 1 \in S PROVE i \in S
  <2>1. /\ val(i - 1) \in Found /\ Grows(f, val(i - 1)) /\ LeftWithAll(val(i - 1))
        /\ \A j \in 1..(i - 1) : Seen(val(i - 1), v[j])
    BY <1>2, <1>4, <1>7
  <2>2. Grows(val(i - 1), val(i)) /\ LeftWithAll(val(i)) /\ Seen(val(i), v[i])
    BY <1>2, <1>4, <2>1, ScanSourceFinds
  <2>3. Grows(f, val(i))
    BY <2>1, <2>2 DEF Grows
  <2>4. ASSUME NEW j \in 1..i PROVE Seen(val(i), v[j])
    <3>1. CASE j = i
      BY <2>2, <3>1
    <3>2. CASE j \in 1..(i - 1)
      BY <2>1, <2>2, <3>2 DEF Seen, Grows
    <3> QED BY <3>1, <3>2
  <2> QED BY <1>2, <2>2, <2>3, <2>4
<1> HIDE DEF S
<1>8. 0..n \subseteq S
  BY <1>2, <1>6, <1>7, UpTo, Zenon
<1>9. n \in S /\ val(n) \in Found
  BY <1>2, <1>4, <1>8
<1> QED BY <1>4, <1>9 DEF S, n

(* The outer loop, unrolled: the values after each volume.                   *)
LEMMA FindProjectionsRun ==
  ASSUME NEW v \in Seq(Seq(Sources))
  PROVE  \E g \in [1..Len(v) -> Found] :
           /\ \A i \in 1..Len(v) : g[i] = ScanVolume(IF i = 1 THEN NothingFound ELSE g[i - 1], v[i])
           /\ FindProjections(v) = IF v = <<>> THEN NothingFound ELSE g[Len(v)]
<1> DEFINE n == Len(v)
           b == NothingFound
           D == [i \in 1..n |-> [x \in Found |-> ScanVolume(x, v[i])]]
           after[i \in DOMAIN v] == ScanVolume(IF i = 1 THEN b ELSE after[i - 1], v[i])
<1>1. n \in Nat /\ b \in Found /\ DOMAIN v = 1..n /\ \A i \in 1..n : v[i] \in Seq(Sources)
  <2>1. b \in Found
    BY DEF Found, NothingFound
  <2> HIDE DEF b
  <2> QED BY <2>1
<1>2. FindProjections(v) = IF v = <<>> THEN b ELSE after[n]
  BY DEF FindProjections, Loop
<1> HIDE DEF n, b
<1>3. D \in [1..n -> [Found -> Found]]
  <2>1. \A i \in 1..n, x \in Found : ScanVolume(x, v[i]) \in Found
    BY <1>1, ScanVolumeFinds
  <2> QED BY <2>1
<1>4. PICK g \in [1..n -> Found] : \A i \in 1..n : g[i] = D[i][IF i = 1 THEN b ELSE g[i - 1]]
  <2> HIDE DEF D
  <2>1. Runs(n, Found, b, D) # {}
    BY <1>1, <1>3, LoopHasRun
  <2> QED BY <2>1 DEF Runs
<1>5. ASSUME NEW i \in 1..n PROVE g[i] = ScanVolume(IF i = 1 THEN b ELSE g[i - 1], v[i])
  <2> DEFINE x == IF i = 1 THEN b ELSE g[i - 1]
  <2>1. x \in Found
    <3>1. i # 1 => i - 1 \in 1..n
      BY <1>1
    <3> QED BY <1>1, <1>4, <3>1
  <2>2. g[i] = D[i][x]
    BY <1>4
  <2> HIDE DEF x
  <2>3. g[i] = ScanVolume(x, v[i])
    BY <2>1, <2>2
  <2> QED BY <2>3 DEF x
<1>6. g = [i \in DOMAIN v |-> ScanVolume(IF i = 1 THEN b ELSE g[i - 1], v[i])]
  BY <1>1, <1>4, <1>5
<1>7. after = [i \in DOMAIN v |-> ScanVolume(IF i = 1 THEN b ELSE after[i - 1], v[i])]
  BY <1>6, Zenon
<1> HIDE DEF after
<1>8. \A i \in 1..n : after[i] = ScanVolume(IF i = 1 THEN b ELSE after[i - 1], v[i])
  BY <1>1, <1>7, Zenon
<1>9. \A i \in 1..n : after[i] \in Found
  <2>1. Follows(after, n, Found, b, D)
    BY <1>8 DEF Follows
  <2> HIDE DEF D
  <2> QED BY <1>1, <1>3, <2>1, RunIsTyped, Zenon
<1>10. after \in [1..n -> Found]
  BY <1>1, <1>7, <1>9
<1> QED BY <1>2, <1>8, <1>10, Zenon DEF n, b

\* findProjections takes note of every source of every volume.
LEMMA FindProjectionsFinds ==
  ASSUME NEW v \in Seq(Seq(Sources))
  PROVE  LET h == FindProjections(v) IN
         h \in Found /\ \A k \in 1..Len(v) : \A j \in 1..Len(v[k]) : Seen(h, v[k][j])
<1> DEFINE n == Len(v)
<1>1. PICK g \in [1..n -> Found] :
        /\ \A i \in 1..n : g[i] = ScanVolume(IF i = 1 THEN NothingFound ELSE g[i - 1], v[i])
        /\ FindProjections(v) = IF v = <<>> THEN NothingFound ELSE g[n]
  BY FindProjectionsRun
<1> DEFINE val(i) == IF i = 0 THEN NothingFound ELSE g[i]
           S == {i \in 0..n : \A k \in 1..i : \A j \in 1..Len(v[k]) : Seen(val(i), v[k][j])}
<1>2. n \in Nat /\ (v = <<>> <=> n = 0) /\ \A i \in 1..n : v[i] \in Seq(Sources)
  OBVIOUS
<1>3. NothingFound \in Found
  BY DEF Found, NothingFound
<1> HIDE DEF n
<1>4. /\ \A i \in 0..n : val(i) \in Found
      /\ \A i \in 1..n : val(i) = ScanVolume(val(i - 1), v[i])
      /\ FindProjections(v) = val(n)
  BY <1>1, <1>2, <1>3
<1> HIDE DEF val
<1>5. 0 \in S
  BY <1>2
<1>6. ASSUME NEW i \in 1..n, i - 1 \in S PROVE i \in S
  <2>1. val(i - 1) \in Found /\ \A k \in 1..(i - 1) : \A j \in 1..Len(v[k]) : Seen(val(i - 1), v[k][j])
    BY <1>2, <1>4, <1>6, Zenon
  <2>2. Grows(val(i - 1), val(i)) /\ \A j \in 1..Len(v[i]) : Seen(val(i), v[i][j])
    BY <1>2, <1>4, <2>1, ScanVolumeFinds
  <2>3. ASSUME NEW k \in 1..i, NEW j \in 1..Len(v[k]) PROVE Seen(val(i), v[k][j])
    <3>1. CASE k = i
      BY <2>2, <3>1
    <3>2. CASE k \in 1..(i - 1)
      BY <2>1, <2>2, <3>2 DEF Seen, Grows
    <3> QED BY <3>1, <3>2
  <2> QED BY <1>2, <2>3
<1> HIDE DEF S
<1>7. 0..n \subseteq S
  BY <1>2, <1>5, <1>6, UpTo, Zenon
<1>8. n \in S /\ val(n) \in Found
  BY <1>2, <1>4, <1>7
<1> QED BY <1>4, <1>8 DEF S, n

-----------------------------------------------------------------------------
(* resolveImagePullCredentials: each secret once, where it is named first.   *)

\* A name is added to the references, or is among them.
LEMMA AddUnseenType ==
  ASSUME NEW r \in Seq(Secrets), NEW name \in Secrets
  PROVE  AddUnseen(r, name) \in Seq(Secrets)
BY DEF AddUnseen

(* The loop over the names, unrolled: the references after each of them.     *)
LEMMA UniqueRun ==
  ASSUME NEW v \in Seq(Secrets)
  PROVE  \E g \in [1..Len(v) -> Seq(Secrets)] :
           /\ \A i \in 1..Len(v) : g[i] = AddUnseen(IF i = 1 THEN <<>> ELSE g[i - 1], v[i])
           /\ Unique(v) = IF v = <<>> THEN <<>> ELSE g[Len(v)]
<1> DEFINE n == Len(v)
           b == <<>>
           D == [i \in 1..n |-> [x \in Seq(Secrets) |-> AddUnseen(x, v[i])]]
           after[i \in DOMAIN v] == AddUnseen(IF i = 1 THEN b ELSE after[i - 1], v[i])
<1>1. n \in Nat /\ b \in Seq(Secrets) /\ DOMAIN v = 1..n /\ \A i \in 1..n : v[i] \in Secrets
  <2>1. b \in Seq(Secrets)
    OBVIOUS
  <2> HIDE DEF b
  <2> QED BY <2>1
<1>2. Unique(v) = IF v = <<>> THEN b ELSE after[n]
  BY DEF Unique, Loop
<1> HIDE DEF n, b
<1>3. D \in [1..n -> [Seq(Secrets) -> Seq(Secrets)]]
  <2>1. \A i \in 1..n, x \in Seq(Secrets) : AddUnseen(x, v[i]) \in Seq(Secrets)
    BY <1>1, AddUnseenType
  <2> QED BY <2>1
<1>4. PICK g \in [1..n -> Seq(Secrets)] : \A i \in 1..n : g[i] = D[i][IF i = 1 THEN b ELSE g[i - 1]]
  <2> HIDE DEF D
  <2>1. Runs(n, Seq(Secrets), b, D) # {}
    BY <1>1, <1>3, LoopHasRun
  <2> QED BY <2>1 DEF Runs
<1>5. ASSUME NEW i \in 1..n PROVE g[i] = AddUnseen(IF i = 1 THEN b ELSE g[i - 1], v[i])
  <2> DEFINE x == IF i = 1 THEN b ELSE g[i - 1]
  <2>1. x \in Seq(Secrets)
    <3>1. i # 1 => i - 1 \in 1..n
      BY <1>1
    <3> QED BY <1>1, <1>4, <3>1
  <2>2. g[i] = D[i][x]
    BY <1>4
  <2> HIDE DEF x
  <2>3. g[i] = AddUnseen(x, v[i])
    BY <2>1, <2>2
  <2> QED BY <2>3 DEF x
<1>6. g = [i \in DOMAIN v |-> AddUnseen(IF i = 1 THEN b ELSE g[i - 1], v[i])]
  BY <1>1, <1>4, <1>5
<1>7. after = [i \in DOMAIN v |-> AddUnseen(IF i = 1 THEN b ELSE after[i - 1], v[i])]
  BY <1>6, Zenon
<1> HIDE DEF after
<1>8. \A i \in 1..n : after[i] = AddUnseen(IF i = 1 THEN b ELSE after[i - 1], v[i])
  BY <1>1, <1>7, Zenon
<1>9. \A i \in 1..n : after[i] \in Seq(Secrets)
  <2>1. Follows(after, n, Seq(Secrets), b, D)
    BY <1>8 DEF Follows
  <2> HIDE DEF D
  <2> QED BY <1>1, <1>3, <2>1, RunIsTyped, Zenon
<1>10. after \in [1..n -> Seq(Secrets)]
  BY <1>1, <1>7, <1>9
<1> QED BY <1>2, <1>8, <1>10, Zenon DEF n, b

\* The first element of s that is in H.
FirstIn(s, k, H) == k \in 1..Len(s) /\ s[k] \in H /\ \A j \in 1..(k - 1) : s[j] \notin H

(* The references r stand for the first i names of v: they are the same      *)
(* names, none of them twice, and the first in H is the same.                *)
StandsFor(r, v, i, H) ==
  /\ \A j \in 1..i : \E m \in 1..Len(r) : r[m] = v[j]
  /\ \A m \in 1..Len(r) : \E j \in 1..i : r[m] = v[j]
  /\ \A m, l \in 1..Len(r) : r[m] = r[l] => m = l
  /\ \A k \in 1..i : FirstIn(v, k, H) => \E m \in 1..Len(r) : FirstIn(r, m, H) /\ r[m] = v[k]

\* One more name.
LEMMA AddUnseenStands ==
  ASSUME NEW v \in Seq(Secrets), NEW i \in 1..Len(v), NEW r \in Seq(Secrets), NEW H,
         StandsFor(r, v, i - 1, H)
  PROVE  StandsFor(AddUnseen(r, v[i]), v, i, H)
<1> DEFINE e == v[i]  n == Len(r)
<1>0. e \in Secrets /\ n \in Nat
  OBVIOUS
<1>1. CASE e \in Range(r)
  <2>1. AddUnseen(r, e) = r /\ \E m \in 1..n : r[m] = e
    BY <1>1 DEF AddUnseen, Range
  <2>2. \A j \in 1..i : \E m \in 1..n : r[m] = v[j]
    BY <2>1 DEF StandsFor
  <2>3. ~FirstIn(v, i, H)
    BY <2>1, Zenon DEF StandsFor, FirstIn
  <2>4. \A k \in 1..i : FirstIn(v, k, H) => \E m \in 1..n : FirstIn(r, m, H) /\ r[m] = v[k]
    BY <2>3 DEF StandsFor
  <2>5. \A m \in 1..n : \E j \in 1..i : r[m] = v[j]
    BY DEF StandsFor
  <2> QED BY <2>1, <2>2, <2>4, <2>5 DEF StandsFor
<1>2. CASE ~e \in Range(r)
  <2> DEFINE q == Append(r, e)
  <2>1. AddUnseen(r, e) = q /\ \A m \in 1..n : r[m] # e
    BY <1>2 DEF AddUnseen, Range
  <2>2. q \in Seq(Secrets) /\ Len(q) = n + 1 /\ q[n + 1] = e /\ \A m \in 1..n : q[m] = r[m]
    BY <1>0
  <2> HIDE DEF q, n, e
  <2>0. n = Len(r) /\ e = v[i]
    BY DEF n, e
  <2>3. \A j \in 1..i : \E m \in 1..Len(q) : q[m] = v[j]
    <3>1. ASSUME NEW j \in 1..(i - 1) PROVE \E m \in 1..Len(q) : q[m] = v[j]
      <4>1. PICK m \in 1..n : r[m] = v[j]
        BY <2>0 DEF StandsFor
      <4>2. m \in 1..Len(q) /\ q[m] = v[j]
        BY <1>0, <2>2, <4>1
      <4> QED BY <4>2
    <3> QED BY <1>0, <2>2, <2>0, <3>1
  <2>4. \A m \in 1..Len(q) : \E j \in 1..i : q[m] = v[j]
    <3>1. ASSUME NEW m \in 1..n PROVE \E j \in 1..i : q[m] = v[j]
      BY <2>2, <2>0 DEF StandsFor
    <3> QED BY <1>0, <2>2, <2>0, <3>1
  <2>5. \A m, l \in 1..Len(q) : q[m] = q[l] => m = l
    <3>1. \A m, l \in 1..n : q[m] = q[l] => m = l
      BY <2>2, <2>0 DEF StandsFor
    <3>2. \A m \in 1..n : q[m] # q[n + 1]
      BY <2>1, <2>2
    <3>3. \A m \in 1..Len(q) : m \in 1..n \/ m = n + 1
      BY <1>0, <2>2
    <3> QED BY <3>1, <3>2, <3>3
  <2>6. ASSUME NEW k \in 1..i, FirstIn(v, k, H)
        PROVE  \E m \in 1..Len(q) : FirstIn(q, m, H) /\ q[m] = v[k]
    <3>1. CASE k = i
      <4>1. \A m \in 1..n : r[m] \notin H
        BY <2>6, <2>0, <3>1 DEF StandsFor, FirstIn
      <4>2. e \in H
        BY <2>6, <2>0, <3>1 DEF FirstIn
      <4>3. n + 1 \in 1..Len(q) /\ \A j \in 1..((n + 1) - 1) : q[j] \notin H
        BY <1>0, <2>2, <4>1
      <4>4. FirstIn(q, n + 1, H) /\ q[n + 1] = v[k]
        BY <2>2, <2>0, <3>1, <4>2, <4>3 DEF FirstIn
      <4> QED BY <4>3, <4>4
    <3>2. CASE k \in 1..(i - 1)
      <4>1. PICK m \in 1..n : FirstIn(r, m, H) /\ r[m] = v[k]
        BY <2>6, <2>0, <3>2 DEF StandsFor
      <4>2. r[m] \in H /\ \A j \in 1..(m - 1) : r[j] \notin H
        BY <4>1 DEF FirstIn
      <4>3. m \in 1..Len(q) /\ q[m] = r[m] /\ \A j \in 1..(m - 1) : q[j] = r[j]
        BY <1>0, <2>2
      <4>4. FirstIn(q, m, H)
        BY <4>2, <4>3 DEF FirstIn
      <4> QED BY <4>1, <4>3, <4>4
    <3> QED BY <3>1, <3>2
  <2> QED BY <2>1, <2>3, <2>4, <2>5, <2>6 DEF StandsFor, e
<1> QED BY <1>1, <1>2

(* The names without repetition stand for the names.                         *)
LEMMA UniqueStands ==
  ASSUME NEW v \in Seq(Secrets), NEW H
  PROVE  Unique(v) \in Seq(Secrets) /\ StandsFor(Unique(v), v, Len(v), H)
<1> DEFINE n == Len(v)
<1>1. PICK g \in [1..n -> Seq(Secrets)] :
        /\ \A i \in 1..n : g[i] = AddUnseen(IF i = 1 THEN <<>> ELSE g[i - 1], v[i])
        /\ Unique(v) = IF v = <<>> THEN <<>> ELSE g[n]
  BY UniqueRun
<1> DEFINE val(i) == IF i = 0 THEN <<>> ELSE g[i]
           S == {i \in 0..n : StandsFor(val(i), v, i, H)}
<1>2. n \in Nat /\ (v = <<>> <=> n = 0)
  OBVIOUS
<1>3. <<>> \in Seq(Secrets) /\ StandsFor(<<>>, v, 0, H)
  BY DEF StandsFor
<1> HIDE DEF n
<1>4. \A i \in 0..n : val(i) \in Seq(Secrets)
  BY <1>1, <1>2, <1>3
<1>5. \A i \in 1..n : val(i) = AddUnseen(val(i - 1), v[i])
  BY <1>1, <1>2
<1>6. Unique(v) = val(n)
  BY <1>1, <1>2
<1>7. val(0) = <<>>
  OBVIOUS
<1> HIDE DEF val
<1>8. 0 \in S
  BY <1>2, <1>3, <1>7
<1>9. ASSUME NEW i \in 1..n, i - 1 \in S PROVE i \in S
  <2>1. StandsFor(val(i - 1), v, i - 1, H) /\ val(i - 1) \in Seq(Secrets)
    BY <1>2, <1>4, <1>9
  <2>2. StandsFor(AddUnseen(val(i - 1), v[i]), v, i, H)
    BY <2>1, AddUnseenStands DEF n
  <2> QED BY <1>2, <1>5, <2>2
<1> HIDE DEF S
<1>10. 0..n \subseteq S
  BY <1>2, <1>8, <1>9, UpTo, Zenon
<1>11. n \in S /\ val(n) \in Seq(Secrets)
  BY <1>2, <1>4, <1>10
<1> QED BY <1>6, <1>11 DEF S, n

\* What FirstHeld returns is the first, or 0 when there is none.
LEMMA FirstHeldIsFirst ==
  ASSUME NEW s \in Seq(Secrets), held \in [Secrets -> BOOLEAN]
  PROVE  LET H == {name \in Secrets : held[name]} IN
         /\ FirstHeld(s) = 0 => \A j \in 1..Len(s) : s[j] \notin H
         /\ FirstHeld(s) # 0 => FirstIn(s, FirstHeld(s), H)
<1> DEFINE I == {i \in 1..Len(s) : held[s[i]]}
<1>1. FirstHeld(s) = IF I # {} THEN Min(I) ELSE 0
  BY DEF FirstHeld, FirstIndex
<1>2. I \in SUBSET Nat /\ 0 \notin I /\ \A j \in 1..Len(s) : s[j] \in Secrets
  OBVIOUS
<1>3. CASE I = {}
  BY <1>1, <1>3
<1>4. CASE I # {}
  <2> DEFINE k == FirstHeld(s)
  <2>1. k \in I /\ \A i \in I : k <= i
    <3> HIDE DEF I
    <3> QED BY <1>1, <1>2, <1>4, MinIsLeast
  <2> HIDE DEF k
  <2>2. k \in 1..Len(s) /\ held[s[k]] /\ \A j \in 1..(k - 1) : ~held[s[j]]
    BY <2>1
  <2> QED BY <1>2, <2>2 DEF FirstIn, k
<1> QED BY <1>3, <1>4

\* There is one first element at most.
LEMMA FirstIsUnique ==
  ASSUME NEW s \in Seq(Secrets), NEW H, NEW k, NEW m, FirstIn(s, k, H), FirstIn(s, m, H)
  PROVE  k = m
<1>1. k \in Int /\ m \in Int
  BY DEF FirstIn
<1>2. ~(k < m) /\ ~(m < k)
  BY <1>1 DEF FirstIn
<1> QED BY <1>1, <1>2

(* Names without repetition have the same first secret with a login.         *)
LEMMA SameFirstHeld ==
  ASSUME held \in [Secrets -> BOOLEAN], NEW v \in Seq(Secrets), NEW r \in Seq(Secrets), r = Unique(v)
  PROVE  /\ FirstHeld(r) = 0 <=> FirstHeld(v) = 0
         /\ FirstHeld(r) # 0 => r[FirstHeld(r)] = v[FirstHeld(v)]
<1> DEFINE H == {name \in Secrets : held[name]}
<1>1. StandsFor(r, v, Len(v), H)
  BY UniqueStands
<1>2. /\ FirstHeld(r) = 0 => \A j \in 1..Len(r) : r[j] \notin H
      /\ FirstHeld(r) # 0 => FirstIn(r, FirstHeld(r), H)
  BY FirstHeldIsFirst, Zenon
<1>3. /\ FirstHeld(v) = 0 => \A j \in 1..Len(v) : v[j] \notin H
      /\ FirstHeld(v) # 0 => FirstIn(v, FirstHeld(v), H)
  BY FirstHeldIsFirst, Zenon
<1> HIDE DEF H
<1>4. ASSUME FirstHeld(v) # 0
      PROVE  FirstHeld(r) # 0 /\ r[FirstHeld(r)] = v[FirstHeld(v)]
  <2>1. PICK m \in 1..Len(r) : FirstIn(r, m, H) /\ r[m] = v[FirstHeld(v)]
    BY <1>1, <1>3, <1>4, Zenon DEF StandsFor, FirstIn
  <2>2. FirstHeld(r) # 0
    BY <1>2, <2>1 DEF FirstIn
  <2>3. FirstHeld(r) = m
    BY <1>2, <2>1, <2>2, FirstIsUnique
  <2> QED BY <2>1, <2>2, <2>3
<1>5. ASSUME FirstHeld(v) = 0, FirstHeld(r) # 0 PROVE FALSE
  <2>1. PICK m \in 1..Len(r) : r[m] \in H
    BY <1>2, <1>5, Zenon DEF FirstIn
  <2>2. PICK j \in 1..Len(v) : r[m] = v[j]
    BY <1>1, <2>1, Zenon DEF StandsFor
  <2> QED BY <1>3, <1>5, <2>1, <2>2, Zenon
<1> QED BY <1>4, <1>5

\* Of two sequences, the first one's come first.
LEMMA FirstOfBoth ==
  ASSUME held \in [Secrets -> BOOLEAN], NEW p \in Seq(Secrets), NEW a \in Seq(Secrets)
  PROVE  LET v == p \o a  f == FirstHeld(v) IN
         (IF f = 0 THEN "none" ELSE v[f])
         = IF FirstHeld(p) # 0 THEN p[FirstHeld(p)] ELSE IF FirstHeld(a) # 0 THEN a[FirstHeld(a)] ELSE "none"
<1> DEFINE H == {name \in Secrets : held[name]}
           v == p \o a
<1>1. /\ v \in Seq(Secrets) /\ Len(v) = Len(p) + Len(a) /\ Len(p) \in Nat /\ Len(a) \in Nat
      /\ \A j \in 1..Len(p) : v[j] = p[j]
      /\ \A j \in 1..Len(a) : v[Len(p) + j] = a[j]
      /\ \A j \in (Len(p) + 1)..Len(v) : v[j] = a[j - Len(p)] /\ j - Len(p) \in 1..Len(a)
  OBVIOUS
<1>2. /\ FirstHeld(p) = 0 => \A j \in 1..Len(p) : p[j] \notin H
      /\ FirstHeld(p) # 0 => FirstIn(p, FirstHeld(p), H)
  BY FirstHeldIsFirst
<1>3. /\ FirstHeld(a) = 0 => \A j \in 1..Len(a) : a[j] \notin H
      /\ FirstHeld(a) # 0 => FirstIn(a, FirstHeld(a), H)
  BY FirstHeldIsFirst
<1> HIDE DEF v
<1>4. /\ FirstHeld(v) = 0 => \A j \in 1..Len(v) : v[j] \notin H
      /\ FirstHeld(v) # 0 => FirstIn(v, FirstHeld(v), H)
  BY <1>1, FirstHeldIsFirst, Zenon
<1> HIDE DEF H
<1>5. ASSUME NEW k, FirstIn(v, k, H) PROVE FirstHeld(v) = k /\ k # 0
  <2>1. FirstHeld(v) # 0 /\ k # 0
    BY <1>4, <1>5 DEF FirstIn
  <2> QED BY <1>1, <1>4, <1>5, <2>1, FirstIsUnique
<1>6. CASE FirstHeld(p) # 0
  <2> DEFINE k == FirstHeld(p)
  <2>1. k \in 1..Len(p) /\ p[k] \in H /\ \A j \in 1..(k - 1) : p[j] \notin H
    BY <1>2, <1>6 DEF FirstIn
  <2> HIDE DEF k
  <2>2. k \in 1..Len(v) /\ v[k] = p[k] /\ \A j \in 1..(k - 1) : v[j] = p[j]
    BY <1>1, <2>1
  <2>3. FirstIn(v, k, H)
    BY <2>1, <2>2 DEF FirstIn
  <2>4. FirstHeld(v) = k /\ k # 0
    BY <1>5, <2>3
  <2> QED BY <1>6, <2>2, <2>4 DEF k, v
<1>7. CASE FirstHeld(p) = 0 /\ FirstHeld(a) # 0
  <2> DEFINE k == FirstHeld(a)  n == Len(p)
  <2>1. k \in 1..Len(a) /\ a[k] \in H /\ \A j \in 1..(k - 1) : a[j] \notin H
    BY <1>3, <1>7 DEF FirstIn
  <2> HIDE DEF k
  <2>2. n + k \in 1..Len(v) /\ v[n + k] = a[k]
    BY <1>1, <2>1
  <2>3. \A j \in 1..n : v[j] \notin H
    BY <1>1, <1>2, <1>7
  <2>4. ASSUME NEW j \in (n + 1)..((n + k) - 1) PROVE v[j] \notin H
    <3>1. j \in (n + 1)..Len(v) /\ j - n \in 1..(k - 1)
      BY <1>1, <2>1
    <3>2. v[j] = a[j - n]
      BY <1>1, <3>1
    <3> QED BY <2>1, <3>1, <3>2
  <2>5. \A j \in 1..((n + k) - 1) : j \in 1..n \/ j \in (n + 1)..((n + k) - 1)
    BY <1>1, <2>1
  <2>6. FirstIn(v, n + k, H)
    BY <2>1, <2>2, <2>3, <2>4, <2>5 DEF FirstIn
  <2>7. FirstHeld(v) = n + k /\ n + k # 0
    BY <1>5, <2>6
  <2> QED BY <1>7, <2>2, <2>7 DEF k, v
<1>8. CASE FirstHeld(p) = 0 /\ FirstHeld(a) = 0
  <2>1. \A j \in 1..Len(v) : j \in 1..Len(p) \/ j \in (Len(p) + 1)..Len(v)
    BY <1>1
  <2>2. \A j \in 1..Len(v) : v[j] \notin H
    BY <1>1, <1>2, <1>3, <1>8, <2>1, Zenon
  <2>3. FirstHeld(v) = 0
    BY <1>4, <2>2 DEF FirstIn
  <2> QED BY <1>8, <2>3 DEF v
<1> QED BY <1>6, <1>7, <1>8, Zenon

-----------------------------------------------------------------------------
(* What has been fetched and what is still to be fetched are the names       *)
(* without repetition; what the projected volumes need has been fetched once *)
(* CreatePod has gone past it.                                               *)
CredentialInv ==
  /\ pod \in [volumes : Seq(Seq(Sources)), pullSecrets : Seq(Secrets), automount : Automounts \cup {TRUE}]
  /\ account \in Seq(Secrets) /\ held \in [Secrets -> BOOLEAN]
  /\ secretRefs \in Seq(Secrets) /\ keyring \in Seq(Secrets)
  /\ credentialPC \in {"idle", "projections", "token", "account"} => keyring = <<>>
  /\ credentialPC \in {"secrets", "started"} => keyring \o secretRefs = Unique(AllRefs(pod.pullSecrets, account))
  /\ credentialPC = "started" => secretRefs = <<>>
  /\ credentialPC \in {"token", "account", "secrets", "started"} /\ pod.automount =>
       configMaps = IF Projections.cmProj # "none" THEN {Projections.cmProj} ELSE {}
  /\ credentialPC \in {"account", "secrets", "started"} /\ pod.automount /\ Projections.svcProj =>
       serviceAccountToken

\* No pod is being created.
LEMMA CredentialInvInit == CredentialInit => CredentialInv
<1>1. <<>> \in Seq(Secrets) /\ <<>> \in Seq(Seq(Sources))
  OBVIOUS
<1> QED BY <1>1 DEF CredentialInit, CredentialInv

\* The pods that CreatePod may be called with.
LEMMA PodsAreTyped ==
  ASSUME NEW p \in [volumes : ListsUpTo(ListsUpTo(Sources, MaxSources), MaxVolumes),
                    pullSecrets : ListsUpTo(Secrets, MaxRefs), automount : Automounts]
  PROVE  p \in [volumes : Seq(Seq(Sources)), pullSecrets : Seq(Secrets), automount : Automounts \cup {TRUE}]
<1>1. MaxVolumes \in Nat /\ MaxSources \in Nat /\ MaxRefs \in Nat
  BY CredentialsAssumption
<1>2. p.pullSecrets \in Seq(Secrets)
  BY <1>1, ListIsSeq
<1> DEFINE V == ListsUpTo(Sources, MaxSources)  w == p.volumes
<1>3. V \subseteq Seq(Sources)
  BY <1>1, ListIsSeq
<1>4. w \in ListsUpTo(V, MaxVolumes)
  OBVIOUS
<1> HIDE DEF V, w
<1>5. w \in Seq(V)
  BY <1>1, <1>4, ListIsSeq
<1>6. w \in Seq(Seq(Sources))
  BY <1>3, <1>5
<1> DEFINE refs == p.pullSecrets  mounted == p.automount  A == Automounts \cup {TRUE}
<1>7. p = [volumes |-> w, pullSecrets |-> refs, automount |-> mounted] /\ mounted \in Automounts
  BY DEF w
<1>8. mounted \in A
  BY <1>7, Zenon
<1> HIDE DEF refs, mounted, A
<1>9. p \in [volumes : Seq(Seq(Sources)), pullSecrets : Seq(Secrets), automount : A]
  BY <1>2, <1>6, <1>7, <1>8 DEF refs
<1> QED BY <1>9, Zenon DEF A

(* A request that fails ends CreatePod before it starts the pod; each one    *)
(* that succeeds adds what it asked for.                                     *)
LEMMA CredentialInvStep == CredentialInv /\ [CredentialNext]_credentialVars => CredentialInv'
<1> SUFFICES ASSUME CredentialInv, [CredentialNext]_credentialVars PROVE CredentialInv'
  OBVIOUS
<1>1. ASSUME CreateBegins PROVE CredentialInv'
  <2>1. pod' \in [volumes : Seq(Seq(Sources)), pullSecrets : Seq(Secrets), automount : Automounts \cup {TRUE}]
    BY <1>1, PodsAreTyped, Zenon DEF CreateBegins
  <2>2. account' \in Seq(Secrets)
    BY <1>1, CredentialsAssumption, ListIsSeq DEF CreateBegins
  <2> QED BY <1>1, <2>1, <2>2, Zenon DEF CreateBegins, CredentialInv
<1>2. ASSUME PopulateConfigMaps PROVE CredentialInv'
  <2>1. Projections' = Projections
    BY <1>2 DEF PopulateConfigMaps, Projections
  <2> QED BY <1>2, <2>1, Zenon DEF PopulateConfigMaps, CredentialsFail, CredentialInv
<1>3. ASSUME CreateServiceAccountToken PROVE CredentialInv'
  <2>1. Projections' = Projections
    BY <1>3 DEF CreateServiceAccountToken, Projections
  <2> QED BY <1>3, <2>1, Zenon DEF CreateServiceAccountToken, CredentialsFail, CredentialInv
<1>4. ASSUME GetServiceAccount PROVE CredentialInv'
  <2> DEFINE v == AllRefs(pod.pullSecrets, account)
  <2>1. Projections' = Projections /\ v' = v
    BY <1>4 DEF GetServiceAccount, Projections
  <2>2. v \in Seq(Secrets)
    BY DEF CredentialInv, AllRefs
  <2> HIDE DEF v
  <2>3. Unique(v) \in Seq(Secrets) /\ <<>> \o Unique(v) = Unique(v)
    BY <2>2, UniqueStands
  <2>4. CASE CredentialsFail
    BY <1>4, <2>1, <2>4, Zenon DEF GetServiceAccount, CredentialsFail, CredentialInv
  <2>5. CASE ~CredentialsFail
    <3>1. secretRefs' = Unique(v) /\ credentialPC' = "secrets" /\ keyring' = <<>>
      BY <1>4, <2>5 DEF GetServiceAccount, CredentialInv, v
    <3>2. keyring' \o secretRefs' = Unique(v')
      BY <2>1, <2>3, <3>1
    <3> QED BY <1>4, <2>1, <2>3, <2>5, <3>1, <3>2, Zenon DEF GetServiceAccount, CredentialInv, v
  <2> QED BY <2>4, <2>5
<1>5. ASSUME GetSecret PROVE CredentialInv'
  <2> DEFINE v == AllRefs(pod.pullSecrets, account)
  <2>1. Projections' = Projections /\ v' = v
    BY <1>5 DEF GetSecret, Projections
  <2> HIDE DEF v
  <2>2. CASE CredentialsFail
    BY <1>5, <2>1, <2>2, Zenon DEF GetSecret, CredentialsFail, CredentialInv
  <2>3. CASE ~CredentialsFail
    <3>1. /\ keyring' = Append(keyring, Head(secretRefs)) /\ secretRefs' = Tail(secretRefs)
          /\ credentialPC = "secrets" /\ credentialPC' = "secrets" /\ secretRefs # <<>>
          /\ keyring \in Seq(Secrets) /\ secretRefs \in Seq(Secrets)
      BY <1>5, <2>3 DEF GetSecret, CredentialInv
    <3>2. /\ keyring' \o secretRefs' = keyring \o secretRefs
          /\ keyring' \in Seq(Secrets) /\ secretRefs' \in Seq(Secrets)
      BY <3>1
    <3>3. keyring' \o secretRefs' = Unique(v')
      BY <2>1, <3>1, <3>2, Zenon DEF CredentialInv, v
    <3>4. UNCHANGED <<pod, account, held, configMaps, serviceAccountToken>>
      BY <1>5, <2>3 DEF GetSecret
    <3> QED BY <2>1, <3>1, <3>2, <3>3, <3>4, Zenon DEF CredentialInv, v
  <2> QED BY <2>2, <2>3
<1>6. ASSUME Resolved PROVE CredentialInv'
  <2>1. Projections' = Projections /\ AllRefs(pod.pullSecrets, account)' = AllRefs(pod.pullSecrets, account)
    BY <1>6 DEF Resolved, Projections
  <2> QED BY <1>6, <2>1, Zenon DEF Resolved, CredentialInv
<1>7. ASSUME UNCHANGED credentialVars PROVE CredentialInv'
  <2>1. Projections' = Projections /\ AllRefs(pod.pullSecrets, account)' = AllRefs(pod.pullSecrets, account)
    BY <1>7 DEF credentialVars, Projections
  <2> QED BY <1>7, <2>1, Zenon DEF credentialVars, CredentialInv
<1> QED BY <1>1, <1>2, <1>3, <1>4, <1>5, <1>6, <1>7 DEF CredentialNext

(* The image is pulled with the login of the first secret that has one,      *)
(* where the pod's secrets come before its service account's, however many   *)
(* there are and whichever they share.                                       *)
THEOREM PodSecretsComeFirstHolds == CredentialSpec => []PodSecretsComeFirst
<1>1. ASSUME CredentialInv, credentialPC = "started" PROVE PodSecretsComeFirst
  <2> DEFINE p == pod.pullSecrets  v == p \o account
  <2>1. /\ p \in Seq(Secrets) /\ account \in Seq(Secrets) /\ held \in [Secrets -> BOOLEAN]
        /\ keyring \in Seq(Secrets) /\ keyring \o secretRefs = Unique(v) /\ secretRefs = <<>>
    BY <1>1 DEF CredentialInv, AllRefs
  <2>2. keyring = Unique(v) /\ v \in Seq(Secrets)
    BY <2>1
  <2>3. (IF FirstHeld(v) = 0 THEN "none" ELSE v[FirstHeld(v)])
        = IF FirstHeld(p) # 0 THEN p[FirstHeld(p)] ELSE IF FirstHeld(account) # 0 THEN account[FirstHeld(account)] ELSE "none"
    BY <2>1, FirstOfBoth, Zenon
  <2> HIDE DEF v
  <2>4. /\ FirstHeld(keyring) = 0 <=> FirstHeld(v) = 0
        /\ FirstHeld(keyring) # 0 => keyring[FirstHeld(keyring)] = v[FirstHeld(v)]
    BY <2>1, <2>2, SameFirstHeld
  <2>5. ForImage = IF FirstHeld(v) = 0 THEN "none" ELSE v[FirstHeld(v)]
    BY <2>4 DEF ForImage
  <2> QED BY <2>3, <2>5 DEF PodSecretsComeFirst
<1>2. CredentialInv => PodSecretsComeFirst
  BY <1>1 DEF PodSecretsComeFirst
<1> QED BY <1>2, CredentialInvInit, CredentialInvStep, PTL DEF CredentialSpec

(* A pod that is started has its token, its config map and the login of each *)
(* pull secret once, provided that it mounts its token automatically and     *)
(* that there is one config map: extractPodCredentials fetches no other.     *)
THEOREM CredentialsSufficeHolds ==
  ASSUME Automounts \subseteq {TRUE}, \A a, b \in ConfigMaps : a = b
  PROVE  CredentialSpec => []CredentialsSuffice
<1>1. ASSUME CredentialInv, credentialPC = "started" PROVE CredentialsSuffice
  <2> DEFINE v == pod.pullSecrets \o account  h == FindProjections(pod.volumes)  w == pod.volumes
  <2>1. /\ pod.pullSecrets \in Seq(Secrets) /\ account \in Seq(Secrets) /\ w \in Seq(Seq(Sources))
        /\ keyring \in Seq(Secrets) /\ keyring \o secretRefs = Unique(v) /\ secretRefs = <<>>
        /\ pod.automount
    BY <1>1, Zenon DEF CredentialInv, AllRefs
  <2>2. keyring = Unique(v) /\ v \in Seq(Secrets)
    BY <2>1
  <2>3. StandsFor(keyring, v, Len(v), {})
    BY <2>2, UniqueStands, Zenon
  <2>4. h \in Found /\ \A k \in 1..Len(w) : \A j \in 1..Len(w[k]) : Seen(h, w[k][j])
    BY <2>1, FindProjectionsFinds
  <2>5. /\ configMaps = IF h.cmProj # "none" THEN {h.cmProj} ELSE {}
        /\ h.svcProj => serviceAccountToken
    BY <1>1, <2>1 DEF CredentialInv, Projections
  <2> HIDE DEF h
  <2>6. ASSUME NEW s \in Projected PROVE Seen(h, s)
    <3>1. PICK k \in DOMAIN w : s \in Range(w[k])
      BY <2>6 DEF Projected, Range
    <3>2. k \in 1..Len(w) /\ w[k] \in Seq(Sources)
      BY <2>1, <3>1
    <3>3. PICK j \in 1..Len(w[k]) : s = w[k][j]
      BY <3>1, <3>2 DEF Range
    <3> QED BY <2>4, <3>2, <3>3
  <2>7. Projected \cap ConfigMaps \subseteq configMaps
    <3> SUFFICES ASSUME NEW s \in Projected, s \in ConfigMaps PROVE s \in configMaps
      OBVIOUS
    <3>1. h.cmProj # "none" /\ h.cmProj \in ConfigMaps
      BY <2>4, <2>6 DEF Seen, Found
    <3> QED BY <2>5, <3>1
  <2>8. "token" \in Projected => serviceAccountToken
    BY <2>5, <2>6 DEF Seen
  <2>9. Range(v) = Range(pod.pullSecrets) \cup Range(account)
    <3> DEFINE p == pod.pullSecrets
    <3>1. /\ DOMAIN v = 1..(Len(p) + Len(account)) /\ DOMAIN p = 1..Len(p) /\ DOMAIN account = 1..Len(account)
          /\ Len(p) \in Nat /\ Len(account) \in Nat
          /\ \A j \in 1..Len(p) : v[j] = p[j] /\ j \in DOMAIN v
          /\ \A j \in 1..Len(account) : v[Len(p) + j] = account[j] /\ Len(p) + j \in DOMAIN v
          /\ \A j \in DOMAIN v : j \in 1..Len(p) \/ (v[j] = account[j - Len(p)] /\ j - Len(p) \in 1..Len(account))
      BY <2>1
    <3> HIDE DEF v, p
    <3>2. Range(p) \subseteq Range(v)
      BY <3>1 DEF Range
    <3>5. \A j \in 1..Len(account) : account[j] \in Range(v)
      BY <3>1 DEF Range
    <3>6. Range(account) \subseteq Range(v)
      BY <3>1, <3>5 DEF Range
    <3>3. ASSUME NEW j \in DOMAIN v PROVE v[j] \in Range(p) \cup Range(account)
      <4>1. CASE j \in 1..Len(p)
        BY <3>1, <4>1 DEF Range
      <4>2. CASE v[j] = account[j - Len(p)] /\ j - Len(p) \in 1..Len(account)
        BY <3>1, <4>2 DEF Range
      <4> QED BY <3>1, <4>1, <4>2
    <3>4. Range(v) \subseteq Range(p) \cup Range(account)
      BY <3>3 DEF Range
    <3> QED BY <3>2, <3>4, <3>6 DEF p
  <2> HIDE DEF v
  <2>10. DOMAIN keyring = 1..Len(keyring) /\ DOMAIN v = 1..Len(v)
    BY <2>1, <2>2
  <2>11. Range(keyring) \subseteq Range(v)
    BY <2>3, <2>10 DEF StandsFor, Range
  <2>12. Range(v) \subseteq Range(keyring)
    BY <2>3, <2>10 DEF StandsFor, Range
  <2>13. IsInjective(keyring)
    BY <2>3, <2>10 DEF StandsFor, IsInjective
  <2> QED BY <2>7, <2>8, <2>9, <2>11, <2>12, <2>13 DEF CredentialsSuffice
<1>2. CredentialInv => CredentialsSuffice
  BY <1>1 DEF CredentialsSuffice
<1> QED BY <1>2, CredentialInvInit, CredentialInvStep, PTL DEF CredentialSpec

=============================================================================
