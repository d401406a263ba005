------------------------------ MODULE NodeSetup ------------------------------
(***************************************************************************)
(* ConfigureNode of pkg/provider/vk_node.go, with the choice of the node's  *)
(* address in internal/netutil/ifaces.go.  The interfaces of the host are a *)
(* sequence; each has a kind and a sequence of addresses.  What is read     *)
(* from the host is one step each, and may fail; interfaces come and go.    *)
(***************************************************************************)
EXTENDS Lists

CONSTANTS MaxInterfaces, MaxAddrs

ASSUME NodeAssumption == MaxInterfaces \in Nat /\ MaxAddrs \in Nat

VARIABLES
  ifs,        \* the interfaces of the host
  setupPC,
  seen,       \* the interfaces when the address was chosen
  nodeStatus      \* the fields of the node that have been set

setupVars == <<ifs, setupPC, seen, nodeStatus>>

Addr == {"ipv4", "ipv6", "loopback", "malformed"}
Interface == [ethernet : BOOLEAN, addrs : ListsUpTo(Addr, MaxAddrs)]
Blank == [capacity |-> {}, allocatable |-> {}, conditions |-> {}, address |-> <<>>,
          endpoints |-> FALSE, info |-> FALSE, cpuLabel |-> FALSE]

SetupInit ==
  /\ ifs = <<>> /\ setupPC = "idle" /\ seen = <<>> /\ nodeStatus = Blank

ConfigureNode(interfaces) ==
  /\ setupPC = "idle" /\ setupPC' = "capacity" /\ ifs' = interfaces
  /\ UNCHANGED <<seen, nodeStatus>>

SetupFails == setupPC' = "failed" /\ UNCHANGED <<nodeStatus, seen>>

\* The position of the first IPv4 address that is not a loopback address, or 0.
FindValidIP(i) == FirstIndex(i.addrs, LAMBDA a : a = "ipv4")

\* The position of the first interface of the kind with a valid address, or 0.
FirstValid(interfaces, ethernet) ==
  FirstIndex(interfaces, LAMBDA i : i.ethernet = ethernet /\ FindValidIP(i) # 0)

\* A plausible slip: one pass, in which Ethernet is not preferred.
OnePass(interfaces) == FirstIndex(interfaces, LAMBDA i : FindValidIP(i) # 0)

\* Two passes, Ethernet first.
GetActiveInterface(interfaces) ==
  IF FirstValid(interfaces, TRUE) # 0 THEN FirstValid(interfaces, TRUE)
  ELSE FirstValid(interfaces, FALSE)

\* What getNodeCapacity reports, if memory, processors and disk can be read.
GetNodeCapacity == {"cpu", "memory", "ephemeral-storage", "pods"}

\* The conditions that are reported as true.
GetNodeConditions == {"Ready"}

SetsCapacity ==
  /\ setupPC = "capacity"
  /\ \/ /\ nodeStatus' = [nodeStatus EXCEPT !.capacity = GetNodeCapacity, !.allocatable = GetNodeCapacity,
                                   !.conditions = GetNodeConditions]
        /\ setupPC' = "addresses" /\ UNCHANGED seen
     \/ SetupFails
  /\ UNCHANGED ifs

\* The interface and the position of its address, or <<>>.
RetrieveNodeIPAddress(interfaces) ==
  LET i == GetActiveInterface(interfaces) IN
  IF i = 0 THEN <<>> ELSE <<i, FindValidIP(interfaces[i])>>

\* nodeAddresses and nodeDaemonEndpoints.
SetsAddresses ==
  /\ setupPC = "addresses"
  /\ \/ /\ RetrieveNodeIPAddress(ifs) # <<>>
        /\ nodeStatus' = [nodeStatus EXCEPT !.address = RetrieveNodeIPAddress(ifs), !.endpoints = TRUE]
        /\ seen' = ifs
        /\ setupPC' = "info"
     \/ SetupFails
  /\ UNCHANGED ifs

\* host.Info, the labels, and the label of the processor if it is known.
SetsInfo ==
  /\ setupPC = "info"
  /\ \/ /\ \E known \in BOOLEAN :
             nodeStatus' = [nodeStatus EXCEPT !.info = TRUE, !.cpuLabel = known]
        /\ setupPC' = "returned" /\ UNCHANGED seen
     \/ SetupFails
  /\ UNCHANGED ifs

InterfaceLost ==
  /\ setupPC \in {"capacity", "addresses"} /\ ifs # <<>> /\ ifs' = Tail(ifs)
  /\ UNCHANGED <<setupPC, seen, nodeStatus>>

SetupNext ==
  \/ \E interfaces \in ListsUpTo(Interface, MaxInterfaces) : ConfigureNode(interfaces)
  \/ SetsCapacity \/ SetsAddresses \/ SetsInfo \/ InterfaceLost

SetupSpec == SetupInit /\ [][SetupNext]_setupVars

-----------------------------------------------------------------------------
\* The address of a configured node is the first IPv4 address of the first
\* interface that has one, where Ethernet interfaces go before all others: no
\* interface with a valid address comes before it in this order.
AddressIsPreferred ==
  setupPC = "returned" =>
    LET chosen == nodeStatus.address[1]
        before(i) == \/ seen[i].ethernet /\ ~seen[chosen].ethernet
                     \/ seen[i].ethernet = seen[chosen].ethernet /\ i < chosen
        addr == nodeStatus.address[2]
    IN /\ chosen \in DOMAIN seen /\ seen[chosen].addrs[addr] = "ipv4"
       /\ \A a \in 1 .. addr - 1 : seen[chosen].addrs[a] # "ipv4"
       /\ \A i \in DOMAIN seen : before(i) => "ipv4" \notin Range(seen[i].addrs)

=============================================================================
