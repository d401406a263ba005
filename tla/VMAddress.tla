------------------------------ MODULE VMAddress ------------------------------
(***************************************************************************)
(* internal/netutil: how the address of a machine is found by its MAC        *)
(* address, in the ARP table (RetrieveIPFromARPTable) or in the packets it   *)
(* sends (CaptureIPWithTcpDump).  A MAC address is a pair of octets, an      *)
(* octet a pair of digits; arp prints them lower-case, without leading 0.    *)
(* The ARP table changes at any time; an entry is the MAC address it is for. *)
(***************************************************************************)
EXTENDS Lists

CONSTANT MaxEntries   \* the length of the ARP table

ASSUME AddressAssumption == MaxEntries \in Nat

VARIABLES target, table, cancelled, pollPC, foundMAC, capture

arpVars == <<target, table, cancelled, pollPC, foundMAC, capture>>

\* With and without a leading zero.
Octets == {<<"0", "a">>, <<"a", "0">>, <<"a", "a">>}
MACs(octets) == octets \X octets
Lower(d) == IF d = "A" THEN "a" ELSE d
LowerMAC(mac) == [i \in 1..2 |-> [j \in 1..2 |-> Lower(mac[i][j])]]

ArpInit ==
  /\ target = <<>> /\ table = <<>> /\ cancelled = FALSE
  /\ pollPC = "idle" /\ foundMAC = <<>> /\ capture = "idle"

\* A machine has been started; one of the two functions is called.
SearchBegins(mac) ==
  /\ pollPC = "idle" /\ capture = "idle" /\ target' = mac
  /\ \/ pollPC' = "polling" /\ UNCHANGED capture
     \/ capture' = "selecting" /\ UNCHANGED pollPC
  /\ UNCHANGED <<table, cancelled, foundMAC>>

-----------------------------------------------------------------------------
\* NormalizeMACAddress, octet by octet: a leading zero is dropped.
NormalizeOctet(octet) == IF octet[1] = "0" THEN <<octet[2]>> ELSE octet

NormalizeMACAddress(mac) == NormalizeOctet(mac[1]) \o <<":">> \o NormalizeOctet(mac[2])

\* strings.Contains
IsIn(s, t) == \E i \in 0 .. Len(t) - Len(s) : \A j \in DOMAIN s : s[j] = t[i + j]

\* A plausible slip: what follows the last colon is not compared.
SamePrefix(mac) == IsIn(NormalizeOctet(LowerMAC(target)[1]) \o <<":">>, NormalizeMACAddress(mac))

\* The line of an entry contains the MAC address, both in lower case.  It is
\* normalized first, as arp prints the addresses without leading zeros.
Matches(mac) == IsIn(NormalizeMACAddress(LowerMAC(target)), NormalizeMACAddress(mac))

\* A plausible slip: the context is looked at only once.
NotAgain == FALSE

SearchCancelled == cancelled

\* One round: run arp and scan its output; sleep if nothing was found.
RunsArp ==
  LET found == {i \in DOMAIN table : Matches(table[i])} IN
  /\ pollPC = "polling" /\ ~SearchCancelled
  /\ \/ /\ found # {}
        /\ foundMAC' = table[CHOOSE i \in found : \A j \in found : i <= j] /\ pollPC' = "returned"
     \/ found = {} /\ pollPC' = "sleeping" /\ UNCHANGED foundMAC
     \/ pollPC' = "failed" /\ UNCHANGED foundMAC
  /\ UNCHANGED <<target, table, cancelled, capture>>

Sleeps ==
  /\ pollPC = "sleeping" /\ pollPC' = "polling"
  /\ UNCHANGED <<target, table, cancelled, foundMAC, capture>>

SeesContext ==
  /\ pollPC = "polling" /\ SearchCancelled /\ pollPC' = "failed"
  /\ UNCHANGED <<target, table, cancelled, foundMAC, capture>>

-----------------------------------------------------------------------------
\* CaptureIPWithTcpDump: a packet with a network layer has the address; one
\* without is passed over; a receive from the closed channel yields no packet,
\* and asking it for its network layer panics.
Captures ==
  /\ capture = "selecting" /\ capture' \in {"returned", "selecting", "panicked"}
  /\ UNCHANGED <<target, table, cancelled, pollPC, foundMAC>>

CaptureSeesContext ==
  /\ capture = "selecting" /\ SearchCancelled /\ capture' = "failed"
  /\ UNCHANGED <<target, table, cancelled, pollPC, foundMAC>>

-----------------------------------------------------------------------------
ArpEnvironment ==
  \/ /\ target # <<>> /\ ~cancelled /\ cancelled' = TRUE
     /\ UNCHANGED <<target, table, pollPC, foundMAC, capture>>
  \/ /\ pollPC # "idle"
     /\ \/ Len(table) < MaxEntries
           /\ \E mac \in MACs(Octets) \ Range(table) : table' = Append(table, mac)
        \/ table # <<>> /\ table' = Tail(table)
     /\ UNCHANGED <<target, cancelled, pollPC, foundMAC, capture>>

ArpStep == RunsArp \/ Sleeps \/ SeesContext

ArpNext ==
  \/ \E mac \in MACs(Octets \cup {<<"A", "a">>}) : SearchBegins(mac)
  \/ ArpStep \/ Captures \/ CaptureSeesContext \/ ArpEnvironment

\* The goroutines run, and a select that is offered the context again and
\* again takes it in the end.  Nothing makes packets come.
ArpFairness == WF_arpVars(ArpStep) /\ WF_arpVars(CaptureSeesContext)

ArpSpec == ArpInit /\ [][ArpNext]_arpVars /\ ArpFairness

-----------------------------------------------------------------------------
\* The address that is found is the address of the machine, if no octet of its
\* MAC address begins with a zero; otherwise the line of another machine whose
\* MAC address merely contains the printed one may be taken for it.
AddressIsTheMachines ==
  foundMAC # <<>> /\ target[1][1] # "0" /\ target[2][1] # "0" => foundMAC = LowerMAC(target)

\* Either search ends when its context is done, whatever comes in.
CancelEndsSearch ==
  cancelled ~> pollPC \notin {"polling", "sleeping"} /\ capture # "selecting"

=============================================================================
