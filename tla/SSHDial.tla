------------------------------- MODULE SSHDial -------------------------------
(***************************************************************************)
(* internal/ssh/dial.go and keepalive.go: DialContext connects, leaves the  *)
(* handshake to a goroutine, and waits for its result on an unbuffered      *)
(* channel or for the context, whichever is first; the user of the client   *)
(* runs SendKeepalive beside it.  The server may fall silent at any time.   *)
(***************************************************************************)
EXTENDS Integers

VARIABLES
  expired,      \* is the context of DialContext done?
  server,       \* "answers" or "silent"
  caller,       \* DialContext: "idle", "dialing", "waiting" or "returned"
  dialResult,       \* what it returned
  handshaker,       \* the goroutine: "none", "handshaking", "sending" or "done"
  sshClient,       \* the ssh.Client: "none", "open" or "closed"
  closedBy,     \* who closed it
  keepalive,    \* SendKeepalive: "none", "selecting", "requesting" or "done"
  stopped       \* is the context of SendKeepalive done?

dialVars == <<expired, server, caller, dialResult, handshaker, sshClient, closedBy, keepalive, stopped>>
handshakeVars == <<caller, dialResult, handshaker, sshClient, closedBy>>

DialInit ==
  /\ expired = FALSE /\ server = "answers" /\ stopped = FALSE
  /\ caller = "idle" /\ dialResult = "none" /\ handshaker = "none"
  /\ sshClient = "none" /\ closedBy = "nobody" /\ keepalive = "none"

-----------------------------------------------------------------------------
(* DialContext.                                                            *)

DialReturns(r) == caller' = "returned" /\ dialResult' = r

DialContext ==
  /\ caller = "idle" /\ caller' = "dialing"
  /\ UNCHANGED <<expired, server, dialResult, handshaker, sshClient, closedBy, keepalive, stopped>>

\* net.Dialer.DialContext, bounded by the context and by config.Timeout.
Dials ==
  /\ caller = "dialing"
  /\ \/ server = "answers" /\ caller' = "waiting" /\ handshaker' = "handshaking" /\ UNCHANGED dialResult
     \/ DialReturns("error") /\ UNCHANGED handshaker
  /\ UNCHANGED <<expired, server, sshClient, closedBy, keepalive, stopped>>

\* ssh.NewClientConn returns, with a connection or with an error.
HandshakeEnds(ok) ==
  /\ handshaker = "handshaking" /\ server = "answers"
  /\ handshaker' = "sending"
  /\ sshClient' = IF ok THEN "open" ELSE "none"
  /\ UNCHANGED <<expired, server, caller, dialResult, closedBy, keepalive, stopped>>

\* A plausible slip: the select has no case for the context.
NotWatched == FALSE

CallerSeesExpiry == expired
WorkerSeesExpiry == expired

\* Both selects choose the channel.
Delivers ==
  /\ handshaker = "sending" /\ caller = "waiting"
  /\ handshaker' = "done" /\ DialReturns(IF sshClient = "open" THEN "client" ELSE "error")
  /\ UNCHANGED <<expired, server, sshClient, closedBy, keepalive, stopped>>

\* The caller's select chooses the context.
CallerGivesUp ==
  /\ caller = "waiting" /\ CallerSeesExpiry
  /\ DialReturns("error")
  /\ UNCHANGED <<expired, server, handshaker, sshClient, closedBy, keepalive, stopped>>

\* A plausible slip: a client that nobody waits for is left open.
LeftOpen == sshClient

AfterGivingUp == IF sshClient = "open" THEN "closed" ELSE sshClient

\* The goroutine's select chooses the context.
WorkerGivesUp ==
  /\ handshaker = "sending" /\ WorkerSeesExpiry
  /\ handshaker' = "done" /\ sshClient' = AfterGivingUp
  /\ closedBy' = IF sshClient = "open" THEN "worker" ELSE closedBy
  /\ UNCHANGED <<expired, server, caller, dialResult, keepalive, stopped>>

-----------------------------------------------------------------------------
(* The user of the client, and SendKeepalive.                              *)

StartsKeepalive ==
  /\ dialResult = "client" /\ keepalive = "none" /\ keepalive' = "selecting"
  /\ UNCHANGED <<expired, server, caller, dialResult, handshaker, sshClient, closedBy, stopped>>

ClosesClient ==
  /\ dialResult = "client" /\ sshClient = "open"
  /\ sshClient' = "closed" /\ closedBy' = "caller"
  /\ UNCHANGED <<expired, server, caller, dialResult, handshaker, keepalive, stopped>>

\* The ticker fires: SendRequest waits for the reply.
KeepaliveTicks ==
  /\ keepalive = "selecting" /\ keepalive' = "requesting"
  /\ UNCHANGED <<expired, server, handshakeVars, stopped>>

\* The reply, or the error of a closed connection, which is only logged.
KeepaliveReplied ==
  /\ keepalive = "requesting" /\ (server = "answers" \/ sshClient = "closed")
  /\ keepalive' = "selecting"
  /\ UNCHANGED <<expired, server, handshakeVars, stopped>>

\* A plausible slip: the loop looks at its ticker only.
NeverStops == FALSE

StopSeen == stopped

KeepaliveStops ==
  /\ keepalive = "selecting" /\ StopSeen
  /\ keepalive' = "done"
  /\ UNCHANGED <<expired, server, handshakeVars, stopped>>

DialEnvironment ==
  /\ caller # "idle"
  /\ \/ ~expired /\ expired' = TRUE /\ UNCHANGED <<server, stopped>>
     \/ ~stopped /\ stopped' = TRUE /\ UNCHANGED <<server, expired>>
     \/ server = "answers" /\ server' = "silent" /\ UNCHANGED <<expired, stopped>>
  /\ UNCHANGED <<handshakeVars, keepalive>>

DialNext ==
  \/ DialContext \/ Dials \/ \E ok \in BOOLEAN : HandshakeEnds(ok)
  \/ Delivers \/ CallerGivesUp \/ WorkerGivesUp
  \/ StartsKeepalive \/ ClosesClient
  \/ KeepaliveTicks \/ KeepaliveReplied \/ KeepaliveStops
  \/ DialEnvironment

\* Goroutines that can run do run; a select that is offered the context again
\* and again takes it in the end.  Nothing makes the server answer.
DialFairness ==
  /\ WF_dialVars(Dials) /\ WF_dialVars(Delivers) /\ WF_dialVars(CallerGivesUp) /\ WF_dialVars(WorkerGivesUp)
  /\ WF_dialVars(KeepaliveReplied) /\ SF_dialVars(KeepaliveStops)

DialSpec == DialInit /\ [][DialNext]_dialVars
FairDialSpec == DialSpec /\ DialFairness

-----------------------------------------------------------------------------
\* A client has one owner: once the goroutine is through with an open client
\* the caller has it, and the goroutine never closes a client the caller got.
ClientHasOneOwner ==
  /\ handshaker = "done" /\ sshClient = "open" => dialResult = "client"
  /\ closedBy = "worker" => dialResult # "client"

\* When the context expires DialContext returns, even if the server never
\* finishes the handshake.
ExpiryReturns == expired ~> caller = "returned"

\* A goroutine that has finished its handshake ends: it does not wait for
\* ever for a caller that has left.
WorkerEnds == handshaker = "sending" ~> handshaker = "done"

\* SendKeepalive ends when it is told to, once the connection it may be
\* waiting on is closed or the server answers.
KeepaliveEnds == stopped /\ sshClient = "closed" /\ keepalive # "none" ~> keepalive = "done"

=============================================================================
