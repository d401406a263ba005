------------------------------- MODULE Startup -------------------------------
(***************************************************************************)
(* cmd/virtual-kubelet: how run sets up tracing, builds the node from its   *)
(* options and the provider, starts it in a goroutine, waits, and what the  *)
(* process exits with.  nodeutil.Node is external: NewNode applies the      *)
(* options in order and then builds the provider; Run works until its       *)
(* context is done or a controller stops, and then closes Done.             *)
(***************************************************************************)
EXTENDS Integers

CONSTANTS
  Effects,      \* the taint effects the operator may ask for
  Rates         \* the values of -trace-sample-rate, in percent

ASSUME StartupAssumption == Rates \subseteq Int

VARIABLES
  config,       \* flags and environment
  interrupted,    \* has the process been interrupted?
  runPC,           \* where run is
  taint,        \* the effect of the taint in the node's specification
  node,         \* "none", "running" or "done"
  ready,        \* has the node become ready?
  nodeErr,      \* what node.Run returned: "nil", "canceled" or "failed"
  elapsed,      \* has -startup-timeout passed since the node was started?
  exitStatus          \* the exit of the process: "none", "ok" or "fatal"

startupVars == <<config, interrupted, runPC, taint, node, ready, nodeErr, elapsed, exitStatus>>
nodeState == <<node, ready, nodeErr, elapsed>>

Supported == {"NoSchedule", "NoExecute", "PreferNoSchedule"}

Configs ==
  [effect : Effects, disableTaint : BOOLEAN, rate : Rates, endpoint : BOOLEAN,
   platform : {"darwin", "linux"}, port : {"none", "number", "text"}]

\* Before the flags are read.
Unread ==
  [effect |-> "none", disableTaint |-> FALSE, rate |-> 0, endpoint |-> FALSE, platform |-> "none", port |-> "none"]

StartupInit ==
  /\ config = Unread /\ interrupted = FALSE /\ runPC = "parsing" /\ taint = "none"
  /\ node = "none" /\ ready = FALSE /\ nodeErr = "none" /\ elapsed = FALSE
  /\ exitStatus = "none"

-----------------------------------------------------------------------------
\* The command: log.Fatal, unless the error is context.Canceled.
ExitWith(err) == IF err = "failed" THEN "fatal" ELSE "ok"

RunReturns(err) == runPC' = "returned" /\ exitStatus' = ExitWith(err)

GoesOn(next) == runPC' = next /\ UNCHANGED exitStatus

\* The flags and the environment are read once.
ParsesFlags(c) ==
  /\ runPC = "parsing" /\ config' = c /\ GoesOn("tracing")
  /\ UNCHANGED <<interrupted, taint, nodeState>>

\* A rate that is not a percentage is refused.
DetermineSampler == config.rate \in 0..100

\* initTracerProvider makes an exporter, which may fail, if there is an
\* endpoint for it.
InitTracerProviderMayFail == config.endpoint

ConfigureTracing ==
  /\ runPC = "tracing"
  /\ \/ DetermineSampler /\ GoesOn("options")
     \/ (~DetermineSampler \/ InitTracerProviderMayFail) /\ RunReturns("failed")
  /\ UNCHANGED <<config, interrupted, taint, nodeState>>

\* A plausible slip: an effect that is not supported means no taint.
NoTaint == TRUE

TaintSupported == config.effect \in Supported

\* The options of NewNode: withTaint, withProviderID, withVersion, the key
\* pair, the handlers, the routes and the settings; files and the API may fail.
ApplyOptions ==
  /\ runPC = "options"
  /\ \/ /\ config.disableTaint \/ TaintSupported
        /\ taint' = IF config.disableTaint \/ config.effect \notin Supported THEN "none" ELSE config.effect
        /\ GoesOn("provider")
     \/ RunReturns("failed") /\ UNCHANGED taint
  /\ UNCHANGED <<config, interrupted, nodeState>>

\* The provider: KUBELET_PORT, the platform, the cache directory, the runner's
\* user, NewMacOSExecProvider.
NewProvider ==
  /\ runPC = "provider"
  /\ \/ config.port # "text" /\ config.platform = "darwin" /\ GoesOn("starting")
     \/ RunReturns("failed")
  /\ UNCHANGED <<config, interrupted, taint, nodeState>>

StartsNode ==
  /\ runPC = "starting" /\ node' = "running" /\ GoesOn("selecting")
  /\ UNCHANGED <<config, interrupted, taint, ready, nodeErr, elapsed>>

-----------------------------------------------------------------------------
(* nodeutil.Node, and the interrupt.                                       *)

NodeReady ==
  /\ node = "running" /\ ~ready /\ ready' = TRUE
  /\ UNCHANGED <<config, interrupted, runPC, taint, node, nodeErr, elapsed, exitStatus>>

NodeStops(err) ==
  /\ node = "running" /\ (err = "canceled" => interrupted)
  /\ node' = "done" /\ nodeErr' = err
  /\ UNCHANGED <<config, interrupted, runPC, taint, ready, elapsed, exitStatus>>

Interrupt ==
  /\ runPC # "parsing" /\ ~interrupted /\ interrupted' = TRUE
  /\ UNCHANGED <<config, runPC, taint, nodeState, exitStatus>>

TimeoutElapses ==
  /\ node = "running" /\ ~elapsed /\ elapsed' = TRUE
  /\ UNCHANGED <<config, interrupted, runPC, taint, node, ready, nodeErr, exitStatus>>

-----------------------------------------------------------------------------
\* A plausible slip: the error of the node is logged and not returned.
IgnoreError == "nil"

RunError == nodeErr

\* select: what node.Run returned is in the channel.
SelectsError ==
  /\ runPC = "selecting" /\ node = "done"
  /\ IF RunError = "nil" THEN GoesOn("readying") ELSE RunReturns(RunError)
  /\ UNCHANGED <<config, interrupted, taint, nodeState>>

\* A plausible slip: the select has no case for the context.
NotSelected == FALSE

InterruptSeen == interrupted

\* select: the context is done; the node's goroutine is left to itself.
SelectsContext ==
  /\ runPC = "selecting" /\ InterruptSeen
  /\ RunReturns("canceled")
  /\ UNCHANGED <<config, interrupted, taint, nodeState>>

\* WaitReady selects among ready, done, the context and the timeout.
WaitReady ==
  /\ runPC = "readying"
  /\ \/ ready /\ GoesOn("finishing")
     \/ (node = "done" \/ elapsed) /\ RunReturns("failed")
     \/ interrupted /\ RunReturns("canceled")
  /\ UNCHANGED <<config, interrupted, taint, nodeState>>

\* <-node.Done(); return node.Err()
Finishes ==
  /\ runPC = "finishing" /\ node = "done" /\ RunReturns(RunError)
  /\ UNCHANGED <<config, interrupted, taint, nodeState>>

RunStep ==
  \/ ConfigureTracing \/ ApplyOptions \/ NewProvider \/ StartsNode
  \/ SelectsError \/ SelectsContext \/ WaitReady \/ Finishes

StartupNext ==
  \/ \E c \in Configs : ParsesFlags(c)
  \/ RunStep
  \/ NodeReady \/ \E err \in {"nil", "canceled", "failed"} : NodeStops(err)
  \/ Interrupt \/ TimeoutElapses

\* run goes on whenever it can, and the timeout passes.  Nothing makes the
\* node ready, or stop.
StartupFairness == WF_startupVars(RunStep) /\ WF_startupVars(TimeoutElapses)

StartupSpec == StartupInit /\ [][StartupNext]_startupVars /\ StartupFairness

-----------------------------------------------------------------------------
\* A node that runs is the one that was asked for: on darwin, with the taint
\* of the configured effect unless taints are disabled, and a sample rate in
\* range.  No mistake in the configuration goes unnoticed.
NodeIsConfigured ==
  node # "none" =>
    /\ config.platform = "darwin" /\ config.port # "text" /\ config.rate \in 0..100
    /\ taint = IF config.disableTaint THEN "none" ELSE config.effect

\* The process exits cleanly only if it was interrupted or the node ended
\* without an error, whatever run was waiting for when the node failed.
FailureIsReported == exitStatus = "ok" => interrupted \/ nodeErr = "nil"

\* After an interrupt run returns, even if the node does not stop.
InterruptEnds == interrupted ~> runPC = "returned"

\* A node that is not ready when the startup timeout has passed is given up.
\* It does not hold: run waits for the end of node.Run before WaitReady.
StartupIsBounded == node = "running" /\ elapsed ~> (ready \/ runPC = "returned")

=============================================================================
