------------------------------ MODULE MCServices ------------------------------
(***************************************************************************)
(* The parts that wait for something, in one model: start-up and shutdown,   *)
(* the metrics, and what reaches a guest (its address, the SSH connection    *)
(* and the session).  They share no variable, so a step of one part is a     *)
(* stuttering step of every other, and it is enough to let one part act      *)
(* while the others rest in their initial states, where none of their        *)
(* goroutines is running.                                                   *)
(***************************************************************************)
EXTENDS Startup, Metrics, VMAddress, SSHDial, SSHSession

servicesVars == <<startupVars, metricsVars, arpVars, dialVars, sessionVars>>

Parts == {"startup", "metrics", "address", "dial", "session"}

Rests(part) ==
  CASE part = "startup" -> StartupInit
    [] part = "metrics" -> MetricsInit
    [] part = "address" -> ArpInit
    [] part = "dial" -> DialInit
    [] part = "session" -> SessionInit

OnlyActive(part) == \A other \in Parts \ {part} : Rests(other)

ServicesInit == StartupInit /\ MetricsInit /\ ArpInit /\ DialInit /\ SessionInit

ServicesNext ==
  \/ /\ OnlyActive("startup") /\ StartupNext
     /\ UNCHANGED <<metricsVars, arpVars, dialVars, sessionVars>>
  \/ /\ OnlyActive("metrics") /\ MetricsNext
     /\ UNCHANGED <<startupVars, arpVars, dialVars, sessionVars>>
  \/ /\ OnlyActive("address") /\ ArpNext
     /\ UNCHANGED <<startupVars, metricsVars, dialVars, sessionVars>>
  \/ /\ OnlyActive("dial") /\ DialNext
     /\ UNCHANGED <<startupVars, metricsVars, arpVars, sessionVars>>
  \/ /\ OnlyActive("session") /\ SessionNext
     /\ UNCHANGED <<startupVars, metricsVars, arpVars, dialVars>>

ServicesSpec ==
  /\ ServicesInit /\ [][ServicesNext]_servicesVars
  /\ StartupFairness /\ MetricsFairness /\ ArpFairness /\ DialFairness /\ SessionFairness

=============================================================================
