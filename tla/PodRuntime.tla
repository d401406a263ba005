------------------------------ MODULE PodRuntime ------------------------------
(***************************************************************************)
(* What the provider expects of a RuntimeClient (pkg/client/client_apis.go): *)
(* a pod has at most one job; a job is started once; it is forgotten only   *)
(* after its deletion was requested and it has ended; and a requested       *)
(* deletion is carried through.                                            *)
(***************************************************************************)
CONSTANTS Pods, Jobs

VARIABLES
  jobs,    \* the job of each pod: a set of at most one member
  life,    \* "unborn", "running" or "ended"
  doomed   \* the jobs whose deletion has been requested

vars == <<jobs, life, doomed>>

Init ==
  /\ jobs = [p \in Pods |-> {}]
  /\ life = [j \in Jobs |-> "unborn"]
  /\ doomed = {}

Start(p, j) ==
  /\ jobs[p] = {} /\ life[j] = "unborn"
  /\ jobs' = [jobs EXCEPT ![p] = {j}]
  /\ life' = [life EXCEPT ![j] = "running"]
  /\ UNCHANGED doomed

End(j) ==
  /\ life[j] = "running"
  /\ life' = [life EXCEPT ![j] = "ended"]
  /\ UNCHANGED <<jobs, doomed>>

RequestDeletion(p, j) ==
  /\ j \in jobs[p]
  /\ doomed' = doomed \cup {j}
  /\ UNCHANGED <<jobs, life>>

Forget(p) ==
  /\ jobs[p] # {}
  /\ \A j \in jobs[p] : j \in doomed /\ life[j] = "ended"
  /\ jobs' = [jobs EXCEPT ![p] = {}]
  /\ UNCHANGED <<life, doomed>>

Next ==
  \/ \E p \in Pods, j \in Jobs : Start(p, j) \/ RequestDeletion(p, j)
  \/ \E j \in Jobs : End(j)
  \/ \E p \in Pods : Forget(p)

Safety == Init /\ [][Next]_vars

\* A job need not end by itself, but one that is to be deleted does.
Liveness ==
  /\ \A j \in Jobs : WF_vars(j \in doomed /\ End(j))
  /\ \A p \in Pods : WF_vars(Forget(p))

Spec == Safety /\ Liveness

=============================================================================
