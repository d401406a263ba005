------------------------------- MODULE Metrics -------------------------------
(***************************************************************************)
(* pkg/metrics: GetStatsSummary, under a mutex, lists the pods and starts a  *)
(* goroutine for each running one, which asks the client for its statistics  *)
(* and writes them to the pod's place in the results.  Meanwhile pods come,  *)
(* change and go.  A slot of the results is the pod it describes, or Absent. *)
(***************************************************************************)
EXTENDS Lists

CONSTANTS Callers, StatsPods, Absent

ASSUME MetricsAssumption == Absent \notin StatsPods \cup Callers

VARIABLES
  runningPods,      \* the pods that run
  metricsSync,  \* the caller that holds the mutex
  callersLeft,         \* the callers whose context is done
  callerPC,
  listed,         \* what each caller's lister returned
  wasRunning,   \* the pods among them whose phase was Running
  statsWorker,       \* the goroutines of each caller, by position in pods
  results,
  groupFailed        \* has a goroutine of the group failed?

metricsVars == <<runningPods, metricsSync, callersLeft, callerPC, listed, wasRunning, statsWorker, results, groupFailed>>

MetricsInit ==
  /\ runningPods = {} /\ metricsSync = Absent /\ callersLeft = {}
  /\ callerPC = [c \in Callers |-> "idle"]
  /\ listed = [c \in Callers |-> <<>>] /\ wasRunning = [c \in Callers |-> {}]
  /\ statsWorker = [c \in Callers |-> <<>>] /\ results = [c \in Callers |-> <<>>]
  /\ groupFailed = [c \in Callers |-> FALSE]

Set(f, c, v) == f' = [f EXCEPT ![c] = v]

-----------------------------------------------------------------------------
Request(c) ==
  /\ callerPC[c] = "idle" /\ Set(callerPC, c, "locking")
  /\ UNCHANGED <<runningPods, metricsSync, callersLeft, listed, wasRunning, statsWorker, results, groupFailed>>

Lock(c) ==
  /\ callerPC[c] = "locking" /\ metricsSync = Absent /\ metricsSync' = c
  /\ Set(callerPC, c, "locked")
  /\ UNCHANGED <<runningPods, callersLeft, listed, wasRunning, statsWorker, results, groupFailed>>

\* A plausible slip: an early return without the deferred Unlock.
KeptLocked == metricsSync

Unlocked == Absent

CallReturns(c, how) == Set(callerPC, c, how) /\ metricsSync' = Unlocked

\* The caller has left: return at once.
ReturnsEarly(c) ==
  /\ callerPC[c] = "locked" /\ c \in callersLeft
  /\ CallReturns(c, "error")
  /\ UNCHANGED <<runningPods, callersLeft, listed, wasRunning, statsWorker, results, groupFailed>>

\* List the pods, in any order; a failing list is as good as an empty one.
\* Then start the goroutines.
ListsPods(c) ==
  /\ callerPC[c] = "locked" /\ c \notin callersLeft
  /\ \E order \in Orders(StatsPods) \cup {<<>>} :
       /\ Set(listed, c, order)
       /\ Set(statsWorker, c, [i \in DOMAIN order |-> IF order[i] \in runningPods THEN "asking" ELSE "none"])
       /\ Set(results, c, [i \in DOMAIN order |-> Absent])
  /\ Set(wasRunning, c, runningPods) /\ Set(groupFailed, c, FALSE) /\ Set(callerPC, c, "waiting")
  /\ UNCHANGED <<runningPods, metricsSync, callersLeft>>

\* A plausible slip: all goroutines use the loop's last pod.
LastPod(c, i) == listed[c][Len(listed[c])]

PodOf(c, i) == listed[c][i]

\* GetVirtualizationGroupStats: the statistics, or an error because the
\* context is done, the pod is gone, or for any other reason.
PodStats(c, i) ==
  /\ callerPC[c] = "waiting" /\ i \in DOMAIN statsWorker[c] /\ statsWorker[c][i] = "asking"
  /\ statsWorker' = [statsWorker EXCEPT ![c][i] = "none"]
  /\ \/ /\ c \notin callersLeft /\ PodOf(c, i) \in runningPods
        /\ results' = [results EXCEPT ![c][i] = PodOf(c, i)] /\ UNCHANGED groupFailed
     \/ Set(groupFailed, c, TRUE) /\ UNCHANGED results
  /\ UNCHANGED <<runningPods, metricsSync, callersLeft, callerPC, listed, wasRunning>>

AllDone(c) == \A i \in DOMAIN statsWorker[c] : statsWorker[c][i] = "none"

\* g.Wait: any error fails the whole summary.
GroupWaits(c) ==
  /\ callerPC[c] = "waiting" /\ AllDone(c)
  /\ CallReturns(c, IF groupFailed[c] THEN "error" ELSE "summary")
  /\ UNCHANGED <<runningPods, callersLeft, listed, wasRunning, statsWorker, results, groupFailed>>

\* GetMetricsResource collects the containers of the summary's slots, and the
\* caller may ask again.
Collected(c) ==
  /\ callerPC[c] \in {"summary", "error"} /\ Set(callerPC, c, "idle") /\ callersLeft' = callersLeft \ {c}
  /\ Set(listed, c, <<>>) /\ Set(wasRunning, c, {}) /\ Set(statsWorker, c, <<>>)
  /\ Set(results, c, <<>>) /\ Set(groupFailed, c, FALSE)
  /\ UNCHANGED <<runningPods, metricsSync>>

PodChanges(p) ==
  /\ runningPods' = IF p \in runningPods THEN runningPods \ {p} ELSE runningPods \cup {p}
  /\ UNCHANGED <<metricsSync, callersLeft, callerPC, listed, wasRunning, statsWorker, results, groupFailed>>

CallerLeaves(c) ==
  /\ callerPC[c] \in {"locking", "locked", "waiting"} /\ c \notin callersLeft /\ callersLeft' = callersLeft \cup {c}
  /\ UNCHANGED <<runningPods, metricsSync, callerPC, listed, wasRunning, statsWorker, results, groupFailed>>

MetricsCallStep(c) ==
  \/ Lock(c) \/ ReturnsEarly(c) \/ ListsPods(c)
  \/ \E i \in 1..Len(statsWorker[c]) : PodStats(c, i)
  \/ GroupWaits(c) \/ Collected(c)

MetricsNext ==
  \/ \E c \in Callers : Request(c) \/ MetricsCallStep(c) \/ CallerLeaves(c)
  \/ \E p \in StatsPods : PodChanges(p)

\* A call goes on when it can, and gets the mutex if others return it again
\* and again (sync.Mutex is fair to waiters); the client answers every request.
MetricsFairness == \A c \in Callers : SF_metricsVars(MetricsCallStep(c))

MetricsSpec == MetricsInit /\ [][MetricsNext]_metricsVars /\ MetricsFairness

-----------------------------------------------------------------------------
\* A summary is complete and exact: the slot of each pod that was running when
\* the pods were listed describes this pod, and no other slot any.
SummaryIsExact ==
  \A c \in Callers : callerPC[c] = "summary" =>
    \A i \in DOMAIN listed[c] :
      results[c][i] = IF listed[c][i] \in wasRunning[c] THEN listed[c][i] ELSE Absent

\* No goroutine of a call is left when the call has returned, and only the
\* holder of the mutex has any.
NoStrayGoroutine ==
  \A c \in Callers : metricsSync # c => \A i \in DOMAIN statsWorker[c] : statsWorker[c][i] = "none"

\* Every request for metrics is answered, whoever else asks or leaves.
RequestsAreAnswered ==
  \A c \in Callers : callerPC[c] = "locking" ~> callerPC[c] \in {"summary", "error"}

=============================================================================
