------------------------- MODULE DeploymentsObserved -------------------------
(***************************************************************************)
(* Deployments with somebody watching: observe_deployments, behind         *)
(* GET /deployments and the heartbeat, reads the records, awaits a health   *)
(* probe of every child, then their memory and load, and only then says     *)
(* what each deployment is, of whatever is registered by that time.         *)
(***************************************************************************)
EXTENDS DeploymentsProperties

VARIABLES
  observer,   \* the locals of one observation
  ready       \* ghost: the running children that have answered a health probe

observedVars == <<vars, observer, ready>>

Resting == [at |-> "idle", snapshot |-> [i \in Ids |-> None],
            asked |-> [i \in Ids |-> None], healthy |-> [i \in Ids |-> "no"]]

ObservedInit == Init /\ observer = Resting /\ ready = {}

\* The records, each child still to be probed.
Observe ==
  /\ observer.at = "idle"
  /\ observer' = [Resting EXCEPT
       !.at = "probing", !.snapshot = config,
       !.healthy = [i \in Ids |-> IF config[i] = None THEN "no" ELSE "unknown"]]
  /\ UNCHANGED <<vars, ready>>

\* The probe of one child: none registered, or exited, is an answer.
ProbeBegins(i) ==
  /\ observer.at = "probing"
  /\ observer.healthy[i] = "unknown" /\ observer.asked[i] = None
  /\ observer' = IF children[i] \in running
                 THEN [observer EXCEPT !.asked[i] = children[i]]
                 ELSE [observer EXCEPT !.healthy[i] = "no"]
  /\ UNCHANGED <<vars, ready>>

Answered(i, word) ==
  observer' = [observer EXCEPT !.asked[i] = None, !.healthy[i] = word]

\* The answer is that of whichever child listens on the port by now.
ProbeAnswers(i) ==
  /\ observer.asked[i] # None
  /\ \E child \in running :
       /\ child.rec.port = observer.asked[i].rec.port
       /\ ready' = ready \cup {child}
  /\ Answered(i, "yes")
  /\ UNCHANGED vars

\* Refused, another status than 200, or OBSERVE_TIMEOUT.
ProbeFails(i) ==
  /\ observer.asked[i] # None
  /\ Answered(i, "no")
  /\ UNCHANGED <<vars, ready>>

\* All probes are in: memory_of and load_of are awaited.
Measure ==
  /\ observer.at = "probing"
  /\ \A i \in Ids : observer.healthy[i] # "unknown"
  /\ observer' = [observer EXCEPT !.at = "measuring"]
  /\ UNCHANGED <<vars, ready>>

\* A record replaced or removed meanwhile is not reported.
Reported(i) ==
  observer.snapshot[i] # None /\ config[i] = observer.snapshot[i]

\* status_of: what is said of a deployment, were it said now.  That its model
\* file cannot be observed any more makes it unhealthy too.
StatusOf(i) ==
  CASE children[i] \notin running -> "unhealthy"
    [] observer.healthy[i] # "yes" -> "loading"
    [] admission[i] \in closed -> "paused"
    [] OTHER -> "healthy"

Conclude ==
  /\ observer.at = "measuring"
  /\ observer' = Resting
  /\ UNCHANGED <<vars, ready>>

ObserverStep ==
  \/ Observe \/ Measure \/ Conclude
  \/ \E i \in Ids : ProbeBegins(i) \/ ProbeAnswers(i) \/ ProbeFails(i)

\* The children a worker finds ready in a step of the agent.
FoundReady ==
  {children[Own(w)] : w \in
    {v \in Workers : \/ At(v, "waiting") /\ task'[v].pc = "committing"
                     \/ At(v, "undo_waiting") /\ task'[v].pc = "undo_saving"}}

AgentStep ==
  /\ Next
  /\ ready' = (ready \cup FoundReady) \cap running'
  /\ UNCHANGED observer

ObservedNext == AgentStep \/ ObserverStep

ObservedSpec == ObservedInit /\ [][ObservedNext]_observedVars

-----------------------------------------------------------------------------
(* A deployment said to be healthy is served by a child that has answered   *)
(* a health probe itself and was started from the very record the report    *)
(* shows, though the probe may have been answered by a child replaced       *)
(* since, and though the record, the gate and the child are read three      *)
(* awaits after the observation began (observe_deployments, status_of).     *)
HealthyReportIsTrue ==
  \A i \in Ids :
    observer.at = "measuring" /\ Reported(i) /\ StatusOf(i) = "healthy"
      => children[i] \in ready /\ children[i].rec = observer.snapshot[i]
=============================================================================
