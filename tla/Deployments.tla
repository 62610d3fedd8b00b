---------------------------- MODULE Deployments ----------------------------
(***************************************************************************)
(* The host agent's deployments: one engine process per named deployment,  *)
(* replaced and removed by transition workers while requests are proxied   *)
(* to it (lazarus/agent/deployments.py, lazarus/agent/server.py).          *)
(*                                                                         *)
(* The agent is one asyncio event loop, so an action is what a coroutine   *)
(* does between two awaits.  A worker is one PUT (replace_deployment) or   *)
(* one DELETE (forget_deployment) of a deployment; it runs in a task of    *)
(* its own and outlives the HTTP request that asked for it, which can      *)
(* abandon it at any moment.  A request is one call of proxy_deployment.   *)
(* Everything a thread, a file, an engine or the host decides (a checksum, *)
(* a readiness probe, a save, whether a child dies of its signal) is a     *)
(* choice between actions.                                                 *)
(*                                                                         *)
(* Objects the code compares by identity carry the name of their maker: a  *)
(* record that of the worker whose candidate it is, a child that of the    *)
(* worker that started it, a gate that of the worker or request that made  *)
(* it.                                                                     *)
(***************************************************************************)
EXTENDS Naturals, FiniteSets

CONSTANTS
  Ids,        \* deployment ids
  Workers,    \* transition workers, one PUT or DELETE each
  Requests,   \* proxied requests, one call each
  Ports,      \* DEPLOYMENT_PORTS without the agent's own port
  Boot,       \* the maker of what agent.yaml held when the agent started
  None        \* no record, no child, no gate, no lock holder, no port

Makers == Workers \cup {Boot}

\* AgentDeployment: what differs between two records that the properties see.
Record == [by : Makers, port : Ports]

\* ServerProcess: a child, the record it was started from and who started it.
Child == [id : Ids, by : Makers, rec : Record]

\* Admission objects: made by a drain or a request that finds none
\* (setdefault), and afresh by every replacement.
Gate == (Workers \X {"drain", "fresh"}) \cup (Requests \X {"door"})

ASSUME NoneIsNothing ==
  /\ None \notin Record \cup Child \cup Gate \cup Workers \cup Ports
  /\ Boot \notin Workers

ASSUME FiniteRequests == IsFiniteSet(Requests)

VARIABLES
  config,        \* agent.config.deployments
  disk,          \* the deployments of agent.yaml
  children,      \* agent.deployments: the registered child of each id
  running,       \* the children whose process has not exited
  admission,     \* agent.deployment_admission: the gate of each id
  closed,        \* the gates whose paused flag is set
  inFlight,      \* Admission.requests of each gate
  queued,        \* the requests each id's Queueing counts as in flight
  lock,          \* agent.deployment_locks: the worker holding each id's lock
  reservations,  \* agent.port_reservations
  task,          \* the locals of each worker
  call,          \* the locals of each proxied request
  phase          \* the agent's life: agent.stopping and the final sweep

vars == <<config, disk, children, running, admission, closed, inFlight,
          queued, lock, reservations, task, call, phase>>

\* What each kind of action leaves alone, grouped by owner.
records == <<config, disk>>
gates   == <<admission, closed, inFlight, queued>>
ports   == <<lock, reservations>>

-----------------------------------------------------------------------------
(* The points at which a worker awaits. *)
StopPoints == {"stopping", "stray_stopping", "forget_stopping", "undo_stopping"}

PcOfTask ==
  StopPoints \cup
  {"idle", "locking", "reserving", "draining", "verifying", "waiting",
   "committing", "reporting", "undo_verifying", "undo_waiting",
   "undo_saving", "forgetting", "done"}

(* What became of a worker: "failed" is an exception or an unhealthy answer *)
(* whose rollback did not complete; "refused" found no port or no record.   *)
Outcomes == {"none", "unchanged", "healthy", "stopped", "absent",
             "rolled_back", "failed", "refused"}

Task == [pc : PcOfTask, op : {"put", "delete"}, id : Ids,
         abandoned : BOOLEAN, previous : Record \cup {None},
         port : Ports \cup {None}, wasPaused : BOOLEAN,
         timedOut : BOOLEAN, outcome : Outcomes]

Call == [pc : {"new", "reading", "sent", "done"}, id : Ids \cup {None},
         gate : Gate \cup {None}, child : Child \cup {None},
         rec : Record \cup {None}]

NoCall == [pc |-> "new", id |-> None, gate |-> None, child |-> None, rec |-> None]

-----------------------------------------------------------------------------
(* start_deployments: a child for each record, save those that could not be *)
(* started, which leaves their ids without one.                             *)
StartDeployments ==
  /\ \E started \in SUBSET {i \in Ids : config[i] # None} :
       children = [i \in Ids |-> IF i \in started
                                 THEN [id |-> i, by |-> Boot, rec |-> config[i]]
                                 ELSE None]
  /\ running = {children[i] : i \in Ids} \ {None}

(* The records agent.yaml held, on ports free_port kept apart, and the      *)
(* children started from them.                                              *)
Init ==
  /\ config \in [Ids -> [by : {Boot}, port : Ports] \cup {None}]
  /\ \A i, j \in Ids : i # j /\ config[i] # None /\ config[j] # None
                         => config[i].port # config[j].port
  /\ disk = config
  /\ StartDeployments
  /\ admission = [i \in Ids |-> None]
  /\ closed = {}
  /\ inFlight = [g \in Gate |-> 0]
  /\ queued = [i \in Ids |-> {}]
  /\ lock = [i \in Ids |-> None]
  /\ reservations = {}
  /\ task \in [Workers -> [pc : {"idle"}, op : {"put", "delete"}, id : Ids,
                           abandoned : {FALSE}, previous : {None},
                           port : {None}, wasPaused : {FALSE},
                           timedOut : {FALSE}, outcome : {"none"}]]
  /\ call = [r \in Requests |-> NoCall]
  /\ phase = "serving"

-----------------------------------------------------------------------------
(* A worker's vocabulary. *)
At(w, pc)  == task[w].pc = pc
Own(w)     == task[w].id
Goto(w, pc) == task' = [task EXCEPT ![w].pc = pc]

(* A mutant's definition stands before the one it replaces: what a         *)
(* plausible slip in the code would make of it.                             *)

\* The worker ends: its lock, its reservation and its locals go with it.
Finish(w, outcome) ==
  /\ task' = [task EXCEPT ![w].pc = "done", ![w].outcome = outcome,
                          ![w].previous = None, ![w].port = None,
                          ![w].abandoned = FALSE, ![w].wasPaused = FALSE]
  /\ lock' = [lock EXCEPT ![Own(w)] = None]
  /\ reservations' = reservations \ {task[w].port}

\* replace_on_port's candidate.
Candidate(w) == [by |-> w, port |-> task[w].port]

\* Mutant of TakenPorts: a child without a record is not asked for its port.
PortsOfRecords ==
  {config[i].port : i \in {j \in Ids : config[j] # None}} \cup reservations

\* free_port's taken set.
TakenPorts ==
  {config[i].port : i \in {j \in Ids : config[j] # None}}
    \cup {children[i].rec.port : i \in {j \in Ids : children[j] # None}}
    \cup reservations

\* The gate quiesce closes.
GateToDrain(w) ==
  IF admission[Own(w)] = None THEN <<w, "drain">> ELSE admission[Own(w)]

CloseGate(w) ==
  /\ admission' = [admission EXCEPT ![Own(w)] = GateToDrain(w)]
  /\ closed' = closed \cup {GateToDrain(w)}
  /\ UNCHANGED <<inFlight, queued>>

\* Mutant of FreshGate: the new Admission is left open, as it is made.
FreshOpenGate(w) ==
  /\ admission' = [admission EXCEPT ![Own(w)] = <<w, "fresh">>]
  /\ queued' = [queued EXCEPT ![Own(w)] = {}]
  /\ UNCHANGED <<closed, inFlight>>

\* Mutant of FreshGate: the Queueing is not restarted.
FreshGateSameQueueing(w) ==
  /\ admission' = [admission EXCEPT ![Own(w)] = <<w, "fresh">>]
  /\ closed' = closed \cup {<<w, "fresh">>}
  /\ UNCHANGED <<inFlight, queued>>

\* A replacement's own gate, closed, and its Queueing restarted.
FreshGate(w) ==
  /\ admission' = [admission EXCEPT ![Own(w)] = <<w, "fresh">>]
  /\ closed' = closed \cup {<<w, "fresh">>}
  /\ queued' = [queued EXCEPT ![Own(w)] = {}]
  /\ UNCHANGED inFlight

\* The gate and the Queueing of an id that has no record any more.
DropGate(w) ==
  /\ admission' = [admission EXCEPT ![Own(w)] = None]
  /\ queued' = [queued EXCEPT ![Own(w)] = {}]
  /\ UNCHANGED <<closed, inFlight>>

OpenGate(w) ==
  /\ closed' = closed \ {admission[Own(w)]}
  /\ UNCHANGED <<admission, inFlight, queued>>

\* Mutant of Start: agent.stopping is not read.
StartAnyway(w, rec) ==
  LET child == [id |-> Own(w), by |-> w, rec |-> rec]
  IN  /\ children' = [children EXCEPT ![Own(w)] = child]
      /\ running' = running \cup {child}

\* start_deployment and its registration: refused once the agent stops.
Start(w, rec) ==
  LET child == [id |-> Own(w), by |-> w, rec |-> rec]
  IN  /\ phase = "serving"
      /\ children' = [children EXCEPT ![Own(w)] = child]
      /\ running' = running \cup {child}

\* The rollback once its stop has returned (or found nothing to stop).
UndoStopped(w) ==
  IF task[w].previous = None
  THEN DropGate(w) /\ Goto(w, "undo_saving")
  ELSE Goto(w, "undo_verifying") /\ UNCHANGED gates

\* The except clause of replace_on_port, up to its first await.
RollBack(w) ==
  /\ IF children[Own(w)] = None
     THEN UndoStopped(w)
     ELSE Goto(w, "undo_stopping") /\ UNCHANGED gates
  /\ UNCHANGED <<records, children, running, ports, call, phase>>

-----------------------------------------------------------------------------
(* Transitions: what they have in common. *)

\* run_transition creates the worker's task.
RunTransition(w) ==
  /\ At(w, "idle") /\ phase = "serving"
  /\ Goto(w, "locking")
  /\ UNCHANGED <<records, children, running, gates, ports, call, phase>>

\* The request is cancelled or its client disconnects.
Abandon(w) ==
  /\ ~At(w, "idle") /\ ~At(w, "done") /\ ~task[w].abandoned
  /\ task' = [task EXCEPT ![w].abandoned = TRUE]
  /\ UNCHANGED <<records, children, running, gates, ports, call, phase>>

\* The request went away while the worker waited for the lock.
GoneBeforeLock(w) ==
  /\ At(w, "locking") /\ lock[Own(w)] = None /\ task[w].abandoned
  /\ Finish(w, "unchanged")
  /\ UNCHANGED <<records, children, running, gates, call, phase>>

TakeLock(w) ==
  /\ At(w, "locking") /\ lock[Own(w)] = None /\ ~task[w].abandoned
  /\ lock' = [lock EXCEPT ![Own(w)] = w]

\* Mutant of DrainAbandoned: the gate is left as the drain made it.
DrainAbandonedShut(w) ==
  /\ At(w, "draining") /\ task[w].abandoned
  /\ Finish(w, "unchanged")
  /\ UNCHANGED <<records, children, running, gates, call, phase>>

\* The drain is over because the request is gone: the gate is put back.
DrainAbandoned(w) ==
  /\ At(w, "draining") /\ task[w].abandoned
  /\ IF task[w].wasPaused THEN UNCHANGED gates ELSE OpenGate(w)
  /\ Finish(w, "unchanged")
  /\ UNCHANGED <<records, children, running, call, phase>>

\* What follows a drain: the removal stops the child, the replacement does
\* so behind a gate of its own; with no child there is nothing to stop.
AfterDrain(w, late) ==
  LET next == IF task[w].op = "put"
              THEN IF children[Own(w)] = None THEN "verifying" ELSE "stopping"
              ELSE IF children[Own(w)] = None THEN "forgetting" ELSE "forget_stopping"
  IN  /\ task' = [task EXCEPT ![w].pc = next, ![w].timedOut = late]
      /\ IF task[w].op = "put" THEN FreshGate(w) ELSE UNCHANGED gates
      /\ UNCHANGED <<records, children, running, ports, call, phase>>

Drained(w) ==
  /\ At(w, "draining") /\ ~task[w].abandoned
  /\ inFlight[admission[Own(w)]] = 0
  /\ AfterDrain(w, FALSE)

\* Mutant of DrainTimesOut: a drain without IDLE_TIMEOUT.
DrainWithoutTimeout(w) ==
  /\ At(w, "draining") /\ ~task[w].abandoned
  /\ inFlight[admission[Own(w)]] = 0
  /\ AfterDrain(w, TRUE)

\* IDLE_TIMEOUT passed with requests still in flight.
DrainTimesOut(w) ==
  /\ At(w, "draining") /\ ~task[w].abandoned
  /\ inFlight[admission[Own(w)]] > 0
  /\ AfterDrain(w, TRUE)

\* stop_deployment returned: the child is confirmed gone and deregistered.
StopReturns(w) ==
  /\ task[w].pc \in StopPoints
  /\ running' = running \ {children[Own(w)]}
  /\ children' = [children EXCEPT ![Own(w)] = None]
  /\ \/ /\ At(w, "stopping")
        /\ Goto(w, "verifying")
        /\ UNCHANGED <<gates, ports>>
     \/ /\ At(w, "forget_stopping")
        /\ Goto(w, "forgetting")
        /\ UNCHANGED <<gates, ports>>
     \/ /\ At(w, "stray_stopping")
        /\ Finish(w, "stopped")
        /\ admission' = [admission EXCEPT ![Own(w)] = None]
        /\ UNCHANGED <<closed, inFlight, queued>>
     \/ /\ At(w, "undo_stopping")
        /\ UndoStopped(w)
        /\ UNCHANGED ports
  /\ UNCHANGED <<records, call, phase>>

\* The child outlived terminate and kill: it stays registered.
StopFails(w) ==
  /\ task[w].pc \in StopPoints /\ children[Own(w)] \in running
  /\ \/ At(w, "stopping") /\ RollBack(w)
     \/ /\ ~At(w, "stopping")
        /\ Finish(w, "failed")
        /\ UNCHANGED <<records, children, running, gates, call, phase>>

-----------------------------------------------------------------------------
(* replace_deployment and replace_on_port. *)

LockForPut(w) ==
  /\ task[w].op = "put"
  /\ TakeLock(w)
  /\ task' = [task EXCEPT ![w].pc = "reserving", ![w].previous = config[Own(w)]]
  /\ UNCHANGED <<records, children, running, gates, reservations, call, phase>>

\* The request went away while the worker waited for records_lock.
GoneBeforeReserve(w) ==
  /\ At(w, "reserving") /\ task[w].abandoned
  /\ Finish(w, "unchanged")
  /\ UNCHANGED <<records, children, running, gates, call, phase>>

\* Mutant of ReserveForCreation: only a recorded id's child is stopped.
ReserveWithoutStop(w) ==
  /\ At(w, "reserving") /\ ~task[w].abandoned /\ task[w].previous = None
  /\ \E p \in Ports \ TakenPorts :
       /\ reservations' = reservations \cup {p}
       /\ task' = [task EXCEPT ![w].pc = "verifying", ![w].port = p]
  /\ FreshGate(w)
  /\ UNCHANGED <<records, children, running, lock, call, phase>>

\* A replacement keeps its port and drains; a creation takes a free port,
\* and stops the child an earlier failed creation may have left.
ReserveForReplacement(w) ==
  /\ At(w, "reserving") /\ ~task[w].abandoned /\ task[w].previous # None
  /\ reservations' = reservations \cup {task[w].previous.port}
  /\ task' = [task EXCEPT ![w].pc = "draining",
                          ![w].port = task[w].previous.port,
                          ![w].wasPaused = GateToDrain(w) \in closed]
  /\ CloseGate(w)
  /\ UNCHANGED <<records, children, running, lock, call, phase>>

ReserveForCreation(w) ==
  /\ At(w, "reserving") /\ ~task[w].abandoned /\ task[w].previous = None
  /\ \E p \in Ports \ TakenPorts :
       /\ reservations' = reservations \cup {p}
       /\ task' = [task EXCEPT
            ![w].pc = IF children[Own(w)] = None THEN "verifying" ELSE "stopping",
            ![w].port = p]
  /\ FreshGate(w)
  /\ UNCHANGED <<records, children, running, lock, call, phase>>

\* Mutant of PutRefused: the deployment's lock is not released.
PutRefusedHeld(w) ==
  /\ At(w, "reserving") /\ ~task[w].abandoned
  /\ task' = [task EXCEPT ![w].pc = "done", ![w].outcome = "refused"]
  /\ UNCHANGED <<records, children, running, gates, ports, call, phase>>

\* Every port the agent could give is taken, by it or by the host, or the
\* request does not make a record that can be served: nothing was touched.
PutRefused(w) ==
  /\ At(w, "reserving") /\ ~task[w].abandoned
  /\ Finish(w, "refused")
  /\ UNCHANGED <<records, children, running, gates, call, phase>>

\* The files no longer match, the agent is stopping, or the engine cannot
\* be executed.
CandidateRefused(w) ==
  /\ At(w, "verifying")
  /\ RollBack(w)

StartCandidate(w) ==
  /\ At(w, "verifying")
  /\ Start(w, Candidate(w))
  /\ Goto(w, "waiting")
  /\ UNCHANGED <<records, gates, ports, call, phase>>

CandidateReady(w) ==
  /\ At(w, "waiting") /\ children[Own(w)] \in running
  /\ Goto(w, "committing")
  /\ UNCHANGED <<records, children, running, gates, ports, call, phase>>

\* The readiness wait ran out, or the candidate exited.
CandidateFails(w) ==
  /\ At(w, "waiting")
  /\ RollBack(w)

\* Mutant of Commit: abandonment is not checked again under the lock.
CommitAbandoned(w) ==
  /\ At(w, "committing") /\ children[Own(w)] \in running
  /\ config' = [config EXCEPT ![Own(w)] = Candidate(w)]
  /\ disk' = config'
  /\ OpenGate(w)
  /\ Goto(w, "reporting")
  /\ UNCHANGED <<children, running, ports, call, phase>>

\* Recorded, saved, and the gate opened, with no await between.
Commit(w) ==
  /\ At(w, "committing")
  /\ ~task[w].abandoned /\ children[Own(w)] \in running
  /\ config' = [config EXCEPT ![Own(w)] = Candidate(w)]
  /\ disk' = config'
  /\ OpenGate(w)
  /\ Goto(w, "reporting")
  /\ UNCHANGED <<children, running, ports, call, phase>>

\* Abandoned, exited, or not saved: what was committed before stays.
CommitFails(w) ==
  /\ At(w, "committing")
  /\ RollBack(w)

Report(w) ==
  /\ At(w, "reporting")
  /\ Finish(w, "healthy")
  /\ UNCHANGED <<records, children, running, gates, call, phase>>

RestorePrevious(w) ==
  /\ At(w, "undo_verifying")
  /\ Start(w, task[w].previous)
  /\ Goto(w, "undo_waiting")
  /\ UNCHANGED <<records, gates, ports, call, phase>>

PreviousReady(w) ==
  /\ At(w, "undo_waiting") /\ children[Own(w)] \in running
  /\ OpenGate(w)
  /\ Goto(w, "undo_saving")
  /\ UNCHANGED <<records, children, running, ports, call, phase>>

\* Any exception inside the rollback ends it; the gate stays as it is.
RollBackFails(w) ==
  /\ task[w].pc \in {"undo_verifying", "undo_waiting", "undo_saving"}
  /\ Finish(w, "failed")
  /\ UNCHANGED <<records, children, running, gates, call, phase>>

RolledBack(w) ==
  /\ At(w, "undo_saving")
  /\ disk' = config
  /\ Finish(w, "rolled_back")
  /\ UNCHANGED <<config, children, running, gates, call, phase>>

-----------------------------------------------------------------------------
(* forget_deployment. *)

ForgetAbsent(w) ==
  /\ task[w].op = "delete" /\ config[Own(w)] = None /\ children[Own(w)] = None
  /\ At(w, "locking") /\ lock[Own(w)] = None /\ ~task[w].abandoned
  /\ Finish(w, "absent")
  /\ UNCHANGED <<records, children, running, gates, call, phase>>

\* No record, but the child a failed creation could not stop.
ForgetStray(w) ==
  /\ task[w].op = "delete" /\ config[Own(w)] = None /\ children[Own(w)] # None
  /\ TakeLock(w)
  /\ Goto(w, "stray_stopping")
  /\ UNCHANGED <<records, children, running, gates, reservations, call, phase>>

ForgetDrain(w) ==
  /\ task[w].op = "delete" /\ config[Own(w)] # None
  /\ TakeLock(w)
  /\ task' = [task EXCEPT ![w].pc = "draining",
                          ![w].previous = config[Own(w)],
                          ![w].wasPaused = GateToDrain(w) \in closed]
  /\ CloseGate(w)
  /\ UNCHANGED <<records, children, running, reservations, call, phase>>

Forget(w) ==
  /\ At(w, "forgetting")
  /\ config' = [config EXCEPT ![Own(w)] = None]
  /\ disk' = config'
  /\ DropGate(w)
  /\ Finish(w, "stopped")
  /\ UNCHANGED <<children, running, call, phase>>

\* The save failed: the record comes back, behind its closed gate.
ForgetFails(w) ==
  /\ At(w, "forgetting")
  /\ Finish(w, "failed")
  /\ UNCHANGED <<records, children, running, gates, call, phase>>

-----------------------------------------------------------------------------
(* proxy_deployment. *)

\* The record, the gate and the child are read, then the body is awaited.
Arrive(r) ==
  /\ call[r].pc = "new" /\ phase = "serving"
  /\ \E i \in {j \in Ids : config[j] # None} :
       LET gate == IF admission[i] = None THEN <<r, "door">> ELSE admission[i]
           open == gate \notin closed /\ children[i] # None
       IN  /\ admission' = [admission EXCEPT ![i] = gate]
           /\ call' = [call EXCEPT ![r] =
                IF open THEN [pc |-> "reading", id |-> i, gate |-> gate,
                              child |-> children[i], rec |-> config[i]]
                ELSE [NoCall EXCEPT !.pc = "done"]]
  /\ UNCHANGED <<records, children, running, closed, inFlight, queued, ports, task, phase>>

\* Mutant of Forward: the gate is not read again after the body.
ForwardUnchecked(r) ==
  /\ call[r].pc = "reading"
  /\ children[call[r].id] = call[r].child
  /\ call[r].child \in running
  /\ inFlight' = [inFlight EXCEPT ![call[r].gate] = @ + 1]
  /\ queued' = [queued EXCEPT ![call[r].id] = @ \cup {r}]
  /\ call' = [call EXCEPT ![r].pc = "sent"]
  /\ UNCHANGED <<records, children, running, admission, closed, ports, task, phase>>

\* Checked again once the body is there, then counted and sent.
Forward(r) ==
  /\ call[r].pc = "reading"
  /\ call[r].gate \notin closed
  /\ children[call[r].id] = call[r].child
  /\ call[r].child \in running
  /\ inFlight' = [inFlight EXCEPT ![call[r].gate] = @ + 1]
  /\ queued' = [queued EXCEPT ![call[r].id] = @ \cup {r}]
  /\ call' = [call EXCEPT ![r].pc = "sent"]
  /\ UNCHANGED <<records, children, running, admission, closed, ports, task, phase>>

\* Refused by those checks, gone while its body was read, or not a request
\* that can be built: nothing was counted.
TurnAway(r) ==
  /\ call[r].pc = "reading"
  /\ call' = [call EXCEPT ![r] = [NoCall EXCEPT !.pc = "done"]]
  /\ UNCHANGED <<records, children, running, gates, ports, task, phase>>

\* Answered, failed or disconnected: the gate and the Queueing it was
\* counted by let it go.
Release(r) ==
  /\ call[r].pc = "sent"
  /\ inFlight' = [inFlight EXCEPT ![call[r].gate] = @ - 1]
  /\ queued' = [queued EXCEPT ![call[r].id] = @ \ {r}]
  /\ call' = [call EXCEPT ![r] = [NoCall EXCEPT !.pc = "done"]]
  /\ UNCHANGED <<records, children, running, admission, closed, ports, task, phase>>

-----------------------------------------------------------------------------
(* The host and the agent's life. *)

ChildExits ==
  /\ \E child \in running : running' = running \ {child}
  /\ UNCHANGED <<records, children, gates, ports, task, call, phase>>

Shutdown ==
  /\ phase = "serving"
  /\ phase' = "stopping"
  /\ UNCHANGED <<records, children, running, gates, ports, task, call>>

Ended(w) == task[w].pc \in {"idle", "done"}

\* join_transitions ends when no worker is left, or is cut short.
JoinTransitions ==
  /\ phase = "stopping" /\ \A w \in Workers : Ended(w)
  /\ phase' = "sweeping"
  /\ UNCHANGED <<records, children, running, gates, ports, task, call>>

JoinCutShort ==
  /\ phase = "stopping" /\ \E w \in Workers : ~Ended(w)
  /\ phase' = "sweeping"
  /\ UNCHANGED <<records, children, running, gates, ports, task, call>>

\* Agent.stop: every registered child, whatever becomes of the others.
Sweep ==
  /\ phase = "sweeping"
  /\ phase' = "stopped"
  /\ \E survivors \in SUBSET running :
       running' = running \ ({children[i] : i \in Ids} \ survivors)
  /\ UNCHANGED <<records, children, gates, ports, task, call>>

\* The event loop closes: nothing is left to run.
Exited ==
  /\ phase = "stopped" /\ \A w \in Workers : Ended(w)
  /\ UNCHANGED vars

-----------------------------------------------------------------------------
WorkerStep(w) ==
  \/ GoneBeforeLock(w) \/ DrainAbandoned(w) \/ Drained(w) \/ DrainTimesOut(w)
  \/ StopReturns(w) \/ StopFails(w)
  \/ LockForPut(w) \/ GoneBeforeReserve(w) \/ ReserveForReplacement(w)
  \/ ReserveForCreation(w) \/ PutRefused(w)
  \/ CandidateRefused(w) \/ StartCandidate(w) \/ CandidateReady(w)
  \/ CandidateFails(w) \/ Commit(w) \/ CommitFails(w) \/ Report(w)
  \/ RestorePrevious(w) \/ PreviousReady(w) \/ RollBackFails(w) \/ RolledBack(w)
  \/ ForgetAbsent(w) \/ ForgetStray(w) \/ ForgetDrain(w) \/ Forget(w) \/ ForgetFails(w)

RequestStep(r) == Arrive(r) \/ Forward(r) \/ TurnAway(r) \/ Release(r)

Next ==
  \/ \E w \in Workers : RunTransition(w) \/ Abandon(w) \/ WorkerStep(w)
  \/ \E r \in Requests : RequestStep(r)
  \/ ChildExits \/ Shutdown \/ JoinTransitions \/ JoinCutShort \/ Sweep \/ Exited

Spec == Init /\ [][Next]_vars

(* Every wait of a worker is bounded (IDLE_TIMEOUT, the readiness timeout,  *)
(* ten seconds after each signal), so the loop always runs its next step;   *)
(* the shutdown's own steps likewise.                                       *)
Fairness ==
  /\ \A w \in Workers : WF_vars(WorkerStep(w))
  /\ WF_vars(JoinTransitions) /\ WF_vars(Sweep)

FairSpec == Spec /\ Fairness
=============================================================================
