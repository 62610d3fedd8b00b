----------------------- MODULE DeploymentsProperties -----------------------
(***************************************************************************)
(* What must hold of the host agent's deployments, the inductive invariant *)
(* behind it, and the abstract specification it implements.                *)
(***************************************************************************)
EXTENDS Deployments

(* The state of the agent stays within its types. *)
TypeOK ==
  /\ config \in [Ids -> Record \cup {None}]
  /\ disk \in [Ids -> Record \cup {None}]
  /\ children \in [Ids -> Child \cup {None}]
  /\ running \subseteq Child
  /\ admission \in [Ids -> Gate \cup {None}]
  /\ closed \subseteq Gate
  /\ inFlight \in [Gate -> Nat]
  /\ queued \in [Ids -> SUBSET Requests]
  /\ lock \in [Ids -> Workers \cup {None}]
  /\ reservations \subseteq Ports
  /\ task \in [Workers -> Task]
  /\ call \in [Requests -> Call]
  /\ phase \in {"serving", "stopping", "sweeping", "stopped"}

(* Two engine processes never listen on one port, and no child is started   *)
(* on a port whose last child may still run, whatever fails: a creation, a  *)
(* stop, a rollback (free_port's taken set, stop before start).             *)
OneChildPerPort ==
  \A c, d \in running : c.rec.port = d.rec.port => c = d

(* A handle is never overwritten or dropped while its child may still run,  *)
(* so a retry or the agent's shutdown always finds it.                      *)
EveryChildIsRegistered ==
  \A c \in running : children[c.id] = c

(* A record that could not be saved is not a record, and one that is saved  *)
(* is in force: between two awaits agent.yaml holds exactly what is         *)
(* committed in memory, so a restart at any moment serves that.             *)
DiskHoldsWhatIsCommitted == disk = config

(* Whoever finds the gate of a deployment open reaches a child started from *)
(* the very record the agent reports: never a candidate not yet committed,  *)
(* nor the replaced process.                                                *)
OpenGateServesTheRecord ==
  \A i \in Ids :
    config[i] # None /\ children[i] # None /\ admission[i] \notin closed
      => children[i].rec = config[i]

(* The workers that were told their drain was over while requests still ran *)
(* at the deployment.                                                       *)
CutShort(i) == \E w \in Workers : Own(w) = i /\ task[w].timedOut

(* A replacement or a removal never stops a child that is still answering:  *)
(* no request sent behind the gate it closed, or behind an earlier one, is  *)
(* at the child, unless a drain of that deployment ran out of time.         *)
StopsOnlyWhatIsDrained ==
  \A w \in Workers, r \in Requests :
    /\ task[w].pc \in StopPoints /\ children[Own(w)] # None
    /\ call[r].pc = "sent" /\ call[r].child = children[Own(w)]
    => CutShort(Own(w))

(* Each gate counts exactly the requests sent through it and not yet        *)
(* released, so a drain neither ends early nor waits for nobody.            *)
SentThrough(g) == {r \in Requests : call[r].pc = "sent" /\ call[r].gate = g}

GatesCountTheirRequests ==
  \A g \in Gate : inFlight[g] = Cardinality(SentThrough(g))

(* What a Queueing counts as in flight is in flight at the process it       *)
(* counts for: no request of a replaced process holds a place in its        *)
(* successor.                                                               *)
QueueingCountsItsProcess ==
  \A i \in Ids : \A r \in queued[i] :
    /\ call[r].pc = "sent" /\ call[r].id = i
    /\ children[i] # None => call[r].child = children[i]

\* Some transition of the deployment ended in an error.
HasFailed(i) == \E w \in Workers : Own(w) = i /\ task[w].outcome = "failed"

(* A gate no transition holds is closed only if a transition of that        *)
(* deployment failed: one that changed nothing, was abandoned or rolled     *)
(* back has put it back.                                                    *)
ClosedGateHasAReason ==
  \A i \in Ids :
    lock[i] = None /\ admission[i] \in closed
      => HasFailed(i)

(* Locks and port reservations are held by unfinished workers only: no exit *)
(* path leaks one.                                                          *)
NothingIsLeaked ==
  /\ \A i \in Ids : lock[i] # None => ~Ended(lock[i]) /\ Own(lock[i]) = i
  /\ \A p \in reservations : \E w \in Workers : ~Ended(w) /\ task[w].port = p

(* No child starts once the agent is stopping, even by a worker the join    *)
(* left behind, so the final sweep is final.                                *)
NoStartOnceStopping ==
  [][phase # "serving" => running' \subseteq running]_vars

(* Every transition ends, whoever holds its lock and whatever it waits for. *)
TransitionsEnd ==
  \A w \in Workers : At(w, "locking") ~> At(w, "done")

(* A shutdown joins the workers it finds and reaches its sweep.             *)
ShutdownEnds == phase = "stopping" ~> phase = "stopped"

-----------------------------------------------------------------------------
(* The inductive invariant behind the safety properties: where each worker  *)
(* stands, and what that says of its deployment's lock, record, child, port *)
(* and gate.                                                                *)

Holds(w) == task[w].pc \notin {"idle", "locking", "done"}

LocksAgree ==
  /\ \A w \in Workers : Holds(w) => lock[Own(w)] = w
  /\ \A i \in Ids : lock[i] # None => Own(lock[i]) = i /\ Holds(lock[i])

\* The points of a replacement once it has its port, and of a removal.
PutPoints ==
  {"stopping", "verifying", "waiting", "committing", "reporting",
   "undo_stopping", "undo_verifying", "undo_waiting", "undo_saving"}
DeletePoints == {"stray_stopping", "forget_stopping", "forgetting"}

\* What a worker knows: the record it found, and the port it reserved.
Knows(w) ==
  /\ Holds(w) /\ ~At(w, "reporting") => task[w].previous = config[Own(w)]
  /\ ~Holds(w) => task[w].previous = None
  /\ At(w, "reserving") \/ task[w].pc \in PutPoints => task[w].op = "put"
  /\ task[w].pc \in DeletePoints => task[w].op = "delete"
  /\ task[w].port # None
       <=> task[w].pc \in PutPoints \/ (At(w, "draining") /\ task[w].op = "put")
  /\ task[w].port # None /\ task[w].previous # None
       => task[w].port = task[w].previous.port

WorkersKnow == \A w \in Workers : Knows(w)

\* Which child is registered where a worker stands.
ChildAt(w) ==
  /\ task[w].pc \in {"verifying", "undo_verifying", "forgetting"}
       => children[Own(w)] = None
  /\ task[w].pc \in {"waiting", "committing", "reporting"}
       => children[Own(w)] = [id |-> Own(w), by |-> w, rec |-> Candidate(w)]
  /\ At(w, "reporting") => config[Own(w)] = Candidate(w)
  /\ task[w].pc \in {"undo_verifying", "undo_waiting"} => task[w].previous # None
  /\ At(w, "undo_waiting") \/ (At(w, "undo_saving") /\ task[w].previous # None)
       => children[Own(w)] = [id |-> Own(w), by |-> w, rec |-> task[w].previous]
  /\ At(w, "draining") => task[w].previous # None
  /\ At(w, "forget_stopping") => task[w].previous # None
  /\ At(w, "stray_stopping") => task[w].previous = None

WorkersChildren == \A w \in Workers : ChildAt(w)

\* A port belongs to one deployment: by its record, by its child, or by the
\* worker that reserved it.
OwnsPort(i, p) ==
  \/ config[i] # None /\ config[i].port = p
  \/ children[i] # None /\ children[i].rec.port = p
  \/ \E w \in Workers : Own(w) = i /\ task[w].port = p

PortsApart ==
  /\ \A i, j \in Ids, p \in Ports : OwnsPort(i, p) /\ OwnsPort(j, p) => i = j
  /\ \A w \in Workers : task[w].port # None => task[w].port \in reservations

\* A gate belongs to one deployment, and nobody has seen the one a worker or
\* a request has yet to make.
GatesApart ==
  /\ \A w \in Workers, i \in Ids :
       admission[i] \in {<<w, "drain">>, <<w, "fresh">>} => Own(w) = i
  /\ \A i, j \in Ids : admission[i] # None /\ admission[i] = admission[j] => i = j
  /\ \A w \in Workers :
       task[w].pc \in {"idle", "locking", "reserving"}
         => <<w, "drain">> \notin closed /\ \A i \in Ids : admission[i] # <<w, "drain">>
  /\ \A r \in Requests :
       call[r].pc = "new"
         => <<r, "door">> \notin closed /\ \A i \in Ids : admission[i] # <<r, "door">>

\* Where a worker keeps the gate closed, where it has opened or dropped it,
\* what it found before it touched it, and that only its end has an outcome.
GateAt(w) ==
  /\ task[w].pc \in {"draining", "stopping", "verifying", "waiting",
                     "committing", "undo_stopping", "undo_verifying",
                     "undo_waiting", "forget_stopping", "forgetting"}
       => admission[Own(w)] \in closed
  /\ task[w].pc \in {"reporting", "undo_saving"} => admission[Own(w)] \notin closed
  /\ task[w].pc \in {"reserving", "stray_stopping"} /\ admission[Own(w)] \in closed
       => HasFailed(Own(w))
  /\ At(w, "draining") /\ task[w].wasPaused => HasFailed(Own(w))
  /\ At(w, "draining") /\ ~task[w].wasPaused /\ children[Own(w)] # None
       => children[Own(w)].rec = task[w].previous
  /\ task[w].outcome # "none" => At(w, "done")

WorkersGates == \A w \in Workers : GateAt(w)

\* A request under way holds the gate, the child and the record it found.
CallsKnow ==
  \A r \in Requests :
    call[r].pc \in {"reading", "sent"}
      => /\ call[r].id \in Ids /\ call[r].gate \in Gate
         /\ call[r].child \in Child /\ call[r].rec \in Record

\* Everything about types and counts.
Typed == TypeOK /\ CallsKnow /\ GatesCountTheirRequests

\* Everything about locks, records, children and ports.
PortInv ==
  /\ LocksAgree /\ WorkersKnow /\ WorkersChildren /\ PortsApart
  /\ EveryChildIsRegistered /\ DiskHoldsWhatIsCommitted /\ NothingIsLeaked

\* Everything about the gates on top of it.
GateInv ==
  /\ GatesApart /\ WorkersGates /\ OpenGateServesTheRecord /\ ClosedGateHasAReason

(* The whole inductive invariant of the agent.                              *)
IInv ==
  /\ Typed /\ PortInv /\ GateInv

-----------------------------------------------------------------------------
(* What the transitions implement: the durable record of each deployment,   *)
(* changed at one instant by a worker that says so.  A worker has applied   *)
(* its change once it committed or forgot, or found nothing to forget.      *)

Applied(w) ==
  At(w, "reporting") \/ task[w].outcome \in {"healthy", "stopped", "absent"}

Verdict(w) ==
  CASE Applied(w) -> "applied"
    [] At(w, "done") /\ ~Applied(w) -> "rejected"
    [] OTHER -> IF task[w].abandoned THEN "gone" ELSE "pending"

Promise == INSTANCE DeploymentRecords WITH
  recorded <- disk,
  aim <- [w \in Workers |-> [op |-> task[w].op, id |-> Own(w)]],
  verdict <- [w \in Workers |-> Verdict(w)]

(* Every PUT and DELETE takes effect on agent.yaml at one instant or not at *)
(* all and is answered accordingly, however its steps interleave with       *)
(* those of others, with failures and with its request going away.          *)
ImplementsRecords == Promise!RecordsSpec

(* The worker's request went away and it has not yet changed a record: it   *)
(* changes none (the Transition docstring's promise for a replacement and   *)
(* a removal alike).                                                        *)
AbandonedChangesNothing ==
  [][\A w \in Workers :
       task[w].abandoned /\ lock[Own(w)] = w => config'[Own(w)] = config[Own(w)]]_vars
=============================================================================
