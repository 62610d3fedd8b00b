------------------------- MODULE DeploymentsProofs -------------------------
(***************************************************************************)
(* Proofs about the host agent's deployments, for any number of ids,       *)
(* workers, requests and ports.                                            *)
(*                                                                         *)
(*   - The inductive invariant of their locks, records, children and       *)
(*     ports, and on top of it that of their gates.                        *)
(*   - What their users rely on: a PUT or a DELETE keeps the promise of    *)
(*     DeploymentRecords, no child is stopped under a request it still     *)
(*     answers, and a report of a healthy deployment is true.              *)
(***************************************************************************)
EXTENDS DeploymentsProperties, DeploymentsObserved, FiniteSetTheorems, TLAPS

(* What going to another point does to the locals of a worker.              *)
LEMMA GotoEffect ==
  ASSUME TypeOK, NEW w \in Workers, NEW pc \in PcOfTask, Goto(w, pc)
  PROVE  /\ task' \in [Workers -> Task]
         /\ task'[w] = [task[w] EXCEPT !.pc = pc]
         /\ \A v \in Workers \ {w} : task'[v] = task[v]
  BY DEF TypeOK, Task, Goto

(* Going somewhere keeps the locals typed.                                  *)
LEMMA GotoLocals ==
  ASSUME TypeOK, NEW w \in Workers, NEW pc, Goto(w, pc)
  PROVE  /\ task'[w].pc = pc /\ task'[w].id = task[w].id /\ task'[w].op = task[w].op
         /\ task'[w].port = task[w].port /\ task'[w].previous = task[w].previous
  BY DEF TypeOK, Task, Goto

(* A worker that ends gives back its lock and its port.                     *)
LEMMA FinishEffect ==
  ASSUME TypeOK, NEW w \in Workers, NEW outcome \in Outcomes, Finish(w, outcome)
  PROVE  /\ task' \in [Workers -> Task]
         /\ task'[w].pc = "done" /\ task'[w].outcome = outcome
         /\ task'[w].previous = None /\ task'[w].port = None
         /\ task'[w].id = Own(w) /\ task'[w].op = task[w].op
         /\ \A v \in Workers \ {w} : task'[v] = task[v]
         /\ lock' \in [Ids -> Workers \cup {None}]
         /\ lock'[Own(w)] = None
         /\ \A i \in Ids \ {Own(w)} : lock'[i] = lock[i]
         /\ reservations' = reservations \ {task[w].port}
<1> DEFINE ended == [task[w] EXCEPT !.pc = "done", !.outcome = outcome,
                       !.previous = None, !.port = None,
                       !.abandoned = FALSE, !.wasPaused = FALSE]
<1>1. task[w] \in Task
  BY DEF TypeOK
<1>2. /\ ended \in Task
      /\ ended.pc = "done" /\ ended.outcome = outcome
      /\ ended.previous = None /\ ended.port = None
      /\ ended.id = task[w].id /\ ended.op = task[w].op
  BY <1>1 DEF Task, PcOfTask
<1>3. task' = [task EXCEPT ![w] = ended]
  <2>1. task \in [Workers -> Task]
    BY DEF TypeOK
  <2> QED
    BY <1>1, <2>1 DEF Finish, Task
<1>4. /\ task' \in [Workers -> Task]
      /\ task'[w] = ended
      /\ \A v \in Workers \ {w} : task'[v] = task[v]
  BY <1>2, <1>3 DEF TypeOK
<1>5. Own(w) \in Ids
  BY <1>1 DEF Own, Task
<1>6. /\ lock' \in [Ids -> Workers \cup {None}]
      /\ lock'[Own(w)] = None
      /\ \A i \in Ids \ {Own(w)} : lock'[i] = lock[i]
      /\ reservations' = reservations \ {task[w].port}
  BY <1>5 DEF TypeOK, Finish
<1> QED
  BY <1>2, <1>4, <1>6 DEF Own

(* Closing, renewing, dropping or opening a gate keeps the gates' types.    *)
LEMMA GatesTyped ==
  ASSUME TypeOK, NEW w \in Workers,
         \/ CloseGate(w) \/ FreshGate(w) \/ DropGate(w)
         \/ OpenGate(w)
         \/ UNCHANGED gates
  PROVE  /\ admission' \in [Ids -> Gate \cup {None}]
         /\ closed' \subseteq Gate
         /\ inFlight' = inFlight
         /\ queued' \in [Ids -> SUBSET Requests]
<1>1. /\ Own(w) \in Ids /\ closed \subseteq Gate /\ inFlight' = inFlight
      /\ admission \in [Ids -> Gate \cup {None}] /\ queued \in [Ids -> SUBSET Requests]
  BY DEF TypeOK, Own, Task, CloseGate, FreshGate, DropGate, OpenGate, gates
<1>2. <<w, "drain">> \in Gate /\ <<w, "fresh">> \in Gate
  BY DEF Gate
<1>3. GateToDrain(w) \in Gate
  BY <1>1, <1>2 DEF GateToDrain
<1>4. CASE CloseGate(w)
  BY <1>1, <1>3, <1>4 DEF CloseGate
<1>5. CASE FreshGate(w)
  BY <1>1, <1>2, <1>5 DEF FreshGate
<1>6. CASE DropGate(w)
  BY <1>1, <1>6 DEF DropGate
<1>7. CASE OpenGate(w)
  BY <1>1, <1>7 DEF OpenGate
<1>8. CASE UNCHANGED gates
  BY <1>1, <1>8 DEF gates
<1> QED
  BY <1>4, <1>5, <1>6, <1>7, <1>8

(* A candidate is a record once its worker has a port.                      *)
LEMMA RecordsTyped ==
  ASSUME TypeOK, NEW w \in Workers, task[w].port # None
  PROVE  Candidate(w) \in Record
  BY NoneIsNothing DEF TypeOK, Task, Candidate, Record, Makers

(* A started child is a child, in force and running.                        *)
LEMMA StartTyped ==
  ASSUME TypeOK, NEW w \in Workers, NEW rec \in Record, Start(w, rec)
  PROVE  children' \in [Ids -> Child \cup {None}] /\ running' \subseteq Child
<1>1. [id |-> Own(w), by |-> w, rec |-> rec] \in Child
  BY DEF TypeOK, Task, Child, Makers, Own
<1> QED
  BY <1>1 DEF TypeOK, Start

(* What follows the stop of a rollback keeps the types.                     *)
LEMMA UndoTyped ==
  ASSUME TypeOK, NEW w \in Workers, UndoStopped(w)
  PROVE  /\ task' \in [Workers -> Task]
         /\ admission' \in [Ids -> Gate \cup {None}]
         /\ closed' \subseteq Gate
         /\ inFlight' = inFlight
         /\ queued' \in [Ids -> SUBSET Requests]
  BY GotoEffect, GatesTyped DEF UndoStopped, PcOfTask

(* So does the rollback up to its first await.                              *)
LEMMA RollBackTyped ==
  ASSUME TypeOK, NEW w \in Workers, RollBack(w)
  PROVE  TypeOK'
<1>1. /\ task' \in [Workers -> Task]
      /\ admission' \in [Ids -> Gate \cup {None}]
      /\ closed' \subseteq Gate
      /\ inFlight' = inFlight
      /\ queued' \in [Ids -> SUBSET Requests]
  BY UndoTyped, GotoEffect, GatesTyped DEF RollBack, PcOfTask, StopPoints
<1> QED
  BY <1>1 DEF TypeOK, RollBack, records, ports

(* Every step of a worker keeps the types; WorkersKnow and WorkersChildren  *)
(* say that a candidate has a port and a restored record exists.            *)
LEMMA WorkerTyped ==
  ASSUME TypeOK, WorkersKnow, WorkersChildren, NEW w \in Workers,
         RunTransition(w) \/ Abandon(w) \/ WorkerStep(w)
  PROVE  TypeOK'
<1>0. task[w] \in Task /\ Own(w) \in Ids
  BY DEF TypeOK, Task, Own
<1>1. CASE RunTransition(w)
  BY <1>1, GotoEffect DEF RunTransition, TypeOK, records, gates, ports, PcOfTask
<1>2. CASE Abandon(w)
  <2>1. [task[w] EXCEPT !.abandoned = TRUE] \in Task
    BY <1>0 DEF Task
  <2>2. task' \in [Workers -> Task]
    BY <1>2, <2>1 DEF Abandon, TypeOK, Task
  <2> QED
    BY <1>2, <2>2 DEF Abandon, TypeOK, records, gates, ports
<1>3. CASE GoneBeforeLock(w)
  BY <1>3, <1>0, FinishEffect DEF GoneBeforeLock, TypeOK, records, gates, Outcomes
<1>4. CASE GoneBeforeReserve(w)
  BY <1>4, <1>0, FinishEffect DEF GoneBeforeReserve, TypeOK, records, gates, Outcomes
<1>5. CASE PutRefused(w)
  BY <1>5, <1>0, FinishEffect DEF PutRefused, TypeOK, records, gates, Outcomes
<1>6. CASE Report(w)
  BY <1>6, <1>0, FinishEffect DEF Report, TypeOK, records, gates, Outcomes
<1>7. CASE RollBackFails(w)
  BY <1>7, <1>0, FinishEffect DEF RollBackFails, TypeOK, records, gates, Outcomes
<1>8. CASE RolledBack(w)
  BY <1>8, <1>0, FinishEffect DEF RolledBack, TypeOK, records, gates, Outcomes
<1>9. CASE ForgetAbsent(w)
  BY <1>9, <1>0, FinishEffect DEF ForgetAbsent, TypeOK, records, gates, Outcomes
<1>10. CASE ForgetFails(w)
  BY <1>10, <1>0, FinishEffect DEF ForgetFails, TypeOK, records, gates, Outcomes
<1>11. CASE DrainAbandoned(w)
  BY <1>11, <1>0, FinishEffect, GatesTyped DEF DrainAbandoned, TypeOK, records, gates, Outcomes
<1>12. CASE StopFails(w)
  BY <1>12, <1>0, FinishEffect, RollBackTyped DEF StopFails, TypeOK, records, gates, Outcomes
<1>13. CASE CandidateRefused(w)
  BY <1>13, <1>0, RollBackTyped DEF CandidateRefused
<1>14. CASE CandidateFails(w)
  BY <1>14, <1>0, RollBackTyped DEF CandidateFails
<1>15. CASE CommitFails(w)
  BY <1>15, <1>0, RollBackTyped DEF CommitFails
<1>16. CASE CandidateReady(w)
  BY <1>16, <1>0, GotoEffect DEF CandidateReady, TypeOK, records, gates, ports, PcOfTask
<1>17. CASE StartCandidate(w)
  BY <1>17, <1>0, GotoEffect, StartTyped, RecordsTyped DEF StartCandidate, TypeOK, records, gates, ports, PcOfTask, WorkersKnow, Knows, PutPoints, At
<1>18. CASE RestorePrevious(w)
  BY <1>18, <1>0, GotoEffect, StartTyped DEF RestorePrevious, TypeOK, Task, records, gates, ports, PcOfTask, WorkersChildren, ChildAt, At
<1>19. CASE PreviousReady(w)
  BY <1>19, <1>0, GotoEffect, GatesTyped DEF PreviousReady, TypeOK, records, ports, PcOfTask
<1>20. CASE Commit(w)
  BY <1>20, <1>0, GotoEffect, GatesTyped, RecordsTyped DEF Commit, TypeOK, records, ports, PcOfTask, WorkersKnow, Knows, PutPoints, At
<1>21. CASE Forget(w)
  BY <1>21, <1>0, FinishEffect, GatesTyped DEF Forget, TypeOK, Outcomes
<1>22. CASE ForgetStray(w)
  BY <1>22, <1>0, GotoEffect DEF ForgetStray, TakeLock, TypeOK, records, gates, PcOfTask, StopPoints
<1>23. CASE ForgetDrain(w)
  <2>1. config[Own(w)] \in Record
    BY <1>0, <1>23 DEF ForgetDrain, TypeOK
  <2>2. \A paused \in BOOLEAN :
          [task[w] EXCEPT !.pc = "draining", !.previous = config[Own(w)],
                          !.wasPaused = paused] \in Task
    BY <1>0, <2>1 DEF Task, PcOfTask
  <2>3. (GateToDrain(w) \in closed) \in BOOLEAN
    OBVIOUS
  <2>4. task' \in [Workers -> Task]
    <3> DEFINE drained == [task[w] EXCEPT !.pc = "draining", !.previous = config[Own(w)],
                                          !.wasPaused = GateToDrain(w) \in closed]
    <3>1. drained \in Task
      BY ONLY <2>2, <2>3
    <3>2. task \in [Workers -> Task] /\ w \in Workers
      BY DEF TypeOK
    <3>3. task' = [task EXCEPT ![w] = drained]
      BY ONLY <1>23, <1>0, <3>2 DEF ForgetDrain, Task
    <3> HIDE DEF drained
    <3> QED
      BY ONLY <3>1, <3>2, <3>3
  <2>5. /\ admission' \in [Ids -> Gate \cup {None}] /\ closed' \subseteq Gate
        /\ inFlight' = inFlight /\ queued' \in [Ids -> SUBSET Requests]
    BY <1>23, GatesTyped DEF ForgetDrain
  <2>6. lock' \in [Ids -> Workers \cup {None}]
    BY <1>0, <1>23 DEF ForgetDrain, TakeLock, TypeOK
  <2>7. UNCHANGED <<config, disk, children, running, reservations, call, phase>>
    BY <1>23 DEF ForgetDrain, records
  <2> QED
    BY <2>4, <2>5, <2>6, <2>7 DEF TypeOK
<1>24. CASE LockForPut(w)
  <2>1. config[Own(w)] \in Record \cup {None}
    BY <1>0 DEF TypeOK, Own, Task
  <2>2. task' \in [Workers -> Task]
    BY <1>24, <1>0, <2>1 DEF LockForPut, TypeOK, Task, PcOfTask
  <2> QED
    BY <1>24, <1>0, <2>2 DEF LockForPut, TakeLock, TypeOK, records, gates
<1>25. CASE ReserveForReplacement(w)
  <2>1. task[w].previous \in Record /\ task[w].previous.port \in Ports
    BY <1>25, <1>0 DEF ReserveForReplacement, Task, Record
  <2>2. \A paused \in BOOLEAN :
          [task[w] EXCEPT !.pc = "draining", !.port = task[w].previous.port,
                          !.wasPaused = paused] \in Task
    BY <1>0, <2>1 DEF Task, PcOfTask
  <2>3. (GateToDrain(w) \in closed) \in BOOLEAN
    OBVIOUS
  <2>4. task' \in [Workers -> Task]
    <3> DEFINE drained == [task[w] EXCEPT !.pc = "draining", !.port = task[w].previous.port,
                                          !.wasPaused = GateToDrain(w) \in closed]
    <3>1. drained \in Task
      BY ONLY <2>2, <2>3
    <3>2. task \in [Workers -> Task] /\ w \in Workers
      BY DEF TypeOK
    <3>3. task' = [task EXCEPT ![w] = drained]
      BY ONLY <1>25, <1>0, <3>2 DEF ReserveForReplacement, Task
    <3> HIDE DEF drained
    <3> QED
      BY ONLY <3>1, <3>2, <3>3
  <2>5. /\ admission' \in [Ids -> Gate \cup {None}] /\ closed' \subseteq Gate
        /\ inFlight' = inFlight /\ queued' \in [Ids -> SUBSET Requests]
    BY <1>25, GatesTyped DEF ReserveForReplacement
  <2>6. reservations' \subseteq Ports
    BY <1>25, <2>1 DEF ReserveForReplacement, TypeOK
  <2>7. UNCHANGED <<config, disk, children, running, lock, call, phase>>
    BY <1>25 DEF ReserveForReplacement, records
  <2> QED
    BY <2>4, <2>5, <2>6, <2>7 DEF TypeOK
<1>26. CASE ReserveForCreation(w)
  <2>1. PICK p \in Ports :
          /\ reservations' = reservations \cup {p}
          /\ task' = [task EXCEPT
               ![w].pc = IF children[Own(w)] = None THEN "verifying" ELSE "stopping",
               ![w].port = p]
    BY <1>26 DEF ReserveForCreation
  <2>2. \A pc \in {"verifying", "stopping"} :
          [task[w] EXCEPT !.pc = pc, !.port = p] \in Task
    BY <1>0 DEF Task, PcOfTask, StopPoints
  <2>3. task' \in [Workers -> Task]
    BY <2>1, <2>2 DEF TypeOK, Task
  <2> QED
    BY <1>26, <2>1, <2>3, GatesTyped DEF ReserveForCreation, TypeOK, records
<1>27. CASE StopReturns(w)
  <2>1. children' \in [Ids -> Child \cup {None}] /\ running' \subseteq Child
    BY <1>27, <1>0 DEF StopReturns, TypeOK
  <2>2. CASE At(w, "stopping") /\ Goto(w, "verifying") /\ UNCHANGED <<gates, ports>>
    BY <1>27, <2>1, <2>2, GotoEffect DEF StopReturns, TypeOK, PcOfTask, records, gates, ports
  <2>3. CASE At(w, "forget_stopping") /\ Goto(w, "forgetting") /\ UNCHANGED <<gates, ports>>
    BY <1>27, <2>1, <2>3, GotoEffect DEF StopReturns, TypeOK, PcOfTask, records, gates, ports
  <2>4. CASE At(w, "stray_stopping") /\ Finish(w, "stopped")
             /\ admission' = [admission EXCEPT ![Own(w)] = None]
             /\ UNCHANGED <<closed, inFlight, queued>>
    BY <1>27, <1>0, <2>1, <2>4, FinishEffect DEF StopReturns, TypeOK, Outcomes, records
  <2>5. CASE UndoStopped(w) /\ UNCHANGED ports
    BY <1>27, <2>1, <2>5, UndoTyped DEF StopReturns, TypeOK, records, ports
  <2> QED
    BY <1>27, <2>2, <2>3, <2>4, <2>5 DEF StopReturns
<1>28. ASSUME NEW late \in BOOLEAN, AfterDrain(w, late) PROVE TypeOK'
  <2>1. \A pc \in {"verifying", "stopping", "forgetting", "forget_stopping"} :
          [task[w] EXCEPT !.pc = pc, !.timedOut = late] \in Task
    BY <1>0 DEF Task, PcOfTask, StopPoints
  <2>2. PICK pc \in {"verifying", "stopping", "forgetting", "forget_stopping"} :
          task' = [task EXCEPT ![w].pc = pc, ![w].timedOut = late]
    BY <1>28 DEF AfterDrain
  <2>3. task' = [task EXCEPT ![w] = [task[w] EXCEPT !.pc = pc, !.timedOut = late]]
    BY <2>2 DEF TypeOK, Task
  <2>4. task' \in [Workers -> Task]
    BY <2>1, <2>3 DEF TypeOK
  <2> QED
    BY <1>28, <2>4, GatesTyped DEF AfterDrain, TypeOK, records, ports
<1>29. CASE Drained(w) \/ DrainTimesOut(w)
  BY <1>28, <1>29, TRUE \in BOOLEAN, FALSE \in BOOLEAN DEF Drained, DrainTimesOut
<1> QED
  BY <1>1, <1>2, <1>3, <1>4, <1>5, <1>6, <1>7, <1>8, <1>9, <1>10, <1>11, <1>12,
     <1>13, <1>14, <1>15, <1>16, <1>17, <1>18, <1>19, <1>20, <1>21, <1>22, <1>23,
     <1>24, <1>25, <1>26, <1>27, <1>29 DEF WorkerStep

(* A worker does not touch the requests or what the gates count of them.    *)
LEMMA WorkerLeavesCalls ==
  ASSUME NEW w \in Workers, RunTransition(w) \/ Abandon(w) \/ WorkerStep(w)
  PROVE  call' = call /\ inFlight' = inFlight
<1>1. ASSUME RollBack(w) \/ UndoStopped(w) \/ CloseGate(w) \/ FreshGate(w) \/ DropGate(w)
             \/ OpenGate(w) \/ UNCHANGED gates
      PROVE  inFlight' = inFlight
  BY <1>1 DEF RollBack, UndoStopped, CloseGate, FreshGate, DropGate, OpenGate, gates
<1>2. ASSUME RollBack(w) PROVE call' = call
  BY <1>2 DEF RollBack
<1>3. CASE RunTransition(w) \/ Abandon(w) \/ GoneBeforeLock(w) \/ DrainAbandoned(w)
  BY <1>1, <1>3 DEF RunTransition, Abandon, GoneBeforeLock, DrainAbandoned
<1>4. CASE Drained(w) \/ DrainTimesOut(w) \/ StopReturns(w) \/ StopFails(w)
  BY <1>1, <1>2, <1>4 DEF Drained, DrainTimesOut, AfterDrain, StopReturns, StopFails
<1>5. CASE LockForPut(w) \/ GoneBeforeReserve(w) \/ ReserveForReplacement(w)
           \/ ReserveForCreation(w) \/ PutRefused(w)
  BY <1>1, <1>5 DEF LockForPut, GoneBeforeReserve, ReserveForReplacement,
                    ReserveForCreation, PutRefused
<1>6. CASE CandidateRefused(w) \/ StartCandidate(w) \/ CandidateReady(w)
           \/ CandidateFails(w) \/ Commit(w) \/ CommitFails(w) \/ Report(w)
  BY <1>1, <1>2, <1>6 DEF CandidateRefused, StartCandidate, CandidateReady,
                          CandidateFails, Commit, CommitFails, Report
<1>7. CASE RestorePrevious(w) \/ PreviousReady(w) \/ RollBackFails(w) \/ RolledBack(w)
  BY <1>1, <1>7 DEF RestorePrevious, PreviousReady, RollBackFails, RolledBack
<1>8. CASE ForgetAbsent(w) \/ ForgetStray(w) \/ ForgetDrain(w) \/ Forget(w) \/ ForgetFails(w)
  BY <1>1, <1>8 DEF ForgetAbsent, ForgetStray, ForgetDrain, Forget, ForgetFails
<1> QED
  BY <1>3, <1>4, <1>5, <1>6, <1>7, <1>8 DEF WorkerStep

(* The requests sent through a gate are finitely many.                      *)
LEMMA SentFinite ==
  \A g : IsFiniteSet(SentThrough(g)) /\ Cardinality(SentThrough(g)) \in Nat
<1>1. \A g : SentThrough(g) \subseteq Requests
  BY DEF SentThrough
<1> QED
  BY <1>1, FiniteRequests, FS_Subset, FS_CardinalityType

(* A request finds a gate, passes it and leaves it: every gate counts       *)
(* exactly the requests sent through it.                                    *)
LEMMA RequestTyped ==
  ASSUME Typed, NEW r \in Requests, RequestStep(r)
  PROVE  Typed'
<1>0. call[r] \in Call /\ TypeOK /\ CallsKnow /\ GatesCountTheirRequests
  BY DEF Typed, TypeOK
<1>d. [NoCall EXCEPT !.pc = "done"] \in Call
  BY DEF NoCall, Call
<1>1. CASE Arrive(r)
  <2>1. PICK i \in {j \in Ids : config[j] # None} :
          LET gate == IF admission[i] = None THEN <<r, "door">> ELSE admission[i]
              open == gate \notin closed /\ children[i] # None
          IN  /\ admission' = [admission EXCEPT ![i] = gate]
              /\ call' = [call EXCEPT ![r] =
                   IF open THEN [pc |-> "reading", id |-> i, gate |-> gate,
                                 child |-> children[i], rec |-> config[i]]
                   ELSE [NoCall EXCEPT !.pc = "done"]]
    BY <1>1 DEF Arrive
  <2> DEFINE gate == IF admission[i] = None THEN <<r, "door">> ELSE admission[i]
  <2>2. gate \in Gate /\ config[i] \in Record /\ i \in Ids
    BY <1>0, <2>1 DEF TypeOK, Gate
  <2>3. /\ children[i] # None
           => [pc |-> "reading", id |-> i, gate |-> gate,
               child |-> children[i], rec |-> config[i]] \in Call
        /\ children[i] # None => children[i] \in Child
    BY <1>0, <2>2 DEF TypeOK, Call
  <2>4. /\ call' \in [Requests -> Call]
        /\ \/ call'[r] = [pc |-> "reading", id |-> i, gate |-> gate,
                         child |-> children[i], rec |-> config[i]]
              /\ children[i] # None
           \/ call'[r].pc = "done"
        /\ \A q \in Requests \ {r} : call'[q] = call[q]
    BY <1>0, <1>d, <2>1, <2>3 DEF TypeOK, NoCall
  <2>5. TypeOK'
    BY <1>0, <1>1, <2>1, <2>2, <2>4 DEF TypeOK, Arrive, records, ports
  <2>6. CallsKnow'
    BY <1>0, <2>2, <2>3, <2>4 DEF CallsKnow
  <2>7. \A g : SentThrough(g)' = SentThrough(g)
    BY <1>1, <2>4 DEF SentThrough, Arrive
  <2> QED
    BY <1>0, <1>1, <2>5, <2>6, <2>7 DEF Typed, GatesCountTheirRequests, Arrive
<1>2. CASE TurnAway(r)
  <2>1. /\ call' \in [Requests -> Call]
        /\ call'[r].pc = "done"
        /\ \A q \in Requests \ {r} : call'[q] = call[q]
    BY <1>0, <1>d, <1>2 DEF TurnAway, TypeOK, NoCall
  <2>2. TypeOK'
    BY <1>0, <1>2, <2>1 DEF TypeOK, TurnAway, records, ports, gates
  <2>3. CallsKnow'
    BY <1>0, <2>1 DEF CallsKnow
  <2>4. \A g : SentThrough(g)' = SentThrough(g)
    BY <1>2, <2>1 DEF SentThrough, TurnAway
  <2> QED
    BY <1>0, <1>2, <2>2, <2>3, <2>4 DEF Typed, GatesCountTheirRequests, TurnAway, gates
<1>3. CASE Forward(r)
  <2>1. PICK g \in Gate : g = call[r].gate /\ call[r].id \in Ids
    BY <1>0, <1>3 DEF CallsKnow, Forward
  <2>2. /\ call' \in [Requests -> Call]
        /\ call'[r] = [call[r] EXCEPT !.pc = "sent"]
        /\ \A q \in Requests \ {r} : call'[q] = call[q]
    <3>1. [call[r] EXCEPT !.pc = "sent"] \in Call
      BY <1>0 DEF Call
    <3> QED
      BY <1>0, <1>3, <3>1 DEF Forward, TypeOK, Call
  <2>3. /\ inFlight' \in [Gate -> Nat] /\ inFlight'[g] = inFlight[g] + 1
        /\ \A h \in Gate \ {g} : inFlight'[h] = inFlight[h]
    BY <1>0, <1>3, <2>1 DEF Forward, TypeOK
  <2>4. TypeOK'
    BY <1>0, <1>3, <2>1, <2>2, <2>3 DEF TypeOK, Forward, records, ports
  <2>5. CallsKnow'
    BY <1>0, <1>3, <2>2 DEF CallsKnow, Call, Forward
  <2>6. /\ r \notin SentThrough(g) /\ SentThrough(g)' = SentThrough(g) \cup {r}
        /\ \A h : h # g => SentThrough(h)' = SentThrough(h)
    BY <1>0, <1>3, <2>1, <2>2 DEF SentThrough, Forward, Call
  <2>7. Cardinality(SentThrough(g)') = Cardinality(SentThrough(g)) + 1
    BY <2>6, SentFinite, FS_AddElement
  <2> QED
    BY <1>0, <2>1, <2>3, <2>4, <2>5, <2>6, <2>7 DEF Typed, GatesCountTheirRequests
<1>4. CASE Release(r)
  <2>1. PICK g \in Gate : g = call[r].gate /\ call[r].id \in Ids
    BY <1>0, <1>4 DEF CallsKnow, Release
  <2>2. /\ call' \in [Requests -> Call]
        /\ call'[r].pc = "done"
        /\ \A q \in Requests \ {r} : call'[q] = call[q]
    BY <1>0, <1>d, <1>4 DEF Release, TypeOK, NoCall
  <2>3. /\ r \in SentThrough(g) /\ SentThrough(g)' = SentThrough(g) \ {r}
        /\ \A h : h # g => SentThrough(h)' = SentThrough(h)
    BY <1>0, <1>4, <2>1, <2>2 DEF SentThrough, Release
  <2>4. /\ Cardinality(SentThrough(g)') = Cardinality(SentThrough(g)) - 1
        /\ SentThrough(g) # {}
    BY <2>3, SentFinite, FS_RemoveElement
  <2>5. inFlight[g] = Cardinality(SentThrough(g)) /\ inFlight[g] - 1 \in Nat
    BY <1>0, <2>1, <2>4, SentFinite, FS_EmptySet DEF GatesCountTheirRequests
  <2>6. /\ inFlight' \in [Gate -> Nat] /\ inFlight'[g] = inFlight[g] - 1
        /\ \A h \in Gate \ {g} : inFlight'[h] = inFlight[h]
    BY <1>0, <1>4, <2>1, <2>5 DEF Release, TypeOK
  <2>7. TypeOK'
    BY <1>0, <1>4, <2>1, <2>2, <2>6 DEF TypeOK, Release, records, ports
  <2>8. CallsKnow'
    BY <1>0, <2>2 DEF CallsKnow
  <2> QED
    BY <1>0, <2>1, <2>3, <2>4, <2>5, <2>6, <2>7, <2>8 DEF Typed, GatesCountTheirRequests
<1> QED
  BY <1>1, <1>2, <1>3, <1>4 DEF RequestStep

(* Nor do the host and the agent's own life touch them.                     *)
LEMMA LifeTyped ==
  ASSUME Typed,
         ChildExits \/ Shutdown \/ JoinTransitions \/ JoinCutShort \/ Sweep \/ UNCHANGED vars
  PROVE  Typed'
<1>1. TypeOK' /\ call' = call /\ inFlight' = inFlight
  BY DEF Typed, TypeOK, ChildExits, Shutdown, JoinTransitions, JoinCutShort, Sweep,
         vars, records, gates, ports
<1> QED
  BY <1>1 DEF Typed, CallsKnow, GatesCountTheirRequests, SentThrough

(* A worker's step changes its own locals only, and never what it was asked *)
(* for.                                                                     *)
LEMMA WorkerLocals ==
  ASSUME TypeOK, NEW w \in Workers, RunTransition(w) \/ Abandon(w) \/ WorkerStep(w)
  PROVE  /\ \A v \in Workers \ {w} : task'[v] = task[v]
         /\ task'[w].id = task[w].id /\ task'[w].op = task[w].op
<1> DEFINE Local == /\ \A v \in Workers \ {w} : task'[v] = task[v]
                    /\ task'[w].id = task[w].id /\ task'[w].op = task[w].op
<1>0. task[w] \in Task /\ task \in [Workers -> Task]
  BY DEF TypeOK
<1>g. ASSUME NEW pc \in PcOfTask, Goto(w, pc) PROVE Local
  BY <1>0, <1>g DEF Goto, Task
<1>f. ASSUME NEW outcome \in Outcomes, Finish(w, outcome) PROVE Local
  BY <1>f, FinishEffect DEF Own
<1>r. ASSUME RollBack(w) \/ UndoStopped(w) PROVE Local
  BY <1>g, <1>r DEF RollBack, UndoStopped, PcOfTask, StopPoints
<1>e. ASSUME NEW t, t.id = task[w].id, t.op = task[w].op, task' = [task EXCEPT ![w] = t] PROVE Local
  BY <1>0, <1>e
<1>1. CASE RunTransition(w)
  BY <1>1, <1>g DEF RunTransition, PcOfTask
<1>2. CASE Abandon(w)
  BY <1>0, <1>2 DEF Abandon, Task
<1>3. CASE GoneBeforeLock(w) \/ DrainAbandoned(w) \/ GoneBeforeReserve(w) \/ PutRefused(w)
  BY <1>3, <1>f DEF GoneBeforeLock, DrainAbandoned, GoneBeforeReserve, PutRefused, Outcomes
<1>4. CASE Report(w) \/ RollBackFails(w) \/ RolledBack(w)
  BY <1>4, <1>f DEF Report, RollBackFails, RolledBack, Outcomes
<1>5. CASE ForgetAbsent(w) \/ ForgetFails(w) \/ Forget(w)
  BY <1>5, <1>f DEF ForgetAbsent, ForgetFails, Forget, Outcomes
<1>6. CASE CandidateRefused(w) \/ CandidateFails(w) \/ CommitFails(w)
  BY <1>6, <1>r DEF CandidateRefused, CandidateFails, CommitFails
<1>7. CASE StopFails(w)
  BY <1>7, <1>r, <1>f DEF StopFails, Outcomes
<1>8. CASE StartCandidate(w) \/ RestorePrevious(w) \/ CandidateReady(w)
  BY <1>8, <1>g DEF StartCandidate, RestorePrevious, CandidateReady, PcOfTask
<1>9. CASE PreviousReady(w) \/ Commit(w) \/ ForgetStray(w)
  BY <1>9, <1>g DEF PreviousReady, Commit, ForgetStray, PcOfTask, StopPoints
<1>10. CASE ForgetDrain(w)
  BY <1>0, <1>10 DEF ForgetDrain, Task
<1>11. CASE LockForPut(w)
  BY <1>0, <1>11 DEF LockForPut, Task
<1>12. CASE ReserveForReplacement(w)
  BY <1>0, <1>12 DEF ReserveForReplacement, Task
<1>13. CASE ReserveForCreation(w)
  BY <1>0, <1>13 DEF ReserveForCreation, Task
<1>14. ASSUME NEW late, AfterDrain(w, late) PROVE Local
  BY <1>0, <1>14 DEF AfterDrain, Task
<1>15. CASE Drained(w) \/ DrainTimesOut(w)
  BY <1>14, <1>15 DEF Drained, DrainTimesOut
<1>16. CASE StopReturns(w)
  BY <1>g, <1>f, <1>r, <1>16 DEF StopReturns, PcOfTask, Outcomes
<1> QED
  BY <1>1, <1>2, <1>3, <1>4, <1>5, <1>6, <1>7, <1>8, <1>9, <1>10, <1>11, <1>12,
     <1>13, <1>15, <1>16 DEF WorkerStep

(* A worker changes records, children, gates, locks and ports only as the   *)
(* holder or the taker of its deployment's lock.                            *)
LEMMA WorkerHolds ==
  ASSUME TypeOK, LocksAgree, NEW w \in Workers,
         RunTransition(w) \/ Abandon(w) \/ WorkerStep(w)
  PROVE  \/ lock[Own(w)] \in {w, None}
         \/ UNCHANGED <<records, children, ports, gates>> /\ (Holds(w)' <=> Holds(w))
<1>0. task[w] \in Task /\ Own(w) \in Ids /\ (Holds(w) => lock[Own(w)] = w)
  BY DEF TypeOK, Task, Own, LocksAgree
<1>1. CASE RunTransition(w)
  <2>1. task[w].pc = "idle" /\ task'[w].pc = "locking"
    BY <1>0, <1>1 DEF RunTransition, Goto, At, Task, TypeOK
  <2> QED
    BY <1>1, <2>1 DEF RunTransition, records, ports, gates, Holds
<1>2. CASE Abandon(w)
  BY <1>0, <1>2 DEF Abandon, Task, records, ports, gates, TypeOK, Holds
<1>3. CASE Holds(w)
  BY <1>0, <1>3
<1>4. CASE lock[Own(w)] = None
  BY <1>4
<1>5. ASSUME ~Holds(w), lock[Own(w)] # None PROVE ~WorkerStep(w)
  <2>1. task[w].pc \in {"idle", "locking", "done"}
    BY <1>5 DEF Holds
  <2> QED
    BY <1>5, <2>1 DEF WorkerStep, GoneBeforeLock, DrainAbandoned, Drained, DrainTimesOut,
       StopReturns, StopFails, LockForPut, GoneBeforeReserve, ReserveForReplacement,
       ReserveForCreation, PutRefused, CandidateRefused, StartCandidate, CandidateReady,
       CandidateFails, Commit, CommitFails, Report, RestorePrevious, PreviousReady,
       RollBackFails, RolledBack, ForgetAbsent, ForgetStray, ForgetDrain, Forget,
       ForgetFails, TakeLock, At, StopPoints
<1> QED
  BY <1>1, <1>2, <1>3, <1>4, <1>5

(* It leaves every other deployment's record, child and lock alone.         *)
LEMMA WorkerElsewhere ==
  ASSUME TypeOK, NEW w \in Workers, RunTransition(w) \/ Abandon(w) \/ WorkerStep(w)
  PROVE  \A i \in Ids \ {Own(w)} :
           config'[i] = config[i] /\ children'[i] = children[i] /\ lock'[i] = lock[i]
<1> DEFINE Else == \A i \in Ids \ {Own(w)} :
           config'[i] = config[i] /\ children'[i] = children[i] /\ lock'[i] = lock[i]
<1>0. /\ config \in [Ids -> Record \cup {None}] /\ children \in [Ids -> Child \cup {None}]
      /\ lock \in [Ids -> Workers \cup {None}]
  BY DEF TypeOK
<1>f. ASSUME NEW outcome, Finish(w, outcome)
      PROVE  \A i \in Ids \ {Own(w)} : lock'[i] = lock[i]
  BY <1>0, <1>f DEF Finish
<1>1. CASE RunTransition(w) \/ Abandon(w) \/ CandidateReady(w)
  BY <1>1 DEF RunTransition, Abandon, CandidateReady, records, ports
<1>2. CASE GoneBeforeLock(w) \/ DrainAbandoned(w) \/ GoneBeforeReserve(w) \/ PutRefused(w)
  BY <1>2, <1>f DEF GoneBeforeLock, DrainAbandoned, GoneBeforeReserve, PutRefused, records
<1>3. CASE Report(w) \/ RollBackFails(w) \/ RolledBack(w) \/ ForgetAbsent(w) \/ ForgetFails(w)
  BY <1>3, <1>f DEF Report, RollBackFails, RolledBack, ForgetAbsent, ForgetFails, records
<1>4. CASE Forget(w)
  BY <1>0, <1>4, <1>f DEF Forget
<1>5. ASSUME RollBack(w) PROVE Else
  BY <1>5 DEF RollBack, records, ports
<1>6. CASE CandidateRefused(w) \/ CandidateFails(w) \/ CommitFails(w)
  BY <1>5, <1>6 DEF CandidateRefused, CandidateFails, CommitFails
<1>7. CASE StopFails(w)
  BY <1>5, <1>7, <1>f DEF StopFails, records
<1>8. CASE StartCandidate(w) \/ RestorePrevious(w)
  BY <1>0, <1>8 DEF StartCandidate, RestorePrevious, Start, records, ports
<1>9. CASE PreviousReady(w) \/ Commit(w)
  BY <1>0, <1>9 DEF PreviousReady, Commit, records, ports
<1>10. CASE ForgetStray(w) \/ ForgetDrain(w) \/ LockForPut(w)
  BY <1>0, <1>10 DEF ForgetStray, ForgetDrain, LockForPut, TakeLock, records
<1>11. CASE ReserveForReplacement(w) \/ ReserveForCreation(w)
  BY <1>11 DEF ReserveForReplacement, ReserveForCreation, records
<1>12. CASE Drained(w) \/ DrainTimesOut(w)
  BY <1>12 DEF Drained, DrainTimesOut, AfterDrain, records, ports
<1>13. CASE StopReturns(w)
  BY <1>0, <1>13, <1>f DEF StopReturns, records, ports
<1> QED
  BY <1>1, <1>2, <1>3, <1>4, <1>6, <1>7, <1>8, <1>9, <1>10, <1>11, <1>12, <1>13 DEF WorkerStep

-----------------------------------------------------------------------------
(* What the invariant says of one worker. *)
StandsRight(w) ==
  /\ Holds(w) <=> lock[Own(w)] = w
  /\ Knows(w) /\ ChildAt(w)

(* A worker that ends stands right: it holds nothing and knows nothing.     *)
LEMMA FinishStands ==
  ASSUME TypeOK, NEW w \in Workers, NEW outcome \in Outcomes, Finish(w, outcome)
  PROVE  StandsRight(w)'
<1>1. /\ task'[w].pc = "done" /\ task'[w].port = None /\ task'[w].previous = None
      /\ task'[w].id = Own(w) /\ lock'[Own(w)] = None
  BY FinishEffect
<1>2. ~Holds(w)' /\ lock'[Own(w)'] # w
  BY <1>1, NoneIsNothing DEF Holds, Own
<1> QED
  BY <1>1, <1>2 DEF StandsRight, Knows, ChildAt, At, Holds, PutPoints, DeletePoints

(* So does one that begins to roll back.                                    *)
LEMMA RollBackStands ==
  ASSUME TypeOK, NEW w \in Workers, StandsRight(w),
         task[w].pc \in {"stopping", "verifying", "waiting", "committing"}, RollBack(w)
  PROVE  StandsRight(w)'
<1>0. /\ task[w] \in Task /\ Own(w) \in Ids
      /\ task[w].op = "put" /\ task[w].port # None /\ Holds(w)
      /\ task[w].previous = config[Own(w)] /\ lock[Own(w)] = w
      /\ task[w].previous # None => task[w].port = task[w].previous.port
  BY DEF TypeOK, Task, Own, StandsRight, Knows, Holds, PutPoints, At
<1>1. UNCHANGED <<config, children, lock>>
  BY DEF RollBack, records, ports
<1>2. PICK pc \in {"undo_stopping", "undo_verifying", "undo_saving"} :
        /\ task' = [task EXCEPT ![w].pc = pc]
        /\ pc = "undo_verifying" => children[Own(w)] = None /\ task[w].previous # None
        /\ pc = "undo_saving" => task[w].previous = None
  BY DEF RollBack, UndoStopped, Goto
<1>3. /\ task'[w].pc = pc /\ task'[w].op = "put" /\ task'[w].id = task[w].id
      /\ task'[w].port = task[w].port /\ task'[w].previous = task[w].previous
  BY <1>0, <1>2 DEF Task, TypeOK
<1> QED
  BY <1>0, <1>1, <1>2, <1>3
     DEF StandsRight, Knows, ChildAt, Holds, At, Own, PutPoints, DeletePoints

(* Every step of a worker leaves it standing right.                         *)
LEMMA WorkerStands ==
  ASSUME TypeOK, NEW w \in Workers, StandsRight(w),
         RunTransition(w) \/ Abandon(w) \/ WorkerStep(w)
  PROVE  StandsRight(w)'
<1>0. task[w] \in Task /\ Own(w) \in Ids /\ Knows(w) /\ ChildAt(w)
      /\ (Holds(w) <=> lock[Own(w)] = w)
  BY DEF TypeOK, Task, Own, StandsRight
<1>1. CASE RunTransition(w)
  <2>1. At(w, "idle") /\ Goto(w, "locking") /\ UNCHANGED <<config, children, lock>>
    BY <1>1 DEF RunTransition, records, ports
  <2> QED
    BY <1>0, <2>1, GotoLocals DEF StandsRight, Knows, ChildAt, Holds, At, Own, PutPoints, DeletePoints
<1>2. CASE Abandon(w)
  <2>1. /\ task'[w] = [task[w] EXCEPT !.abandoned = TRUE]
        /\ UNCHANGED <<config, children, lock>>
    BY <1>2 DEF Abandon, TypeOK, records, ports
  <2>2. /\ task'[w].pc = task[w].pc /\ task'[w].op = task[w].op /\ task'[w].id = task[w].id
        /\ task'[w].port = task[w].port /\ task'[w].previous = task[w].previous
    BY <1>0, <2>1 DEF Task
  <2> QED
    BY <1>0, <2>1, <2>2 DEF StandsRight, Knows, ChildAt, Holds, At, Own, PutPoints, DeletePoints, Candidate
<1>3. CASE GoneBeforeLock(w) \/ DrainAbandoned(w) \/ GoneBeforeReserve(w) \/ PutRefused(w)
  BY <1>3, FinishStands DEF GoneBeforeLock, DrainAbandoned, GoneBeforeReserve, PutRefused, Outcomes
<1>4. CASE Report(w) \/ RollBackFails(w) \/ RolledBack(w)
  BY <1>4, FinishStands DEF Report, RollBackFails, RolledBack, Outcomes
<1>5. CASE ForgetAbsent(w) \/ ForgetFails(w) \/ Forget(w)
  BY <1>5, FinishStands DEF ForgetAbsent, ForgetFails, Forget, Outcomes
<1>6. CASE CandidateRefused(w) \/ CandidateFails(w) \/ CommitFails(w)
  BY <1>6, RollBackStands DEF CandidateRefused, CandidateFails, CommitFails, At
<1>7. CASE StopFails(w)
  BY <1>7, RollBackStands, FinishStands DEF StopFails, Outcomes, At
<1>8. CASE StartCandidate(w)
  <2>1. /\ At(w, "verifying") /\ Goto(w, "waiting")
        /\ children' = [children EXCEPT ![Own(w)] =
                         [id |-> Own(w), by |-> w, rec |-> Candidate(w)]]
        /\ UNCHANGED <<config, lock>>
    BY <1>8 DEF StartCandidate, Start, records, ports
  <2>2. children'[Own(w)] = [id |-> Own(w), by |-> w, rec |-> Candidate(w)]
    BY <1>0, <2>1 DEF TypeOK
  <2> QED
    BY <1>0, <2>1, <2>2, GotoLocals
       DEF StandsRight, Knows, ChildAt, Holds, At, Own, PutPoints, DeletePoints, Candidate
<1>9. CASE CandidateReady(w)
  <2>1. /\ At(w, "waiting") /\ Goto(w, "committing")
        /\ UNCHANGED <<config, children, lock>>
    BY <1>9 DEF CandidateReady, records, ports
  <2> QED
    BY <1>0, <2>1, GotoLocals
       DEF StandsRight, Knows, ChildAt, Holds, At, Own, PutPoints, DeletePoints, Candidate
<1>10. CASE Commit(w)
  <2>1. /\ At(w, "committing") /\ Goto(w, "reporting")
        /\ config' = [config EXCEPT ![Own(w)] = Candidate(w)]
        /\ UNCHANGED <<children, lock>>
    BY <1>10 DEF Commit, ports
  <2>2. config'[Own(w)] = Candidate(w)
    BY <1>0, <2>1 DEF TypeOK
  <2> QED
    BY <1>0, <2>1, <2>2, GotoLocals
       DEF StandsRight, Knows, ChildAt, Holds, At, Own, PutPoints, DeletePoints, Candidate
<1>11. CASE RestorePrevious(w)
  <2>1. /\ At(w, "undo_verifying") /\ Goto(w, "undo_waiting")
        /\ children' = [children EXCEPT ![Own(w)] =
                         [id |-> Own(w), by |-> w, rec |-> task[w].previous]]
        /\ UNCHANGED <<config, lock>>
    BY <1>11 DEF RestorePrevious, Start, records, ports
  <2>2. children'[Own(w)] = [id |-> Own(w), by |-> w, rec |-> task[w].previous]
    BY <1>0, <2>1 DEF TypeOK
  <2> QED
    BY <1>0, <2>1, <2>2, GotoLocals
       DEF StandsRight, Knows, ChildAt, Holds, At, Own, PutPoints, DeletePoints, Candidate
<1>12. CASE PreviousReady(w)
  <2>1. /\ At(w, "undo_waiting") /\ Goto(w, "undo_saving")
        /\ UNCHANGED <<config, children, lock>>
    BY <1>12 DEF PreviousReady, records, ports
  <2> QED
    BY <1>0, <2>1, GotoLocals
       DEF StandsRight, Knows, ChildAt, Holds, At, Own, PutPoints, DeletePoints, Candidate
<1>13. CASE ForgetStray(w)
  <2>1. /\ At(w, "locking") /\ Goto(w, "stray_stopping")
        /\ task[w].op = "delete" /\ config[Own(w)] = None
        /\ lock' = [lock EXCEPT ![Own(w)] = w]
        /\ UNCHANGED <<config, children>>
    BY <1>13 DEF ForgetStray, TakeLock, records
  <2>2. lock'[Own(w)] = w
    BY <1>0, <2>1 DEF TypeOK
  <2> QED
    BY <1>0, <2>1, <2>2, GotoLocals
       DEF StandsRight, Knows, ChildAt, Holds, At, Own, PutPoints, DeletePoints, Candidate
<1>14. CASE ForgetDrain(w)
  <2>1. /\ At(w, "locking") /\ task[w].op = "delete" /\ config[Own(w)] # None
        /\ lock' = [lock EXCEPT ![Own(w)] = w]
        /\ UNCHANGED <<config, children>>
    BY <1>14 DEF ForgetDrain, TakeLock, records
  <2>2. /\ task'[w].pc = "draining" /\ task'[w].op = task[w].op /\ task'[w].id = task[w].id
        /\ task'[w].port = task[w].port /\ task'[w].previous = config[Own(w)]
    BY <1>0, <1>14 DEF ForgetDrain, TypeOK, Task
  <2>3. lock'[Own(w)] = w
    BY <1>0, <2>1 DEF TypeOK
  <2> QED
    BY <1>0, <2>1, <2>2, <2>3
       DEF StandsRight, Knows, ChildAt, Holds, At, Own, PutPoints, DeletePoints, Candidate
<1>15. CASE LockForPut(w)
  <2>1. /\ At(w, "locking") /\ task[w].op = "put"
        /\ lock' = [lock EXCEPT ![Own(w)] = w]
        /\ UNCHANGED <<config, children>>
    BY <1>15 DEF LockForPut, TakeLock, records
  <2>2. /\ task'[w].pc = "reserving" /\ task'[w].op = task[w].op /\ task'[w].id = task[w].id
        /\ task'[w].port = task[w].port /\ task'[w].previous = config[Own(w)]
    BY <1>0, <1>15 DEF LockForPut, TypeOK, Task
  <2>3. lock'[Own(w)] = w
    BY <1>0, <2>1 DEF TypeOK
  <2> QED
    BY <1>0, <2>1, <2>2, <2>3
       DEF StandsRight, Knows, ChildAt, Holds, At, Own, PutPoints, DeletePoints, Candidate
<1>16. CASE ReserveForReplacement(w)
  <2>1. /\ At(w, "reserving") /\ task[w].previous # None
        /\ UNCHANGED <<config, children, lock>>
    BY <1>16 DEF ReserveForReplacement, records
  <2>2. /\ task'[w].pc = "draining" /\ task'[w].op = task[w].op /\ task'[w].id = task[w].id
        /\ task'[w].port = task[w].previous.port /\ task'[w].previous = task[w].previous
    BY <1>0, <1>16 DEF ReserveForReplacement, TypeOK, Task
  <2>3. task[w].previous.port # None
    BY <1>0, <2>1, NoneIsNothing DEF Task, Record
  <2> QED
    BY <1>0, <2>1, <2>2, <2>3
       DEF StandsRight, Knows, ChildAt, Holds, At, Own, PutPoints, DeletePoints, Candidate
<1>17. CASE ReserveForCreation(w)
  <2>1. /\ At(w, "reserving") /\ task[w].previous = None
        /\ UNCHANGED <<config, children, lock>>
    BY <1>17 DEF ReserveForCreation, records
  <2>2. PICK p \in Ports :
          task' = [task EXCEPT
                     ![w].pc = IF children[Own(w)] = None THEN "verifying" ELSE "stopping",
                     ![w].port = p]
    BY <1>17 DEF ReserveForCreation
  <2>3. /\ task'[w].pc = IF children[Own(w)] = None THEN "verifying" ELSE "stopping"
        /\ task'[w].op = task[w].op /\ task'[w].id = task[w].id
        /\ task'[w].port = p /\ task'[w].previous = task[w].previous
    BY <1>0, <2>2 DEF TypeOK, Task
  <2>4. p # None
    BY NoneIsNothing
  <2> QED
    BY <1>0, <2>1, <2>3, <2>4
       DEF StandsRight, Knows, ChildAt, Holds, At, Own, PutPoints, DeletePoints, Candidate
<1>18. ASSUME NEW late, At(w, "draining"), AfterDrain(w, late) PROVE StandsRight(w)'
  <2>1. UNCHANGED <<config, children, lock>>
    BY <1>18 DEF AfterDrain, records, ports
  <2>2. /\ task'[w].pc =
             IF task[w].op = "put"
             THEN IF children[Own(w)] = None THEN "verifying" ELSE "stopping"
             ELSE IF children[Own(w)] = None THEN "forgetting" ELSE "forget_stopping"
        /\ task'[w].op = task[w].op /\ task'[w].id = task[w].id
        /\ task'[w].port = task[w].port /\ task'[w].previous = task[w].previous
    BY <1>0, <1>18 DEF AfterDrain, TypeOK, Task
  <2>3. task[w].op \in {"put", "delete"}
    BY <1>0 DEF Task
  <2> QED
    BY <1>0, <1>18, <2>1, <2>2, <2>3
       DEF StandsRight, Knows, ChildAt, Holds, At, Own, PutPoints, DeletePoints, Candidate
<1>19. CASE Drained(w) \/ DrainTimesOut(w)
  BY <1>18, <1>19 DEF Drained, DrainTimesOut
<1>20. CASE StopReturns(w)
  <2>1. /\ task[w].pc \in StopPoints /\ UNCHANGED config
        /\ children'[Own(w)] = None
    BY <1>0, <1>20 DEF StopReturns, TypeOK, records
  <2>2. CASE At(w, "stopping") /\ Goto(w, "verifying") /\ UNCHANGED <<gates, ports>>
    BY <1>0, <2>1, <2>2, GotoLocals
       DEF StandsRight, Knows, ChildAt, Holds, At, Own, PutPoints, DeletePoints, ports
  <2>3. CASE At(w, "forget_stopping") /\ Goto(w, "forgetting") /\ UNCHANGED <<gates, ports>>
    BY <1>0, <2>1, <2>3, GotoLocals
       DEF StandsRight, Knows, ChildAt, Holds, At, Own, PutPoints, DeletePoints, ports
  <2>4. CASE Finish(w, "stopped")
    BY <2>4, FinishStands DEF Outcomes
  <2>5. CASE At(w, "undo_stopping") /\ UndoStopped(w) /\ UNCHANGED ports
    <3>1. PICK pc \in {"undo_verifying", "undo_saving"} :
            /\ Goto(w, pc)
            /\ pc = "undo_verifying" <=> task[w].previous # None
      BY <2>5 DEF UndoStopped
    <3> QED
      BY <1>0, <2>1, <2>5, <3>1, GotoLocals
         DEF StandsRight, Knows, ChildAt, Holds, At, Own, PutPoints, DeletePoints, ports
  <2> QED
    BY <1>20, <2>2, <2>3, <2>4, <2>5 DEF StopReturns
<1> QED
  BY <1>1, <1>2, <1>3, <1>4, <1>5, <1>6, <1>7, <1>8, <1>9, <1>10, <1>11, <1>12, <1>13,
     <1>14, <1>15, <1>16, <1>17, <1>19, <1>20 DEF WorkerStep

-----------------------------------------------------------------------------
(* The three things a worker's step may do to the child of its deployment:  *)
(* nothing, register one it starts where none was, or stop it.              *)
StartsChild(w) ==
  LET child == children'[Own(w)]
  IN  /\ phase = "serving" /\ children[Own(w)] = None
      /\ child.id = Own(w) /\ child.rec.port = task[w].port /\ task[w].port # None
      /\ running' = running \cup {child}

StopsChild(w) ==
  /\ children'[Own(w)] = None
  /\ running' = running \ {children[Own(w)]}

(* A step leaves the child alone, starts one where none was, or stops the   *)
(* registered one.                                                          *)
LEMMA WorkerChild ==
  ASSUME TypeOK, NEW w \in Workers, StandsRight(w),
         RunTransition(w) \/ Abandon(w) \/ WorkerStep(w)
  PROVE  UNCHANGED <<children, running>> \/ StartsChild(w) \/ StopsChild(w)
<1>0. /\ children \in [Ids -> Child \cup {None}] /\ Own(w) \in Ids
      /\ Knows(w) /\ ChildAt(w)
  BY DEF TypeOK, Task, Own, StandsRight
<1>1. CASE StartCandidate(w)
  BY <1>0, <1>1
     DEF StartCandidate, Start, Candidate, StartsChild, Knows, ChildAt, At, PutPoints
<1>2. CASE RestorePrevious(w)
  BY <1>0, <1>2
     DEF RestorePrevious, Start, StartsChild, Knows, ChildAt, At, PutPoints
<1>3. CASE StopReturns(w)
  BY <1>0, <1>3 DEF StopReturns, StopsChild
<1>4. ASSUME RollBack(w) PROVE UNCHANGED <<children, running>>
  BY <1>4 DEF RollBack
<1>5. CASE RunTransition(w) \/ Abandon(w) \/ GoneBeforeLock(w) \/ DrainAbandoned(w)
           \/ Drained(w) \/ DrainTimesOut(w) \/ StopFails(w)
  BY <1>4, <1>5 DEF RunTransition, Abandon, GoneBeforeLock, DrainAbandoned, Drained,
                    DrainTimesOut, AfterDrain, StopFails
<1>6. CASE LockForPut(w) \/ GoneBeforeReserve(w) \/ ReserveForReplacement(w)
           \/ ReserveForCreation(w) \/ PutRefused(w)
  BY <1>6 DEF LockForPut, GoneBeforeReserve, ReserveForReplacement, ReserveForCreation,
              PutRefused
<1>7. CASE CandidateRefused(w) \/ CandidateReady(w) \/ CandidateFails(w) \/ Commit(w)
           \/ CommitFails(w) \/ Report(w)
  BY <1>4, <1>7 DEF CandidateRefused, CandidateReady, CandidateFails, Commit, CommitFails,
                    Report
<1>8. CASE PreviousReady(w) \/ RollBackFails(w) \/ RolledBack(w)
  BY <1>8 DEF PreviousReady, RollBackFails, RolledBack
<1>9. CASE ForgetAbsent(w) \/ ForgetStray(w) \/ ForgetDrain(w) \/ Forget(w) \/ ForgetFails(w)
  BY <1>9 DEF ForgetAbsent, ForgetStray, ForgetDrain, Forget, ForgetFails
<1> QED
  BY <1>1, <1>2, <1>3, <1>5, <1>6, <1>7, <1>8, <1>9 DEF WorkerStep

(* What a step does to the records: nothing but save them, commit the       *)
(* candidate on the worker's own port, or forget.                           *)
LEMMA WorkerRecord ==
  ASSUME TypeOK, NEW w \in Workers, StandsRight(w),
         RunTransition(w) \/ Abandon(w) \/ WorkerStep(w)
  PROVE  /\ disk' = config' \/ UNCHANGED records
         /\ \/ UNCHANGED config
            \/ /\ config'[Own(w)] = Candidate(w)
               /\ task[w].port # None /\ task'[w].port = task[w].port
            \/ config'[Own(w)] = None
<1>0. config \in [Ids -> Record \cup {None}] /\ Own(w) \in Ids /\ Knows(w)
  BY DEF TypeOK, Task, Own, StandsRight
<1>1. CASE Commit(w)
  BY <1>0, <1>1, GotoLocals DEF Commit, Knows, At, PutPoints
<1>2. CASE Forget(w)
  BY <1>0, <1>2 DEF Forget
<1>3. CASE RolledBack(w)
  BY <1>3 DEF RolledBack
<1>4. ASSUME RollBack(w) PROVE UNCHANGED records
  BY <1>4 DEF RollBack, records
<1>5. CASE RunTransition(w) \/ Abandon(w) \/ GoneBeforeLock(w) \/ DrainAbandoned(w)
           \/ Drained(w) \/ DrainTimesOut(w) \/ StopReturns(w) \/ StopFails(w)
  BY <1>4, <1>5 DEF RunTransition, Abandon, GoneBeforeLock, DrainAbandoned, Drained,
                    DrainTimesOut, AfterDrain, StopReturns, StopFails, records
<1>6. CASE LockForPut(w) \/ GoneBeforeReserve(w) \/ ReserveForReplacement(w)
           \/ ReserveForCreation(w) \/ PutRefused(w)
  BY <1>6 DEF LockForPut, GoneBeforeReserve, ReserveForReplacement, ReserveForCreation,
              PutRefused, records
<1>7. CASE CandidateRefused(w) \/ StartCandidate(w) \/ CandidateReady(w) \/ CandidateFails(w)
           \/ CommitFails(w) \/ Report(w)
  BY <1>4, <1>7 DEF CandidateRefused, StartCandidate, CandidateReady, CandidateFails,
                    CommitFails, Report, records
<1>8. CASE RestorePrevious(w) \/ PreviousReady(w) \/ RollBackFails(w)
  BY <1>8 DEF RestorePrevious, PreviousReady, RollBackFails, records
<1>9. CASE ForgetAbsent(w) \/ ForgetStray(w) \/ ForgetDrain(w) \/ ForgetFails(w)
  BY <1>9 DEF ForgetAbsent, ForgetStray, ForgetDrain, ForgetFails, records
<1> QED
  BY <1>1, <1>2, <1>3, <1>5, <1>6, <1>7, <1>8, <1>9 DEF WorkerStep, records

(* What a step does to the worker's port: nothing, give it back, or reserve *)
(* one that is the deployment's already or nobody's.                        *)
KeepsPort(w) == task'[w].port = task[w].port /\ UNCHANGED reservations

GivesBackPort(w) ==
  task'[w].port = None /\ reservations' = reservations \ {task[w].port}

ReservesPort(w) ==
  /\ task'[w].port \in Ports /\ reservations' = reservations \cup {task'[w].port}
  /\ \/ config[Own(w)] # None /\ config[Own(w)].port = task'[w].port
     \/ task'[w].port \notin TakenPorts

(* A step keeps the worker's port, gives it back, or reserves the port of   *)
(* its record or a free one.                                                *)
LEMMA WorkerPort ==
  ASSUME TypeOK, NEW w \in Workers, StandsRight(w),
         RunTransition(w) \/ Abandon(w) \/ WorkerStep(w)
  PROVE  /\ KeepsPort(w) \/ GivesBackPort(w) \/ (task[w].port = None /\ ReservesPort(w))
         /\ lock'[Own(w)] \in {lock[Own(w)], w, None}
<1>0. /\ task[w] \in Task /\ Own(w) \in Ids /\ Knows(w)
      /\ config \in [Ids -> Record \cup {None}] /\ lock \in [Ids -> Workers \cup {None}]
  BY DEF TypeOK, Task, Own, StandsRight
<1>f. ASSUME NEW outcome \in Outcomes, Finish(w, outcome)
      PROVE  GivesBackPort(w) /\ lock'[Own(w)] = None
  BY <1>f, FinishEffect DEF GivesBackPort
<1>g. ASSUME NEW pc, Goto(w, pc), UNCHANGED reservations PROVE KeepsPort(w)
  BY <1>g, GotoLocals DEF KeepsPort
<1>r. ASSUME RollBack(w) PROVE KeepsPort(w) /\ lock' = lock
  BY <1>g, <1>r DEF RollBack, UndoStopped, ports
<1>1. CASE RunTransition(w) \/ CandidateReady(w)
  BY <1>1, <1>g DEF RunTransition, CandidateReady, ports
<1>2. CASE Abandon(w)
  BY <1>0, <1>2 DEF Abandon, TypeOK, Task, KeepsPort, ports
<1>3. CASE GoneBeforeLock(w) \/ DrainAbandoned(w) \/ GoneBeforeReserve(w) \/ PutRefused(w)
  BY <1>3, <1>f DEF GoneBeforeLock, DrainAbandoned, GoneBeforeReserve, PutRefused, Outcomes
<1>4. CASE Report(w) \/ RollBackFails(w) \/ RolledBack(w)
  BY <1>4, <1>f DEF Report, RollBackFails, RolledBack, Outcomes
<1>5. CASE ForgetAbsent(w) \/ ForgetFails(w) \/ Forget(w)
  BY <1>5, <1>f DEF ForgetAbsent, ForgetFails, Forget, Outcomes
<1>6. CASE CandidateRefused(w) \/ CandidateFails(w) \/ CommitFails(w)
  BY <1>6, <1>r DEF CandidateRefused, CandidateFails, CommitFails
<1>7. CASE StopFails(w)
  BY <1>7, <1>r, <1>f DEF StopFails, Outcomes
<1>8. CASE StartCandidate(w) \/ RestorePrevious(w) \/ PreviousReady(w) \/ Commit(w)
  BY <1>8, <1>g DEF StartCandidate, RestorePrevious, PreviousReady, Commit, ports
<1>9. CASE ForgetStray(w)
  BY <1>0, <1>9, <1>g DEF ForgetStray, TakeLock
<1>10. CASE ForgetDrain(w)
  BY <1>0, <1>10 DEF ForgetDrain, TakeLock, TypeOK, Task, KeepsPort
<1>11. CASE LockForPut(w)
  BY <1>0, <1>11 DEF LockForPut, TakeLock, TypeOK, Task, KeepsPort
<1>12. CASE ReserveForReplacement(w)
  <2>1. /\ At(w, "reserving") /\ task[w].previous # None /\ UNCHANGED lock
        /\ reservations' = reservations \cup {task[w].previous.port}
    BY <1>12 DEF ReserveForReplacement
  <2>2. task'[w].port = task[w].previous.port
    BY <1>0, <1>12 DEF ReserveForReplacement, TypeOK, Task
  <2>3. /\ task[w].port = None /\ task[w].previous = config[Own(w)]
        /\ task[w].previous.port \in Ports
    BY <1>0, <2>1 DEF Knows, Holds, At, PutPoints, Record
  <2> QED
    BY <2>1, <2>2, <2>3 DEF ReservesPort
<1>13. CASE ReserveForCreation(w)
  <2>1. At(w, "reserving") /\ UNCHANGED lock
    BY <1>13 DEF ReserveForCreation
  <2>2. PICK p \in Ports \ TakenPorts :
          /\ reservations' = reservations \cup {p}
          /\ task' = [task EXCEPT
               ![w].pc = IF children[Own(w)] = None THEN "verifying" ELSE "stopping",
               ![w].port = p]
    BY <1>13 DEF ReserveForCreation
  <2>3. task'[w].port = p
    BY <1>0, <2>2 DEF TypeOK, Task
  <2>4. task[w].port = None
    BY <1>0, <2>1 DEF Knows, At, PutPoints
  <2> QED
    BY <2>1, <2>2, <2>3, <2>4 DEF ReservesPort
<1>14. CASE Drained(w) \/ DrainTimesOut(w)
  BY <1>0, <1>14 DEF Drained, DrainTimesOut, AfterDrain, TypeOK, Task, KeepsPort, ports
<1>15. CASE StopReturns(w)
  BY <1>15, <1>f, <1>g DEF StopReturns, UndoStopped, ports, Outcomes
<1> QED
  BY <1>1, <1>2, <1>3, <1>4, <1>5, <1>6, <1>7, <1>8, <1>9, <1>10, <1>11, <1>12, <1>13,
     <1>14, <1>15 DEF WorkerStep

-----------------------------------------------------------------------------

(* The invariant says of every worker that it stands right.                 *)
LEMMA EachStandsRight ==
  ASSUME TypeOK, PortInv, NEW w \in Workers
  PROVE  StandsRight(w)
<1>1. Own(w) \in Ids /\ w # None
  BY NoneIsNothing DEF TypeOK, Task, Own
<1> QED
  BY <1>1 DEF PortInv, LocksAgree, WorkersKnow, WorkersChildren, StandsRight

(* A worker that stands elsewhere, or does not hold the deployment's lock,  *)
(* is not disturbed by another worker's step.                               *)
LEMMA OthersStand ==
  ASSUME TypeOK, PortInv, NEW w \in Workers, NEW v \in Workers \ {w},
         RunTransition(w) \/ Abandon(w) \/ WorkerStep(w)
  PROVE  StandsRight(v)'
<1>0. /\ Own(w) \in Ids /\ Own(v) \in Ids /\ StandsRight(v) /\ LocksAgree
      /\ task'[v] = task[v] /\ Own(v)' = Own(v)
  BY EachStandsRight, WorkerLocals DEF TypeOK, Task, Own, PortInv
<1>1. CASE Own(v) # Own(w)
  <2>1. /\ config'[Own(v)] = config[Own(v)] /\ children'[Own(v)] = children[Own(v)]
        /\ lock'[Own(v)] = lock[Own(v)]
    BY <1>0, <1>1, WorkerElsewhere
  <2> QED
    BY <1>0, <2>1 DEF StandsRight, Knows, ChildAt, Holds, At, Own, Candidate
<1>2. CASE Own(v) = Own(w)
  <2>1. CASE UNCHANGED <<records, children, ports>>
    BY <1>0, <2>1 DEF StandsRight, Knows, ChildAt, Holds, At, Own, Candidate, records, ports
  <2>2. CASE lock[Own(w)] \in {w, None}
    <3>1. lock[Own(v)] # v /\ ~Holds(v)
      BY <1>0, <1>2, <2>2, NoneIsNothing DEF StandsRight
    <3>2. lock'[Own(v)] # v
      BY <1>2, <2>2, <3>1, WorkerPort, EachStandsRight, NoneIsNothing
    <3> QED
      BY <1>0, <3>1, <3>2
         DEF StandsRight, Knows, ChildAt, Holds, At, Own, PutPoints, DeletePoints
  <2> QED
    BY <1>0, <2>1, <2>2, WorkerHolds
<1> QED
  BY <1>1, <1>2

(* A step takes for its deployment no port that another one owns.           *)
LEMMA PortsStayApart ==
  ASSUME TypeOK, PortInv, NEW w \in Workers,
         RunTransition(w) \/ Abandon(w) \/ WorkerStep(w),
         NEW i \in Ids, NEW p \in Ports, OwnsPort(i, p)'
  PROVE  OwnsPort(i, p) \/ (i = Own(w) /\ \A j \in Ids : ~OwnsPort(j, p))
<1>0. /\ Own(w) \in Ids /\ StandsRight(w) /\ PortsApart
      /\ \A v \in Workers \ {w} : task'[v] = task[v]
      /\ task'[w].id = task[w].id
  BY EachStandsRight, WorkerLocals DEF TypeOK, Task, Own, PortInv
<1>1. ASSUME task[w].port = p PROVE OwnsPort(Own(w), p)
  BY <1>1 DEF OwnsPort
<1>2. CASE config'[i] # None /\ config'[i].port = p
  <2>1. CASE config'[i] = config[i]
    BY <1>2, <2>1 DEF OwnsPort
  <2>2. CASE i = Own(w) /\ config'[i] # config[i]
    <3>1. config'[i] = Candidate(w)
      BY <1>0, <1>2, <2>2, WorkerRecord
    <3> QED
      BY <1>1, <1>2, <2>2, <3>1 DEF Candidate
  <2> QED
    BY <2>1, <2>2, WorkerElsewhere
<1>3. CASE children'[i] # None /\ children'[i].rec.port = p
  <2>1. CASE children'[i] = children[i]
    BY <1>3, <2>1 DEF OwnsPort
  <2>2. CASE i = Own(w) /\ children'[i] # children[i]
    <3>1. StartsChild(w)
      BY <1>0, <1>3, <2>2, WorkerChild DEF StopsChild
    <3> QED
      BY <1>1, <1>3, <2>2, <3>1 DEF StartsChild
  <2> QED
    BY <2>1, <2>2, WorkerElsewhere
<1>4. ASSUME NEW v \in Workers, Own(v)' = i, task'[v].port = p
      PROVE  OwnsPort(i, p) \/ (i = Own(w) /\ \A j \in Ids : ~OwnsPort(j, p))
  <2>1. CASE task'[v].port = task[v].port
    <3>1. Own(v) = i
      BY <1>0, <1>4 DEF Own
    <3> QED
      BY <1>4, <2>1, <3>1 DEF OwnsPort
  <2>2. CASE v = w /\ task'[w].port # task[w].port
    <3>1. i = Own(w)
      BY <1>0, <1>4, <2>2 DEF Own
    <3>2. p # None
      BY NoneIsNothing
    <3>3. ReservesPort(w)
      BY <1>0, <1>4, <2>2, <3>2, WorkerPort DEF KeepsPort, GivesBackPort
    <3>4. CASE config[i] # None /\ config[i].port = p
      BY <3>4 DEF OwnsPort
    <3>5. CASE p \notin TakenPorts
      BY <1>0, <3>1, <3>2, <3>5 DEF TakenPorts, OwnsPort, PortsApart
    <3> QED
      BY <1>4, <2>2, <3>1, <3>3, <3>4, <3>5 DEF ReservesPort
  <2> QED
    BY <1>0, <2>1, <2>2
<1> QED
  BY <1>2, <1>3, <1>4 DEF OwnsPort

(* The steps of workers keep all that the invariant says of locks, records, *)
(* children and ports.                                                      *)
LEMMA WorkerKeepsPortInv ==
  ASSUME TypeOK, PortInv, NEW w \in Workers,
         RunTransition(w) \/ Abandon(w) \/ WorkerStep(w)
  PROVE  PortInv'
<1>0. /\ Own(w) \in Ids /\ \A v \in Workers : StandsRight(v)
      /\ \A v \in Workers \ {w} : task'[v] = task[v]
      /\ task'[w].id = task[w].id
      /\ \A i \in Ids \ {Own(w)} :
           config'[i] = config[i] /\ children'[i] = children[i] /\ lock'[i] = lock[i]
  BY EachStandsRight, WorkerLocals, WorkerElsewhere DEF TypeOK, Task, Own
<1>t. TypeOK'
  BY WorkerTyped DEF PortInv
<1>1. \A v \in Workers : StandsRight(v)'
  BY <1>0, OthersStand, WorkerStands
<1>2. WorkersKnow' /\ WorkersChildren'
  BY <1>1 DEF StandsRight, WorkersKnow, WorkersChildren
<1>3. LocksAgree'
  <2>1. ASSUME NEW i \in Ids, lock'[i] # None
        PROVE  (Own(lock[i]) = i /\ Holds(lock[i]))'
    <3>1. PICK v \in Workers : v = lock'[i]
      BY <1>t, <2>1 DEF TypeOK
    <3>2. CASE lock'[i] = lock[i]
      <4>1. Own(v) = i
        BY <2>1, <3>1, <3>2 DEF PortInv, LocksAgree
      <4>2. Own(v)' = i
        BY <1>0, <4>1 DEF Own
      <4> QED
        BY <1>1, <3>1, <4>2 DEF StandsRight
    <3>3. CASE i = Own(w) /\ v = w
      <4>1. Own(v)' = i
        BY <1>0, <3>3 DEF Own
      <4> QED
        BY <1>1, <3>1, <4>1 DEF StandsRight
    <3> QED
      BY <1>0, <2>1, <3>1, <3>2, <3>3, WorkerPort
  <2> QED
    BY <1>1, <2>1 DEF LocksAgree, StandsRight
<1>4. EveryChildIsRegistered'
  <2>0. EveryChildIsRegistered
    BY DEF PortInv
  <2>1. CASE UNCHANGED <<children, running>>
    BY <2>0, <2>1 DEF EveryChildIsRegistered
  <2>2. CASE StartsChild(w)
    BY <1>0, <2>0, <2>2, NoneIsNothing DEF EveryChildIsRegistered, StartsChild, TypeOK, Child
  <2>3. CASE StopsChild(w)
    BY <1>0, <2>0, <2>3 DEF EveryChildIsRegistered, StopsChild, TypeOK, Child
  <2> QED
    BY <1>0, <2>1, <2>2, <2>3, WorkerChild
<1>5. DiskHoldsWhatIsCommitted'
  BY <1>0, WorkerRecord DEF PortInv, DiskHoldsWhatIsCommitted, records
<1>6. PortsApart'
  <2>0. PortsApart
    BY DEF PortInv
  <2>1. ASSUME NEW i \in Ids, NEW j \in Ids, NEW p \in Ports,
               OwnsPort(i, p)', OwnsPort(j, p)'
        PROVE  i = j
    BY <2>0, <2>1, PortsStayApart DEF PortsApart
  <2>2. ASSUME NEW v \in Workers, task'[v].port # None
        PROVE  task'[v].port \in reservations'
    <3>1. CASE KeepsPort(w)
      BY <1>0, <2>0, <2>2, <3>1 DEF PortsApart, KeepsPort
    <3>2. CASE ReservesPort(w)
      BY <1>0, <2>0, <2>2, <3>2 DEF PortsApart, ReservesPort
    <3>3. CASE GivesBackPort(w)
      <4>1. v # w /\ task'[v] = task[v]
        BY <1>0, <2>2, <3>3 DEF GivesBackPort
      <4>2. task[v].port # task[w].port
        <5>1. SUFFICES ASSUME task[v].port = task[w].port PROVE FALSE
          OBVIOUS
        <5>2. task[v].port \in Ports /\ Own(v) \in Ids
          BY <2>2, <4>1 DEF TypeOK, Task, Own
        <5>3. Own(v) = Own(w)
          BY <1>0, <2>0, <5>1, <5>2 DEF PortsApart, OwnsPort
        <5>4. Holds(v) /\ Holds(w)
          BY <1>0, <2>2, <4>1, <5>1 DEF StandsRight, Knows, Holds, PutPoints, At
        <5> QED
          BY <1>0, <4>1, <5>3, <5>4 DEF StandsRight
      <4> QED
        BY <2>0, <2>2, <3>3, <4>1, <4>2 DEF PortsApart, GivesBackPort
    <3> QED
      BY <1>0, <3>1, <3>2, <3>3, WorkerPort
  <2> QED
    BY <2>1, <2>2 DEF PortsApart
<1>7. NothingIsLeaked'
  <2>1. ASSUME NEW p \in reservations'
        PROVE  \E v \in Workers : ~Ended(v)' /\ task'[v].port = p
    <3>1. p # None
      BY <1>t, <2>1, NoneIsNothing DEF TypeOK
    <3>2. \E v \in Workers : task'[v].port = p
      <4>1. CASE p \in reservations
        <5>1. PICK v \in Workers : task[v].port = p
          BY <4>1 DEF PortInv, NothingIsLeaked
        <5>2. KeepsPort(w) \/ v # w
          BY <1>0, <2>1, <3>1, <5>1, WorkerPort DEF GivesBackPort
        <5> QED
          BY <1>0, <5>1, <5>2 DEF KeepsPort
      <4>2. CASE p \notin reservations
        BY <1>0, <2>1, <4>2, WorkerPort DEF KeepsPort, GivesBackPort, ReservesPort
      <4> QED
        BY <4>1, <4>2
    <3> QED
      BY <1>1, <3>1, <3>2 DEF StandsRight, Knows, Ended, At, PutPoints
  <2> QED
    BY <1>3, <2>1 DEF NothingIsLeaked, LocksAgree, Holds, Ended
<1> QED
  BY <1>2, <1>3, <1>4, <1>5, <1>6, <1>7 DEF PortInv

(* Requests do not touch any of it, and of the rest the host and the        *)
(* agent's shutdown only take children away from the running ones.          *)
LEMMA OthersKeepPortInv ==
  ASSUME PortInv, UNCHANGED <<records, children, ports, task>>, running' \subseteq running
  PROVE  PortInv'
<1>1. LocksAgree' /\ NothingIsLeaked'
  BY DEF PortInv, LocksAgree, NothingIsLeaked, Holds, Ended, Own, ports
<1>2. WorkersKnow' /\ WorkersChildren'
  BY DEF PortInv, WorkersKnow, WorkersChildren, Knows, ChildAt, Holds, At, Own, Candidate, records
<1>3. PortsApart'
  BY DEF PortInv, PortsApart, OwnsPort, Own, records, ports
<1>4. EveryChildIsRegistered' /\ DiskHoldsWhatIsCommitted'
  BY DEF PortInv, EveryChildIsRegistered, DiskHoldsWhatIsCommitted, records
<1> QED
  BY <1>1, <1>2, <1>3, <1>4 DEF PortInv

(* The agent starts within its types, with nothing in flight.               *)
LEMMA InitTyped == Init => Typed
<1> SUFFICES ASSUME Init PROVE Typed
  OBVIOUS
<1>1. config \in [Ids -> Record \cup {None}] /\ disk \in [Ids -> Record \cup {None}]
  <2>1. [by : {Boot}, port : Ports] \subseteq Record
    BY DEF Record, Makers
  <2> QED
    BY <2>1 DEF Init, StartDeployments
<1>2. children \in [Ids -> Child \cup {None}] /\ running \subseteq Child
  <2>1. PICK started \in SUBSET {i \in Ids : config[i] # None} :
          children = [i \in Ids |-> IF i \in started
                                    THEN [id |-> i, by |-> Boot, rec |-> config[i]]
                                    ELSE None]
    BY DEF Init, StartDeployments
  <2>2. \A i \in started : [id |-> i, by |-> Boot, rec |-> config[i]] \in Child
    BY <1>1 DEF Child, Makers
  <2>3. children \in [Ids -> Child \cup {None}]
    BY <2>1, <2>2
  <2> QED
    BY <2>3 DEF Init, StartDeployments
<1>3. task \in [Workers -> Task]
  <2>1. [pc : {"idle"}, op : {"put", "delete"}, id : Ids, abandoned : {FALSE},
         previous : {None}, port : {None}, wasPaused : {FALSE},
         timedOut : {FALSE}, outcome : {"none"}] \subseteq Task
    BY DEF Task, PcOfTask, Outcomes
  <2> QED
    BY <2>1 DEF Init, StartDeployments
<1>4. call \in [Requests -> Call]
  <2>1. NoCall \in Call
    BY DEF NoCall, Call
  <2> QED
    BY <2>1 DEF Init, StartDeployments
<1>5. TypeOK
  BY <1>1, <1>2, <1>3, <1>4 DEF TypeOK, Init
<1>6. CallsKnow
  BY DEF CallsKnow, Init, NoCall
<1>7. \A g \in Gate : SentThrough(g) = {}
  BY DEF SentThrough, Init, NoCall
<1>8. GatesCountTheirRequests
  BY <1>7, FS_EmptySet DEF GatesCountTheirRequests, Init
<1> QED
  BY <1>5, <1>6, <1>8 DEF Typed

(* It starts with no lock held and with the ports of its records apart.     *)
LEMMA InitPortInv == Init => PortInv
<1> SUFFICES ASSUME Init PROVE PortInv
  OBVIOUS
<1>0. TypeOK
  BY InitTyped DEF Typed
<1>1. PICK started \in SUBSET {i \in Ids : config[i] # None} :
        children = [i \in Ids |-> IF i \in started
                                  THEN [id |-> i, by |-> Boot, rec |-> config[i]]
                                  ELSE None]
  BY DEF Init, StartDeployments
<1>2. \A w \in Workers : task[w].pc = "idle" /\ task[w].port = None /\ task[w].previous = None
  BY DEF Init, StartDeployments
<1>3. \A i \in Ids : lock[i] = None
  BY DEF Init, StartDeployments
<1>4. LocksAgree /\ WorkersKnow /\ WorkersChildren
  BY <1>2, <1>3
     DEF LocksAgree, WorkersKnow, WorkersChildren, Knows, ChildAt, Holds, At, PutPoints, DeletePoints
<1>5. \A i \in Ids : children[i] # None
        => children[i].id = i /\ children[i].rec = config[i] /\ config[i] # None
  BY <1>1
<1>6. EveryChildIsRegistered
  BY <1>5 DEF EveryChildIsRegistered, Init, StartDeployments
<1>7. PortsApart
  <2>1. \A i \in Ids, p \in Ports : OwnsPort(i, p) => config[i] # None /\ config[i].port = p
    <3>1. \A w \in Workers, p \in Ports : task[w].port # p
      BY <1>2, NoneIsNothing
    <3> QED
      BY <1>5, <3>1 DEF OwnsPort
  <2>2. \A i, j \in Ids : i # j /\ config[i] # None /\ config[j] # None
                            => config[i].port # config[j].port
    BY DEF Init, StartDeployments
  <2> QED
    BY <1>2, <2>1, <2>2 DEF PortsApart
<1>8. DiskHoldsWhatIsCommitted /\ NothingIsLeaked
  BY <1>3 DEF DiskHoldsWhatIsCommitted, NothingIsLeaked, Init
<1> QED
  BY <1>4, <1>6, <1>7, <1>8 DEF PortInv

(* Every step of the agent keeps both parts.                                *)
LEMMA NextKeepsPortInv ==
  ASSUME Typed, PortInv, [Next]_vars
  PROVE  Typed' /\ PortInv'
<1>0. TypeOK
  BY DEF Typed
<1>1. ASSUME NEW w \in Workers, RunTransition(w) \/ Abandon(w) \/ WorkerStep(w)
      PROVE  Typed' /\ PortInv'
  <2>1. PortInv'
    BY <1>0, <1>1, WorkerKeepsPortInv
  <2>2. TypeOK' /\ call' = call /\ inFlight' = inFlight
    BY <1>0, <1>1, WorkerTyped, WorkerLeavesCalls DEF PortInv
  <2>3. Typed'
    BY <2>2 DEF Typed, CallsKnow, GatesCountTheirRequests, SentThrough
  <2> QED
    BY <2>1, <2>3
<1>2. ASSUME NEW r \in Requests, RequestStep(r) PROVE Typed' /\ PortInv'
  <2>1. UNCHANGED <<records, children, ports, task, running>>
    BY <1>2 DEF RequestStep, Arrive, Forward, TurnAway, Release
  <2> QED
    BY <1>2, <2>1, RequestTyped, OthersKeepPortInv
<1>3. ASSUME ChildExits \/ Shutdown \/ JoinTransitions \/ JoinCutShort \/ Sweep \/ UNCHANGED vars
      PROVE  Typed' /\ PortInv'
  <2>1. UNCHANGED <<records, children, ports, task>> /\ running' \subseteq running
    BY <1>3 DEF ChildExits, Shutdown, JoinTransitions, JoinCutShort, Sweep, vars, records, ports
  <2> QED
    BY <1>3, <2>1, LifeTyped, OthersKeepPortInv
<1> QED
  BY <1>1, <1>2, <1>3 DEF Next, Exited

(* The inductive invariant of the agent's locks, records, children and      *)
(* ports.                                                                   *)
LEMMA PortInvHolds == Spec => [](Typed /\ PortInv)
  BY InitTyped, InitPortInv, NextKeepsPortInv, PTL DEF Spec

(* The state of the agent stays within its types.                           *)
THEOREM TypeCorrect == Spec => []TypeOK
<1>1. Typed /\ PortInv => TypeOK
  BY DEF Typed
<1> QED
  BY <1>1, PortInvHolds, PTL

(* A port is its owner's: no two running children listen on one.            *)
LEMMA OwnersAreAlone ==
  ASSUME Typed, PortInv
  PROVE  OneChildPerPort
<1>1. SUFFICES ASSUME NEW c \in running, NEW d \in running, c.rec.port = d.rec.port
               PROVE  c = d
  BY DEF OneChildPerPort
<1>2. /\ c \in Child /\ d \in Child /\ c # None /\ d # None
      /\ children[c.id] = c /\ children[d.id] = d
  BY <1>1, NoneIsNothing DEF Typed, TypeOK, PortInv, EveryChildIsRegistered
<1>3. /\ c.id \in Ids /\ d.id \in Ids /\ c.rec.port \in Ports
      /\ OwnsPort(c.id, c.rec.port) /\ OwnsPort(d.id, c.rec.port)
  BY <1>1, <1>2 DEF Child, Record, OwnsPort
<1> QED
  BY <1>1, <1>2, <1>3 DEF PortInv, PortsApart

(* Two engine processes never listen on one port: a running child is the    *)
(* registered one of its deployment, and a port belongs to one deployment.  *)
THEOREM PortsAreExclusive == Spec => []OneChildPerPort
  BY OwnersAreAlone, PortInvHolds, PTL

(* The agent never loses the handle of a child that may still run, so a     *)
(* retry or its shutdown always finds it.                                   *)
THEOREM ChildrenStayRegistered == Spec => []EveryChildIsRegistered
<1>1. Typed /\ PortInv => EveryChildIsRegistered
  BY DEF PortInv
<1> QED
  BY <1>1, PortInvHolds, PTL

(* Whatever fails, agent.yaml holds exactly what is committed in memory, so *)
(* a restart serves what was last answered.                                 *)
THEOREM DiskIsWhatIsCommitted == Spec => []DiskHoldsWhatIsCommitted
<1>1. Typed /\ PortInv => DiskHoldsWhatIsCommitted
  BY DEF PortInv
<1> QED
  BY <1>1, PortInvHolds, PTL

(* No exit path of a worker leaks its lock or its port reservation.         *)
THEOREM LocksAndPortsReturn == Spec => []NothingIsLeaked
<1>1. Typed /\ PortInv => NothingIsLeaked
  BY DEF PortInv
<1> QED
  BY <1>1, PortInvHolds, PTL

(* No child starts once the agent is stopping, not even by a worker its     *)
(* shutdown left behind: whoever starts one has read agent.stopping since   *)
(* its last await.                                                          *)
THEOREM NoStartAfterStop == Spec => NoStartOnceStopping
<1>1. Typed /\ PortInv /\ [Next]_vars => [phase # "serving" => running' \subseteq running]_vars
  <2>1. SUFFICES ASSUME Typed, PortInv, [Next]_vars, phase # "serving"
                 PROVE  running' \subseteq running
    OBVIOUS
  <2>2. ASSUME NEW w \in Workers, RunTransition(w) \/ Abandon(w) \/ WorkerStep(w)
        PROVE  running' \subseteq running
    <3>1. TypeOK /\ StandsRight(w)
      BY <2>1, EachStandsRight DEF Typed
    <3> QED
      BY <2>1, <2>2, <3>1, WorkerChild DEF StartsChild, StopsChild
  <2>3. ASSUME NEW r \in Requests, RequestStep(r) PROVE running' \subseteq running
    BY <2>3 DEF RequestStep, Arrive, Forward, TurnAway, Release
  <2>4. ASSUME ChildExits \/ Shutdown \/ JoinTransitions \/ JoinCutShort \/ Sweep \/ UNCHANGED vars
        PROVE  running' \subseteq running
    BY <2>4 DEF ChildExits, Shutdown, JoinTransitions, JoinCutShort, Sweep, vars
  <2> QED
    BY <2>1, <2>2, <2>3, <2>4 DEF Next, Exited
<1> QED
  BY <1>1, PortInvHolds, PTL DEF NoStartOnceStopping, Spec

(* Each gate counts exactly the requests sent through it, so a drain ends   *)
(* when the last of them does and not before.                               *)
THEOREM GatesCount == Spec => []GatesCountTheirRequests
<1>1. Typed /\ PortInv => GatesCountTheirRequests
  BY DEF Typed
<1> QED
  BY <1>1, PortInvHolds, PTL

-----------------------------------------------------------------------------
(* The gates: who stands behind an open one, and why a closed one is closed.*)

(* What a worker's step may do to the gate of its deployment.              *)
GateEffect(w) ==
  \/ UNCHANGED <<admission, closed>>
  \/ /\ CloseGate(w)
     /\ task[w].pc \in {"locking", "reserving"} /\ task'[w].pc = "draining"
  \/ FreshGate(w)
  \/ DropGate(w)
  \/ OpenGate(w)
  \/ admission' = [admission EXCEPT ![Own(w)] = None] /\ UNCHANGED closed

(* The points a worker passes before it has closed a gate.                 *)
BeforeDrain == {"idle", "locking", "reserving"}

(* A step of a worker has one of these effects, and none leads back to     *)
(* before its drain.                                                       *)
LEMMA WorkerGate ==
  ASSUME TypeOK, NEW w \in Workers, StandsRight(w),
         RunTransition(w) \/ Abandon(w) \/ WorkerStep(w)
  PROVE  /\ GateEffect(w)
         /\ task'[w].pc \in BeforeDrain => task[w].pc \in BeforeDrain
<1>0. task[w] \in Task /\ Own(w) \in Ids
  BY DEF TypeOK, Task, Own
<1>f. ASSUME NEW outcome \in Outcomes, Finish(w, outcome) PROVE task'[w].pc = "done"
  BY <1>f, FinishEffect
<1>g. ASSUME NEW pc, Goto(w, pc) PROVE task'[w].pc = pc
  BY <1>g, GotoLocals
<1>r. ASSUME RollBack(w) PROVE GateEffect(w) /\ task'[w].pc \notin BeforeDrain
  BY <1>g, <1>r DEF RollBack, UndoStopped, GateEffect, gates, BeforeDrain
<1>1. CASE RunTransition(w) \/ CandidateReady(w)
  BY <1>1, <1>g DEF RunTransition, CandidateReady, gates, GateEffect, BeforeDrain, At
<1>2. CASE Abandon(w)
  BY <1>0, <1>2 DEF Abandon, TypeOK, Task, gates, GateEffect
<1>3. CASE GoneBeforeLock(w) \/ DrainAbandoned(w) \/ GoneBeforeReserve(w) \/ PutRefused(w)
  BY <1>3, <1>f DEF GoneBeforeLock, DrainAbandoned, GoneBeforeReserve, PutRefused, Outcomes,
                    gates, GateEffect, BeforeDrain
<1>4. CASE Report(w) \/ RollBackFails(w) \/ RolledBack(w)
  BY <1>4, <1>f DEF Report, RollBackFails, RolledBack, Outcomes, gates, GateEffect, BeforeDrain
<1>5. CASE ForgetAbsent(w) \/ ForgetFails(w) \/ Forget(w)
  BY <1>5, <1>f DEF ForgetAbsent, ForgetFails, Forget, Outcomes, gates, GateEffect, BeforeDrain
<1>6. CASE CandidateRefused(w) \/ CandidateFails(w) \/ CommitFails(w)
  BY <1>6, <1>r DEF CandidateRefused, CandidateFails, CommitFails
<1>7. CASE StopFails(w)
  BY <1>7, <1>r, <1>f DEF StopFails, Outcomes, gates, GateEffect, BeforeDrain
<1>8. CASE StartCandidate(w) \/ RestorePrevious(w) \/ PreviousReady(w) \/ Commit(w)
  BY <1>8, <1>g DEF StartCandidate, RestorePrevious, PreviousReady, Commit, gates,
                    GateEffect, BeforeDrain
<1>9. CASE ForgetStray(w)
  BY <1>9, <1>g DEF ForgetStray, gates, GateEffect, BeforeDrain
<1>10. CASE ForgetDrain(w)
  <2>1. task'[w].pc = "draining"
    BY <1>0, <1>10 DEF ForgetDrain, TypeOK, Task
  <2> QED
    BY <1>10, <2>1 DEF ForgetDrain, TakeLock, At, GateEffect, BeforeDrain
<1>11. CASE LockForPut(w)
  BY <1>0, <1>11 DEF LockForPut, TakeLock, At, TypeOK, Task, gates, GateEffect, BeforeDrain
<1>12. CASE ReserveForReplacement(w)
  <2>1. task'[w].pc = "draining"
    BY <1>0, <1>12 DEF ReserveForReplacement, TypeOK, Task
  <2> QED
    BY <1>12, <2>1 DEF ReserveForReplacement, At, GateEffect, BeforeDrain
<1>13. CASE ReserveForCreation(w)
  BY <1>0, <1>13 DEF ReserveForCreation, TypeOK, Task, At, GateEffect, BeforeDrain
<1>14. CASE Drained(w) \/ DrainTimesOut(w)
  <2>1. AfterDrain(w, TRUE) \/ AfterDrain(w, FALSE)
    BY <1>14 DEF Drained, DrainTimesOut
  <2>2. task'[w].pc \notin BeforeDrain
    BY <1>0, <2>1 DEF AfterDrain, TypeOK, Task, BeforeDrain
  <2> QED
    BY <2>1, <2>2 DEF AfterDrain, gates, GateEffect
<1>15. CASE StopReturns(w)
  BY <1>15, <1>f, <1>g DEF StopReturns, UndoStopped, Outcomes, gates, GateEffect, BeforeDrain
<1> QED
  BY <1>1, <1>2, <1>3, <1>4, <1>5, <1>6, <1>7, <1>8, <1>9, <1>10, <1>11, <1>12, <1>13,
     <1>14, <1>15 DEF WorkerStep

(* No effect reaches the gate of another deployment.                       *)
LEMMA GatesElsewhere ==
  ASSUME TypeOK, GatesApart, NEW w \in Workers, GateEffect(w), NEW i \in Ids, i # Own(w)
  PROVE  /\ admission'[i] = admission[i]
         /\ admission'[i] \in closed' <=> admission[i] \in closed
<1>0. /\ Own(w) \in Ids /\ admission \in [Ids -> Gate \cup {None}]
      /\ <<w, "drain">> \in Gate /\ <<w, "fresh">> \in Gate
  BY DEF TypeOK, Task, Own, Gate
<1>1. admission[i] # <<w, "drain">> /\ admission[i] # <<w, "fresh">>
  BY DEF GatesApart
<1>2. admission[i] # None => admission[i] # admission[Own(w)]
  BY <1>0 DEF GatesApart
<1>3. None \notin Gate
  BY NoneIsNothing
<1>4. admission[i] # GateToDrain(w)
  BY <1>0, <1>1, <1>2, <1>3 DEF GateToDrain
<1>5. admission'[i] = admission[i]
  BY <1>0 DEF GateEffect, CloseGate, FreshGate, DropGate, OpenGate
<1>6. CASE CloseGate(w)
  BY <1>4, <1>5, <1>6 DEF CloseGate
<1>7. CASE FreshGate(w)
  BY <1>1, <1>5, <1>7 DEF FreshGate
<1>8. CASE OpenGate(w)
  <2>1. closed \subseteq Gate
    BY DEF TypeOK
  <2> QED
    BY <1>2, <1>3, <1>5, <1>8, <2>1 DEF OpenGate
<1> QED
  BY <1>5, <1>6, <1>7, <1>8 DEF GateEffect, DropGate

(* The gates stay apart.                                                   *)
LEMMA WorkerKeepsGatesApart ==
  ASSUME TypeOK, GatesApart, NEW w \in Workers, GateEffect(w),
         task'[w].pc \in BeforeDrain => task[w].pc \in BeforeDrain,
         task'[w].id = task[w].id, call' = call,
         \A v \in Workers \ {w} : task'[v] = task[v]
  PROVE  GatesApart'
<1>0. /\ Own(w) \in Ids /\ admission \in [Ids -> Gate \cup {None}] /\ None \notin Gate
      /\ \A v \in Workers : Own(v)' = Own(v)
  BY NoneIsNothing DEF TypeOK, Task, Own
<1>1. \A i \in Ids \ {Own(w)} : admission'[i] = admission[i]
  BY GatesElsewhere
<1>2. admission'[Own(w)] \in {admission[Own(w)], None, <<w, "drain">>, <<w, "fresh">>}
  BY <1>0 DEF GateEffect, CloseGate, FreshGate, DropGate, OpenGate, GateToDrain
<1>3. \A v \in Workers, i \in Ids :
        admission'[i] \in {<<v, "drain">>, <<v, "fresh">>} => Own(v)' = i
  <2>1. SUFFICES ASSUME NEW v \in Workers, NEW i \in Ids,
                        admission'[i] \in {<<v, "drain">>, <<v, "fresh">>}
                 PROVE  Own(v) = i
    BY <1>0
  <2>2. <<v, "drain">> \in Gate /\ <<v, "fresh">> \in Gate
    BY DEF Gate
  <2> QED
    BY <1>0, <1>1, <1>2, <2>1, <2>2 DEF GatesApart
<1>4. \A i, j \in Ids : admission'[i] # None /\ admission'[i] = admission'[j] => i = j
  <2>1. SUFFICES ASSUME NEW i \in Ids \ {Own(w)}, admission'[i] # None
                 PROVE  admission'[i] # admission'[Own(w)]
    BY <1>0, <1>1 DEF GatesApart
  <2>2. admission[i] # <<w, "drain">> /\ admission[i] # <<w, "fresh">>
    BY DEF GatesApart
  <2>3. admission[i] # admission[Own(w)]
    BY <1>0, <1>1, <2>1 DEF GatesApart
  <2> QED
    BY <1>1, <1>2, <2>1, <2>2, <2>3
<1>5. \A g \in closed' : g \in closed \/ g = admission[Own(w)]
                         \/ (g = <<w, "drain">> /\ task'[w].pc \notin BeforeDrain)
                         \/ g = <<w, "fresh">>
  BY DEF GateEffect, CloseGate, FreshGate, DropGate, OpenGate, GateToDrain, BeforeDrain
<1>6. admission'[Own(w)] = <<w, "drain">>
        => admission[Own(w)] = <<w, "drain">> \/ task'[w].pc \notin BeforeDrain
  <2>1. <<w, "drain">> # <<w, "fresh">> /\ <<w, "drain">> # None
    BY <1>0 DEF Gate
  <2> QED
    BY <1>0, <2>1 DEF GateEffect, CloseGate, FreshGate, DropGate, OpenGate, GateToDrain, BeforeDrain
<1>7. ASSUME NEW v \in Workers, task'[v].pc \in BeforeDrain
      PROVE  <<v, "drain">> \notin closed' /\ \A i \in Ids : admission'[i] # <<v, "drain">>
  <2>1. task[v].pc \in BeforeDrain
    BY <1>7
  <2>2. <<v, "drain">> \notin closed /\ \A i \in Ids : admission[i] # <<v, "drain">>
    BY <2>1 DEF GatesApart, BeforeDrain
  <2>3. <<v, "drain">> # <<w, "fresh">> /\ (v # w => <<v, "drain">> # <<w, "drain">>)
    OBVIOUS
  <2>4. <<v, "drain">> # None
    BY <1>0 DEF Gate
  <2> QED
    BY <1>0, <1>1, <1>2, <1>5, <1>6, <1>7, <2>2, <2>3, <2>4
<1>8. ASSUME NEW r \in Requests, call[r].pc = "new"
      PROVE  <<r, "door">> \notin closed' /\ \A i \in Ids : admission'[i] # <<r, "door">>
  <2>1. <<r, "door">> \notin closed /\ \A i \in Ids : admission[i] # <<r, "door">>
    BY <1>8 DEF GatesApart
  <2>2. <<r, "door">> # <<w, "fresh">> /\ <<r, "door">> # <<w, "drain">>
    OBVIOUS
  <2>3. <<r, "door">> # None
    BY <1>0 DEF Gate
  <2> QED
    BY <1>0, <1>1, <1>2, <1>5, <2>1, <2>2, <2>3
<1> QED
  BY <1>3, <1>4, <1>7, <1>8 DEF GatesApart, BeforeDrain

-----------------------------------------------------------------------------
(* OpenGateServesTheRecord and ClosedGateHasAReason, deployment by          *)
(* deployment.                                                              *)
ServesRecord(i) ==
  config[i] # None /\ children[i] # None /\ admission[i] \notin closed
    => children[i].rec = config[i]

HasReason(i) == lock[i] = None /\ admission[i] \in closed => HasFailed(i)

(* What the invariant says of a worker and the gate of its deployment.      *)
OwnGate(w) == GateAt(w) /\ ServesRecord(Own(w)) /\ HasReason(Own(w))

(* A worker that has ended takes no step, so a failure is never forgotten.  *)
LEMMA FailuresStay ==
  ASSUME TypeOK, NEW w \in Workers, GateAt(w),
         RunTransition(w) \/ Abandon(w) \/ WorkerStep(w),
         \A v \in Workers \ {w} : task'[v] = task[v], NEW i \in Ids, HasFailed(i)
  PROVE  HasFailed(i)'
<1>1. task[w].pc # "done"
  BY DEF RunTransition, Abandon, WorkerStep, At, StopPoints,
         GoneBeforeLock, DrainAbandoned, Drained, DrainTimesOut, StopReturns, StopFails,
         LockForPut, TakeLock, GoneBeforeReserve, ReserveForReplacement, ReserveForCreation,
         PutRefused, CandidateRefused, StartCandidate, CandidateReady, CandidateFails, Commit,
         CommitFails, Report, RestorePrevious, PreviousReady, RollBackFails, RolledBack,
         ForgetAbsent, ForgetStray, ForgetDrain, Forget, ForgetFails
<1>2. task[w].outcome # "failed"
  BY <1>1 DEF GateAt, At
<1> QED
  BY <1>2 DEF HasFailed, Own

(* A worker that ends leaves a gate that is open, dropped, or closed by a   *)
(* failure.                                                                 *)
LEMMA FinishGate ==
  ASSUME TypeOK, NEW w \in Workers, NEW outcome \in Outcomes, Finish(w, outcome),
         \/ outcome = "failed"
         \/ admission'[Own(w)] \notin closed'
         \/ HasFailed(Own(w))',
         \/ UNCHANGED <<config, children, admission, closed>> /\ ServesRecord(Own(w))
         \/ config'[Own(w)] = None \/ children'[Own(w)] = None
         \/ children'[Own(w)].rec = config'[Own(w)]
  PROVE  OwnGate(w)'
<1>1. /\ task'[w].pc = "done" /\ task'[w].outcome = outcome
      /\ task'[w].id = Own(w) /\ Own(w)' = Own(w)
  BY FinishEffect DEF Own
<1>2. GateAt(w)'
  BY <1>1 DEF GateAt, At
<1>3. HasReason(Own(w))'
  BY <1>1 DEF HasReason, HasFailed, Own
<1>4. ServesRecord(Own(w))'
  BY <1>1 DEF ServesRecord
<1> QED
  BY <1>2, <1>3, <1>4 DEF OwnGate

(* A worker that begins to roll back keeps its gate closed until there is a *)
(* child behind it again, or drops it.                                      *)
LEMMA RollBackGate ==
  ASSUME TypeOK, NEW w \in Workers, StandsRight(w), OwnGate(w),
         task[w].pc \in {"stopping", "verifying", "waiting", "committing"}, RollBack(w)
  PROVE  OwnGate(w)'
<1>0. /\ task[w] \in Task /\ Own(w) \in Ids /\ None \notin Gate
      /\ closed \subseteq Gate /\ admission \in [Ids -> Gate \cup {None}]
      /\ task[w].previous = config[Own(w)] /\ lock[Own(w)] = w /\ w # None
      /\ admission[Own(w)] \in closed
      /\ task[w].outcome = "none"
  BY NoneIsNothing
     DEF TypeOK, Task, Own, StandsRight, Knows, Holds, At, OwnGate, GateAt
<1>1. UNCHANGED <<config, children, lock>>
  BY DEF RollBack, records, ports
<1>2. PICK pc \in {"undo_stopping", "undo_verifying", "undo_saving"} :
        /\ task' = [task EXCEPT ![w].pc = pc]
        /\ \/ pc # "undo_saving" /\ UNCHANGED <<admission, closed>>
           \/ pc = "undo_saving" /\ task[w].previous = None /\ DropGate(w)
  BY DEF RollBack, UndoStopped, Goto, gates
<1>3. /\ task'[w].pc = pc /\ task'[w].outcome = task[w].outcome /\ task'[w].id = task[w].id
  BY <1>0, <1>2 DEF Task, TypeOK
<1>4. GateAt(w)'
  BY <1>0, <1>2, <1>3 DEF GateAt, At, Own, DropGate
<1>5. HasReason(Own(w))' /\ ServesRecord(Own(w))'
  BY <1>0, <1>1, <1>2, <1>3 DEF HasReason, ServesRecord, Own, DropGate
<1> QED
  BY <1>4, <1>5 DEF OwnGate

(* Every step of a worker keeps what the invariant says of its own gate.    *)
LEMMA WorkerOwnGate ==
  ASSUME TypeOK, NEW w \in Workers, StandsRight(w), GatesApart, OwnGate(w),
         RunTransition(w) \/ Abandon(w) \/ WorkerStep(w),
         HasFailed(Own(w)) => HasFailed(Own(w))'
  PROVE  OwnGate(w)'
<1>0. /\ task[w] \in Task /\ Own(w) \in Ids /\ None \notin Gate /\ w # None
      /\ closed \subseteq Gate /\ admission \in [Ids -> Gate \cup {None}]
      /\ config \in [Ids -> Record \cup {None}] /\ children \in [Ids -> Child \cup {None}]
      /\ <<w, "drain">> \in Gate /\ <<w, "fresh">> \in Gate
      /\ Knows(w) /\ ChildAt(w) /\ (Holds(w) <=> lock[Own(w)] = w)
      /\ GateAt(w) /\ ServesRecord(Own(w)) /\ HasReason(Own(w))
  BY NoneIsNothing DEF TypeOK, Task, Own, StandsRight, OwnGate, Gate
<1>g. ASSUME NEW pc, Goto(w, pc)
      PROVE  /\ task'[w].pc = pc /\ Own(w)' = Own(w)
             /\ task'[w].outcome = task[w].outcome
  BY <1>0, <1>g DEF Goto, TypeOK, Task, Own
<1>h. ASSUME Holds(w), UNCHANGED lock, Own(w)' = Own(w) PROVE HasReason(Own(w))'
  BY <1>0, <1>h DEF HasReason
<1>1. CASE RunTransition(w)
  <2>1. Goto(w, "locking") /\ At(w, "idle") /\ UNCHANGED <<config, children, lock, admission, closed>>
    BY <1>1 DEF RunTransition, records, gates, ports
  <2> QED
    BY <1>0, <1>g, <2>1 DEF OwnGate, GateAt, At, ServesRecord, HasReason, Own
<1>2. CASE Abandon(w)
  <2>1. /\ task'[w].pc = task[w].pc /\ Own(w)' = Own(w)
        /\ task'[w].outcome = task[w].outcome /\ task'[w].wasPaused = task[w].wasPaused
        /\ task'[w].previous = task[w].previous
        /\ UNCHANGED <<config, children, lock, admission, closed>>
    BY <1>0, <1>2 DEF Abandon, TypeOK, Task, Own, records, gates, ports
  <2> QED
    BY <1>0, <2>1 DEF OwnGate, GateAt, At, ServesRecord, HasReason
<1>3. CASE GoneBeforeLock(w) \/ GoneBeforeReserve(w) \/ PutRefused(w) \/ ForgetAbsent(w)
  <2>1. PICK outcome \in Outcomes : Finish(w, outcome)
    BY <1>3 DEF GoneBeforeLock, GoneBeforeReserve, PutRefused, ForgetAbsent, Outcomes
  <2>2. /\ UNCHANGED <<config, children, admission, closed>>
        /\ lock[Own(w)] = None \/ At(w, "reserving")
    BY <1>3 DEF GoneBeforeLock, GoneBeforeReserve, PutRefused, ForgetAbsent, records, gates
  <2>3. admission[Own(w)] \in closed => HasFailed(Own(w))
    BY <1>0, <2>2 DEF HasReason, GateAt, At
  <2> QED
    BY <1>0, <2>1, <2>2, <2>3, FinishGate
<1>4. CASE DrainAbandoned(w)
  <2>1. /\ Finish(w, "unchanged") /\ UNCHANGED <<config, children>> /\ At(w, "draining")
        /\ \/ task[w].wasPaused /\ UNCHANGED <<admission, closed>>
           \/ ~task[w].wasPaused /\ OpenGate(w)
    BY <1>4 DEF DrainAbandoned, records, gates
  <2>2. task[w].previous = config[Own(w)]
    BY <1>0, <2>1 DEF Knows, Holds, At
  <2>3. CASE task[w].wasPaused
    BY <1>0, <2>1, <2>3, FinishGate DEF Outcomes, GateAt
  <2>4. CASE ~task[w].wasPaused
    <3>1. /\ admission'[Own(w)] \notin closed'
          /\ children'[Own(w)] = None \/ children'[Own(w)].rec = config'[Own(w)]
      BY <1>0, <2>1, <2>2, <2>4 DEF OpenGate, GateAt
    <3> QED
      BY <2>1, <3>1, FinishGate DEF Outcomes
  <2> QED
    BY <2>3, <2>4
<1>5. CASE Drained(w) \/ DrainTimesOut(w)
  <2>1. AfterDrain(w, TRUE) \/ AfterDrain(w, FALSE)
    BY <1>5 DEF Drained, DrainTimesOut
  <2>2. /\ At(w, "draining") /\ UNCHANGED <<config, children, lock>>
        /\ admission'[Own(w)] \in closed'
    BY <1>0, <1>5, <2>1 DEF Drained, DrainTimesOut, AfterDrain, FreshGate, gates, GateAt, At, records, ports
  <2>3. /\ task'[w].pc \in {"verifying", "stopping", "forgetting", "forget_stopping"}
        /\ Own(w)' = Own(w) /\ task'[w].outcome = task[w].outcome
    BY <1>0, <2>1 DEF AfterDrain, TypeOK, Task, Own
  <2>4. GateAt(w)'
    BY <1>0, <2>2, <2>3 DEF GateAt, At
  <2>5. Holds(w)
    BY <2>2 DEF Holds, At
  <2> QED
    BY <1>h, <2>2, <2>3, <2>4, <2>5 DEF OwnGate, ServesRecord
<1>6. CASE CandidateRefused(w) \/ CandidateFails(w) \/ CommitFails(w)
  BY <1>6, RollBackGate DEF CandidateRefused, CandidateFails, CommitFails, At
<1>7. CASE StopFails(w)
  BY <1>7, RollBackGate, FinishGate DEF StopFails, Outcomes, At, records, gates, OwnGate
<1>8. CASE Report(w) \/ RollBackFails(w) \/ RolledBack(w)
  <2>1. /\ UNCHANGED <<config, children, admission, closed>>
        /\ \/ Finish(w, "failed")
           \/ /\ Finish(w, "healthy") \/ Finish(w, "rolled_back")
              /\ At(w, "reporting") \/ At(w, "undo_saving")
    BY <1>8 DEF Report, RollBackFails, RolledBack, records, gates
  <2>2. Finish(w, "failed") \/ admission'[Own(w)] \notin closed'
    BY <1>0, <2>1 DEF GateAt, At
  <2> QED
    BY <1>0, <2>1, <2>2, FinishGate DEF Outcomes
<1>9. CASE ForgetFails(w) \/ Forget(w)
  <2>1. CASE ForgetFails(w)
    BY <1>0, <2>1, FinishGate DEF ForgetFails, Outcomes, records, gates
  <2>2. CASE Forget(w)
    <3>1. Finish(w, "stopped") /\ config'[Own(w)] = None /\ admission'[Own(w)] \notin closed'
      BY <1>0, <2>2 DEF Forget, DropGate
    <3> QED
      BY <3>1, FinishGate DEF Outcomes
  <2> QED
    BY <1>9, <2>1, <2>2
<1>10. CASE StopReturns(w)
  <2>1. /\ task[w].pc \in StopPoints /\ children'[Own(w)] = None /\ UNCHANGED config
    BY <1>0, <1>10 DEF StopReturns, records
  <2>2. CASE At(w, "stray_stopping")
    <3>1. Finish(w, "stopped") /\ admission'[Own(w)] \notin closed'
      BY <1>0, <1>10, <2>2 DEF StopReturns, At
    <3> QED
      BY <2>1, <3>1, FinishGate DEF Outcomes
  <2>3. CASE ~At(w, "stray_stopping")
    <3>1. /\ UNCHANGED lock /\ admission[Own(w)] \in closed
          /\ \/ /\ Goto(w, "verifying") \/ Goto(w, "forgetting") \/ Goto(w, "undo_verifying")
                /\ UNCHANGED <<admission, closed>>
             \/ Goto(w, "undo_saving") /\ DropGate(w)
      BY <1>0, <1>10, <2>1, <2>3 DEF StopReturns, UndoStopped, At, gates, ports, GateAt, StopPoints
    <3>2. /\ task'[w].pc \in {"verifying", "forgetting", "undo_verifying", "undo_saving"}
          /\ Own(w)' = Own(w) /\ task'[w].outcome = task[w].outcome
      BY <1>g, <3>1
    <3>3. GateAt(w)'
      BY <1>0, <1>g, <2>1, <3>1, <3>2 DEF GateAt, At, DropGate, StopPoints
    <3> QED
      BY <1>0, <1>h, <2>1, <3>1, <3>2, <3>3 DEF OwnGate, ServesRecord, Holds, StopPoints
  <2> QED
    BY <2>2, <2>3
<1>11. CASE LockForPut(w) \/ ForgetStray(w)
  <2>1. /\ TakeLock(w) /\ UNCHANGED <<config, children, admission, closed>>
        /\ task'[w].pc \in {"reserving", "stray_stopping"}
        /\ Own(w)' = Own(w) /\ task'[w].outcome = task[w].outcome
    BY <1>0, <1>11, <1>g DEF LockForPut, ForgetStray, TypeOK, Task, Own, records, gates
  <2>2. /\ lock[Own(w)] = None /\ lock'[Own(w)] = w /\ task[w].pc = "locking"
    BY <1>0, <2>1 DEF TakeLock, TypeOK, At
  <2>3. GateAt(w)'
    BY <1>0, <2>1, <2>2 DEF GateAt, At, HasReason
  <2> QED
    BY <1>0, <2>1, <2>2, <2>3 DEF OwnGate, ServesRecord, HasReason
<1>12. CASE ReserveForReplacement(w) \/ ForgetDrain(w)
  <2>1. /\ CloseGate(w) /\ UNCHANGED <<config, children>>
        /\ task[w].pc \in {"locking", "reserving"}
        /\ lock[Own(w)] = None \/ At(w, "reserving")
        /\ lock'[Own(w)] = w
    BY <1>0, <1>12 DEF ReserveForReplacement, ForgetDrain, TakeLock, At, Holds, records, TypeOK
  <2>2. /\ task'[w].pc = "draining" /\ Own(w)' = Own(w) /\ task'[w].outcome = task[w].outcome
        /\ task'[w].wasPaused = (GateToDrain(w) \in closed)
        /\ task'[w].previous = config[Own(w)]
    BY <1>0, <1>12 DEF ReserveForReplacement, ForgetDrain, TypeOK, Task, Own, Knows, Holds, At
  <2>3. GateToDrain(w) \in closed => admission[Own(w)] \in closed
    BY <1>0, <2>1 DEF GateToDrain, GatesApart
  <2>4. admission[Own(w)] \in closed => HasFailed(Own(w))
    BY <1>0, <2>1 DEF HasReason, GateAt, At
  <2>5. admission'[Own(w)] \in closed'
    BY <1>0, <2>1 DEF CloseGate
  <2>6. GateToDrain(w) \notin closed => admission[Own(w)] \notin closed
    BY <1>0 DEF GateToDrain
  <2>7. config[Own(w)] # None
    BY <1>0, <1>12 DEF ReserveForReplacement, ForgetDrain, Knows, Holds, At
  <2>8. GateAt(w)'
    BY <1>0, <2>1, <2>2, <2>3, <2>4, <2>5, <2>6, <2>7 DEF GateAt, At, ServesRecord
  <2> QED
    BY <1>0, <2>1, <2>2, <2>5, <2>8 DEF OwnGate, ServesRecord, HasReason
<1>13. CASE ReserveForCreation(w)
  <2>1. /\ FreshGate(w) /\ UNCHANGED lock /\ At(w, "reserving")
        /\ task'[w].pc \in {"verifying", "stopping"} /\ Own(w)' = Own(w)
        /\ task'[w].outcome = task[w].outcome
    BY <1>0, <1>13 DEF ReserveForCreation, TypeOK, Task, Own
  <2>2. admission'[Own(w)] \in closed'
    BY <1>0, <2>1 DEF FreshGate
  <2>3. GateAt(w)'
    BY <1>0, <2>1, <2>2 DEF GateAt, At
  <2> QED
    BY <1>h, <2>1, <2>2, <2>3 DEF OwnGate, ServesRecord, Holds, At
<1>14. CASE StartCandidate(w) \/ RestorePrevious(w) \/ CandidateReady(w)
  <2>1. /\ UNCHANGED <<lock, admission, closed>> /\ admission[Own(w)] \in closed /\ Holds(w)
        /\ Goto(w, "waiting") \/ Goto(w, "undo_waiting") \/ Goto(w, "committing")
    BY <1>0, <1>14 DEF StartCandidate, RestorePrevious, CandidateReady, gates, ports, GateAt, At, Holds
  <2>2. /\ task'[w].pc \in {"waiting", "undo_waiting", "committing"} /\ Own(w)' = Own(w)
        /\ task'[w].outcome = task[w].outcome
    BY <1>g, <2>1
  <2>3. GateAt(w)'
    BY <1>0, <2>1, <2>2, <1>14
       DEF GateAt, At, StartCandidate, RestorePrevious, CandidateReady
  <2> QED
    BY <1>h, <2>1, <2>2, <2>3 DEF OwnGate, ServesRecord
<1>15. CASE Commit(w) \/ PreviousReady(w)
  <2>1. /\ OpenGate(w) /\ UNCHANGED <<children, lock>> /\ Holds(w)
        /\ Goto(w, "reporting") \/ Goto(w, "undo_saving")
        /\ At(w, "committing") \/ At(w, "undo_waiting")
    BY <1>15 DEF Commit, PreviousReady, ports, At, Holds
  <2>2. /\ task'[w].pc \in {"reporting", "undo_saving"} /\ Own(w)' = Own(w)
        /\ task'[w].outcome = task[w].outcome
    BY <1>g, <2>1
  <2>3. admission'[Own(w)] \notin closed'
    BY <1>0, <2>1 DEF OpenGate
  <2>4. children'[Own(w)].rec = config'[Own(w)]
    <3>1. CASE Commit(w)
      BY <1>0, <3>1 DEF Commit, ChildAt, At
    <3>2. CASE PreviousReady(w)
      BY <1>0, <3>2 DEF PreviousReady, ChildAt, Knows, Holds, At, records
    <3> QED
      BY <1>15, <3>1, <3>2
  <2>5. GateAt(w)'
    BY <1>0, <2>1, <2>2, <2>3 DEF GateAt, At
  <2> QED
    BY <1>h, <2>1, <2>2, <2>4, <2>5 DEF OwnGate, ServesRecord
<1> QED
  BY <1>1, <1>2, <1>3, <1>4, <1>5, <1>6, <1>7, <1>8, <1>9, <1>10, <1>11, <1>12, <1>13,
     <1>14, <1>15 DEF WorkerStep

(* A worker does not disturb what is known of another one's gate.           *)
LEMMA OthersGates ==
  ASSUME TypeOK, PortInv, GateInv, NEW w \in Workers, NEW v \in Workers \ {w},
         RunTransition(w) \/ Abandon(w) \/ WorkerStep(w)
  PROVE  GateAt(v)'
<1>0. /\ Own(w) \in Ids /\ Own(v) \in Ids /\ task'[v] = task[v] /\ Own(v)' = Own(v)
      /\ StandsRight(w) /\ StandsRight(v) /\ GateAt(w) /\ GateAt(v) /\ GatesApart /\ LocksAgree
      /\ v # None
  BY EachStandsRight, WorkerLocals, NoneIsNothing
     DEF TypeOK, Task, Own, GateInv, WorkersGates, PortInv
<1>1. HasFailed(Own(v)) => HasFailed(Own(v))'
  BY <1>0, WorkerLocals, FailuresStay
<1>2. CASE ~Holds(v)
  BY <1>0, <1>2 DEF GateAt, At, Holds
<1>3. CASE Holds(v) /\ Own(v) # Own(w)
  <2>1. /\ admission'[Own(v)] = admission[Own(v)] /\ children'[Own(v)] = children[Own(v)]
        /\ admission'[Own(v)] \in closed' <=> admission[Own(v)] \in closed
    BY <1>0, <1>3, WorkerGate, GatesElsewhere, WorkerElsewhere
  <2> QED
    BY <1>0, <1>1, <2>1 DEF GateAt, At
<1>4. CASE Holds(v) /\ Own(v) = Own(w)
  <2>1. lock[Own(w)] = v
    BY <1>0, <1>4 DEF StandsRight
  <2>2. UNCHANGED <<children, admission, closed>>
    BY <1>0, <2>1, WorkerHolds DEF gates
  <2> QED
    BY <1>0, <1>1, <2>2 DEF GateAt, At
<1> QED
  BY <1>2, <1>3, <1>4

(* Every step of a worker keeps all that the invariant says of the gates.   *)
LEMMA WorkerKeepsGateInv ==
  ASSUME TypeOK, PortInv, GateInv, NEW w \in Workers,
         RunTransition(w) \/ Abandon(w) \/ WorkerStep(w)
  PROVE  GateInv'
<1>0. /\ Own(w) \in Ids /\ StandsRight(w) /\ GatesApart /\ OwnGate(w) /\ GateAt(w)
      /\ GateEffect(w) /\ task'[w].id = task[w].id /\ Own(w)' = Own(w)
      /\ \A v \in Workers \ {w} : task'[v] = task[v]
      /\ \A i \in Ids \ {Own(w)} :
           config'[i] = config[i] /\ children'[i] = children[i] /\ lock'[i] = lock[i]
  BY EachStandsRight, WorkerGate, WorkerLocals, WorkerElsewhere
     DEF TypeOK, Task, Own, GateInv, WorkersGates, OwnGate, ServesRecord, HasReason,
         OpenGateServesTheRecord, ClosedGateHasAReason
<1>1. \A i \in Ids : HasFailed(i) => HasFailed(i)'
  BY <1>0, FailuresStay
<1>2. OwnGate(w)'
  BY <1>0, <1>1, WorkerOwnGate
<1>3. GatesApart'
  BY <1>0, WorkerGate, WorkerLeavesCalls, WorkerKeepsGatesApart
<1>4. WorkersGates'
  BY <1>2, OthersGates DEF WorkersGates, OwnGate
<1>5. \A i \in Ids \ {Own(w)} :
        /\ admission'[i] = admission[i]
        /\ admission'[i] \in closed' <=> admission[i] \in closed
  BY <1>0, GatesElsewhere
<1>6. OpenGateServesTheRecord'
  BY <1>0, <1>2, <1>5 DEF OpenGateServesTheRecord, GateInv, OwnGate, ServesRecord
<1>7. ClosedGateHasAReason'
  BY <1>0, <1>1, <1>2, <1>5 DEF ClosedGateHasAReason, GateInv, OwnGate, HasReason
<1> QED
  BY <1>3, <1>4, <1>6, <1>7 DEF GateInv

(* A request may make an open gate where there was none; nothing else it    *)
(* does reaches a gate.                                                     *)
LEMMA RequestKeepsGateInv ==
  ASSUME Typed, PortInv, GateInv, NEW r \in Requests, RequestStep(r)
  PROVE  GateInv'
<1>0. /\ call \in [Requests -> Call] /\ admission \in [Ids -> Gate \cup {None}]
      /\ closed \subseteq Gate /\ None \notin Gate
      /\ task \in [Workers -> Task] /\ \A w \in Workers : Own(w) \in Ids
      /\ NoCall.pc = "new" /\ [NoCall EXCEPT !.pc = "done"].pc = "done"
  BY NoneIsNothing DEF Typed, TypeOK, Task, Own, NoCall
<1>1. /\ UNCHANGED <<config, children, closed, lock, task>>
      /\ \A q \in Requests \ {r} : call'[q] = call[q]
      /\ call'[r].pc # "new"
  <2>0. call[r] \in Call
    BY <1>0
  <2>1. CASE Arrive(r)
    BY <1>0, <2>1 DEF Arrive, records, ports, NoCall
  <2>2. CASE Forward(r)
    BY <1>0, <2>0, <2>2 DEF Forward, records, ports, Call
  <2>3. CASE TurnAway(r) \/ Release(r)
    BY <1>0, <2>3 DEF TurnAway, Release, records, gates, ports, NoCall
  <2> QED
    BY <2>1, <2>2, <2>3 DEF RequestStep
<1>2. \/ admission' = admission
      \/ /\ call[r].pc = "new"
         /\ \E i \in Ids : admission[i] = None /\ admission' = [admission EXCEPT ![i] = <<r, "door">>]
  BY <1>0 DEF RequestStep, Arrive, Forward, TurnAway, Release, gates
<1>3. CASE admission' = admission
  <2>1. GatesApart'
    BY <1>1, <1>3 DEF GateInv, GatesApart, Own
  <2>2. WorkersGates'
    BY <1>1, <1>3 DEF GateInv, WorkersGates, GateAt, At, Own, HasFailed
  <2>3. OpenGateServesTheRecord' /\ ClosedGateHasAReason'
    BY <1>1, <1>3 DEF GateInv, OpenGateServesTheRecord, ClosedGateHasAReason, HasFailed, Own
  <2> QED
    BY <2>1, <2>2, <2>3 DEF GateInv
<1>4. CASE admission' # admission
  <2>1. PICK i \in Ids : admission[i] = None /\ admission' = [admission EXCEPT ![i] = <<r, "door">>]
    BY <1>2, <1>4
  <2>2. /\ call[r].pc = "new" /\ <<r, "door">> \notin closed
        /\ \A j \in Ids : admission[j] # <<r, "door">>
    BY <1>2, <1>4 DEF GateInv, GatesApart
  <2>3. /\ admission'[i] = <<r, "door">> /\ admission'[i] \notin closed'
        /\ \A j \in Ids \ {i} : admission'[j] = admission[j]
        /\ admission[i] \notin closed
    BY <1>0, <1>1, <2>1, <2>2
  <2>4. \A w \in Workers : <<r, "door">> # <<w, "drain">> /\ <<r, "door">> # <<w, "fresh">>
    OBVIOUS
  <2>5. GatesApart'
    <3>1. \A w \in Workers, j \in Ids :
            admission'[j] \in {<<w, "drain">>, <<w, "fresh">>} => Own(w)' = j
      BY <1>1, <2>3, <2>4 DEF GateInv, GatesApart, Own
    <3>2. \A j, k \in Ids : admission'[j] # None /\ admission'[j] = admission'[k] => j = k
      BY <2>2, <2>3 DEF GateInv, GatesApart
    <3>3. \A w \in Workers :
            task'[w].pc \in {"idle", "locking", "reserving"}
              => <<w, "drain">> \notin closed' /\ \A j \in Ids : admission'[j] # <<w, "drain">>
      BY <1>1, <2>3, <2>4 DEF GateInv, GatesApart
    <3>4. \A q \in Requests :
            call'[q].pc = "new"
              => <<q, "door">> \notin closed' /\ \A j \in Ids : admission'[j] # <<q, "door">>
      <4>1. \A q \in Requests \ {r} : <<q, "door">> # <<r, "door">>
        OBVIOUS
      <4> QED
        BY <1>1, <2>3, <4>1 DEF GateInv, GatesApart
    <3> QED
      BY <3>1, <3>2, <3>3, <3>4 DEF GatesApart
  <2>6. WorkersGates'
    BY <1>0, <1>1, <2>3 DEF GateInv, WorkersGates, GateAt, At, Own, HasFailed
  <2>7. OpenGateServesTheRecord' /\ ClosedGateHasAReason'
    BY <1>1, <2>3 DEF GateInv, OpenGateServesTheRecord, ClosedGateHasAReason, HasFailed, Own
  <2> QED
    BY <2>5, <2>6, <2>7 DEF GateInv
<1> QED
  BY <1>3, <1>4

(* The agent starts with no gate at all.                                    *)
LEMMA InitGateInv == Init => GateInv
<1> SUFFICES ASSUME Init PROVE GateInv
  OBVIOUS
<1>1. /\ closed = {} /\ \A i \in Ids : admission[i] = None
      /\ \A w \in Workers : task[w].pc = "idle" /\ task[w].outcome = "none"
      /\ \A r \in Requests : call[r].pc = "new"
      /\ None \notin Gate
  BY NoneIsNothing DEF Init, NoCall
<1>2. GatesApart
  <2>1. /\ \A w \in Workers : <<w, "drain">> # None /\ <<w, "fresh">> # None
        /\ \A r \in Requests : <<r, "door">> # None
    BY <1>1 DEF Gate
  <2> QED
    BY <1>1, <2>1 DEF GatesApart
<1>3. WorkersGates
  BY <1>1 DEF WorkersGates, GateAt, At
<1>4. OpenGateServesTheRecord
  <2>1. PICK started \in SUBSET {i \in Ids : config[i] # None} :
          children = [i \in Ids |-> IF i \in started
                                    THEN [id |-> i, by |-> Boot, rec |-> config[i]]
                                    ELSE None]
    BY DEF Init, StartDeployments
  <2> QED
    BY <2>1 DEF OpenGateServesTheRecord
<1>5. ClosedGateHasAReason
  BY <1>1 DEF ClosedGateHasAReason
<1> QED
  BY <1>2, <1>3, <1>4, <1>5 DEF GateInv

(* Every step of the agent keeps the whole inductive invariant.             *)
LEMMA NextKeepsIInv ==
  ASSUME IInv, [Next]_vars
  PROVE  IInv'
<1>0. Typed /\ PortInv /\ GateInv /\ TypeOK
  BY DEF IInv, Typed
<1>1. Typed' /\ PortInv'
  BY <1>0, NextKeepsPortInv
<1>2. ASSUME ChildExits \/ Shutdown \/ JoinTransitions \/ JoinCutShort \/ Sweep \/ UNCHANGED vars
      PROVE  GateInv'
  <2>1. UNCHANGED <<config, children, admission, closed, lock, task, call>>
    BY <1>2 DEF ChildExits, Shutdown, JoinTransitions, JoinCutShort, Sweep, vars, records, gates, ports
  <2> QED
    BY <1>0, <2>1 DEF GateInv, GatesApart, WorkersGates, GateAt, At, Own, HasFailed,
                      OpenGateServesTheRecord, ClosedGateHasAReason
<1>3. GateInv'
  BY <1>0, <1>2, WorkerKeepsGateInv, RequestKeepsGateInv DEF Next, Exited
<1> QED
  BY <1>1, <1>3 DEF IInv

(* The whole inductive invariant of the agent, which the run TwoIds checks  *)
(* on its instance.                                                         *)
THEOREM InvariantHolds == Spec => []IInv
<1>1. Init => IInv
  BY InitTyped, InitPortInv, InitGateInv DEF IInv
<1> QED
  BY <1>1, NextKeepsIInv, PTL DEF Spec

(* Whoever finds a deployment's gate open reaches a child started from the  *)
(* record the agent reports: never a candidate not yet committed, nor the   *)
(* process it replaces.                                                     *)
THEOREM OpenGatesServeTheRecord == Spec => []OpenGateServesTheRecord
<1>1. IInv => OpenGateServesTheRecord
  BY DEF IInv, GateInv
<1> QED
  BY <1>1, InvariantHolds, PTL

(* A gate no transition holds is closed only if a transition of that        *)
(* deployment failed: an abandoned, refused or rolled back one puts it back.*)
THEOREM ClosedGatesHaveAReason == Spec => []ClosedGateHasAReason
<1>1. IInv => ClosedGateHasAReason
  BY DEF IInv, GateInv
<1> QED
  BY <1>1, InvariantHolds, PTL

-----------------------------------------------------------------------------
(* A worker's step and what it does to its verdict.                        *)
Steps(w) == RunTransition(w) \/ Abandon(w) \/ WorkerStep(w)

Kept(w) == disk' = disk /\ Verdict(w)' = Verdict(w)

(* A worker that is not done and has committed nothing is unanswered.      *)
LEMMA Unanswered ==
  ASSUME TypeOK, NEW w \in Workers, GateAt(w), ~At(w, "done"), ~At(w, "reporting")
  PROVE  Verdict(w) = IF task[w].abandoned THEN "gone" ELSE "pending"
<1>1. task[w].outcome = "none"
  BY DEF GateAt
<1>2. ~Applied(w)
  BY <1>1 DEF Applied
<1> QED
  BY <1>2 DEF Verdict

(* One that ends is answered by its outcome.                               *)
LEMMA FinishAnswers ==
  ASSUME TypeOK, NEW w \in Workers, NEW outcome \in Outcomes, Finish(w, outcome)
  PROVE  Verdict(w)' = IF outcome \in {"healthy", "stopped", "absent"}
                       THEN "applied" ELSE "rejected"
<1>1. task'[w].pc = "done" /\ task'[w].outcome = outcome
  BY FinishEffect
<1> QED
  BY <1>1 DEF Verdict, Applied, At

(* What the maps of verdicts and aims become when one worker steps.        *)
LEMMA VerdictOf ==
  ASSUME TypeOK, NEW w \in Workers, \A v \in Workers \ {w} : task'[v] = task[v]
  PROVE  /\ [v \in Workers |-> Verdict(v)]'
              = [[v \in Workers |-> Verdict(v)] EXCEPT ![w] = Verdict(w)']
         /\ [v \in Workers |-> Verdict(v)][w] = Verdict(w)
<1>1. \A v \in Workers \ {w} : Verdict(v)' = Verdict(v)
  BY DEF Verdict, Applied, At
<1> QED
  BY <1>1

(* A worker that ends without having applied its change rejects it.        *)
LEMMA FinishRejects ==
  ASSUME TypeOK, NEW w \in Workers, GateAt(w), ~At(w, "done"), ~At(w, "reporting"),
         NEW outcome \in Outcomes \ {"healthy", "stopped", "absent"}, Finish(w, outcome),
         disk' = disk
  PROVE  Promise!Reject(w)
<1>1. Verdict(w) \in {"pending", "gone"} /\ Verdict(w)' = "rejected"
  BY Unanswered, FinishAnswers
<1>2. /\ \A v \in Workers \ {w} : task'[v] = task[v]
      /\ task'[w].id = task[w].id /\ task'[w].op = task[w].op
  BY FinishEffect DEF Own
<1>3. UNCHANGED [v \in Workers |-> [op |-> task[v].op, id |-> Own(v)]]
  BY <1>2 DEF Own
<1> QED
  BY <1>1, <1>2, <1>3, VerdictOf DEF Promise!Reject, Promise!Unanswered, Promise!Answer

(* A step that changes neither the records nor a verdict is a stutter.      *)
LEMMA Stutters ==
  ASSUME TypeOK, NEW w \in Workers, Steps(w), disk' = disk, Verdict(w)' = Verdict(w)
  PROVE  UNCHANGED Promise!rvars
<1>1. /\ \A v \in Workers \ {w} : task'[v] = task[v]
      /\ task'[w].id = task[w].id /\ task'[w].op = task[w].op
  BY WorkerLocals DEF Steps
<1>2. UNCHANGED [v \in Workers |-> [op |-> task[v].op, id |-> Own(v)]]
  BY <1>1 DEF Own
<1>3. UNCHANGED [v \in Workers |-> Verdict(v)]
  <2>1. \A v \in Workers : Verdict(v)' = Verdict(v)
    BY <1>1 DEF Verdict, Applied, At
  <2> QED
    BY <2>1
<1> QED
  BY <1>2, <1>3 DEF Promise!rvars

(* One that goes elsewhere short of its commit or its end is one.           *)
LEMMA GoingStutters ==
  ASSUME TypeOK, NEW w \in Workers, GateAt(w), ~At(w, "done"), ~At(w, "reporting"),
         task'[w].pc \notin {"done", "reporting"},
         task'[w].outcome = task[w].outcome, task'[w].abandoned = task[w].abandoned
  PROVE  Verdict(w)' = Verdict(w)
<1>1. task[w].outcome = "none"
  BY DEF GateAt
<1> QED
  BY <1>1 DEF Verdict, Applied, At

(* The rollback up to its first await goes elsewhere.                       *)
LEMMA RollBackGoes ==
  ASSUME TypeOK, NEW w \in Workers, RollBack(w)
  PROVE  /\ task'[w].pc \notin {"done", "reporting"} /\ disk' = disk
         /\ task'[w].outcome = task[w].outcome /\ task'[w].abandoned = task[w].abandoned
<1>1. PICK pc \in {"undo_stopping", "undo_verifying", "undo_saving"} : Goto(w, pc)
  BY DEF RollBack, UndoStopped
<1> QED
  BY <1>1 DEF RollBack, records, Goto, TypeOK, Task

(* A commit installs the worker's record, on the port of the record it      *)
(* replaces or on one no record has.                                        *)
LEMMA CommitInstalls ==
  ASSUME IInv, NEW w \in Workers, Commit(w)
  PROVE  Promise!Install(w)
<1>0. /\ TypeOK /\ StandsRight(w) /\ GateAt(w) /\ PortsApart /\ disk = config
      /\ task[w] \in Task /\ Own(w) \in Ids
  BY EachStandsRight
     DEF IInv, Typed, GateInv, WorkersGates, PortInv, DiskHoldsWhatIsCommitted, TypeOK, Task, Own
<1>1. /\ At(w, "committing") /\ ~task[w].abandoned /\ Goto(w, "reporting")
      /\ disk' = [config EXCEPT ![Own(w)] = Candidate(w)]
  BY DEF Commit
<1>2. /\ task[w].op = "put" /\ task[w].port # None /\ task[w].port \in Ports
      /\ task[w].previous = config[Own(w)]
      /\ task[w].previous # None => task[w].port = task[w].previous.port
  BY <1>0, <1>1 DEF StandsRight, Knows, At, Holds, PutPoints, Task
<1>3. Verdict(w) = "pending" /\ Verdict(w)' = "applied"
  <2>1. Verdict(w) = "pending"
    BY <1>0, <1>1, Unanswered DEF At
  <2>2. task'[w].pc = "reporting"
    BY <1>0, <1>1, GotoLocals
  <2> QED
    BY <2>1, <2>2 DEF Verdict, Applied, At
<1>4. Promise!PortFor(Own(w), task[w].port)
  <2>1. CASE config[Own(w)] # None
    BY <1>0, <1>2, <2>1 DEF Promise!PortFor
  <2>2. CASE config[Own(w)] = None
    <3>1. ASSUME NEW j \in Ids, config[j] # None, config[j].port = task[w].port PROVE FALSE
      <4>1. OwnsPort(j, task[w].port) /\ OwnsPort(Own(w), task[w].port)
        BY <3>1 DEF OwnsPort
      <4> QED
        BY <1>0, <1>2, <2>2, <3>1, <4>1 DEF PortsApart
    <3> QED
      BY <1>0, <2>2, <3>1 DEF Promise!PortFor
  <2> QED
    BY <2>1, <2>2
<1>5. /\ \A v \in Workers \ {w} : task'[v] = task[v]
      /\ task'[w].id = task[w].id /\ task'[w].op = task[w].op
  BY <1>0, WorkerLocals DEF WorkerStep
<1>6. UNCHANGED [v \in Workers |-> [op |-> task[v].op, id |-> Own(v)]]
  BY <1>5 DEF Own
<1>7. disk' = [disk EXCEPT ![Own(w)] = [by |-> w, port |-> task[w].port]]
  BY <1>0, <1>1 DEF Candidate
<1> QED
  BY <1>0, <1>2, <1>3, <1>4, <1>5, <1>6, <1>7, VerdictOf
     DEF Promise!Install, Promise!Answer

(* A removal that ends well takes its record away, or found none.           *)
LEMMA ForgetRemoves ==
  ASSUME IInv, NEW w \in Workers,
         Forget(w) \/ ForgetAbsent(w) \/ (StopReturns(w) /\ At(w, "stray_stopping"))
  PROVE  Promise!Remove(w)
<1>0. /\ TypeOK /\ StandsRight(w) /\ GateAt(w) /\ disk = config
      /\ disk \in [Ids -> Record \cup {None}] /\ task[w] \in Task /\ Own(w) \in Ids
  BY EachStandsRight
     DEF IInv, Typed, GateInv, WorkersGates, PortInv, DiskHoldsWhatIsCommitted, TypeOK, Task, Own
<1>1. PICK outcome \in {"stopped", "absent"} : Finish(w, outcome)
  BY DEF Forget, ForgetAbsent, StopReturns, At
<1>2. /\ ~At(w, "done") /\ ~At(w, "reporting") /\ task[w].op = "delete"
      /\ disk' = [disk EXCEPT ![Own(w)] = None]
  <2>1. CASE Forget(w)
    BY <1>0, <2>1 DEF Forget, StandsRight, Knows, At, DeletePoints
  <2>2. CASE ForgetAbsent(w)
    BY <1>0, <2>2 DEF ForgetAbsent, At, records
  <2>3. CASE StopReturns(w) /\ At(w, "stray_stopping")
    BY <1>0, <2>3 DEF StopReturns, StandsRight, Knows, ChildAt, Holds, At, DeletePoints, records
  <2> QED
    BY <2>1, <2>2, <2>3
<1>3. Verdict(w) \in {"pending", "gone"} /\ Verdict(w)' = "applied"
  BY <1>0, <1>1, <1>2, Unanswered, FinishAnswers DEF Outcomes
<1>4. /\ \A v \in Workers \ {w} : task'[v] = task[v]
      /\ task'[w].id = task[w].id /\ task'[w].op = task[w].op
  BY <1>0, <1>1, FinishEffect DEF Own, Outcomes
<1>5. UNCHANGED [v \in Workers |-> [op |-> task[v].op, id |-> Own(v)]]
  BY <1>4 DEF Own
<1> QED
  BY <1>0, <1>2, <1>3, <1>4, <1>5, VerdictOf
     DEF Promise!Remove, Promise!Unanswered, Promise!Answer

(* Every step of a worker is a step of the promise, or none.                *)
LEMMA WorkerImplements ==
  ASSUME IInv, NEW w \in Workers, Steps(w)
  PROVE  Promise!NextRecords \/ UNCHANGED Promise!rvars
<1>0. /\ TypeOK /\ StandsRight(w) /\ GateAt(w) /\ disk = config
      /\ task[w] \in Task /\ Own(w) \in Ids
      /\ \A v \in Workers \ {w} : task'[v] = task[v]
      /\ task'[w].id = task[w].id /\ task'[w].op = task[w].op
  BY EachStandsRight, WorkerLocals
     DEF IInv, Typed, GateInv, WorkersGates, PortInv, DiskHoldsWhatIsCommitted, TypeOK, Task,
         Own, Steps
<1>a. ASSUME Promise!Leave(w) \/ Promise!Install(w) \/ Promise!Remove(w) \/ Promise!Reject(w)
      PROVE  Promise!NextRecords
  BY <1>a DEF Promise!NextRecords
<1>s. ASSUME ~At(w, "done"), ~At(w, "reporting"), disk' = disk,
             task'[w].pc \notin {"done", "reporting"},
             task'[w].outcome = task[w].outcome, task'[w].abandoned = task[w].abandoned
      PROVE  UNCHANGED Promise!rvars
  BY <1>0, <1>s, GoingStutters, Stutters
<1>g. ASSUME ~At(w, "done"), ~At(w, "reporting"), disk' = disk,
             NEW pc \in PcOfTask \ {"done", "reporting"}, Goto(w, pc)
      PROVE  UNCHANGED Promise!rvars
  <2>1. /\ task'[w].pc = pc /\ task'[w].outcome = task[w].outcome
        /\ task'[w].abandoned = task[w].abandoned
    BY <1>0, <1>g DEF Goto, TypeOK, Task
  <2> QED
    BY <1>g, <1>s, <2>1
<1>r. ASSUME RollBack(w), ~At(w, "done"), ~At(w, "reporting") PROVE UNCHANGED Promise!rvars
  BY <1>0, <1>r, <1>s, RollBackGoes
<1>1. CASE RunTransition(w) \/ CandidateReady(w)
  BY <1>1, <1>g DEF RunTransition, CandidateReady, At, PcOfTask, records
<1>2. CASE Abandon(w)
  <2>1. /\ task'[w].pc = task[w].pc /\ task'[w].outcome = task[w].outcome
        /\ task'[w].abandoned /\ ~task[w].abandoned /\ ~At(w, "done") /\ disk' = disk
    BY <1>0, <1>2 DEF Abandon, TypeOK, Task, records
  <2>2. CASE At(w, "reporting")
    <3>1. Verdict(w)' = Verdict(w)
      BY <2>1, <2>2 DEF Verdict, Applied, At
    <3> QED
      BY <1>0, <2>1, <3>1, Stutters
  <2>3. CASE ~At(w, "reporting")
    <3>1. task[w].outcome = "none"
      BY <1>0, <2>1 DEF GateAt
    <3>2. Verdict(w) = "pending" /\ Verdict(w)' = "gone"
      BY <2>1, <2>3, <3>1 DEF Verdict, Applied, At
    <3>3. UNCHANGED [v \in Workers |-> [op |-> task[v].op, id |-> Own(v)]]
      BY <1>0 DEF Own
    <3>4. Promise!Leave(w)
      BY <1>0, <2>1, <3>2, <3>3, VerdictOf DEF Promise!Leave, Promise!Answer
    <3> QED
      BY <1>a, <3>4
  <2> QED
    BY <2>2, <2>3
<1>3. CASE GoneBeforeLock(w) \/ DrainAbandoned(w) \/ GoneBeforeReserve(w) \/ PutRefused(w)
           \/ RollBackFails(w) \/ RolledBack(w) \/ ForgetFails(w)
  <2>1. /\ Finish(w, "unchanged") \/ Finish(w, "refused") \/ Finish(w, "failed")
           \/ Finish(w, "rolled_back")
        /\ disk' = disk /\ ~At(w, "done") /\ ~At(w, "reporting")
    BY <1>0, <1>3 DEF GoneBeforeLock, DrainAbandoned, GoneBeforeReserve, PutRefused,
                      RollBackFails, RolledBack, ForgetFails, At, records
  <2> QED
    BY <1>0, <1>a, <2>1, FinishRejects DEF Outcomes
<1>4. CASE CandidateRefused(w) \/ CandidateFails(w) \/ CommitFails(w)
  BY <1>4, <1>r DEF CandidateRefused, CandidateFails, CommitFails, At
<1>5. CASE StopFails(w)
  <2>1. CASE RollBack(w)
    BY <1>5, <1>r, <2>1 DEF StopFails, StopPoints, At
  <2>2. CASE Finish(w, "failed") /\ disk' = disk
    BY <1>0, <1>5, <1>a, <2>2, FinishRejects DEF StopFails, StopPoints, At, Outcomes
  <2> QED
    BY <1>5, <2>1, <2>2 DEF StopFails, records
<1>6. CASE Report(w)
  <2>1. Finish(w, "healthy") /\ disk' = disk /\ At(w, "reporting")
    BY <1>6 DEF Report, records
  <2>2. Verdict(w) = "applied" /\ Verdict(w)' = "applied"
    BY <1>0, <2>1, FinishAnswers DEF Verdict, Applied, Outcomes
  <2> QED
    BY <1>0, <2>1, <2>2, Stutters
<1>7. CASE Forget(w) \/ ForgetAbsent(w) \/ (StopReturns(w) /\ At(w, "stray_stopping"))
  BY <1>7, <1>a, ForgetRemoves
<1>8. CASE StopReturns(w) /\ ~At(w, "stray_stopping")
  <2>1. /\ task[w].pc \in StopPoints /\ disk' = disk
        /\ Goto(w, "verifying") \/ Goto(w, "forgetting") \/ Goto(w, "undo_saving")
           \/ Goto(w, "undo_verifying")
    BY <1>8 DEF StopReturns, UndoStopped, At, records
  <2> QED
    BY <1>g, <2>1 DEF StopPoints, PcOfTask, At
<1>9. CASE StartCandidate(w) \/ RestorePrevious(w) \/ PreviousReady(w) \/ ForgetStray(w)
  BY <1>9, <1>g DEF StartCandidate, RestorePrevious, PreviousReady, ForgetStray, TakeLock, At,
                    PcOfTask, StopPoints, records
<1>10. CASE Commit(w)
  BY <1>10, <1>a, CommitInstalls
<1>11. CASE ForgetDrain(w) \/ LockForPut(w) \/ ReserveForReplacement(w)
  <2>1. /\ task'[w].pc \in {"draining", "reserving"} /\ task'[w].outcome = task[w].outcome
        /\ task'[w].abandoned = task[w].abandoned
    BY <1>0, <1>11 DEF ForgetDrain, LockForPut, ReserveForReplacement, TypeOK, Task
  <2>2. disk' = disk /\ ~At(w, "done") /\ ~At(w, "reporting")
    BY <1>11 DEF ForgetDrain, LockForPut, ReserveForReplacement, TakeLock, At, records
  <2> QED
    BY <1>s, <2>1, <2>2
<1>12. CASE ReserveForCreation(w)
  <2>1. /\ task'[w].pc \in {"verifying", "stopping"} /\ task'[w].outcome = task[w].outcome
        /\ task'[w].abandoned = task[w].abandoned
    BY <1>0, <1>12 DEF ReserveForCreation, TypeOK, Task
  <2>2. disk' = disk /\ ~At(w, "done") /\ ~At(w, "reporting")
    BY <1>12 DEF ReserveForCreation, At, records
  <2> QED
    BY <1>s, <2>1, <2>2
<1>13. CASE Drained(w) \/ DrainTimesOut(w)
  <2>1. AfterDrain(w, TRUE) \/ AfterDrain(w, FALSE)
    BY <1>13 DEF Drained, DrainTimesOut
  <2>2. /\ task'[w].pc \in {"verifying", "stopping", "forgetting", "forget_stopping"}
        /\ task'[w].outcome = task[w].outcome /\ task'[w].abandoned = task[w].abandoned
    BY <1>0, <2>1 DEF AfterDrain, TypeOK, Task
  <2>3. disk' = disk /\ ~At(w, "done") /\ ~At(w, "reporting")
    BY <1>13, <2>1 DEF Drained, DrainTimesOut, AfterDrain, At, records
  <2> QED
    BY <1>s, <2>2, <2>3
<1> QED
  BY <1>1, <1>2, <1>3, <1>4, <1>5, <1>6, <1>7, <1>8, <1>9, <1>10, <1>11, <1>12, <1>13
     DEF Steps, WorkerStep

(* The agent starts as the promise does.                                    *)
LEMMA InitImplements == Init => Promise!InitRecords
<1> SUFFICES ASSUME Init PROVE Promise!InitRecords
  OBVIOUS
<1>1. /\ config \in [Ids -> [by : {Boot}, port : Ports] \cup {None}] /\ disk = config
      /\ \A i, j \in Ids : i # j /\ config[i] # None /\ config[j] # None
                             => config[i].port # config[j].port
      /\ \A w \in Workers : /\ task[w].op \in {"put", "delete"} /\ task[w].id \in Ids
                            /\ task[w].pc = "idle" /\ task[w].outcome = "none"
                            /\ task[w].abandoned = FALSE
  BY DEF Init
<1>2. \A w \in Workers : Verdict(w) = "pending"
  BY <1>1 DEF Verdict, Applied, At
<1>3. [w \in Workers |-> [op |-> task[w].op, id |-> Own(w)]]
        \in [Workers -> [op : {"put", "delete"}, id : Ids]]
  BY <1>1 DEF Own
<1> QED
  BY <1>1, <1>2, <1>3 DEF Promise!InitRecords

(* The durable records implement the promise: every PUT and DELETE takes    *)
(* effect on agent.yaml at one instant or not at all and is answered        *)
(* accordingly, on a port its record keeps and shares with no other.        *)
THEOREM RecordsArePromised == Spec => ImplementsRecords
<1>1. IInv /\ [Next]_vars => [Promise!NextRecords]_(Promise!rvars)
  <2>1. SUFFICES ASSUME IInv, [Next]_vars
                 PROVE  Promise!NextRecords \/ UNCHANGED Promise!rvars
    OBVIOUS
  <2>2. ASSUME UNCHANGED <<records, task>> PROVE UNCHANGED Promise!rvars
    BY <2>2 DEF Promise!rvars, Verdict, Applied, At, Own, records
  <2>3. ASSUME NEW r \in Requests, RequestStep(r) PROVE UNCHANGED <<records, task>>
    BY <2>3 DEF RequestStep, Arrive, Forward, TurnAway, Release
  <2>4. ASSUME ChildExits \/ Shutdown \/ JoinTransitions \/ JoinCutShort \/ Sweep \/ UNCHANGED vars
        PROVE  UNCHANGED <<records, task>>
    BY <2>4 DEF ChildExits, Shutdown, JoinTransitions, JoinCutShort, Sweep, vars, records
  <2> QED
    BY <2>1, <2>2, <2>3, <2>4, WorkerImplements DEF Next, Exited, Steps
<1> QED
  BY <1>1, InitImplements, InvariantHolds, PTL DEF Spec, ImplementsRecords, Promise!RecordsSpec

-----------------------------------------------------------------------------
(* Whom a drain waits for, and whom a Queueing counts.                      *)

\* A worker's points up to the end of its drain; between that and the opening
\* of the gate or the end of its transition; once it has opened a gate again;
\* and once it has started a child.
Early == BeforeDrain \cup {"draining"}
Behind == {"stopping", "verifying", "waiting", "committing", "undo_stopping",
           "undo_verifying", "undo_waiting", "forget_stopping", "forgetting"}
Replacing == Behind \ {"forget_stopping", "forgetting"}
Opened == {"reporting", "undo_saving", "done"}
Started == {"waiting", "committing", "undo_stopping", "undo_waiting"} \cup Opened

Underway(r) == call[r].pc \in {"reading", "sent"}

\* A drain is late only once it is over; a child is its deployment's, and its
\* starter's; and the gate of an id without a record is closed.
StartInv ==
  /\ \A w \in Workers : task[w].pc \in Early => ~task[w].timedOut
  /\ \A i \in Ids : children[i] # None =>
       /\ children[i].id = i
       /\ \A w \in Workers : children[i].by = w => Own(w) = i /\ task[w].pc \in Started
  /\ \A i \in Ids : config[i] = None /\ admission[i] # None => admission[i] \in closed

\* A call's gate belongs to the deployment it is for, and was not made by who
\* has made none yet; one that is not sent yet holds the gate there is now, or
\* one that is closed for good.
CallGate(r) ==
  /\ \A w \in Workers :
       call[r].gate \in {<<w, "drain">>, <<w, "fresh">>} => Own(w) = call[r].id
  /\ \A i \in Ids : admission[i] = call[r].gate => i = call[r].id
  /\ \A q \in Requests : call[r].gate = <<q, "door">> => call[q].pc # "new"
  /\ call[r].pc = "reading" => call[r].gate \in closed \cup {admission[call[r].id]}

\* A call's child was reached through a gate that its starter had opened, and
\* for a record.
CallChild(r) ==
  /\ call[r].child.id = call[r].id
  /\ \A w \in Workers : call[r].child.by = w => task[w].pc \in Opened
  /\ config[call[r].id] = None => call[r].child # children[call[r].id]

CallInv == \A r \in Requests : Underway(r) => CallGate(r) /\ CallChild(r)

\* Unless a drain was late, what was sent to the child there is went through the
\* gate there is, and nothing is at a child whose drain is over.
Answering(i) == {r \in Requests : call[r].pc = "sent" /\ call[r].child = children[i]}

SentInv ==
  /\ \A i \in Ids : \A r \in Answering(i) : CutShort(i) \/ call[r].gate = admission[i]
  /\ \A w \in Workers : task[w].pc \in Behind => CutShort(Own(w)) \/ Answering(Own(w)) = {}

\* A replacement's Queueing counts nobody until its gate is open.
CountInv ==
  /\ \A w \in Workers : task[w].pc \in Replacing => queued[Own(w)] = {}
  /\ QueueingCountsItsProcess

DrainInv == StartInv /\ CallInv /\ SentInv /\ CountInv

-----------------------------------------------------------------------------
(* What a worker's step does to the calls of its deployment: nothing; it    *)
(* closes the gate, ends its drain, starts or leaves a child, or opens the  *)
(* gate.                                                                    *)
Rests(w) ==
  /\ UNCHANGED <<config, children, admission, closed, queued>>
  /\ task'[w].pc \in Behind => task[w].pc \in Behind
  /\ task'[w].pc \in Replacing => task[w].pc \in Replacing

Closes(w) ==
  /\ UNCHANGED <<config, children>> /\ CloseGate(w) /\ task'[w].pc = "draining"

DrainOver(w) ==
  /\ At(w, "draining") /\ admission[Own(w)] \in closed
  /\ inFlight[admission[Own(w)]] = 0 \/ task'[w].timedOut

Refreshes(w) ==
  /\ UNCHANGED <<config, children>> /\ FreshGate(w)
  /\ config[Own(w)] = None \/ DrainOver(w)
  /\ task'[w].pc \in Behind

Removes(w) ==
  /\ UNCHANGED <<config, children, admission, closed, queued>> /\ DrainOver(w)
  /\ task'[w].pc \in Behind \ Replacing

Begins(w) ==
  /\ UNCHANGED <<config, admission, closed, queued>> /\ children[Own(w)] = None
  /\ \E rec \in Record :
       children' = [children EXCEPT ![Own(w)] = [id |-> Own(w), by |-> w, rec |-> rec]]
  /\ task[w].pc \in Replacing \ Opened /\ task'[w].pc \in Replacing
  /\ task[w].pc \notin Started /\ task'[w].pc \in Started

Leaves(w) ==
  /\ children' = [children EXCEPT ![Own(w)] = None]
  /\ config' \in {config, [config EXCEPT ![Own(w)] = None]} /\ closed' = closed
  /\ \/ UNCHANGED <<config, admission>>
     \/ /\ admission' = [admission EXCEPT ![Own(w)] = None]
        /\ admission[Own(w)] # None => config[Own(w)] = None \/ admission[Own(w)] \in closed
  /\ queued' \in {queued, [queued EXCEPT ![Own(w)] = {}]}
  /\ task'[w].pc \in Behind => task[w].pc \in Behind
  /\ task'[w].pc \in Replacing => task[w].pc \in Replacing

Opens(w) ==
  /\ children' = children /\ OpenGate(w)
  /\ config'[Own(w)] # None /\ \A i \in Ids \ {Own(w)} : config'[i] = config[i]
  /\ task'[w].pc \in Opened

DrainEffect(w) ==
  Rests(w) \/ Closes(w) \/ Refreshes(w) \/ Removes(w) \/ Begins(w) \/ Leaves(w) \/ Opens(w)

\* What it does to the worker's own points.
Points(w) ==
  /\ task[w].pc \in Opened => task'[w].pc \in Opened
  /\ task[w].pc \in Started => task'[w].pc \in Started \/ children'[Own(w)] = None
  /\ \/ task'[w].timedOut = task[w].timedOut /\ (task'[w].pc \in Early => task[w].pc \in Early)
     \/ At(w, "draining") /\ task'[w].pc \notin Early

(* A step that only moves the worker on.                                    *)
LEMMA GotoRests ==
  ASSUME TypeOK, NEW w \in Workers, NEW pc \in PcOfTask, Goto(w, pc)
  PROVE  task'[w].pc = pc /\ task'[w].timedOut = task[w].timedOut
  BY DEF Goto, TypeOK, Task

(* A step that ends the worker.                                             *)
LEMMA FinishRests ==
  ASSUME TypeOK, NEW w \in Workers, NEW outcome \in Outcomes, Finish(w, outcome)
  PROVE  task'[w].pc = "done" /\ task'[w].timedOut = task[w].timedOut
  BY DEF Finish, TypeOK, Task

(* The beginning of a rollback keeps the gate, or drops it where there is   *)
(* neither a record nor a child.                                            *)
LEMMA RollBackDrains ==
  ASSUME TypeOK, NEW w \in Workers, StandsRight(w), GateAt(w), RollBack(w),
         task[w].pc \in {"stopping", "verifying", "waiting", "committing"}
  PROVE  DrainEffect(w) /\ Points(w)
<1>0. /\ children \in [Ids -> Child \cup {None}] /\ Own(w) \in Ids
      /\ admission[Own(w)] \in closed
  BY DEF TypeOK, Task, Own, GateAt
<1>1. UNCHANGED <<config, children>>
  BY DEF RollBack, records
<1>2. CASE children[Own(w)] # None
  <2>1. Goto(w, "undo_stopping") /\ UNCHANGED <<admission, closed, queued>>
    BY <1>2 DEF RollBack, gates
  <2>2. task'[w].pc = "undo_stopping" /\ task'[w].timedOut = task[w].timedOut
    BY <2>1, GotoRests DEF PcOfTask, StopPoints
  <2> QED
    BY <1>1, <2>1, <2>2 DEF DrainEffect, Rests, Points, Behind, Replacing, Opened, Started, Early, BeforeDrain
<1>3. CASE children[Own(w)] = None /\ task[w].previous # None
  <2>1. Goto(w, "undo_verifying") /\ UNCHANGED <<admission, closed, queued>>
    BY <1>3 DEF RollBack, UndoStopped, gates
  <2>2. task'[w].pc = "undo_verifying" /\ task'[w].timedOut = task[w].timedOut
    BY <2>1, GotoRests DEF PcOfTask, StopPoints
  <2> QED
    BY <1>1, <1>3, <2>1, <2>2 DEF DrainEffect, Rests, Points, Behind, Replacing, Opened, Started, Early, BeforeDrain
<1>4. CASE children[Own(w)] = None /\ task[w].previous = None
  <2>1. Goto(w, "undo_saving") /\ DropGate(w)
    BY <1>4 DEF RollBack, UndoStopped
  <2>2. task'[w].pc = "undo_saving" /\ task'[w].timedOut = task[w].timedOut
    BY <2>1, GotoRests DEF PcOfTask, StopPoints
  <2>3. children' = [children EXCEPT ![Own(w)] = None]
    BY <1>0, <1>1, <1>4
  <2> QED
    BY <1>0, <1>1, <1>4, <2>1, <2>2, <2>3
       DEF DropGate, DrainEffect, Leaves, Points, Behind, Replacing, Opened, Started, Early, BeforeDrain
<1> QED
  BY <1>2, <1>3, <1>4

(* Every step of a worker has one of these effects.                         *)
LEMMA WorkerDrains ==
  ASSUME TypeOK, NEW w \in Workers, StandsRight(w), GateAt(w),
         RunTransition(w) \/ Abandon(w) \/ WorkerStep(w)
  PROVE  DrainEffect(w) /\ Points(w)
<1> USE DEF Points, Behind, Replacing, Opened, Started, Early, BeforeDrain
<1>0. /\ task[w] \in Task /\ Own(w) \in Ids /\ Knows(w) /\ ChildAt(w)
      /\ children \in [Ids -> Child \cup {None}] /\ config \in [Ids -> Record \cup {None}]
  BY DEF TypeOK, Task, Own, StandsRight
<1>f. ASSUME NEW outcome \in Outcomes, Finish(w, outcome)
      PROVE  task'[w].pc = "done" /\ task'[w].timedOut = task[w].timedOut
  BY ONLY TypeOK, <1>f, FinishRests
<1>g. ASSUME NEW pc \in PcOfTask, Goto(w, pc)
      PROVE  task'[w].pc = pc /\ task'[w].timedOut = task[w].timedOut
  BY ONLY TypeOK, <1>g, GotoRests
<1>r. ASSUME RollBack(w), task[w].pc \in {"stopping", "verifying", "waiting", "committing"}
      PROVE  DrainEffect(w) /\ Points(w)
  BY ONLY TypeOK, StandsRight(w), GateAt(w), <1>r, RollBackDrains
<1>1. CASE RunTransition(w) \/ CandidateReady(w)
  BY <1>1, <1>g DEF RunTransition, CandidateReady, PcOfTask, records, gates, DrainEffect, Rests, At
<1>2. CASE Abandon(w)
  <2>1. task'[w].pc = task[w].pc /\ task'[w].timedOut = task[w].timedOut
    BY <1>0, <1>2 DEF Abandon, TypeOK, Task
  <2> QED
    BY <1>2, <2>1 DEF Abandon, records, gates, DrainEffect, Rests
<1>3. CASE GoneBeforeLock(w) \/ GoneBeforeReserve(w) \/ PutRefused(w) \/ ForgetAbsent(w)
  <2>1. \E outcome \in Outcomes : Finish(w, outcome)
    BY <1>3 DEF GoneBeforeLock, GoneBeforeReserve, PutRefused, ForgetAbsent, Outcomes
  <2>2. UNCHANGED <<config, children, admission, closed, queued>>
    BY <1>3 DEF GoneBeforeLock, GoneBeforeReserve, PutRefused, ForgetAbsent, records, gates
  <2> QED
    BY <1>f, <2>1, <2>2 DEF DrainEffect, Rests
<1>4. CASE Report(w) \/ RollBackFails(w) \/ RolledBack(w) \/ ForgetFails(w)
  <2>1. \E outcome \in Outcomes : Finish(w, outcome)
    BY <1>4 DEF Report, RollBackFails, RolledBack, ForgetFails, Outcomes
  <2>2. UNCHANGED <<config, children, admission, closed, queued>>
    BY <1>4 DEF Report, RollBackFails, RolledBack, ForgetFails, records, gates
  <2> QED
    BY <1>f, <2>1, <2>2 DEF DrainEffect, Rests
<1>5. CASE DrainAbandoned(w)
  <2>1. /\ Finish(w, "unchanged") /\ At(w, "draining") /\ UNCHANGED <<config, children>>
        /\ UNCHANGED gates \/ OpenGate(w)
    BY <1>5 DEF DrainAbandoned, records
  <2>2. task'[w].pc = "done" /\ task'[w].timedOut = task[w].timedOut
    BY <1>f, <2>1 DEF Outcomes
  <2>3. config[Own(w)] # None
    BY <1>0, <2>1 DEF Knows, ChildAt, Holds, At
  <2> QED
    BY <2>1, <2>2, <2>3 DEF gates, DrainEffect, Rests, Opens
<1>6. CASE Drained(w) \/ DrainTimesOut(w)
  <2>1. PICK late \in BOOLEAN :
          AfterDrain(w, late) /\ (inFlight[admission[Own(w)]] = 0 \/ late = TRUE)
    BY <1>6 DEF Drained, DrainTimesOut
  <2>2. At(w, "draining")
    BY <1>6 DEF Drained, DrainTimesOut
  <2>3. /\ task'[w].timedOut = late /\ UNCHANGED <<config, children>>
        /\ \/ task'[w].pc \in {"verifying", "stopping"} /\ FreshGate(w)
           \/ task'[w].pc \in {"forgetting", "forget_stopping"} /\ UNCHANGED gates
    BY <1>0, <2>1 DEF AfterDrain, TypeOK, Task, records
  <2>4. DrainOver(w)
    BY <2>1, <2>2, <2>3 DEF DrainOver, GateAt, At
  <2>5. task'[w].timedOut \in BOOLEAN /\ Points(w)
    BY <2>1, <2>2, <2>3 DEF At
  <2>6. CASE task'[w].pc \in {"verifying", "stopping"} /\ FreshGate(w)
    BY <2>3, <2>4, <2>5, <2>6 DEF DrainEffect, Refreshes
  <2>7. CASE task'[w].pc \in {"forgetting", "forget_stopping"} /\ UNCHANGED gates
    BY <2>3, <2>4, <2>5, <2>7 DEF DrainEffect, Removes, gates
  <2> QED
    BY <2>3, <2>6, <2>7
<1>7. CASE StopReturns(w)
  <2>1. /\ children' = [children EXCEPT ![Own(w)] = None] /\ UNCHANGED <<config, closed>>
        /\ task[w].pc \in StopPoints
        /\ \/ At(w, "stopping") /\ Goto(w, "verifying") /\ UNCHANGED gates
           \/ At(w, "forget_stopping") /\ Goto(w, "forgetting") /\ UNCHANGED gates
           \/ /\ At(w, "stray_stopping") /\ Finish(w, "stopped")
              /\ admission' = [admission EXCEPT ![Own(w)] = None] /\ UNCHANGED queued
           \/ At(w, "undo_stopping") /\ Goto(w, "undo_saving") /\ DropGate(w)
           \/ At(w, "undo_stopping") /\ Goto(w, "undo_verifying") /\ UNCHANGED gates
    BY <1>7 DEF StopReturns, UndoStopped, DropGate, records, gates
  <2>2. At(w, "stray_stopping") => config[Own(w)] = None
    BY <1>0 DEF ChildAt, Knows, Holds, At
  <2>3. At(w, "undo_stopping") => admission[Own(w)] \in closed
    BY DEF GateAt, At
  <2>4. children'[Own(w)] = None
    BY <1>0, <2>1
  <2>5. CASE At(w, "stopping") /\ Goto(w, "verifying") /\ UNCHANGED gates
    BY <1>g, <2>1, <2>4, <2>5 DEF PcOfTask, gates, At, DrainEffect, Leaves
  <2>6. CASE At(w, "forget_stopping") /\ Goto(w, "forgetting") /\ UNCHANGED gates
    BY <1>g, <2>1, <2>4, <2>6 DEF PcOfTask, gates, At, DrainEffect, Leaves
  <2>7. CASE /\ At(w, "stray_stopping") /\ Finish(w, "stopped")
             /\ admission' = [admission EXCEPT ![Own(w)] = None] /\ UNCHANGED queued
    BY <1>f, <2>1, <2>2, <2>4, <2>7 DEF Outcomes, At, DrainEffect, Leaves
  <2>8. CASE At(w, "undo_stopping") /\ Goto(w, "undo_saving") /\ DropGate(w)
    BY <1>g, <2>1, <2>3, <2>4, <2>8 DEF PcOfTask, DropGate, At, DrainEffect, Leaves
  <2>9. CASE At(w, "undo_stopping") /\ Goto(w, "undo_verifying") /\ UNCHANGED gates
    BY <1>g, <2>1, <2>4, <2>9 DEF PcOfTask, gates, At, DrainEffect, Leaves
  <2> QED
    BY <2>1, <2>5, <2>6, <2>7, <2>8, <2>9
<1>8. CASE StopFails(w)
  <2>1. CASE At(w, "stopping") /\ RollBack(w)
    BY <1>r, <2>1 DEF At
  <2>2. CASE Finish(w, "failed") /\ UNCHANGED <<records, children, gates>>
    BY <1>f, <2>2 DEF Outcomes, records, gates, DrainEffect, Rests
  <2> QED
    BY <1>8, <2>1, <2>2 DEF StopFails
<1>9. CASE LockForPut(w) \/ ForgetStray(w)
  <2>1. /\ task'[w].pc \in {"reserving", "stray_stopping"} /\ At(w, "locking")
        /\ task'[w].timedOut = task[w].timedOut
        /\ UNCHANGED <<config, children, admission, closed, queued>>
    BY <1>0, <1>9, <1>g
       DEF LockForPut, ForgetStray, TakeLock, PcOfTask, StopPoints, TypeOK, Task, records, gates
  <2> QED
    BY <2>1 DEF At, DrainEffect, Rests
<1>10. CASE ReserveForReplacement(w) \/ ForgetDrain(w)
  <2>1. /\ task'[w].pc = "draining" /\ task[w].pc \in {"reserving", "locking"}
        /\ task'[w].timedOut = task[w].timedOut
        /\ UNCHANGED <<config, children>> /\ CloseGate(w)
    BY <1>0, <1>10 DEF ReserveForReplacement, ForgetDrain, TakeLock, At, TypeOK, Task, records
  <2> QED
    BY <2>1 DEF DrainEffect, Closes
<1>11. CASE ReserveForCreation(w)
  <2>1. /\ task'[w].pc \in {"verifying", "stopping"} /\ At(w, "reserving")
        /\ task'[w].timedOut = task[w].timedOut
        /\ UNCHANGED <<config, children>> /\ FreshGate(w)
    BY <1>0, <1>11 DEF ReserveForCreation, TypeOK, Task, records
  <2>2. config[Own(w)] = None
    BY <1>0, <1>11 DEF ReserveForCreation, Knows, Holds, At
  <2> QED
    BY <2>1, <2>2 DEF At, DrainEffect, Refreshes
<1>12. CASE CandidateRefused(w) \/ CandidateFails(w) \/ CommitFails(w)
  BY <1>12, <1>r DEF CandidateRefused, CandidateFails, CommitFails, At
<1>13. CASE StartCandidate(w) \/ RestorePrevious(w)
  <2>1. PICK rec \in Record :
          children' = [children EXCEPT ![Own(w)] = [id |-> Own(w), by |-> w, rec |-> rec]]
    <3>1. CASE StartCandidate(w)
      <4>1. Candidate(w) \in Record
        BY <1>0, <3>1, RecordsTyped DEF StartCandidate, Knows, At, PutPoints
      <4> QED
        BY <3>1, <4>1 DEF StartCandidate, Start
    <3>2. CASE RestorePrevious(w)
      <4>1. task[w].previous \in Record
        BY <1>0, <3>2 DEF RestorePrevious, ChildAt, At, Task
      <4> QED
        BY <3>2, <4>1 DEF RestorePrevious, Start
    <3> QED
      BY <1>13, <3>1, <3>2
  <2>2. /\ UNCHANGED <<config, admission, closed, queued>>
        /\ task[w].pc \in {"verifying", "undo_verifying"}
        /\ task'[w].pc \in {"waiting", "undo_waiting"} /\ task'[w].timedOut = task[w].timedOut
    BY <1>13, <1>g DEF StartCandidate, RestorePrevious, At, PcOfTask, records, gates
  <2>3. children[Own(w)] = None
    BY <1>0, <2>2 DEF ChildAt
  <2> QED
    BY <2>1, <2>2, <2>3 DEF DrainEffect, Begins
<1>14. CASE Commit(w) \/ PreviousReady(w)
  <2>1. /\ OpenGate(w) /\ UNCHANGED children
        /\ task[w].pc \in {"committing", "undo_waiting"}
        /\ task'[w].pc \in {"reporting", "undo_saving"} /\ task'[w].timedOut = task[w].timedOut
    BY <1>14, <1>g DEF Commit, PreviousReady, At, PcOfTask
  <2>2. config'[Own(w)] # None /\ \A i \in Ids \ {Own(w)} : config'[i] = config[i]
    <3>1. CASE Commit(w)
      <4>1. Candidate(w) \in Record /\ None \notin Record
        BY <1>0, <3>1, RecordsTyped, NoneIsNothing DEF Commit, Knows, At, PutPoints
      <4> QED
        BY <1>0, <3>1, <4>1 DEF Commit
    <3>2. CASE PreviousReady(w)
      BY <1>0, <3>2 DEF PreviousReady, ChildAt, Knows, Holds, At, records
    <3> QED
      BY <1>14, <3>1, <3>2
  <2> QED
    BY <2>1, <2>2 DEF DrainEffect, Opens
<1>15. CASE Forget(w)
  <2>1. /\ config' = [config EXCEPT ![Own(w)] = None] /\ children' = children /\ DropGate(w)
        /\ At(w, "forgetting")
        /\ task'[w].pc = "done" /\ task'[w].timedOut = task[w].timedOut
    BY <1>15, <1>f DEF Forget, Outcomes
  <2>2. children[Own(w)] = None /\ admission[Own(w)] \in closed
    BY <1>0, <2>1 DEF ChildAt, GateAt, At
  <2>3. children' = [children EXCEPT ![Own(w)] = None]
    BY <1>0, <2>1, <2>2
  <2> QED
    BY <2>1, <2>2, <2>3 DEF DropGate, At, DrainEffect, Leaves
<1> QED
  BY <1>1, <1>2, <1>3, <1>4, <1>5, <1>6, <1>7, <1>8, <1>9, <1>10, <1>11, <1>12, <1>13,
     <1>14, <1>15 DEF WorkerStep

-----------------------------------------------------------------------------
(* A worker's step keeps what is known of the drains, part by part.         *)

(* A worker's step reaches its own locals and its own deployment only.      *)
Reach(w) ==
  /\ DrainEffect(w) /\ Points(w)
  /\ call' = call /\ inFlight' = inFlight
  /\ \A v \in Workers \ {w} : task'[v] = task[v]
  /\ \A v \in Workers : Own(v)' = Own(v)
  /\ \A i \in Ids \ {Own(w)} :
       /\ config'[i] = config[i] /\ children'[i] = children[i]
       /\ admission'[i] = admission[i] /\ queued'[i] = queued[i]
       /\ admission'[i] \in closed' <=> admission[i] \in closed

LEMMA WorkerReach ==
  ASSUME IInv, NEW w \in Workers, RunTransition(w) \/ Abandon(w) \/ WorkerStep(w)
  PROVE  Reach(w)
<1>0. /\ TypeOK /\ PortInv /\ GateInv /\ StandsRight(w) /\ GateAt(w) /\ GatesApart
  BY EachStandsRight DEF IInv, Typed, GateInv, WorkersGates
<1>1. DrainEffect(w) /\ Points(w)
  BY <1>0, WorkerDrains
<1>2. \A i \in Ids \ {Own(w)} : queued'[i] = queued[i]
  BY <1>0, <1>1 DEF DrainEffect, Rests, Closes, Refreshes, Removes, Begins, Leaves, Opens,
                    CloseGate, FreshGate, OpenGate, TypeOK
<1>3. \A i \in Ids \ {Own(w)} :
        /\ config'[i] = config[i] /\ children'[i] = children[i]
        /\ admission'[i] = admission[i]
        /\ admission'[i] \in closed' <=> admission[i] \in closed
  BY <1>0, WorkerElsewhere, WorkerGate, GatesElsewhere
<1>4. /\ \A v \in Workers \ {w} : task'[v] = task[v]
      /\ \A v \in Workers : Own(v)' = Own(v)
  BY <1>0, WorkerLocals DEF Own
<1> QED
  BY <1>1, <1>2, <1>3, <1>4, WorkerLeavesCalls DEF Reach

(* Whoever holds the lock is alone with its deployment.                     *)
LEMMA HolderIsAlone ==
  ASSUME IInv, NEW w \in Workers, NEW v \in Workers \ {w}, Own(v) = Own(w), Holds(v),
         RunTransition(w) \/ Abandon(w) \/ WorkerStep(w)
  PROVE  UNCHANGED <<children, gates>>
<1>1. TypeOK /\ PortInv /\ LocksAgree /\ lock[Own(w)] = v /\ v # None
  BY NoneIsNothing DEF IInv, Typed, PortInv, LocksAgree
<1> QED
  BY <1>1, WorkerHolds

(* What is typed here, and what never was made.                             *)
LEMMA Basics ==
  ASSUME IInv
  PROVE  /\ children \in [Ids -> Child \cup {None}] /\ admission \in [Ids -> Gate \cup {None}]
         /\ config \in [Ids -> Record \cup {None}] /\ queued \in [Ids -> SUBSET Requests]
         /\ closed \subseteq Gate /\ None \notin Child /\ None \notin Gate
         /\ \A w \in Workers : Own(w) \in Ids /\ task[w] \in Task
         /\ \A r \in Requests : Underway(r) =>
              call[r].id \in Ids /\ call[r].gate \in Gate /\ call[r].child \in Child
  BY NoneIsNothing DEF IInv, Typed, TypeOK, CallsKnow, Underway, Task, Own

LEMMA WorkerKeepsStart ==
  ASSUME IInv, StartInv, NEW w \in Workers, Reach(w)
  PROVE  /\ StartInv'
         /\ \A i \in Ids : CutShort(i) => CutShort(i)'
<1>0. /\ Own(w) \in Ids /\ Own(w)' = Own(w) /\ None \notin Child
      /\ children \in [Ids -> Child \cup {None}] /\ admission \in [Ids -> Gate \cup {None}]
      /\ config \in [Ids -> Record \cup {None}]
      /\ \A v \in Workers \ {w} : task'[v] = task[v]
      /\ \A v \in Workers : Own(v)' = Own(v)
      /\ DrainEffect(w) /\ Points(w)
  BY Basics DEF Reach
<1>1. \A v \in Workers : task'[v].pc \in Early => ~task'[v].timedOut
  BY <1>0 DEF Points, StartInv
<1>2. ASSUME NEW i \in Ids, children'[i] # None
      PROVE  /\ children'[i].id = i
             /\ \A v \in Workers : children'[i].by = v => Own(v)' = i /\ task'[v].pc \in Started
  <2>1. CASE children'[i] = children[i]
    <3>1. /\ children[i].id = i
          /\ \A v \in Workers : children[i].by = v => Own(v) = i /\ task[v].pc \in Started
      BY <1>2, <2>1 DEF StartInv
    <3>2. children'[i].by = w => task'[w].pc \in Started
      BY <1>0, <1>2, <2>1, <3>1 DEF Points
    <3> QED
      BY <1>0, <2>1, <3>1, <3>2
  <2>2. CASE children'[i] # children[i]
    <3>1. i = Own(w)
      BY <2>2 DEF Reach
    <3>2. Begins(w)
      BY <1>0, <1>2, <2>2, <3>1 DEF DrainEffect, Rests, Closes, Refreshes, Removes, Leaves, Opens
    <3>3. children'[i].id = i /\ children'[i].by = w /\ task'[w].pc \in Started
      BY <1>0, <3>1, <3>2 DEF Begins
    <3> QED
      BY <1>0, <3>1, <3>3
  <2> QED
    BY <2>1, <2>2
<1>3. ASSUME NEW i \in Ids, config'[i] = None, admission'[i] # None
      PROVE  admission'[i] \in closed'
  <2>1. CASE i # Own(w)
    BY <1>3, <2>1 DEF Reach, StartInv
  <2>2. CASE i = Own(w)
    <3>1. CASE Rests(w) \/ Removes(w) \/ Begins(w)
      BY <1>3, <3>1 DEF Rests, Removes, Begins, StartInv
    <3>2. CASE Closes(w) \/ Refreshes(w)
      BY <1>0, <2>2, <3>2 DEF Closes, Refreshes, CloseGate, FreshGate
    <3>3. CASE Leaves(w)
      BY <1>0, <1>3, <2>2, <3>3 DEF Leaves, StartInv
    <3>4. CASE Opens(w)
      BY <1>3, <2>2, <3>4 DEF Opens
    <3> QED
      BY <1>0, <3>1, <3>2, <3>3, <3>4 DEF DrainEffect
  <2> QED
    BY <2>1, <2>2
<1>4. task[w].timedOut => task'[w].timedOut
  BY <1>0 DEF Points, StartInv, Early, At
<1>5. \A i \in Ids : CutShort(i) => CutShort(i)'
  BY <1>0, <1>4 DEF CutShort
<1> QED
  BY <1>1, <1>2, <1>3, <1>5 DEF StartInv

LEMMA WorkerKeepsCalls ==
  ASSUME IInv, StartInv, CallInv, NEW w \in Workers, Reach(w)
  PROVE  CallInv'
<1>0. /\ Own(w) \in Ids /\ None \notin Child /\ None \notin Gate
      /\ children \in [Ids -> Child \cup {None}] /\ admission \in [Ids -> Gate \cup {None}]
      /\ config \in [Ids -> Record \cup {None}]
      /\ \A v \in Workers \ {w} : task'[v] = task[v]
      /\ \A v \in Workers : Own(v)' = Own(v)
      /\ DrainEffect(w) /\ Points(w) /\ call' = call
  BY Basics DEF Reach
<1>1. SUFFICES ASSUME NEW r \in Requests, Underway(r)
               PROVE  CallGate(r)' /\ CallChild(r)'
  BY <1>0 DEF CallInv, Underway
<1>2. /\ call[r].id \in Ids /\ call[r].gate \in Gate /\ call[r].child \in Child
      /\ CallGate(r) /\ CallChild(r)
  BY <1>1, Basics DEF CallInv
<1>3. CallGate(r)'
  <2>1. \A v \in Workers :
          call'[r].gate \in {<<v, "drain">>, <<v, "fresh">>} => Own(v)' = call'[r].id
    BY <1>0, <1>2 DEF CallGate
  <2>2. ASSUME NEW i \in Ids, admission'[i] = call[r].gate PROVE i = call[r].id
    <3>1. CASE admission'[i] = admission[i]
      BY <1>2, <2>2, <3>1 DEF CallGate
    <3>2. CASE admission'[i] # admission[i]
      <4>1. i = Own(w)
        BY <3>2 DEF Reach
      <4>2. admission'[i] \in {None, <<w, "drain">>, <<w, "fresh">>}
        BY <1>0, <3>2, <4>1 DEF DrainEffect, Rests, Closes, Refreshes, Removes, Begins, Leaves,
                                Opens, CloseGate, GateToDrain, FreshGate, OpenGate
      <4> QED
        BY <1>0, <1>2, <2>2, <4>1, <4>2 DEF CallGate
    <3> QED
      BY <3>1, <3>2
  <2>3. \A q \in Requests : call'[r].gate = <<q, "door">> => call'[q].pc # "new"
    BY <1>0, <1>2 DEF CallGate
  <2>4. ASSUME call[r].pc = "reading"
        PROVE  call[r].gate \in closed' \cup {admission'[call[r].id]}
    <3>1. call[r].gate \in closed \cup {admission[call[r].id]}
      BY <1>2, <2>4 DEF CallGate
    <3>2. ASSUME call[r].gate \in closed, call[r].gate \notin closed' PROVE call[r].gate = admission'[call[r].id]
      <4>1. OpenGate(w) /\ call[r].gate = admission[Own(w)]
        BY <1>0, <3>2 DEF DrainEffect, Rests, Closes, Refreshes, Removes, Begins, Leaves, Opens,
                          CloseGate, FreshGate, OpenGate
      <4> QED
        BY <1>0, <1>2, <4>1 DEF CallGate, OpenGate
    <3>3. ASSUME call[r].gate = admission[call[r].id], call[r].gate # admission'[call[r].id]
          PROVE  call[r].gate \in closed'
      <4>1. call[r].id = Own(w) /\ admission'[Own(w)] # admission[Own(w)] /\ admission[Own(w)] # None
        BY <1>0, <1>2, <3>3 DEF Reach
      <4>2. Refreshes(w) \/ Leaves(w)
        BY <1>0, <4>1 DEF DrainEffect, Rests, Closes, Removes, Begins, Opens, CloseGate,
                          GateToDrain, OpenGate
      <4>3. admission[Own(w)] \in closed
        BY <1>0, <4>1, <4>2 DEF Refreshes, Leaves, DrainOver, StartInv
      <4>4. closed \subseteq closed'
        BY <4>2 DEF Refreshes, Leaves, FreshGate
      <4> QED
        BY <3>3, <4>1, <4>3, <4>4
    <3> QED
      BY <3>1, <3>2, <3>3
  <2> QED
    BY <1>0, <2>1, <2>2, <2>3, <2>4 DEF CallGate
<1>4. CallChild(r)'
  <2>1. \A v \in Workers : call[r].child.by = v => task'[v].pc \in Opened
    BY <1>0, <1>2 DEF CallChild, Points
  <2>2. ASSUME config'[call[r].id] = None PROVE call[r].child # children'[call[r].id]
    <3>1. CASE call[r].id # Own(w)
      BY <1>2, <2>2, <3>1 DEF Reach, CallChild
    <3>2. CASE call[r].id = Own(w)
      <4>1. CASE Rests(w) \/ Closes(w) \/ Refreshes(w) \/ Removes(w)
        BY <1>2, <2>2, <4>1 DEF Rests, Closes, Refreshes, Removes, CallChild
      <4>2. CASE Begins(w)
        <5>1. children'[Own(w)].by = w /\ task[w].pc \notin Opened
          BY <1>0, <4>2 DEF Begins
        <5> QED
          BY <1>2, <3>2, <5>1 DEF CallChild
      <4>3. CASE Leaves(w)
        BY <1>0, <1>2, <3>2, <4>3 DEF Leaves
      <4>4. CASE Opens(w)
        BY <2>2, <3>2, <4>4 DEF Opens
      <4> QED
        BY <1>0, <4>1, <4>2, <4>3, <4>4 DEF DrainEffect
    <3> QED
      BY <3>1, <3>2
  <2> QED
    BY <1>0, <1>2, <2>1, <2>2 DEF CallChild
<1> QED
  BY <1>3, <1>4

(* When a drain is over, nothing that was sent through the gate there was   *)
(* is at the child, unless it was late.                                     *)
LEMMA OverIsEmpty ==
  ASSUME IInv, StartInv, CallInv, SentInv, NEW w \in Workers, Reach(w),
         config[Own(w)] = None \/ DrainOver(w)
  PROVE  CutShort(Own(w))' \/ Answering(Own(w)) = {}
<1>0. /\ Own(w) \in Ids /\ Own(w)' = Own(w) /\ None \notin Child /\ GatesCountTheirRequests
      /\ admission \in [Ids -> Gate \cup {None}] /\ None \notin Gate
      /\ \A i \in Ids : CutShort(i) => CutShort(i)'
  BY Basics, WorkerKeepsStart DEF Reach, IInv, Typed
<1>1. ASSUME NEW r \in Answering(Own(w))
      PROVE  CutShort(Own(w))'
  <2>1. /\ r \in Requests /\ Underway(r) /\ call[r].pc = "sent"
        /\ call[r].child = children[Own(w)]
    BY DEF Answering, Underway
  <2>2. /\ call[r].child \in Child /\ call[r].gate \in Gate /\ CallChild(r)
    BY <2>1, Basics DEF CallInv
  <2>3. call[r].id = Own(w)
    BY <1>0, <2>1, <2>2 DEF StartInv, CallChild
  <2>4. DrainOver(w)
    BY <2>1, <2>2, <2>3 DEF CallChild
  <2>5. CASE task'[w].timedOut
    BY <1>0, <2>5 DEF CutShort
  <2>6. CASE inFlight[admission[Own(w)]] = 0
    <3>1. CASE CutShort(Own(w))
      BY <1>0, <3>1
    <3>2. CASE call[r].gate = admission[Own(w)]
      <4>1. r \in SentThrough(call[r].gate)
        BY <2>1 DEF SentThrough
      <4>2. Cardinality(SentThrough(call[r].gate)) = 0
        BY <1>0, <2>2, <2>6, <3>2 DEF GatesCountTheirRequests
      <4>3. SentThrough(call[r].gate) = {}
        BY <4>2, SentFinite, FS_EmptySet
      <4> QED
        BY <4>1, <4>3
    <3> QED
      BY <1>0, <3>1, <3>2 DEF SentInv
  <2> QED
    BY <2>4, <2>5, <2>6 DEF DrainOver
<1> QED
  BY <1>1

LEMMA WorkerKeepsSent ==
  ASSUME IInv, StartInv, CallInv, SentInv, NEW w \in Workers, Reach(w),
         RunTransition(w) \/ Abandon(w) \/ WorkerStep(w)
  PROVE  SentInv'
<1>0. /\ Own(w) \in Ids /\ Own(w)' = Own(w) /\ None \notin Child /\ None \notin Gate
      /\ children \in [Ids -> Child \cup {None}] /\ admission \in [Ids -> Gate \cup {None}]
      /\ \A v \in Workers \ {w} : task'[v] = task[v]
      /\ \A v \in Workers : Own(v)' = Own(v)
      /\ DrainEffect(w) /\ call' = call
      /\ \A i \in Ids : CutShort(i) => CutShort(i)'
  BY Basics, WorkerKeepsStart DEF Reach
<1>1. \A i \in Ids \ {Own(w)} : Answering(i)' = Answering(i)
  BY <1>0 DEF Answering, Reach
<1>2. children' = children => Answering(Own(w))' = Answering(Own(w))
  BY <1>0 DEF Answering
<1>3. Leaves(w) \/ Begins(w) => Answering(Own(w))' = {}
  <2>1. SUFFICES ASSUME Leaves(w) \/ Begins(w), NEW r \in Requests, call[r].pc = "sent",
                        call[r].child = children'[Own(w)]
                 PROVE  FALSE
    BY <1>0 DEF Answering
  <2>2. call[r].child \in Child /\ CallChild(r)
    BY <2>1, Basics DEF Underway, CallInv
  <2>3. CASE Leaves(w)
    BY <1>0, <2>1, <2>2, <2>3 DEF Leaves
  <2>4. CASE Begins(w)
    <3>1. children'[Own(w)].by = w /\ task[w].pc \notin Opened
      BY <1>0, <2>4 DEF Begins
    <3> QED
      BY <2>1, <2>2, <3>1 DEF CallChild
  <2> QED
    BY <2>1, <2>3, <2>4
<1>4. Refreshes(w) \/ Removes(w) => CutShort(Own(w))' \/ Answering(Own(w))' = {}
  BY <1>2, OverIsEmpty DEF Refreshes, Removes
<1>5. ASSUME NEW i \in Ids, NEW r \in Answering(i)'
      PROVE  CutShort(i)' \/ call'[r].gate = admission'[i]
  <2>1. CASE i # Own(w)
    BY <1>0, <1>1, <1>5, <2>1 DEF SentInv, Reach
  <2>2. CASE i = Own(w)
    <3>0. r \in Answering(Own(w))' /\ CutShort(i)' = CutShort(Own(w))'
      BY <1>0, <1>5, <2>2 DEF Answering, CutShort
    <3>1. CASE Leaves(w) \/ Begins(w)
      BY <1>3, <3>0, <3>1
    <3>2. CASE Refreshes(w) \/ Removes(w)
      BY <1>4, <3>0, <3>2
    <3>3. CASE Rests(w) \/ Opens(w) \/ Closes(w)
      <4>1. children' = children /\ r \in Answering(Own(w)) /\ i = Own(w)
        BY <1>2, <2>2, <3>0, <3>3 DEF Rests, Opens, Closes
      <4>2. r \in Requests /\ Underway(r)
        BY <4>1 DEF Answering, Underway
      <4>3. call[r].gate \in Gate
        BY <4>2, Basics
      <4>4. CutShort(Own(w)) \/ call[r].gate = admission[Own(w)]
        BY <1>0, <4>1 DEF SentInv
      <4>5. call[r].gate = admission[Own(w)] => admission'[Own(w)] = admission[Own(w)]
        BY <1>0, <3>3, <4>3 DEF Rests, Opens, Closes, OpenGate, CloseGate, GateToDrain
      <4> QED
        BY <1>0, <4>1, <4>4, <4>5
    <3> QED
      BY <1>0, <3>1, <3>2, <3>3 DEF DrainEffect
  <2> QED
    BY <2>1, <2>2
<1>6. ASSUME NEW v \in Workers, task'[v].pc \in Behind
      PROVE  CutShort(Own(v))' \/ Answering(Own(v))' = {}
  <2>1. CASE v = w
    <3>1. CASE Rests(w)
      BY <1>0, <1>2, <1>6, <2>1, <3>1 DEF Rests, SentInv
    <3>2. CASE Closes(w) \/ Opens(w)
      BY <1>6, <2>1, <3>2 DEF Closes, Opens, Behind, Opened
    <3> QED
      BY <1>0, <1>3, <1>4, <2>1, <3>1, <3>2 DEF DrainEffect
  <2>2. CASE v # w
    <3>1. task[v].pc \in Behind /\ Own(v) \in Ids /\ Own(v)' = Own(v)
          /\ (CutShort(Own(v)) \/ Answering(Own(v)) = {})
      BY <1>0, <1>6, <2>2, Basics DEF SentInv
    <3>2. Answering(Own(v))' = Answering(Own(v))
      <4>1. CASE Own(v) # Own(w)
        BY <1>0, <1>1, <3>1, <4>1 DEF Answering
      <4>2. CASE Own(v) = Own(w)
        <5>1. UNCHANGED <<children, gates>>
          BY <2>2, <3>1, <4>2, HolderIsAlone DEF Holds, Behind
        <5> QED
          BY <1>0, <5>1, <3>1 DEF Answering
      <4> QED
        BY <4>1, <4>2
    <3> QED
      BY <1>0, <3>1, <3>2
  <2> QED
    BY <2>1, <2>2
<1>7. \A v \in Workers : task'[v].pc \in Behind => CutShort(Own(v))' \/ Answering(Own(v))' = {}
  BY <1>0, <1>6, Basics
<1> QED
  BY <1>5, <1>7 DEF SentInv

LEMMA WorkerKeepsCount ==
  ASSUME IInv, CountInv, NEW w \in Workers, Reach(w),
         RunTransition(w) \/ Abandon(w) \/ WorkerStep(w)
  PROVE  CountInv'
<1>0. /\ Own(w) \in Ids /\ Own(w)' = Own(w) /\ None \notin Child
      /\ children \in [Ids -> Child \cup {None}] /\ queued \in [Ids -> SUBSET Requests]
      /\ \A v \in Workers \ {w} : task'[v] = task[v]
      /\ \A v \in Workers : Own(v)' = Own(v)
      /\ DrainEffect(w) /\ call' = call
  BY Basics DEF Reach
<1>1. queued'[Own(w)] \in {queued[Own(w)], {}}
  BY <1>0 DEF DrainEffect, Rests, Closes, Refreshes, Removes, Begins, Leaves, Opens,
              CloseGate, FreshGate, OpenGate
<1>2. ASSUME NEW v \in Workers, task'[v].pc \in Replacing
      PROVE  queued'[Own(v)] = {}
  <2>1. CASE v = w
    <3>1. CASE Refreshes(w)
      BY <1>0, <2>1, <3>1 DEF Refreshes, FreshGate
    <3>2. CASE Closes(w) \/ Removes(w) \/ Opens(w)
      BY <1>2, <2>1, <3>2 DEF Closes, Removes, Opens, Replacing, Behind, Opened
    <3>3. CASE Rests(w) \/ Begins(w) \/ Leaves(w)
      <4>1. task[w].pc \in Replacing
        BY <1>2, <2>1, <3>3 DEF Rests, Begins, Leaves
      <4> QED
        BY <1>1, <2>1, <4>1 DEF CountInv
    <3> QED
      BY <1>0, <3>1, <3>2, <3>3 DEF DrainEffect
  <2>2. CASE v # w
    <3>1. task[v].pc \in Replacing /\ Own(v) \in Ids /\ queued[Own(v)] = {}
      BY <1>0, <1>2, <2>2, Basics DEF CountInv
    <3>2. CASE Own(v) # Own(w)
      BY <3>1, <3>2 DEF Reach
    <3>3. CASE Own(v) = Own(w)
      <4>1. UNCHANGED gates
        BY <2>2, <3>1, <3>3, HolderIsAlone DEF Holds, Replacing, Behind
      <4> QED
        BY <3>1, <4>1 DEF gates
    <3> QED
      BY <3>2, <3>3
  <2> QED
    BY <2>1, <2>2
<1>3. ASSUME NEW i \in Ids, NEW r \in queued'[i]
      PROVE  /\ call'[r].pc = "sent" /\ call'[r].id = i
             /\ children'[i] # None => call'[r].child = children'[i]
  <2>1. r \in queued[i]
    BY <1>1, <1>3 DEF Reach
  <2>2. /\ call[r].pc = "sent" /\ call[r].id = i
        /\ children[i] # None => call[r].child = children[i]
    BY <2>1 DEF CountInv, QueueingCountsItsProcess
  <2>3. children'[i] = children[i] \/ children'[i] = None
    <3>1. CASE i # Own(w)
      BY <3>1 DEF Reach
    <3>2. CASE Begins(w) /\ i = Own(w)
      BY <2>1, <3>2 DEF Begins, CountInv
    <3>3. CASE ~Begins(w) /\ i = Own(w)
      BY <1>0, <3>3 DEF DrainEffect, Rests, Closes, Refreshes, Removes, Leaves, Opens
    <3> QED
      BY <3>1, <3>2, <3>3
  <2> QED
    BY <1>0, <2>2, <2>3
<1> QED
  BY <1>0, <1>2, <1>3 DEF CountInv, QueueingCountsItsProcess

-----------------------------------------------------------------------------
(* A request that arrives finds an open gate, whose child's starter has     *)
(* opened it.                                                               *)
LEMMA ArriveKeepsDrains ==
  ASSUME IInv, DrainInv, NEW r \in Requests, Arrive(r)
  PROVE  DrainInv'
<1>0. /\ StartInv /\ CallInv /\ SentInv /\ CountInv /\ GateInv /\ GatesApart
      /\ children \in [Ids -> Child \cup {None}] /\ admission \in [Ids -> Gate \cup {None}]
      /\ closed \subseteq Gate /\ None \notin Gate /\ None \notin Child
      /\ call \in [Requests -> Call] /\ call[r].pc = "new"
      /\ UNCHANGED <<config, children, closed, queued, task>>
      /\ \A v \in Workers : Own(v)' = Own(v) /\ Own(v) \in Ids
      /\ \A i \in Ids : CutShort(i)' <=> CutShort(i)
  BY Basics DEF DrainInv, IInv, Typed, TypeOK, GateInv, Arrive, records, ports, Own, CutShort
<1>1. PICK i \in Ids :
        /\ config[i] # None
        /\ LET gate == IF admission[i] = None THEN <<r, "door">> ELSE admission[i]
               open == gate \notin closed /\ children[i] # None
           IN  /\ admission' = [admission EXCEPT ![i] = gate]
               /\ call' = [call EXCEPT ![r] =
                    IF open THEN [pc |-> "reading", id |-> i, gate |-> gate,
                                  child |-> children[i], rec |-> config[i]]
                    ELSE [NoCall EXCEPT !.pc = "done"]]
  BY DEF Arrive
<1> DEFINE gate == admission'[i]
<1>2. /\ gate = admission'[i] /\ gate = IF admission[i] = None THEN <<r, "door">> ELSE admission[i]
      /\ \A j \in Ids \ {i} : admission'[j] = admission[j]
      /\ \A q \in Requests \ {r} : call'[q] = call[q]
      /\ \/ call'[r].pc = "done"
         \/ /\ gate \notin closed /\ children[i] # None
            /\ call'[r].pc = "reading" /\ call'[r].id = i /\ call'[r].gate = gate
            /\ call'[r].child = children[i]
  BY <1>0, <1>1 DEF NoCall
<1> HIDE DEF gate
<1>3. StartInv'
  <2>1. \A j \in Ids : config'[j] = None /\ admission'[j] # None => admission'[j] \in closed'
    BY <1>0, <1>1, <1>2 DEF StartInv
  <2> QED
    BY <1>0, <2>1 DEF StartInv
<1>4. ASSUME NEW q \in Requests \ {r}, Underway(q)'
      PROVE  CallGate(q)' /\ CallChild(q)'
  <2>1. /\ call'[q] = call[q] /\ Underway(q) /\ CallGate(q) /\ CallChild(q)
        /\ call[q].id \in Ids /\ call[q].gate \in Gate
    BY <1>0, <1>2, <1>4, Basics DEF Underway, CallInv
  <2>2. \A j \in Ids : admission'[j] = call[q].gate => j = call[q].id
    BY <1>0, <1>2, <2>1 DEF CallGate
  <2>3. call[q].pc = "reading" => call[q].gate \in closed \cup {admission'[call[q].id]}
    <3>1. \A j \in Ids : admission[j] # None => admission'[j] = admission[j]
      BY <1>2
    <3>2. call[q].gate # None
      BY <1>0, <2>1
    <3> QED
      BY <2>1, <3>1, <3>2 DEF CallGate
  <2>4. \A s \in Requests : call[q].gate = <<s, "door">> => call'[s].pc # "new"
    BY <1>2, <2>1 DEF CallGate
  <2>5. CallGate(q)'
    BY <1>0, <2>1, <2>2, <2>3, <2>4 DEF CallGate
  <2> QED
    BY <1>0, <2>1, <2>5 DEF CallChild
<1>5. ASSUME Underway(r)' PROVE CallGate(r)' /\ CallChild(r)'
  <2>1. /\ gate \notin closed /\ children[i] # None
        /\ call'[r].pc = "reading" /\ call'[r].id = i /\ call'[r].gate = gate
        /\ call'[r].child = children[i]
    BY <1>2, <1>5 DEF Underway
  <2>2. \A v \in Workers : gate \in {<<v, "drain">>, <<v, "fresh">>} => Own(v) = i
    <3>1. \A v \in Workers : <<r, "door">> # <<v, "drain">> /\ <<r, "door">> # <<v, "fresh">>
      OBVIOUS
    <3> QED
      BY <1>0, <1>2, <3>1 DEF GatesApart
  <2>3. \A j \in Ids : admission'[j] = gate => j = i
    BY <1>0, <1>2 DEF GatesApart
  <2>4. \A q \in Requests : gate = <<q, "door">> => call'[q].pc # "new"
    <3>1. SUFFICES ASSUME NEW q \in Requests \ {r}, gate = <<q, "door">>
                   PROVE  call[q].pc # "new"
      BY <1>2, <2>1
    <3>2. <<q, "door">> # <<r, "door">>
      OBVIOUS
    <3> QED
      BY <1>0, <1>2, <3>1, <3>2 DEF GatesApart
  <2>5. CallGate(r)'
    BY <1>0, <2>1, <2>2, <2>3, <2>4 DEF CallGate, gate
  <2>6. ASSUME NEW v \in Workers, children[i].by = v PROVE task[v].pc \in Opened
    <3>1. Own(v) = i /\ task[v].pc \in Started
      BY <1>0, <2>1, <2>6 DEF StartInv
    <3>2. admission[Own(v)] \notin closed
      BY <1>0, <1>2, <2>1, <3>1
    <3>3. GateAt(v)
      BY <1>0 DEF GateInv, WorkersGates
    <3> QED
      BY <3>1, <3>2, <3>3 DEF GateAt, Started, Opened
  <2>7. CallChild(r)'
    BY <1>0, <1>1, <2>1, <2>6 DEF CallChild, StartInv
  <2> QED
    BY <2>5, <2>7
<1>6. CallInv'
  BY <1>4, <1>5 DEF CallInv
<1>7. \A j \in Ids : Answering(j)' = Answering(j)
  BY <1>0, <1>2 DEF Answering
<1>8. SentInv'
  <2>1. ASSUME NEW j \in Ids, NEW q \in Answering(j)
        PROVE  CutShort(j) \/ call'[q].gate = admission'[j]
    <3>1. q \in Requests \ {r} /\ Underway(q)
      BY <1>0, <2>1 DEF Answering, Underway
    <3>2. call[q].gate \in Gate
      BY <3>1, Basics
    <3> QED
      BY <1>0, <1>2, <2>1, <3>1, <3>2 DEF SentInv
  <2>2. \A j \in Ids : \A q \in Answering(j)' : CutShort(j)' \/ call'[q].gate = admission'[j]
    BY <1>0, <1>7, <2>1
  <2>3. \A v \in Workers : Answering(Own(v))' = Answering(Own(v))
    BY <1>0, <1>2 DEF Answering
  <2>4. \A v \in Workers : CutShort(Own(v))' <=> CutShort(Own(v))
    BY <1>0 DEF CutShort
  <2> QED
    BY <1>0, <2>2, <2>3, <2>4 DEF SentInv
<1>9. CountInv'
  <2>1. \A j \in Ids : r \notin queued[j]
    BY <1>0 DEF CountInv, QueueingCountsItsProcess
  <2>2. ASSUME NEW j \in Ids, NEW q \in queued[j] PROVE call'[q] = call[q]
    <3>1. q \in Requests \ {r}
      BY <2>1, <2>2, Basics
    <3> QED
      BY <1>2, <3>1
  <2> QED
    BY <1>0, <2>2 DEF CountInv, QueueingCountsItsProcess
<1> QED
  BY <1>3, <1>6, <1>8, <1>9 DEF DrainInv

(* What is sent goes through the gate there is, and that one is open.       *)
LEMMA ForwardKeepsDrains ==
  ASSUME IInv, DrainInv, NEW r \in Requests, Forward(r)
  PROVE  DrainInv'
<1>0. /\ StartInv /\ CallInv /\ SentInv /\ CountInv /\ GateInv
      /\ children \in [Ids -> Child \cup {None}] /\ admission \in [Ids -> Gate \cup {None}]
      /\ queued \in [Ids -> SUBSET Requests] /\ None \notin Child
      /\ call \in [Requests -> Call] /\ call[r].pc = "reading" /\ call[r].gate \notin closed
      /\ UNCHANGED <<config, children, closed, admission, task>>
      /\ \A v \in Workers : Own(v)' = Own(v) /\ Own(v) \in Ids
      /\ \A i \in Ids : CutShort(i)' <=> CutShort(i)
  BY Basics DEF DrainInv, IInv, Typed, TypeOK, GateInv, Forward, records, ports, Own, CutShort
<1>1. /\ Underway(r) /\ CallGate(r) /\ CallChild(r) /\ call[r].id \in Ids /\ call[r] \in Call
      /\ call[r].child \in Child /\ children[call[r].id] = call[r].child
  BY <1>0, Basics DEF Underway, CallInv, Forward
<1>2. /\ \A q \in Requests \ {r} : call'[q] = call[q]
      /\ call'[r].pc = "sent" /\ call'[r].id = call[r].id /\ call'[r].gate = call[r].gate
      /\ call'[r].child = call[r].child
      /\ queued' = [queued EXCEPT ![call[r].id] = @ \cup {r}]
  BY <1>0, <1>1 DEF Forward, Call
<1>3. call[r].gate = admission[call[r].id]
  BY <1>0, <1>1 DEF CallGate
<1>4. \A v \in Workers : Own(v) = call[r].id => task[v].pc \notin Behind
  BY <1>0, <1>3 DEF GateInv, WorkersGates, GateAt, Behind
<1>5. StartInv'
  BY <1>0 DEF StartInv
<1>6. ASSUME NEW q \in Requests, Underway(q)'
      PROVE  CallGate(q)' /\ CallChild(q)'
  <2>1. /\ Underway(q) /\ CallGate(q) /\ CallChild(q)
        /\ call'[q].id = call[q].id /\ call'[q].gate = call[q].gate /\ call'[q].child = call[q].child
        /\ call'[q].pc = "reading" => call[q].pc = "reading"
        /\ \A s \in Requests : call'[s].pc = "new" => call[s].pc = "new"
    BY <1>0, <1>1, <1>2, <1>6 DEF Underway, CallInv
  <2> QED
    BY <1>0, <2>1 DEF CallGate, CallChild
<1>7. CallInv'
  BY <1>6 DEF CallInv
<1>8. \A i \in Ids : \A q \in Answering(i)' : q \in Answering(i) \/ (q = r /\ i = call[r].id)
  BY <1>0, <1>1, <1>2 DEF Answering, StartInv, CallChild
<1>9. SentInv'
  <2>1. \A i \in Ids : \A q \in Answering(i)' : CutShort(i)' \/ call'[q].gate = admission'[i]
    <3>1. SUFFICES ASSUME NEW i \in Ids, NEW q \in Answering(i)'
                   PROVE  CutShort(i) \/ call'[q].gate = admission[i]
      BY <1>0
    <3>2. CASE q = r /\ i = call[r].id
      BY <1>2, <1>3, <3>2
    <3>3. CASE q \in Answering(i) /\ q # r
      <4>1. q \in Requests
        BY <3>3 DEF Answering
      <4> QED
        BY <1>0, <1>2, <3>3, <4>1 DEF SentInv
    <3>4. r \notin Answering(i)
      BY <1>0 DEF Answering
    <3> QED
      BY <1>8, <3>2, <3>3, <3>4
  <2>2. ASSUME NEW v \in Workers, task[v].pc \in Behind
        PROVE  CutShort(Own(v)) \/ Answering(Own(v))' = {}
    <3>1. Answering(Own(v))' \subseteq Requests
      BY DEF Answering
    <3>2. Own(v) # call[r].id /\ Own(v) \in Ids
      BY <1>0, <1>4, <2>2
    <3>3. Answering(Own(v))' \subseteq Answering(Own(v))
      BY <1>0, <1>1, <1>2, <3>2 DEF Answering, StartInv, CallChild
    <3> QED
      BY <1>0, <2>2, <3>3 DEF SentInv
  <2>3. \A v \in Workers : CutShort(Own(v))' <=> CutShort(Own(v))
    BY <1>0 DEF CutShort
  <2> QED
    BY <1>0, <2>1, <2>2, <2>3 DEF SentInv
<1>10. CountInv'
  <2>1. \A v \in Workers : task'[v].pc \in Replacing => queued'[Own(v)'] = {}
    BY <1>0, <1>2, <1>4 DEF CountInv, Replacing
  <2>2. ASSUME NEW i \in Ids, NEW q \in queued'[i]
        PROVE  /\ call'[q].pc = "sent" /\ call'[q].id = i
               /\ children'[i] # None => call'[q].child = children'[i]
    <3>1. CASE q = r
      <4>1. i = call[r].id
        BY <1>0, <1>2, <2>2, <3>1 DEF CountInv, QueueingCountsItsProcess
      <4> QED
        BY <1>0, <1>1, <1>2, <3>1, <4>1
    <3>2. CASE q # r
      <4>1. q \in queued[i] /\ q \in Requests
        BY <1>0, <1>1, <1>2, <2>2, <3>2
      <4> QED
        BY <1>0, <1>2, <3>2, <4>1 DEF CountInv, QueueingCountsItsProcess
    <3> QED
      BY <3>1, <3>2
  <2>3. QueueingCountsItsProcess'
    BY <2>2 DEF QueueingCountsItsProcess
  <2> QED
    BY <1>0, <2>1, <2>3 DEF CountInv
<1> QED
  BY <1>5, <1>7, <1>9, <1>10 DEF DrainInv

(* Who is turned away or released is at no child any more.                  *)
LEMMA LeavingKeepsDrains ==
  ASSUME IInv, DrainInv, NEW r \in Requests, TurnAway(r) \/ Release(r)
  PROVE  DrainInv'
<1>0. /\ StartInv /\ CallInv /\ SentInv /\ CountInv
      /\ queued \in [Ids -> SUBSET Requests]
      /\ call \in [Requests -> Call] /\ call[r].pc \in {"reading", "sent"} /\ call[r].id \in Ids
      /\ UNCHANGED <<config, children, closed, admission, task>>
      /\ \A v \in Workers : Own(v)' = Own(v) /\ Own(v) \in Ids
      /\ \A v \in Workers : CutShort(Own(v))' <=> CutShort(Own(v))
      /\ \A i \in Ids : CutShort(i)' <=> CutShort(i)
  BY Basics DEF DrainInv, IInv, Typed, TypeOK, TurnAway, Release, records, gates, ports, Own,
                CutShort, Underway
<1>1. /\ \A q \in Requests \ {r} : call'[q] = call[q]
      /\ call'[r].pc = "done"
      /\ \/ queued' = queued /\ call[r].pc = "reading"
         \/ queued' = [queued EXCEPT ![call[r].id] = @ \ {r}]
  BY <1>0 DEF TurnAway, Release, gates, NoCall
<1>2. StartInv'
  BY <1>0 DEF StartInv
<1>3. CallInv'
  <2>1. SUFFICES ASSUME NEW q \in Requests, Underway(q)'
                 PROVE  CallGate(q)' /\ CallChild(q)'
    BY DEF CallInv
  <2>2. /\ Underway(q) /\ CallGate(q) /\ CallChild(q) /\ call'[q] = call[q]
        /\ \A s \in Requests : call'[s].pc = "new" => call[s].pc = "new"
    BY <1>0, <1>1, <2>1 DEF Underway, CallInv
  <2> QED
    BY <1>0, <2>2 DEF CallGate, CallChild
<1>4. SentInv'
  <2>1. \A i \in Ids : \A q \in Answering(i)' : q \in Answering(i) /\ call'[q] = call[q]
    BY <1>0, <1>1 DEF Answering
  <2>2. \A v \in Workers : Answering(Own(v))' \subseteq Answering(Own(v))
    BY <1>0, <1>1 DEF Answering
  <2>3. \A i \in Ids : \A q \in Answering(i)' : CutShort(i)' \/ call'[q].gate = admission'[i]
    BY <1>0, <2>1 DEF SentInv
  <2>4. \A v \in Workers : task'[v].pc \in Behind => CutShort(Own(v))' \/ Answering(Own(v))' = {}
    BY <1>0, <2>2 DEF SentInv
  <2> QED
    BY <2>3, <2>4 DEF SentInv
<1>5. CountInv'
  <2>1. \A i \in Ids : queued'[i] \subseteq queued[i] /\ r \notin queued'[i]
    BY <1>0, <1>1 DEF CountInv, QueueingCountsItsProcess
  <2>2. \A v \in Workers : task'[v].pc \in Replacing => queued'[Own(v)'] = {}
    BY <1>0, <2>1 DEF CountInv
  <2>3. QueueingCountsItsProcess'
    BY <1>0, <1>1, <2>1 DEF CountInv, QueueingCountsItsProcess
  <2> QED
    BY <1>0, <2>2, <2>3 DEF CountInv
<1> QED
  BY <1>2, <1>3, <1>4, <1>5 DEF DrainInv

(* The agent starts with no request, no gate and no drain.                  *)
LEMMA InitDrainInv == Init => DrainInv
<1> SUFFICES ASSUME Init PROVE DrainInv
  OBVIOUS
<1>1. /\ \A i \in Ids : admission[i] = None /\ queued[i] = {}
      /\ \A w \in Workers : task[w].pc = "idle" /\ ~task[w].timedOut
      /\ \A r \in Requests : call[r].pc = "new"
      /\ \A i \in Ids : children[i] # None => children[i].id = i /\ children[i].by = Boot
      /\ Boot \notin Workers
  <2>1. \A i \in Ids : children[i] # None => children[i].id = i /\ children[i].by = Boot
    BY DEF Init, StartDeployments
  <2> QED
    BY <2>1, NoneIsNothing DEF Init, NoCall
<1>2. \A w \in Workers : Own(w) \in Ids
  BY DEF Init, Own
<1>3. StartInv
  BY <1>1 DEF StartInv
<1>4. CallInv
  BY <1>1 DEF CallInv, Underway
<1>5. SentInv
  BY <1>1 DEF SentInv, Answering, Behind
<1>6. CountInv
  BY <1>1, <1>2 DEF CountInv, QueueingCountsItsProcess
<1> QED
  BY <1>3, <1>4, <1>5, <1>6 DEF DrainInv

(* Every step of the agent keeps what is known of the drains.               *)
LEMMA NextKeepsDrainInv ==
  ASSUME IInv, DrainInv, [Next]_vars
  PROVE  DrainInv'
<1>1. ASSUME NEW w \in Workers, RunTransition(w) \/ Abandon(w) \/ WorkerStep(w)
      PROVE  DrainInv'
  <2>1. Reach(w) /\ StartInv /\ CallInv /\ SentInv /\ CountInv
    BY <1>1, WorkerReach DEF DrainInv
  <2> QED
    BY <1>1, <2>1, WorkerKeepsStart, WorkerKeepsCalls, WorkerKeepsSent, WorkerKeepsCount DEF DrainInv
<1>2. ASSUME NEW r \in Requests, RequestStep(r)
      PROVE  DrainInv'
  BY <1>2, ArriveKeepsDrains, ForwardKeepsDrains, LeavingKeepsDrains DEF RequestStep
<1>3. ASSUME ChildExits \/ Shutdown \/ JoinTransitions \/ JoinCutShort \/ Sweep \/ UNCHANGED vars
      PROVE  DrainInv'
  <2>1. UNCHANGED <<config, children, admission, closed, queued, task, call>>
    BY <1>3 DEF ChildExits, Shutdown, JoinTransitions, JoinCutShort, Sweep, vars, records, gates
  <2>2. StartInv' /\ CallInv'
    BY <2>1 DEF DrainInv, StartInv, CallInv, Underway, CallGate, CallChild, Own
  <2>3. SentInv' /\ CountInv'
    BY <2>1 DEF DrainInv, SentInv, Answering, CutShort, CountInv, QueueingCountsItsProcess, Own
  <2> QED
    BY <2>2, <2>3 DEF DrainInv
<1> QED
  BY <1>1, <1>2, <1>3 DEF Next, Exited

LEMMA DrainsHold == Spec => [](IInv /\ DrainInv)
<1>1. Init => DrainInv
  BY InitDrainInv
<1>2. IInv /\ DrainInv /\ [Next]_vars => DrainInv'
  BY NextKeepsDrainInv
<1> QED
  BY <1>1, <1>2, InvariantHolds, PTL DEF Spec

(* A replacement or a removal never stops a child that is still answering,  *)
(* unless a drain of its deployment ran out of time: whatever the order of  *)
(* arrivals, drains, failures and rollbacks.                                *)
THEOREM DrainedBeforeStopped == Spec => []StopsOnlyWhatIsDrained
<1>1. IInv /\ DrainInv => StopsOnlyWhatIsDrained
  <2>1. SUFFICES ASSUME IInv, DrainInv, NEW w \in Workers, NEW r \in Requests,
                        task[w].pc \in StopPoints, children[Own(w)] # None,
                        call[r].pc = "sent", call[r].child = children[Own(w)]
                 PROVE  CutShort(Own(w))
    BY DEF StopsOnlyWhatIsDrained
  <2>2. CASE At(w, "stray_stopping")
    <3>1. config[Own(w)] = None
      BY <2>1, <2>2 DEF IInv, PortInv, WorkersKnow, WorkersChildren, Knows, ChildAt, Holds, At
    <3>2. CallChild(r) /\ call[r].id = Own(w)
      BY <2>1, Basics DEF DrainInv, CallInv, Underway, CallChild, StartInv
    <3> QED
      BY <2>1, <3>1, <3>2 DEF CallChild
  <2>3. CASE task[w].pc \in Behind
    BY <2>1, <2>3 DEF DrainInv, SentInv, Answering
  <2> QED
    BY <2>1, <2>2, <2>3 DEF StopPoints, Behind, At
<1> QED
  BY <1>1, DrainsHold, PTL

(* What a Queueing counts is in flight at the process it counts for: none   *)
(* of a replaced process holds a place in its successor.                    *)
THEOREM QueueingsCountTheirProcess == Spec => []QueueingCountsItsProcess
<1>1. DrainInv => QueueingCountsItsProcess
  BY DEF DrainInv, CountInv
<1> QED
  BY <1>1, DrainsHold, PTL

-----------------------------------------------------------------------------
(* Whom an observation finds.                                               *)

ObserverTyped ==
  observer \in [at : {"idle", "probing", "measuring"},
                snapshot : [Ids -> Record \cup {None}],
                asked : [Ids -> Child \cup {None}],
                healthy : [Ids -> {"no", "unknown", "yes"}]]

\* The gate is open, will be opened with what stands behind it, or will be put
\* back as it was.
Shown(i) ==
  \/ admission[i] \notin closed
  \/ \E v \in Workers : /\ Own(v) = i
                        /\ At(v, "committing") \/ (At(v, "draining") /\ ~task[v].wasPaused)

\* A child that a worker started is shown only once it was found ready.
ReadyInv ==
  \A i \in Ids :
    children[i] \in running /\ children[i].by # Boot /\ Shown(i) => children[i] \in ready

\* One that the agent started with is the only one that was ever probed.
ProbeInv ==
  \A i \in Ids :
    children[i] \in running /\ children[i].by = Boot
      => /\ observer.healthy[i] = "yes" => children[i] \in ready
         /\ observer.asked[i] \in {None, children[i]}

ObservedInv == ObserverTyped /\ ReadyInv /\ ProbeInv

\* What a worker's step may show of its deployment: no child, nothing, or what
\* was shown before or is found ready now.
ShowEffect(w) ==
  \/ children'[Own(w)] = None
  \/ ~Shown(Own(w))'
  \/ children' = children /\ (Shown(Own(w)) \/ children[Own(w)] \in FoundReady)

\* Nobody else holds the lock of the worker's deployment.
Alone(w) == \A v \in Workers \ {w} : Own(v) = Own(w) => ~Holds(v)

(* To be shown after a step by somebody else takes somebody who holds the   *)
(* lock.                                                                    *)
LEMMA AloneShows ==
  ASSUME IInv, NEW w \in Workers, Alone(w), Reach(w)
  PROVE  Shown(Own(w))' => \/ admission'[Own(w)] \notin closed'
                           \/ task'[w].pc = "committing"
                           \/ task'[w].pc = "draining" /\ ~task'[w].wasPaused
<1>1. SUFFICES ASSUME NEW v \in Workers, Own(v) = Own(w),
                      task'[v].pc = "committing" \/ task'[v].pc = "draining"
               PROVE  v = w
  BY DEF Shown, Reach, At
<1>2. v # w => Holds(v)
  BY <1>1 DEF Reach, Holds
<1> QED
  BY <1>1, <1>2 DEF Alone

LEMMA WorkerShows ==
  ASSUME IInv, NEW w \in Workers, RunTransition(w) \/ Abandon(w) \/ WorkerStep(w), Reach(w)
  PROVE  ShowEffect(w)
<1>0. /\ TypeOK /\ task[w] \in Task /\ Own(w) \in Ids /\ ChildAt(w) /\ GateAt(w)
      /\ children \in [Ids -> Child \cup {None}] /\ closed \subseteq Gate /\ None \notin Gate
      /\ admission \in [Ids -> Gate \cup {None}]
  BY Basics DEF IInv, Typed, PortInv, GateInv, WorkersChildren, WorkersGates
<1>f. ASSUME NEW outcome \in Outcomes, Finish(w, outcome)
      PROVE  task'[w].pc = "done"
  BY <1>0, <1>f, FinishRests
<1>g. ASSUME NEW pc \in PcOfTask, Goto(w, pc)
      PROVE  task'[w].pc = pc
  BY <1>0, <1>g, GotoRests
<1>h. CASE ~Alone(w)
  <2>1. PICK v \in Workers \ {w} : Own(v) = Own(w) /\ Holds(v)
    BY <1>h DEF Alone
  <2>2. UNCHANGED <<children, gates>>
    BY <2>1, HolderIsAlone
  <2>3. ~Holds(w) /\ ~Holds(w)'
    BY <1>0, <2>1, WorkerHolds, NoneIsNothing DEF IInv, PortInv, LocksAgree
  <2>4. task'[w].pc \notin {"committing", "draining"}
    BY <2>3 DEF Holds
  <2>5. Shown(Own(w))' => Shown(Own(w))
    BY <2>2, <2>4 DEF Shown, Reach, At, gates
  <2> QED
    BY <2>2, <2>5 DEF ShowEffect
<1>s. SUFFICES ASSUME Alone(w) PROVE ShowEffect(w)
  BY <1>h
<1>t. Shown(Own(w))' => \/ admission'[Own(w)] \notin closed'
                        \/ task'[w].pc = "committing"
                        \/ task'[w].pc = "draining" /\ ~task'[w].wasPaused
  BY <1>s, AloneShows
<1>k. ASSUME UNCHANGED <<children, admission, closed>>,
             task'[w].pc \notin {"committing", "draining"}
      PROVE  ShowEffect(w)
  BY <1>k, <1>t DEF ShowEffect, Shown
<1>b. ASSUME admission'[Own(w)] \in closed', task'[w].pc \notin {"committing", "draining"}
      PROVE  ShowEffect(w)
  BY <1>b, <1>t DEF ShowEffect
<1>r. ASSUME RollBack(w), task[w].pc \in {"stopping", "verifying", "waiting", "committing"}
      PROVE  ShowEffect(w)
  <2>1. CASE children[Own(w)] = None
    BY <1>r, <2>1 DEF RollBack, ShowEffect
  <2>2. CASE children[Own(w)] # None
    <3>1. Goto(w, "undo_stopping") /\ UNCHANGED gates /\ admission[Own(w)] \in closed
      BY <1>0, <1>r, <2>2 DEF RollBack, GateAt
    <3>2. task'[w].pc = "undo_stopping"
      BY <1>g, <3>1 DEF PcOfTask, StopPoints
    <3> QED
      BY <1>b, <3>1, <3>2 DEF gates
  <2> QED
    BY <2>1, <2>2
<1>1. CASE RunTransition(w)
  BY <1>1, <1>g, <1>k DEF RunTransition, PcOfTask, gates
<1>2. CASE Abandon(w)
  <2>1. /\ task'[w].pc = task[w].pc /\ task'[w].wasPaused = task[w].wasPaused
        /\ UNCHANGED <<children, admission, closed>>
    BY <1>0, <1>2 DEF Abandon, TypeOK, Task, gates
  <2>2. Shown(Own(w))' => Shown(Own(w))
    BY <1>t, <2>1 DEF Shown, At
  <2> QED
    BY <2>1, <2>2 DEF ShowEffect
<1>3. CASE GoneBeforeLock(w) \/ GoneBeforeReserve(w) \/ PutRefused(w) \/ ForgetAbsent(w)
  <2>1. \E outcome \in Outcomes : Finish(w, outcome)
    BY <1>3 DEF GoneBeforeLock, GoneBeforeReserve, PutRefused, ForgetAbsent, Outcomes
  <2> QED
    BY <1>3, <1>f, <1>k, <2>1 DEF GoneBeforeLock, GoneBeforeReserve, PutRefused, ForgetAbsent, gates
<1>4. CASE Report(w) \/ RollBackFails(w) \/ RolledBack(w) \/ ForgetFails(w)
  <2>1. \E outcome \in Outcomes : Finish(w, outcome)
    BY <1>4 DEF Report, RollBackFails, RolledBack, ForgetFails, Outcomes
  <2> QED
    BY <1>4, <1>f, <1>k, <2>1 DEF Report, RollBackFails, RolledBack, ForgetFails, gates
<1>5. CASE DrainAbandoned(w)
  <2>1. task'[w].pc = "done" /\ children' = children /\ At(w, "draining")
    BY <1>5, <1>f DEF DrainAbandoned, Outcomes
  <2>2. CASE task[w].wasPaused
    BY <1>5, <1>k, <2>1, <2>2 DEF DrainAbandoned, gates
  <2>3. CASE ~task[w].wasPaused
    BY <2>1, <2>3 DEF ShowEffect, Shown
  <2> QED
    BY <2>2, <2>3
<1>6. CASE Drained(w) \/ DrainTimesOut(w)
  <2>1. PICK late \in BOOLEAN : AfterDrain(w, late) /\ admission[Own(w)] \in closed
    BY <1>0, <1>6 DEF Drained, DrainTimesOut, GateAt, At
  <2>2. task'[w].pc \notin {"committing", "draining"} /\ (FreshGate(w) \/ UNCHANGED gates)
    BY <1>0, <2>1 DEF AfterDrain, TypeOK, Task
  <2>3. admission'[Own(w)] \in closed'
    BY <1>0, <2>1, <2>2 DEF FreshGate, gates
  <2> QED
    BY <1>b, <2>2, <2>3
<1>7. CASE StopReturns(w)
  BY <1>0, <1>7 DEF StopReturns, ShowEffect
<1>8. CASE StopFails(w)
  <2>1. CASE At(w, "stopping") /\ RollBack(w)
    BY <1>r, <2>1 DEF At
  <2>2. CASE Finish(w, "failed") /\ UNCHANGED <<records, children, gates>>
    BY <1>f, <1>k, <2>2 DEF Outcomes, gates
  <2> QED
    BY <1>8, <2>1, <2>2 DEF StopFails
<1>9. CASE LockForPut(w) \/ ForgetStray(w)
  <2>1. /\ task'[w].pc \in {"reserving", "stray_stopping"}
        /\ UNCHANGED <<children, admission, closed>>
    BY <1>0, <1>9, <1>g DEF LockForPut, ForgetStray, PcOfTask, StopPoints, TypeOK, Task, gates
  <2> QED
    BY <1>k, <2>1
<1>10. CASE ReserveForReplacement(w) \/ ForgetDrain(w)
  <2>1. /\ task'[w].pc = "draining" /\ children' = children /\ CloseGate(w)
        /\ task'[w].wasPaused = (GateToDrain(w) \in closed)
    BY <1>0, <1>10 DEF ReserveForReplacement, ForgetDrain, TypeOK, Task
  <2>2. CASE GateToDrain(w) \in closed
    <3>1. admission'[Own(w)] \in closed'
      BY <1>0, <2>1 DEF CloseGate
    <3> QED
      BY <1>t, <2>1, <2>2, <3>1 DEF ShowEffect
  <2>3. CASE GateToDrain(w) \notin closed
    <3>1. admission[Own(w)] \notin closed
      BY <1>0, <2>3 DEF GateToDrain
    <3> QED
      BY <2>1, <3>1 DEF ShowEffect, Shown
  <2> QED
    BY <2>2, <2>3
<1>11. CASE ReserveForCreation(w)
  <2>1. task'[w].pc \in {"verifying", "stopping"} /\ FreshGate(w)
    BY <1>0, <1>11 DEF ReserveForCreation, TypeOK, Task
  <2>2. admission'[Own(w)] \in closed'
    BY <1>0, <2>1 DEF FreshGate
  <2> QED
    BY <1>b, <2>1, <2>2
<1>12. CASE CandidateRefused(w) \/ CandidateFails(w) \/ CommitFails(w)
  BY <1>12, <1>r DEF CandidateRefused, CandidateFails, CommitFails, At
<1>13. CASE StartCandidate(w) \/ RestorePrevious(w)
  <2>1. /\ task'[w].pc \in {"waiting", "undo_waiting"} /\ UNCHANGED gates
        /\ task[w].pc \in {"verifying", "undo_verifying"}
    BY <1>13, <1>g DEF StartCandidate, RestorePrevious, At, PcOfTask
  <2>2. admission'[Own(w)] \in closed'
    BY <1>0, <2>1 DEF GateAt, gates
  <2> QED
    BY <1>b, <2>1, <2>2
<1>14. CASE CandidateReady(w) \/ PreviousReady(w)
  <2>1. children' = children
    BY <1>14 DEF CandidateReady, PreviousReady
  <2>2. \/ At(w, "waiting") /\ task'[w].pc = "committing"
        \/ At(w, "undo_waiting") /\ task'[w].pc = "undo_saving"
    BY <1>14, <1>g DEF CandidateReady, PreviousReady, PcOfTask
  <2> QED
    BY <2>1, <2>2 DEF ShowEffect, FoundReady
<1>15. CASE Commit(w)
  BY <1>15 DEF Commit, ShowEffect, Shown
<1>16. CASE Forget(w)
  BY <1>0, <1>16 DEF Forget, ShowEffect, ChildAt, At
<1> QED
  BY <1>1, <1>2, <1>3, <1>4, <1>5, <1>6, <1>7, <1>8, <1>9, <1>10, <1>11, <1>12, <1>13,
     <1>14, <1>15, <1>16 DEF WorkerStep

(* Which children still run after a worker's step.                          *)
LEMMA WorkerRuns ==
  ASSUME IInv, DrainInv, IInv', NEW w \in Workers, Reach(w),
         RunTransition(w) \/ Abandon(w) \/ WorkerStep(w), NEW i \in Ids, children'[i] \in running'
  PROVE  \/ children'[i] = children[i] /\ children[i] \in running
         \/ i = Own(w) /\ children'[i].by = w /\ children'[i] # children[i]
<1>0. /\ TypeOK /\ StandsRight(w) /\ StartInv /\ Own(w) \in Ids /\ children'[i] # None
      /\ children \in [Ids -> Child \cup {None}] /\ DrainEffect(w)
  BY EachStandsRight, Basics, NoneIsNothing DEF IInv, Typed, TypeOK, DrainInv, Reach
<1>1. CASE children'[i] = children[i]
  <2>1. CASE StartsChild(w)
    <3>1. children'[Own(w)].id = Own(w) /\ children[Own(w)] = None
      BY <2>1 DEF StartsChild
    <3>2. children'[i] # children'[Own(w)]
      BY <1>0, <1>1, <3>1 DEF StartInv
    <3> QED
      BY <1>1, <2>1, <3>2 DEF StartsChild
  <2> QED
    BY <1>0, <1>1, <2>1, WorkerChild DEF StopsChild
<1>2. CASE children'[i] # children[i]
  <2>1. i = Own(w)
    BY <1>2 DEF Reach
  <2>2. Begins(w)
    BY <1>0, <1>2, <2>1 DEF DrainEffect, Rests, Closes, Refreshes, Removes, Leaves, Opens
  <2> QED
    BY <1>0, <1>2, <2>1, <2>2 DEF Begins
<1> QED
  BY <1>1, <1>2

(* A worker's step keeps what is known of the children that are shown.      *)
LEMMA WorkerKeepsObserved ==
  ASSUME IInv, DrainInv, IInv', ObservedInv, NEW w \in Workers,
         RunTransition(w) \/ Abandon(w) \/ WorkerStep(w),
         ready' = (ready \cup FoundReady) \cap running', observer' = observer
  PROVE  ObservedInv'
<1>0. /\ Reach(w) /\ ShowEffect(w) /\ Own(w) \in Ids /\ w # Boot
      /\ \A i \in Ids : children'[i] \in running' => children'[i] # None
  BY WorkerReach, WorkerShows, Basics, NoneIsNothing DEF IInv, Typed, TypeOK
<1>1. ASSUME NEW i \in Ids, children'[i] \in running', children'[i].by # Boot, Shown(i)'
      PROVE  children'[i] \in ready'
  <2>1. CASE i = Own(w)
    <3>0. Shown(Own(w))' /\ children'[Own(w)] # None
      BY <1>0, <1>1, <2>1 DEF Shown, Reach, At
    <3>1. /\ children' = children
          /\ Shown(Own(w)) \/ children[Own(w)] \in FoundReady
      BY <1>0, <3>0 DEF ShowEffect
    <3>2. children[i] \in running
      BY <1>0, <1>1, <3>1, WorkerRuns
    <3>3. children[i] \in ready \cup FoundReady
      BY <1>1, <2>1, <3>1, <3>2 DEF ObservedInv, ReadyInv
    <3> QED
      BY <1>1, <3>1, <3>3
  <2>2. CASE i # Own(w)
    <3>1. children'[i] = children[i] /\ children[i] \in running
      BY <1>0, <1>1, <2>2, WorkerRuns
    <3>2. Shown(i)
      BY <1>0, <1>1, <2>2 DEF Shown, Reach, At
    <3> QED
      BY <1>1, <3>1, <3>2 DEF ObservedInv, ReadyInv
  <2> QED
    BY <2>1, <2>2
<1>2. ASSUME NEW i \in Ids, children'[i] \in running', children'[i].by = Boot
      PROVE  /\ observer'.healthy[i] = "yes" => children'[i] \in ready'
             /\ observer'.asked[i] \in {None, children'[i]}
  <2>1. children'[i] = children[i] /\ children[i] \in running
    BY <1>0, <1>2, WorkerRuns
  <2> QED
    BY <1>2, <2>1 DEF ObservedInv, ProbeInv
<1> QED
  BY <1>1, <1>2 DEF ObservedInv, ReadyInv, ProbeInv, ObserverTyped

(* So does a step that leaves children and workers as they are and opens no *)
(* gate.                                                                    *)
LEMMA QuietKeepsObserved ==
  ASSUME ObservedInv, UNCHANGED <<children, task, observer>>, running' \subseteq running,
         ready' = (ready \cup FoundReady) \cap running',
         \A i \in Ids : admission'[i] \notin closed' => admission[i] \notin closed
  PROVE  ObservedInv'
<1>1. \A i \in Ids : Shown(i)' => Shown(i)
  BY DEF Shown, Own, At
<1>2. ReadyInv' /\ ProbeInv'
  BY <1>1 DEF ObservedInv, ReadyInv, ProbeInv
<1> QED
  BY <1>2 DEF ObservedInv, ObserverTyped

(* And every step of the observation itself: what answers on the port of a  *)
(* child the agent started with is that child, for as long as it runs.      *)
LEMMA ObserverKeepsObserved ==
  ASSUME IInv, ObservedInv, ObserverStep
  PROVE  ObservedInv'
<1>0. /\ ObserverTyped /\ ReadyInv /\ ProbeInv /\ TypeOK
      /\ children \in [Ids -> Child \cup {None}] /\ config \in [Ids -> Record \cup {None}]
      /\ running \subseteq Child /\ None \notin Child
  BY Basics DEF ObservedInv, IInv, Typed, TypeOK
<1>v. UNCHANGED vars
  BY DEF ObserverStep, Observe, Measure, Conclude, ProbeBegins, ProbeAnswers, ProbeFails
<1>w. UNCHANGED <<children, running, admission, closed, task>>
  BY <1>v DEF vars
<1>1. ready \subseteq ready'
  BY DEF ObserverStep, Observe, Measure, Conclude, ProbeBegins, ProbeAnswers, ProbeFails
<1>2. ReadyInv'
  BY <1>0, <1>w, <1>1 DEF ReadyInv, Shown, Own, At
<1>t. Resting \in [at : {"idle", "probing", "measuring"}, snapshot : [Ids -> Record \cup {None}],
                   asked : [Ids -> Child \cup {None}], healthy : [Ids -> {"no", "unknown", "yes"}]]
  BY DEF Resting
<1>3. CASE Observe
  BY <1>0, <1>t, <1>w, <1>2, <1>3 DEF Observe, Resting, ObservedInv, ObserverTyped, ProbeInv
<1>4. CASE Measure
  BY <1>0, <1>1, <1>w, <1>2, <1>4 DEF Measure, ObservedInv, ObserverTyped, ProbeInv
<1>5. CASE Conclude
  BY <1>0, <1>t, <1>w, <1>2, <1>5 DEF Conclude, Resting, ObservedInv, ObserverTyped, ProbeInv
<1>6. ASSUME NEW j \in Ids, ProbeBegins(j) PROVE ObservedInv'
  <2>1. children[j] \in running => children[j] \in Child
    BY <1>0
  <2>2. ObserverTyped'
    BY <1>0, <1>6, <2>1 DEF ProbeBegins, ObserverTyped
  <2>3. ProbeInv'
    BY <1>0, <1>w, <1>1, <1>6 DEF ProbeBegins, ObserverTyped, ProbeInv
  <2> QED
    BY <1>2, <2>2, <2>3 DEF ObservedInv
<1>7. ASSUME NEW j \in Ids, ProbeAnswers(j) PROVE ObservedInv'
  <2>1. ObserverTyped'
    BY <1>0, <1>7 DEF ProbeAnswers, Answered, ObserverTyped
  <2>2. PICK child \in running :
          child.rec.port = observer.asked[j].rec.port /\ ready' = ready \cup {child}
    BY <1>7 DEF ProbeAnswers
  <2>3. children[j] \in running /\ children[j].by = Boot => child = children[j]
    <3>1. SUFFICES ASSUME children[j] \in running, children[j].by = Boot PROVE child = children[j]
      OBVIOUS
    <3>2. observer.asked[j] = children[j]
      BY <1>0, <1>7, <3>1 DEF ProbeInv, ProbeAnswers
    <3>3. OneChildPerPort
      BY OwnersAreAlone DEF IInv
    <3> QED
      BY <2>2, <3>1, <3>2, <3>3 DEF OneChildPerPort
  <2>4. /\ observer'.asked = [observer.asked EXCEPT ![j] = None]
        /\ observer'.healthy = [observer.healthy EXCEPT ![j] = "yes"]
    BY <1>0, <1>7 DEF ProbeAnswers, Answered, ObserverTyped
  <2>5. ProbeInv'
    BY <1>0, <1>w, <2>2, <2>3, <2>4 DEF ObserverTyped, ProbeInv
  <2> QED
    BY <1>2, <2>1, <2>5 DEF ObservedInv
<1>8. ASSUME NEW j \in Ids, ProbeFails(j) PROVE ObservedInv'
  <2>1. /\ observer'.asked = [observer.asked EXCEPT ![j] = None]
        /\ observer'.healthy = [observer.healthy EXCEPT ![j] = "no"]
        /\ ObserverTyped' /\ ready' = ready
    BY <1>0, <1>8 DEF ProbeFails, Answered, ObserverTyped
  <2>2. ProbeInv'
    BY <1>0, <1>w, <2>1 DEF ObserverTyped, ProbeInv
  <2> QED
    BY <1>2, <2>1, <2>2 DEF ObservedInv
<1> QED
  BY <1>3, <1>4, <1>5, <1>6, <1>7, <1>8 DEF ObserverStep

(* Every step keeps it, the agent's and the observation's.                  *)
LEMMA NextKeepsObservedInv ==
  ASSUME IInv, DrainInv, IInv', ObservedInv, [ObservedNext]_observedVars
  PROVE  ObservedInv'
<1>1. ASSUME AgentStep PROVE ObservedInv'
  <2>0. /\ ready' = (ready \cup FoundReady) \cap running' /\ observer' = observer /\ Next
    BY <1>1 DEF AgentStep
  <2>1. ASSUME NEW w \in Workers, RunTransition(w) \/ Abandon(w) \/ WorkerStep(w)
        PROVE  ObservedInv'
    BY <2>0, <2>1, WorkerKeepsObserved
  <2>2. ASSUME NEW r \in Requests, RequestStep(r)
        PROVE  ObservedInv'
    <3>1. /\ UNCHANGED <<children, task, running, closed>>
          /\ \A i \in Ids : admission'[i] \notin closed => admission[i] \notin closed
      <4>1. CASE Arrive(r)
        <5>1. PICK i \in Ids : admission' = [admission EXCEPT ![i] =
                IF admission[i] = None THEN <<r, "door">> ELSE admission[i]]
          BY <4>1 DEF Arrive
        <5>2. closed \subseteq Gate /\ None \notin Gate /\ admission \in [Ids -> Gate \cup {None}]
          BY Basics
        <5>3. UNCHANGED <<children, task, running, closed>>
          BY <4>1 DEF Arrive
        <5> QED
          BY <5>1, <5>2, <5>3
      <4>2. CASE Forward(r) \/ TurnAway(r) \/ Release(r)
        BY <4>2 DEF Forward, TurnAway, Release, gates
      <4> QED
        BY <2>2, <4>1, <4>2 DEF RequestStep
    <3> QED
      BY <2>0, <3>1, QuietKeepsObserved
  <2>3. ASSUME ChildExits \/ Shutdown \/ JoinTransitions \/ JoinCutShort \/ Sweep \/ Exited
        PROVE  ObservedInv'
    <3>1. UNCHANGED <<children, task, admission, closed>> /\ running' \subseteq running
      BY <2>3 DEF ChildExits, Shutdown, JoinTransitions, JoinCutShort, Sweep, Exited, vars, gates
    <3> QED
      BY <2>0, <3>1, QuietKeepsObserved
  <2> QED
    BY <2>0, <2>1, <2>2, <2>3 DEF Next
<1>2. ASSUME UNCHANGED observedVars PROVE ObservedInv'
  <2>1. UNCHANGED <<children, running, admission, closed, task, observer, ready>>
    BY <1>2 DEF observedVars, vars
  <2> QED
    BY <2>1 DEF ObservedInv, ObserverTyped, ReadyInv, ProbeInv, Shown, Own, At
<1> QED
  BY <1>1, <1>2, ObserverKeepsObserved DEF ObservedNext

LEMMA InitObservedInv == ObservedInit => ObservedInv
<1> SUFFICES ASSUME ObservedInit PROVE ObservedInv
  OBVIOUS
<1>1. ObserverTyped
  BY DEF ObservedInit, Resting, ObserverTyped
<1>2. \A i \in Ids : children[i] \in running => children[i].by = Boot
  <2>1. \A i \in Ids : children[i] # None => children[i].by = Boot
    BY DEF ObservedInit, Init, StartDeployments
  <2>2. None \notin running
    BY DEF ObservedInit, Init, StartDeployments
  <2> QED
    BY <2>1, <2>2
<1>3. ReadyInv
  BY <1>2 DEF ReadyInv
<1>4. ProbeInv
  BY DEF ObservedInit, Resting, ProbeInv
<1> QED
  BY <1>1, <1>3, <1>4 DEF ObservedInv

(* A deployment reported healthy is served by a child that has answered a   *)
(* health probe itself and was started from the record the report shows,    *)
(* whatever was replaced, removed or has failed since the observation       *)
(* began.                                                                   *)
THEOREM HealthyReportsAreTrue == ObservedSpec => []HealthyReportIsTrue
<1>1. ObservedInit => Init /\ ObservedInv
  BY InitObservedInv DEF ObservedInit
<1>2. [ObservedNext]_observedVars => [Next]_vars
  <2>1. AgentStep => Next
    BY DEF AgentStep
  <2>2. ObserverStep => UNCHANGED vars
    BY DEF ObserverStep, Observe, Measure, Conclude, ProbeBegins, ProbeAnswers, ProbeFails
  <2>3. UNCHANGED observedVars => UNCHANGED vars
    BY DEF observedVars
  <2> QED
    BY <2>1, <2>2, <2>3 DEF ObservedNext
<1>3. ObservedSpec => Spec
  BY <1>1, <1>2, PTL DEF ObservedSpec, Spec
<1>4. IInv /\ DrainInv /\ IInv' /\ ObservedInv /\ [ObservedNext]_observedVars => ObservedInv'
  BY NextKeepsObservedInv
<1>5. IInv /\ ObservedInv => HealthyReportIsTrue
  <2>1. SUFFICES ASSUME IInv, ObservedInv, NEW i \in Ids, Reported(i), StatusOf(i) = "healthy"
                 PROVE  children[i] \in ready /\ children[i].rec = observer.snapshot[i]
    BY DEF HealthyReportIsTrue
  <2>2. children[i] \in running /\ observer.healthy[i] = "yes" /\ admission[i] \notin closed
    BY <2>1 DEF StatusOf
  <2>3. children[i] # None
    BY <2>1, <2>2, NoneIsNothing DEF IInv, Typed, TypeOK
  <2>4. children[i].rec = observer.snapshot[i]
    BY <2>1, <2>2, <2>3 DEF IInv, GateInv, OpenGateServesTheRecord, Reported
  <2>5. children[i] \in ready
    BY <2>1, <2>2 DEF ObservedInv, ReadyInv, ProbeInv, Shown
  <2> QED
    BY <2>4, <2>5
<1> QED
  BY <1>1, <1>3, <1>4, <1>5, DrainsHold, PTL DEF ObservedSpec
=============================================================================
