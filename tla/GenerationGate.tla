--------------------------- MODULE GenerationGate ---------------------------
(***************************************************************************)
(* The appliance's request gate (lazarus/appliance/api.py): the admission  *)
(* of requests to the slots of each role, the throttle of embeddings under *)
(* generation pressure, and the control calls that quiesce and resume      *)
(* generation, above any engine backend.                                   *)
(*                                                                         *)
(* One event loop runs all of it, so a step is what happens between two    *)
(* awaits.  The slots are an asyncio.Semaphore, whose waiters are woken in *)
(* order and hold their slot from then on, before they run again.          *)
(***************************************************************************)
EXTENDS Naturals, Sequences, FiniteSets

CONSTANTS
  Generations,  \* the requests of the generation role
  Embeddings,   \* and of the embedding role
  Controls,     \* calls of quiesce or resume
  GenerationSlots, EmbeddingSlots,  \* max_concurrent_requests of each role
  Threshold,    \* throttle_when_generation_queue_above
  None

Requests == Generations \cup Embeddings
Roles == {"generation", "embedding"}

ASSUME GateAssumption ==
  /\ Generations \cap Embeddings = {} /\ None \notin Controls
  /\ IsFiniteSet(Generations) /\ IsFiniteSet(Embeddings)
  /\ {GenerationSlots, EmbeddingSlots} \subseteq Nat \ {0} /\ Threshold \in Nat

VARIABLES
  phase,     \* what each request is doing
  free,      \* the value of each role's semaphore
  line,      \* the waiters of each role's semaphore
  waiting,   \* Admission._generation_waiting
  active,    \* Admission._generation_active
  idle,      \* Admission._generation_idle is set
  paused,    \* backend.generation_paused
  proven,    \* the runtime is healthy and so is this role
  engine,    \* whether the generation engine runs or is paused
  holder,    \* the control call that holds generation_control
  control,   \* what each control call is doing
  quiesced   \* the last acknowledgement given was a quiesce's

requestVars == <<phase, free, line, waiting, active, idle>>
controlVars == <<paused, proven, engine, holder, control, quiesced>>
vars == <<requestVars, controlVars>>

Slots(role) == IF role = "generation" THEN GenerationSlots ELSE EmbeddingSlots

Role(r) == IF r \in Generations THEN "generation" ELSE "embedding"

\* "queued" and "woken" wait in the semaphore; "held" has its slot and is
\* between taking it and being sent; "inside" is at the engine.
Phases == {"new", "queued", "woken", "held", "inside", "done"}

\* "draining" waits for the admitted responses; "asked" for the engine.
Steps == {"new", "draining", "drained", "asked", "done"}
Operations == {"quiesce", "resume"}

Init ==
  /\ phase = [r \in Requests |-> "new"]
  /\ free = [role \in Roles |-> Slots(role)] /\ line = [role \in Roles |-> <<>>]
  /\ waiting = 0 /\ active = 0 /\ idle = TRUE
  /\ paused = FALSE /\ proven = [role \in Roles |-> TRUE] /\ engine = "running"
  /\ holder = None /\ quiesced = FALSE
  /\ control = [c \in Controls |-> [step |-> "new", op |-> "resume"]]

-----------------------------------------------------------------------------
(* The slots.  A role's waiters that are woken already have their slot.     *)

IsReady(role) == proven[role] /\ (role = "generation" => ~paused)

\* The line once r, who is in it, has left it (deque.remove).
Without(waiters, r) ==
  LET i == CHOOSE i \in DOMAIN waiters : waiters[i] = r
  IN  SubSeq(waiters, 1, i - 1) \o SubSeq(waiters, i + 1, Len(waiters))

Asleep(role, ph) == {i \in DOMAIN line[role] : ph[line[role][i]] = "queued"}

\* The semaphore's value is now slots: if any, the first waiter asleep is
\* woken with one.
Wake(role, ph, slots) ==
  IF slots = 0 \/ Asleep(role, ph) = {}
  THEN phase' = ph /\ free' = [free EXCEPT ![role] = slots]
  ELSE /\ \E i \in Asleep(role, ph) :
            /\ \A j \in Asleep(role, ph) : i <= j
            /\ phase' = [ph EXCEPT ![line[role][i]] = "woken"]
       /\ free' = [free EXCEPT ![role] = slots - 1]

\* Mutant of GiveBackSlot: a slot that comes back wakes nobody.
GiveBackSilently(role, ph) ==
  /\ phase' = ph /\ free' = [free EXCEPT ![role] = @ + 1]

\* A slot of the role comes back.
GiveBackSlot(role, ph) == Wake(role, ph, free[role] + 1)

\* Mutant of Leaving: the wait for idle is told of every departure.
LeavingEach(r) ==
  /\ IF Role(r) = "generation"
     THEN /\ active' = active - 1 /\ idle' = TRUE
          /\ control' = [c \in Controls |->
               IF control[c].step = "draining"
               THEN [control[c] EXCEPT !.step = "drained"] ELSE control[c]]
     ELSE UNCHANGED <<active, idle, control>>
  /\ GiveBackSlot(Role(r), [phase EXCEPT ![r] = "done"])
  /\ UNCHANGED <<line, waiting, paused, proven, engine, holder, quiesced>>

(* The request's slot is closed.  The last generation request to go sets    *)
(* the event, and whoever waits for it has been woken whatever comes next.  *)
Leaving(r) ==
  /\ IF Role(r) = "generation"
     THEN /\ active' = active - 1 /\ idle' = (active = 1)
          /\ control' = [c \in Controls |->
               IF active = 1 /\ control[c].step = "draining"
               THEN [control[c] EXCEPT !.step = "drained"] ELSE control[c]]
     ELSE UNCHANGED <<active, idle, control>>
  /\ GiveBackSlot(Role(r), [phase EXCEPT ![r] = "done"])
  /\ UNCHANGED <<line, waiting, paused, proven, engine, holder, quiesced>>

\* The slot is held: a generation request counts as active.
Holding(r) ==
  IF Role(r) = "generation" THEN active' = active + 1 /\ idle' = FALSE
                            ELSE UNCHANGED <<active, idle>>

-----------------------------------------------------------------------------
(* Requests. *)

Throttled(r) == Role(r) = "embedding" /\ waiting > Threshold

\* The role is not ready, or an embedding is throttled.
Refuse(r) ==
  /\ phase[r] = "new" /\ (~IsReady(Role(r)) \/ Throttled(r))
  /\ phase' = [phase EXCEPT ![r] = "done"]
  /\ UNCHANGED <<free, line, waiting, active, idle, controlVars>>

\* A free slot nobody waits for is taken at once.
Take(r) ==
  /\ phase[r] = "new" /\ IsReady(Role(r)) /\ ~Throttled(r)
  /\ free[Role(r)] > 0 /\ line[Role(r)] = <<>>
  /\ phase' = [phase EXCEPT ![r] = "held"]
  /\ free' = [free EXCEPT ![Role(r)] = @ - 1]
  /\ Holding(r)
  /\ UNCHANGED <<line, waiting, controlVars>>

Queue(r) ==
  /\ phase[r] = "new" /\ IsReady(Role(r)) /\ ~Throttled(r)
  /\ free[Role(r)] = 0 \/ line[Role(r)] # <<>>
  /\ phase' = [phase EXCEPT ![r] = "queued"]
  /\ line' = [line EXCEPT ![Role(r)] = Append(@, r)]
  /\ waiting' = IF Role(r) = "generation" THEN waiting + 1 ELSE waiting
  /\ UNCHANGED <<free, active, idle, controlVars>>

Unwaiting(r) ==
  /\ line' = [line EXCEPT ![Role(r)] = Without(@, r)]
  /\ waiting' = IF Role(r) = "generation" THEN waiting - 1 ELSE waiting

\* A woken request runs again, with its slot; one who came while it was not
\* running may have queued behind it in spite of a free slot.
Acquire(r) ==
  /\ phase[r] = "woken"
  /\ Wake(Role(r), [phase EXCEPT ![r] = "held"], free[Role(r)])
  /\ Unwaiting(r) /\ Holding(r)
  /\ UNCHANGED controlVars

\* Mutant of CancelWaiting: only a request that had its slot stops waiting.
CancelUncounted(r) ==
  /\ phase[r] \in {"queued", "woken"}
  /\ line' = [line EXCEPT ![Role(r)] = Without(@, r)]
  /\ IF phase[r] = "woken" THEN GiveBackSlot(Role(r), [phase EXCEPT ![r] = "done"])
     ELSE phase' = [phase EXCEPT ![r] = "done"] /\ UNCHANGED free
  /\ UNCHANGED <<waiting, active, idle, controlVars>>

\* A waiting request is cancelled; one already woken passes its slot on.
CancelWaiting(r) ==
  /\ phase[r] \in {"queued", "woken"}
  /\ Unwaiting(r)
  /\ IF phase[r] = "woken" THEN GiveBackSlot(Role(r), [phase EXCEPT ![r] = "done"])
     ELSE phase' = [phase EXCEPT ![r] = "done"] /\ UNCHANGED free
  /\ UNCHANGED <<active, idle, controlVars>>

\* Mutant of Forward: what was ready when the request queued is not rechecked.
ForwardUnchecked(r) ==
  /\ phase[r] = "held"
  /\ phase' = [phase EXCEPT ![r] = "inside"]
  /\ UNCHANGED <<free, line, waiting, active, idle, controlVars>>

(* The observations are refreshed, which may take an await, and the role is *)
(* still ready: the request goes to the engine.                             *)
Forward(r) ==
  /\ phase[r] = "held" /\ IsReady(Role(r))
  /\ phase' = [phase EXCEPT ![r] = "inside"]
  /\ UNCHANGED <<free, line, waiting, active, idle, controlVars>>

\* No longer ready, an exception of the refresh, or a cancellation.
TurnAway(r) == phase[r] = "held" /\ Leaving(r)

\* The response ended, failed, or lost its client.
Leave(r) == phase[r] = "inside" /\ Leaving(r)

-----------------------------------------------------------------------------
(* The control calls; generation_control lets one run at a time. *)

Ask(c, step) == control' = [control EXCEPT ![c].step = step]

\* Mutant of GivesUp: a failed call keeps generation_control.
GivesUpHeld(c) ==
  /\ paused' = TRUE /\ Ask(c, "done")
  /\ UNCHANGED <<requestVars, proven, quiesced, holder>>

\* The call is over without an acknowledgement: the gate stays closed.
GivesUp(c) ==
  /\ paused' = TRUE /\ holder' = None /\ Ask(c, "done")
  /\ UNCHANGED <<requestVars, proven, quiesced>>

\* Publishing the manifest failed, at once.
BeginFails(c) ==
  /\ control[c].step = "new" /\ holder = None
  /\ GivesUp(c) /\ UNCHANGED engine

\* The gate closes first; a quiesce then waits until nobody is active.
Begin(c, op) ==
  /\ control[c].step = "new" /\ holder = None
  /\ holder' = c /\ paused' = TRUE
  /\ control' = [control EXCEPT ![c] =
       [op |-> op, step |-> IF op = "resume" THEN "asked"
                            ELSE IF idle THEN "drained" ELSE "draining"]]
  /\ UNCHANGED <<requestVars, proven, engine, quiesced>>

\* The wait for idle is over, and the backend is asked to quiesce.
Drained(c) ==
  /\ control[c].step = "drained"
  /\ Ask(c, "asked") /\ paused' = TRUE
  /\ UNCHANGED <<requestVars, proven, engine, holder, quiesced>>

\* The 600 seconds are over, or the call is cancelled.
DrainFails(c) ==
  /\ control[c].step \in {"draining", "drained"}
  /\ GivesUp(c) /\ UNCHANGED engine

\* The backend's quiesce or resume fails or is cancelled, maybe after the
\* engine did what it was asked; or publishing the manifest fails.
Unacknowledged(c) ==
  /\ control[c].step = "asked"
  /\ engine' \in {engine, IF control[c].op = "quiesce" THEN "paused" ELSE "running"}
  /\ GivesUp(c)

\* The engine acknowledged its pause, and the gate is still closed.
QuiesceAcknowledged(c) ==
  /\ control[c].step = "asked" /\ control[c].op = "quiesce" /\ paused
  /\ engine' = "paused" /\ quiesced' = TRUE
  /\ holder' = None /\ Ask(c, "done")
  /\ UNCHANGED <<requestVars, paused, proven>>

\* The engine acknowledged that it runs: the backend opens the gate.
ResumeAcknowledged(c) ==
  /\ control[c].step = "asked" /\ control[c].op = "resume"
  /\ engine' = "running" /\ paused' = FALSE /\ quiesced' = FALSE
  /\ holder' = None /\ Ask(c, "done")
  /\ UNCHANGED <<requestVars, proven>>

-----------------------------------------------------------------------------
(* What the backend does of itself. *)

\* Its engine failed: the gate closes and the role is unhealthy.
BackendCloses ==
  /\ paused' = TRUE /\ proven' = [proven EXCEPT !["generation"] = FALSE]
  /\ UNCHANGED <<requestVars, engine, holder, control, quiesced>>

\* A role is found healthy, or no longer.
RoleObserved(role) ==
  /\ proven' = [proven EXCEPT ![role] = ~@]
  /\ UNCHANGED <<requestVars, paused, engine, holder, control, quiesced>>

-----------------------------------------------------------------------------
Step(r) ==
  \/ Refuse(r) \/ Take(r) \/ Queue(r) \/ Acquire(r) \/ CancelWaiting(r)
  \/ Forward(r) \/ TurnAway(r) \/ Leave(r)

Control(c) ==
  \/ BeginFails(c) \/ \E op \in Operations : Begin(c, op)
  \/ Drained(c) \/ DrainFails(c) \/ Unacknowledged(c)
  \/ QuiesceAcknowledged(c) \/ ResumeAcknowledged(c)

Next ==
  \/ \E r \in Requests : Step(r)
  \/ \E c \in Controls : Control(c)
  \/ BackendCloses \/ \E role \in Roles : RoleObserved(role)

Spec == Init /\ [][Next]_vars

(* A woken request runs, an admitted one is answered or lost, and a control *)
(* call that was begun goes on: the event loop, the engine, and the 600     *)
(* seconds of the drain see to it.                                          *)
FairSpec ==
  /\ Spec
  /\ \A r \in Requests : WF_vars(Acquire(r)) /\ WF_vars(TurnAway(r) \/ Forward(r))
                          /\ WF_vars(Leave(r))
  /\ \A c \in Controls : WF_vars(DrainFails(c) \/ Drained(c))
                          /\ WF_vars(Unacknowledged(c) \/ QuiesceAcknowledged(c)
                                     \/ ResumeAcknowledged(c))

-----------------------------------------------------------------------------
(* The gate's state stays within its types. *)
TypeOK ==
  /\ phase \in [Requests -> Phases]
  /\ free \in [Roles -> Nat] /\ line \in [Roles -> Seq(Requests)]
  /\ waiting \in Nat /\ active \in Nat /\ idle \in BOOLEAN
  /\ paused \in BOOLEAN /\ proven \in [Roles -> BOOLEAN]
  /\ engine \in {"running", "paused"}
  /\ holder \in Controls \cup {None} /\ quiesced \in BOOLEAN
  /\ control \in [Controls -> [step : Steps, op : Operations]]

InPhase(ph, set) == {r \in set : phase[r] \in ph}

(* The throttle and the drain read exact counts: the generation requests    *)
(* that wait for a slot, and those that hold one, through every             *)
(* cancellation; and the event says that nobody holds one.                  *)
CountsAreExact ==
  /\ waiting = Cardinality(InPhase({"queued", "woken"}, Generations))
  /\ active = Cardinality(InPhase({"held", "inside"}, Generations))
  /\ idle <=> active = 0

(* No slot is lost or given twice: those free and those held, by requests   *)
(* that run or that were woken with one, are max_concurrent_requests, and   *)
(* none stays free while a request waits asleep and nobody is about to run  *)
(* who will wake it.                                                        *)
SlotsAreConserved ==
  \A role \in Roles :
    LET mine == {r \in Requests : Role(r) = role}
    IN  /\ free[role] + Cardinality(InPhase({"woken", "held", "inside"}, mine)) = Slots(role)
        /\ free[role] > 0 /\ InPhase({"queued"}, mine) # {} => InPhase({"woken"}, mine) # {}

(* Once a quiesce is acknowledged, and until a resume is, the gate is       *)
(* closed and no generation request is at the engine.                       *)
QuiescedStaysIdle ==
  quiesced => paused /\ InPhase({"inside"}, Generations) = {}

(* The gate is open only on an engine that was last told to run: neither a  *)
(* lost reply, a failed publication nor a cancelled call leaves requests    *)
(* going to a paused engine.                                                *)
OpenGateHasRunningEngine == ~paused => engine = "running"

-----------------------------------------------------------------------------
(* The inductive invariant behind these. *)

Waiters == {"queued", "woken"}

\* Each role's line holds exactly its requests that wait, each once.
LinesAgree ==
  /\ \A role \in Roles : \A i \in DOMAIN line[role] :
       Role(line[role][i]) = role /\ phase[line[role][i]] \in Waiters
  /\ \A role \in Roles : \A i, j \in DOMAIN line[role] :
       line[role][i] = line[role][j] => i = j
  /\ \A r \in Requests :
       phase[r] \in Waiters => \E i \in DOMAIN line[Role(r)] : line[Role(r)][i] = r

\* A control call past its beginning holds generation_control and finds the
\* gate closed; once its quiesce is past the drain, nobody is at the engine.
ControlsAgree ==
  \A c \in Controls :
    /\ control[c].step \in {"draining", "drained", "asked"} <=> holder = c
    /\ holder = c => paused
    /\ control[c].step = "drained" \/ (control[c].step = "asked" /\ control[c].op = "quiesce")
         => InPhase({"inside"}, Generations) = {}

SlotInv == LinesAgree /\ CountsAreExact /\ SlotsAreConserved
ControlInv == ControlsAgree /\ QuiescedStaysIdle /\ OpenGateHasRunningEngine

(* The whole inductive invariant of the gate.                               *)
IInv == TypeOK /\ SlotInv /\ ControlInv

-----------------------------------------------------------------------------
\* The requests sent to the engine and the gate, behind the machinery.
Gate == INSTANCE Ingress WITH
  Requests <- Generations,
  gate <- IF paused THEN "closed" ELSE "open",
  inside <- InPhase({"inside"}, Generations)

(* The admission, its semaphores and the control calls implement Ingress.   *)
ImplementsIngress == Gate!IngressSpec

(* Every request that waits for a slot gets one or goes away: no departure  *)
(* or cancellation loses the wake-up of the next.                           *)
QueuedAreServed ==
  \A r \in Requests : phase[r] = "queued" ~> phase[r] # "queued"

(* A control call that was begun ends, though requests stay and come.       *)
ControlsEnd ==
  \A c \in Controls : holder = c ~> holder # c
=============================================================================
