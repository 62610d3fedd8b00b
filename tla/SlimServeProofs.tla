-------------------------- MODULE SlimServeProofs ---------------------------
(***************************************************************************)
(* The safety properties of SlimServe, for any calls and process groups.   *)
(***************************************************************************)
EXTENDS SlimServe, TLAPS

-----------------------------------------------------------------------------
(* The inductive invariant. *)

\* A control call closes the gate and is the only one.  While it is under way
\* nobody opens the gate, which alone makes its acknowledgement last.
ControlInv ==
  /\ \A c \in Callers : call[c].at = "ask" => call[c].op \in Controls
  /\ \A c \in Callers : Controlled(c) => paused
  /\ \A c, d \in Callers : Controlled(c) /\ Controlled(d) => c = d

\* Behind an open gate the scheduler runs; a healthy engine is watched, whether
\* the gate is open or not.
ServedInv ==
  /\ ~paused => engine = "running"
  /\ info = "healthy" => monitor = "watching"

\* Every group that is not gone is one of those whose handles are kept.
AllKnown == \A g \in Groups : Alive(g) => g \in {process, check}

\* Where a call is about to spawn, or has spawned its check.
HandlesAt(c) ==
  /\ call[c].at \in {"spawn check", "spawn"} =>
       check = None /\ withdrawn = "no" /\ (~orphaned => AllKnown)
  /\ call[c].at \in {"check", "checked", "unchecked"} => check # None
  /\ call[c].at = "spawn" => process = None
  /\ At(c, "start", "spawn check") \/ At(c, "start", "check") \/ At(c, "start", "checked")
       => process = None

\* A handle that is kept fences the lifetime, and one is lost only where none is.
LifetimeInv ==
  /\ \A c \in Callers : HandlesAt(c)
  /\ Owned # {} => withdrawn = "no"
  /\ ~orphaned /\ (Owned # {} \/ withdrawn # "no") => AllKnown

IInv == TypeOK /\ ControlInv /\ ServedInv /\ LifetimeInv /\ QuiescedStaysClosed

-----------------------------------------------------------------------------
(* Proofs *)

(* What a step of a call does to the calls.                                  *)
LEMMA GoesEffect ==
  ASSUME TypeOK, NEW c \in Callers, NEW await \in Awaits, Goes(c, await)
  PROVE  /\ call' \in [Callers -> [op : Operations, at : Awaits]]
         /\ call'[c].at = await /\ call'[c].op = call[c].op
         /\ \A d \in Callers \ {c} : call'[d] = call[d]
  BY DEF TypeOK, Goes

(* While a call has the lock, or takes it, no other call is past it.         *)
LEMMA OthersWait ==
  ASSUME TypeOK, NEW c \in Callers, NEW await \in Awaits, Goes(c, await),
         lock \in {c, None}
  PROVE  \A d \in Callers \ {c} : HandlesAt(d)'
<1>1. \A d \in Callers \ {c} : call'[d] = call[d] /\ call[d].at \in {"new", "lock", "done"}
  BY GoesEffect, SlimServeAssumption DEF TypeOK
<1> QED BY <1>1 DEF HandlesAt, At

(* What stops and exits leave of the groups: they never start one.           *)
LEMMA StoppedEffect ==
  ASSUME TypeOK, NEW gs, Stopped(gs)
  PROVE  /\ group' \in [Groups -> {"unborn", "running", "leaderless", "gone"}]
         /\ \A g \in Groups : Alive(g)' => Alive(g) /\ g \notin gs
  BY DEF TypeOK, Stopped, Alive

LEMMA MayStopEffect ==
  ASSUME TypeOK, NEW gs, MayStop(gs)
  PROVE  /\ group' \in [Groups -> {"unborn", "running", "leaderless", "gone"}]
         /\ \A g \in Groups : Alive(g)' => Alive(g)
<1>1. PICK gone \in SUBSET gs, leaderless \in SUBSET gs :
        group' = [g \in Groups |->
          IF g \in gone THEN "gone"
          ELSE IF g \in leaderless /\ group[g] = "running" THEN "leaderless" ELSE group[g]]
  BY DEF MayStop
<1> QED BY <1>1 DEF TypeOK, Alive

(* A spawn whose handle is lost.                                             *)
LEMMA OrphanEffect ==
  ASSUME TypeOK, Orphan
  PROVE  group' \in [Groups -> {"unborn", "running", "leaderless", "gone"}]
  BY DEF TypeOK, Orphan

(* A call that goes on is no less under control than it was.                 *)
LEMMA ControlGoesOn ==
  ASSUME TypeOK, ControlInv, NEW c \in Callers, NEW await \in Awaits, Goes(c, await),
         call[c].at \notin {"new", "done"}, await # "ask", paused => paused'
  PROVE  ControlInv'
<1>1. \A d \in Callers : Controlled(d)' => Controlled(d)
  BY GoesEffect DEF Controlled
<1>2. \A d \in Callers : call'[d].at = "ask" => call'[d].op \in Controls
  BY GoesEffect DEF ControlInv
<1> QED BY <1>1, <1>2 DEF ControlInv

(* The types, in two parts: the calls and the lock, and the rest.            *)
Unlocked == {"new", "lock", "done"}

CallsTyped ==
  /\ call \in [Callers -> [op : Operations, at : Awaits]]
  /\ lock \in Callers \cup {Monitor, None}
  /\ \A c \in Callers : lock = c <=> call[c].at \notin Unlocked

RestTyped ==
  /\ {paused, cleanup, client, configured, validated, quiesced, orphaned} \subseteq BOOLEAN
  /\ {process, check} \subseteq Groups \cup {None}
  /\ withdrawn \in {"unset", "yes", "no"}
  /\ monitor \in {"none", "watching", "failing", "dead"}
  /\ info \in {"disabled", "loading", "healthy", "unhealthy"}
  /\ group \in [Groups -> {"unborn", "running", "leaderless", "gone"}]
  /\ engine \in {"running", "paused"}

LEMMA TypeParts ==
  /\ TypeOK <=> CallsTyped /\ RestTyped
  /\ TypeOK' <=> CallsTyped' /\ RestTyped'
  BY DEF TypeOK, CallsTyped, RestTyped, Unlocked

(* A call takes the lock when it passes it, keeps it, and gives it back.     *)
LEMMA GoesTyped ==
  ASSUME TypeOK, NEW c \in Callers, NEW await \in Awaits, Goes(c, await),
         lock = None \/ call[c].at \notin Unlocked,
         \/ lock' = IF await \in Unlocked THEN None ELSE c
         \/ lock' = lock /\ lock # None /\ await \notin Unlocked
  PROVE  CallsTyped'
<1>1. /\ call' \in [Callers -> [op : Operations, at : Awaits]]
      /\ call'[c].at = await /\ \A d \in Callers \ {c} : call'[d] = call[d]
  BY GoesEffect
<1>2. /\ lock \in {c, None} /\ \A d \in Callers \ {c} : call[d].at \in Unlocked
      /\ lock' = IF await \in Unlocked THEN None ELSE c
  BY SlimServeAssumption DEF TypeOK, Unlocked
<1> QED BY <1>1, <1>2, SlimServeAssumption DEF CallsTyped

(* Types, and who holds the lock.                                            *)
LEMMA TypesKept == IInv /\ Next => TypeOK'
<1> SUFFICES ASSUME IInv, Next PROVE TypeOK'
  OBVIOUS
<1>0. TypeOK /\ RestTyped
  BY TypeParts DEF IInv
<1> USE SlimServeAssumption DEF Awaits, backendVars
<1>1. ASSUME NEW c \in Callers, NEW op \in Offered, Call(c, op) PROVE TypeOK'
  BY <1>0, <1>1 DEF Call, TypeOK, Operations
<1>2. ASSUME NEW c \in Callers, CancelWaiting(c) PROVE TypeOK'
  BY <1>0, <1>2 DEF CancelWaiting, Goes, TypeOK
<1>3. ASSUME NEW c \in Callers, ValidateRefused(c) PROVE TypeOK'
  <2>1. CallsTyped'
    BY <1>0, <1>3, GoesTyped DEF ValidateRefused, Refused, At, Unlocked
  <2>2. RestTyped'
    BY <1>0, <1>3 DEF ValidateRefused, Refused, At, RestTyped
  <2> QED BY <2>1, <2>2, TypeParts
<1>4. ASSUME NEW c \in Callers, Validate(c) PROVE TypeOK'
  <2>1. CallsTyped'
    BY <1>0, <1>4, GoesTyped DEF Validate, BeginCheck, At, Unlocked
  <2>2. RestTyped'
    BY <1>0, <1>4 DEF Validate, BeginCheck, At, RestTyped
  <2> QED BY <2>1, <2>2, TypeParts
<1>5. ASSUME NEW c \in Callers, CheckSpawned(c) PROVE TypeOK'
  <2>0. lock # None
    BY <1>0, <1>5 DEF CheckSpawned, TypeOK
  <2>1. CallsTyped'
    BY <1>0, <2>0, <1>5, GoesTyped DEF CheckSpawned, Unlocked
  <2>2. RestTyped'
    BY <1>0, <1>5 DEF CheckSpawned, RestTyped
  <2> QED BY <2>1, <2>2, TypeParts
<1>6. ASSUME NEW c \in Callers, CheckNotSpawned(c) PROVE TypeOK'
  <2>1. CallsTyped'
    BY <1>0, <1>6, GoesTyped DEF CheckNotSpawned, Over, Unlocked
  <2>2. RestTyped'
    BY <1>0, <1>6 DEF CheckNotSpawned, Over, RestTyped
  <2> QED BY <2>1, <2>2, TypeParts
<1>7. ASSUME NEW c \in Callers, CheckSpawnCancelled(c) PROVE TypeOK'
  <2>1. CallsTyped'
    BY <1>0, <1>7, GoesTyped DEF CheckSpawnCancelled, Over, Unlocked
  <2>2. RestTyped'
    BY <1>0, <1>7, OrphanEffect DEF CheckSpawnCancelled, Over, RestTyped
  <2> QED BY <2>1, <2>2, TypeParts
<1>8. ASSUME NEW c \in Callers, CheckAnswers(c) PROVE TypeOK'
  <2>0. lock # None
    BY <1>0, <1>8 DEF CheckAnswers, TypeOK
  <2>1. CallsTyped'
    BY <1>0, <2>0, <1>8, GoesTyped DEF CheckAnswers, Unlocked
  <2>2. RestTyped'
    BY <1>0, <1>8 DEF CheckAnswers, RestTyped
  <2> QED BY <2>1, <2>2, TypeParts
<1>9. ASSUME NEW c \in Callers, CheckStopped(c) PROVE TypeOK'
  <2>1. CallsTyped'
    BY <1>0, <1>9, GoesTyped DEF CheckStopped, BeginSpawn, Over, Unlocked
  <2>2. RestTyped'
    BY <1>0, <1>9, StoppedEffect DEF CheckStopped, BeginSpawn, Over, RestTyped
  <2> QED BY <2>1, <2>2, TypeParts
<1>10. ASSUME NEW c \in Callers, CheckStopFails(c) PROVE TypeOK'
  <2>1. CallsTyped'
    BY <1>0, <1>10, GoesTyped DEF CheckStopFails, Over, Unlocked
  <2>2. RestTyped'
    BY <1>0, <1>10, MayStopEffect DEF CheckStopFails, Over, RestTyped
  <2> QED BY <2>1, <2>2, TypeParts
<1>11. ASSUME NEW c \in Callers, StartRefused(c) PROVE TypeOK'
  <2>1. CallsTyped'
    BY <1>0, <1>11, GoesTyped DEF StartRefused, Refused, At, Unlocked
  <2>2. RestTyped'
    BY <1>0, <1>11 DEF StartRefused, Refused, At, RestTyped
  <2> QED BY <2>1, <2>2, TypeParts
<1>12. ASSUME NEW c \in Callers, StartChecks(c) PROVE TypeOK'
  <2>1. CallsTyped'
    BY <1>0, <1>12, GoesTyped DEF StartChecks, BeginCheck, At, Unlocked
  <2>2. RestTyped'
    BY <1>0, <1>12 DEF StartChecks, BeginCheck, At, RestTyped
  <2> QED BY <2>1, <2>2, TypeParts
<1>13. ASSUME NEW c \in Callers, StartValidated(c) PROVE TypeOK'
  <2>1. CallsTyped'
    BY <1>0, <1>13, GoesTyped DEF StartValidated, BeginSpawn, At, Unlocked
  <2>2. RestTyped'
    BY <1>0, <1>13 DEF StartValidated, BeginSpawn, At, RestTyped
  <2> QED BY <2>1, <2>2, TypeParts
<1>14. ASSUME NEW c \in Callers, Spawned(c) PROVE TypeOK'
  <2>0. lock # None
    BY <1>0, <1>14 DEF Spawned, TypeOK
  <2>1. CallsTyped'
    BY <1>0, <2>0, <1>14, GoesTyped DEF Spawned, Unlocked
  <2>2. RestTyped'
    BY <1>0, <1>14 DEF Spawned, RestTyped
  <2> QED BY <2>1, <2>2, TypeParts
<1>15. ASSUME NEW c \in Callers, SpawnFails(c) PROVE TypeOK'
  <2>0. lock # None
    BY <1>0, <1>15 DEF SpawnFails, TypeOK
  <2>1. CallsTyped'
    BY <1>0, <2>0, <1>15, GoesTyped DEF SpawnFails, BeginStop, Unlocked
  <2>2. RestTyped'
    BY <1>0, <1>15, OrphanEffect DEF SpawnFails, BeginStop, RestTyped
  <2> QED BY <2>1, <2>2, TypeParts
<1>16. ASSUME NEW c \in Callers, Loaded(c) PROVE TypeOK'
  <2>1. CallsTyped'
    BY <1>0, <1>16, GoesTyped DEF Loaded, Over, Unlocked
  <2>2. RestTyped'
    BY <1>0, <1>16 DEF Loaded, Over, RestTyped
  <2> QED BY <2>1, <2>2, TypeParts
<1>17. ASSUME NEW c \in Callers, LoadFails(c) PROVE TypeOK'
  <2>0. lock # None
    BY <1>0, <1>17 DEF LoadFails, TypeOK
  <2>1. CallsTyped'
    BY <1>0, <2>0, <1>17, GoesTyped DEF LoadFails, BeginStop, Unlocked
  <2>2. RestTyped'
    BY <1>0, <1>17 DEF LoadFails, BeginStop, RestTyped
  <2> QED BY <2>1, <2>2, TypeParts
<1>18. ASSUME NEW c \in Callers, Unwound(c) PROVE TypeOK'
  <2>1. CallsTyped'
    BY <1>0, <1>18, GoesTyped DEF Unwound, Over, StopEnds, Unlocked
  <2>2. RestTyped'
    BY <1>0, <1>18, StoppedEffect DEF Unwound, Over, StopEnds, RestTyped
  <2> QED BY <2>1, <2>2, TypeParts
<1>19. ASSUME NEW c \in Callers, UnwindFails(c) PROVE TypeOK'
  <2>1. CallsTyped'
    BY <1>0, <1>19, GoesTyped DEF UnwindFails, Over, StopFails, Unlocked
  <2>2. RestTyped'
    BY <1>0, <1>19, MayStopEffect DEF UnwindFails, Over, StopFails, RestTyped
  <2> QED BY <2>1, <2>2, TypeParts
<1>20. ASSUME NEW c \in Callers, Shutdown(c) PROVE TypeOK'
  <2>1. CallsTyped'
    BY <1>0, <1>20, GoesTyped DEF Shutdown, BeginStop, At, Unlocked
  <2>2. RestTyped'
    BY <1>0, <1>20 DEF Shutdown, BeginStop, At, RestTyped
  <2> QED BY <2>1, <2>2, TypeParts
<1>21. ASSUME NEW c \in Callers, ShutdownEnds(c) PROVE TypeOK'
  <2>1. CallsTyped'
    BY <1>0, <1>21, GoesTyped DEF ShutdownEnds, Over, StopEnds, Unlocked
  <2>2. RestTyped'
    BY <1>0, <1>21, StoppedEffect DEF ShutdownEnds, Over, StopEnds, RestTyped
  <2> QED BY <2>1, <2>2, TypeParts
<1>22. ASSUME NEW c \in Callers, ShutdownFails(c) PROVE TypeOK'
  <2>1. CallsTyped'
    BY <1>0, <1>22, GoesTyped DEF ShutdownFails, Over, StopFails, Unlocked
  <2>2. RestTyped'
    BY <1>0, <1>22, MayStopEffect DEF ShutdownFails, Over, StopFails, RestTyped
  <2> QED BY <2>1, <2>2, TypeParts
<1>23. ASSUME NEW c \in Callers, QuiesceAbsent(c) PROVE TypeOK'
  <2>1. CallsTyped'
    BY <1>0, <1>23, GoesTyped DEF QuiesceAbsent, At, Unlocked
  <2>2. RestTyped'
    BY <1>0, <1>23 DEF QuiesceAbsent, At, RestTyped
  <2> QED BY <2>1, <2>2, TypeParts
<1>24. ASSUME NEW c \in Callers, QuiesceRefused(c) PROVE TypeOK'
  <2>1. CallsTyped'
    BY <1>0, <1>24, GoesTyped DEF QuiesceRefused, Refused, At, Unlocked
  <2>2. RestTyped'
    BY <1>0, <1>24 DEF QuiesceRefused, Refused, At, RestTyped
  <2> QED BY <2>1, <2>2, TypeParts
<1>25. ASSUME NEW c \in Callers, ResumeRefused(c) PROVE TypeOK'
  <2>1. CallsTyped'
    BY <1>0, <1>25, GoesTyped DEF ResumeRefused, Refused, At, Unlocked
  <2>2. RestTyped'
    BY <1>0, <1>25 DEF ResumeRefused, Refused, At, RestTyped
  <2> QED BY <2>1, <2>2, TypeParts
<1>26. ASSUME NEW c \in Callers, AskEngine(c) PROVE TypeOK'
  <2>1. CallsTyped'
    BY <1>0, <1>26, GoesTyped DEF AskEngine, Unlocked
  <2>2. RestTyped'
    BY <1>0, <1>26 DEF AskEngine, RestTyped
  <2> QED BY <2>1, <2>2, TypeParts
<1>27. ASSUME NEW c \in Callers, Acknowledged(c) PROVE TypeOK'
  <2>1. CallsTyped'
    BY <1>0, <1>27, GoesTyped DEF Acknowledged, Over, Asked, Unlocked
  <2>2. RestTyped'
    BY <1>0, <1>27 DEF Acknowledged, Over, Asked, RestTyped
  <2> QED BY <2>1, <2>2, TypeParts
<1>28. ASSUME NEW c \in Callers, Unacknowledged(c) PROVE TypeOK'
  <2>1. CallsTyped'
    BY <1>0, <1>28, GoesTyped DEF Unacknowledged, Over, Asked, Unlocked
  <2>2. RestTyped'
    BY <1>0, <1>28 DEF Unacknowledged, Over, Asked, RestTyped
  <2> QED BY <2>1, <2>2, TypeParts
<1>29. CASE MonitorFails
  BY <1>0, <1>29 DEF MonitorFails, TypeOK
<1>30. CASE MonitorStops
  BY <1>0, <1>30 DEF MonitorStops, BeginStop, TypeOK
<1>31. CASE MonitorStopped
  BY <1>0, <1>31 DEF MonitorStopped, StopEnds, Stopped, TypeOK
<1>32. CASE MonitorStopFails
  BY <1>0, <1>32 DEF MonitorStopFails, StopFails, MayStop, TypeOK
<1>33. ASSUME NEW g \in Groups, GroupExits(g) PROVE TypeOK'
  BY <1>0, <1>33 DEF GroupExits, Alive, TypeOK
<1>34. CASE AllOver
  BY <1>0, <1>34 DEF AllOver, vars, TypeOK
<1> QED BY <1>1, <1>2, <1>3, <1>4, <1>5, <1>6, <1>7, <1>8, <1>9, <1>10, <1>11, <1>12,
    <1>13, <1>14, <1>15, <1>16, <1>17, <1>18, <1>19, <1>20, <1>21, <1>22, <1>23, <1>24,
    <1>25, <1>26, <1>27, <1>28, <1>29, <1>30, <1>31, <1>32, <1>33, <1>34 DEF Next,
    CallStep, GoesOn, MonitorStep

(* A new control call finds no other.                                        *)
LEMMA CallControls ==
  ASSUME TypeOK, ControlInv, NEW c \in Callers, NEW op \in Offered, Call(c, op)
  PROVE  ControlInv'
<1>1. /\ call'[c].at = "lock" /\ call'[c].op = op
      /\ \A d \in Callers \ {c} : call'[d] = call[d]
  BY DEF Call, TypeOK
<1>2. /\ op \in Controls => \A d \in Callers : ~Controlled(d)
      /\ paused' <=> paused \/ op \in Controls
  BY DEF Call, TypeOK
<1>3. ASSUME NEW d \in Callers, Controlled(d)'
      PROVE  paused' /\ (op \in Controls => d = c) /\ (op \notin Controls => Controlled(d))
  BY <1>1, <1>2, <1>3 DEF Controlled, ControlInv
<1>4. \A d \in Callers : call'[d].at = "ask" => call'[d].op \in Controls
  BY <1>1 DEF ControlInv
<1>5. \A d, e \in Callers : Controlled(d)' /\ Controlled(e)' => d = e
  BY <1>3 DEF ControlInv
<1> QED BY <1>3, <1>4, <1>5 DEF ControlInv

(* One control call at a time, behind a gate that stays closed for it.       *)
LEMMA ControlKept == IInv /\ Next => ControlInv'
<1> SUFFICES ASSUME IInv, Next PROVE ControlInv'
  OBVIOUS
<1>0. TypeOK /\ ControlInv
  BY DEF IInv
<1> USE SlimServeAssumption DEF IInv, TypeOK, ControlInv, Controlled, Controls,
    backendVars
<1>1. ASSUME NEW c \in Callers, NEW op \in Offered, Call(c, op) PROVE ControlInv'
  BY ONLY <1>0, <1>1, CallControls
<1>2. ASSUME NEW c \in Callers, CancelWaiting(c) PROVE ControlInv'
  BY <1>2 DEF CancelWaiting, Goes
<1>3. ASSUME NEW c \in Callers, ValidateRefused(c) PROVE ControlInv'
  BY <1>3 DEF ValidateRefused, Goes, Refused, At
<1>4. ASSUME NEW c \in Callers, Validate(c) PROVE ControlInv'
  <2>1. Goes(c, "spawn check") /\ call[c].at \notin {"new", "done"} /\ paused' = paused
    BY <1>4 DEF Validate, BeginCheck, At
  <2> QED BY <2>1, ControlGoesOn DEF Awaits
<1>5. ASSUME NEW c \in Callers, CheckSpawned(c) PROVE ControlInv'
  <2>1. Goes(c, "check") /\ call[c].at \notin {"new", "done"} /\ paused' = paused
    BY <1>5 DEF CheckSpawned
  <2> QED BY <2>1, ControlGoesOn DEF Awaits
<1>6. ASSUME NEW c \in Callers, CheckNotSpawned(c) PROVE ControlInv'
  <2>1. Goes(c, "done") /\ call[c].at \notin {"new", "done"} /\ paused' = paused
    BY <1>6 DEF CheckNotSpawned, Over
  <2> QED BY <2>1, ControlGoesOn DEF Awaits
<1>7. ASSUME NEW c \in Callers, CheckSpawnCancelled(c) PROVE ControlInv'
  <2>1. Goes(c, "done") /\ call[c].at \notin {"new", "done"} /\ paused' = paused
    BY <1>7 DEF CheckSpawnCancelled, Over
  <2> QED BY <2>1, ControlGoesOn DEF Awaits
<1>8. ASSUME NEW c \in Callers, CheckAnswers(c) PROVE ControlInv'
  BY <1>8 DEF CheckAnswers, Goes
<1>9. ASSUME NEW c \in Callers, CheckStopped(c) PROVE ControlInv'
  BY <1>9 DEF CheckStopped, Goes, Over, BeginSpawn, Stopped, At
<1>10. ASSUME NEW c \in Callers, CheckStopFails(c) PROVE ControlInv'
  BY <1>10 DEF CheckStopFails, Goes, Over, MayStop
<1>11. ASSUME NEW c \in Callers, StartRefused(c) PROVE ControlInv'
  BY <1>11 DEF StartRefused, Goes, Refused, At
<1>12. ASSUME NEW c \in Callers, StartChecks(c) PROVE ControlInv'
  <2>1. Goes(c, "spawn check") /\ call[c].at \notin {"new", "done"} /\ paused' = paused
    BY <1>12 DEF StartChecks, BeginCheck, At
  <2> QED BY <2>1, ControlGoesOn DEF Awaits
<1>13. ASSUME NEW c \in Callers, StartValidated(c) PROVE ControlInv'
  BY <1>13 DEF StartValidated, Goes, MayStart, BeginSpawn, At
<1>14. ASSUME NEW c \in Callers, Spawned(c) PROVE ControlInv'
  BY <1>14 DEF Spawned, Goes
<1>15. ASSUME NEW c \in Callers, SpawnFails(c) PROVE ControlInv'
  BY <1>15 DEF SpawnFails, Goes, Orphan, BeginStop
<1>16. ASSUME NEW c \in Callers, Loaded(c) PROVE ControlInv'
  BY <1>16 DEF Loaded, Goes, Over
<1>17. ASSUME NEW c \in Callers, LoadFails(c) PROVE ControlInv'
  BY <1>17 DEF LoadFails, Goes, BeginStop
<1>18. ASSUME NEW c \in Callers, Unwound(c) PROVE ControlInv'
  BY <1>18 DEF Unwound, Goes, Over, StopEnds, Stopped
<1>19. ASSUME NEW c \in Callers, UnwindFails(c) PROVE ControlInv'
  BY <1>19 DEF UnwindFails, Goes, Over, StopFails, MayStop
<1>20. ASSUME NEW c \in Callers, Shutdown(c) PROVE ControlInv'
  BY <1>20 DEF Shutdown, Goes, BeginStop, At
<1>21. ASSUME NEW c \in Callers, ShutdownEnds(c) PROVE ControlInv'
  BY <1>21 DEF ShutdownEnds, Goes, Over, StopEnds, Stopped
<1>22. ASSUME NEW c \in Callers, ShutdownFails(c) PROVE ControlInv'
  BY <1>22 DEF ShutdownFails, Goes, Over, StopFails, MayStop
<1>23. ASSUME NEW c \in Callers, QuiesceAbsent(c) PROVE ControlInv'
  BY <1>23 DEF QuiesceAbsent, Goes, At
<1>24. ASSUME NEW c \in Callers, QuiesceRefused(c) PROVE ControlInv'
  BY <1>24 DEF QuiesceRefused, Goes, Refused, At
<1>25. ASSUME NEW c \in Callers, ResumeRefused(c) PROVE ControlInv'
  BY <1>25 DEF ResumeRefused, Goes, Refused, At
<1>26. ASSUME NEW c \in Callers, AskEngine(c) PROVE ControlInv'
  BY <1>26 DEF AskEngine, Goes, Unresolved, Available
<1>27. ASSUME NEW c \in Callers, Acknowledged(c) PROVE ControlInv'
  BY <1>27 DEF Acknowledged, Goes, Over, Asked
<1>28. ASSUME NEW c \in Callers, Unacknowledged(c) PROVE ControlInv'
  BY <1>28 DEF Unacknowledged, Goes, Over, Asked
<1>29. CASE MonitorFails
  BY <1>29 DEF MonitorFails
<1>30. CASE MonitorStops
  BY <1>30 DEF MonitorStops, BeginStop
<1>31. CASE MonitorStopped
  BY <1>31 DEF MonitorStopped, StopEnds, Stopped
<1>32. CASE MonitorStopFails
  BY <1>32 DEF MonitorStopFails, StopFails, MayStop
<1>33. ASSUME NEW g \in Groups, GroupExits(g) PROVE ControlInv'
  BY <1>33 DEF GroupExits, Alive
<1>34. CASE AllOver
  BY <1>34 DEF AllOver, vars
<1> QED BY <1>1, <1>2, <1>3, <1>4, <1>5, <1>6, <1>7, <1>8, <1>9, <1>10, <1>11, <1>12,
    <1>13, <1>14, <1>15, <1>16, <1>17, <1>18, <1>19, <1>20, <1>21, <1>22, <1>23, <1>24,
    <1>25, <1>26, <1>27, <1>28, <1>29, <1>30, <1>31, <1>32, <1>33, <1>34 DEF Next,
    CallStep, GoesOn, MonitorStep

(* Only the acknowledgement of a resume opens the gate.                      *)
LEMMA ServedKept == IInv /\ Next => ServedInv'
<1> SUFFICES ASSUME IInv, Next PROVE ServedInv'
  OBVIOUS
<1> USE SlimServeAssumption DEF IInv, TypeOK, ControlInv, ServedInv, Controlled,
    Controls, backendVars
<1>1. ASSUME NEW c \in Callers, NEW op \in Offered, Call(c, op) PROVE ServedInv'
  BY <1>1 DEF Call
<1>2. ASSUME NEW c \in Callers, CancelWaiting(c) PROVE ServedInv'
  BY <1>2 DEF CancelWaiting, Goes
<1>3. ASSUME NEW c \in Callers, ValidateRefused(c) PROVE ServedInv'
  BY <1>3 DEF ValidateRefused, Goes, Refused, At
<1>4. ASSUME NEW c \in Callers, Validate(c) PROVE ServedInv'
  BY <1>4 DEF Validate, Goes, BeginCheck, MayCheck, Unresolved, At
<1>5. ASSUME NEW c \in Callers, CheckSpawned(c) PROVE ServedInv'
  BY <1>5 DEF CheckSpawned, Goes
<1>6. ASSUME NEW c \in Callers, CheckNotSpawned(c) PROVE ServedInv'
  BY <1>6 DEF CheckNotSpawned, Goes, Over
<1>7. ASSUME NEW c \in Callers, CheckSpawnCancelled(c) PROVE ServedInv'
  BY <1>7 DEF CheckSpawnCancelled, Goes, Over, Orphan
<1>8. ASSUME NEW c \in Callers, CheckAnswers(c) PROVE ServedInv'
  BY <1>8 DEF CheckAnswers, Goes
<1>9. ASSUME NEW c \in Callers, CheckStopped(c) PROVE ServedInv'
  BY <1>9 DEF CheckStopped, Goes, Over, BeginSpawn, Stopped, At
<1>10. ASSUME NEW c \in Callers, CheckStopFails(c) PROVE ServedInv'
  BY <1>10 DEF CheckStopFails, Goes, Over, MayStop
<1>11. ASSUME NEW c \in Callers, StartRefused(c) PROVE ServedInv'
  BY <1>11 DEF StartRefused, Goes, Refused, At
<1>12. ASSUME NEW c \in Callers, StartChecks(c) PROVE ServedInv'
  BY <1>12 DEF StartChecks, Goes, MayStart, BeginCheck, At
<1>13. ASSUME NEW c \in Callers, StartValidated(c) PROVE ServedInv'
  BY <1>13 DEF StartValidated, Goes, MayStart, BeginSpawn, At
<1>14. ASSUME NEW c \in Callers, Spawned(c) PROVE ServedInv'
  BY <1>14 DEF Spawned, Goes
<1>15. ASSUME NEW c \in Callers, SpawnFails(c) PROVE ServedInv'
  BY <1>15 DEF SpawnFails, Goes, Orphan, BeginStop
<1>16. ASSUME NEW c \in Callers, Loaded(c) PROVE ServedInv'
  BY <1>16 DEF Loaded, Goes, Over
<1>17. ASSUME NEW c \in Callers, LoadFails(c) PROVE ServedInv'
  BY <1>17 DEF LoadFails, Goes, BeginStop
<1>18. ASSUME NEW c \in Callers, Unwound(c) PROVE ServedInv'
  BY <1>18 DEF Unwound, Goes, Over, StopEnds, Stopped
<1>19. ASSUME NEW c \in Callers, UnwindFails(c) PROVE ServedInv'
  BY <1>19 DEF UnwindFails, Goes, Over, StopFails, MayStop
<1>20. ASSUME NEW c \in Callers, Shutdown(c) PROVE ServedInv'
  BY <1>20 DEF Shutdown, Goes, BeginStop, At
<1>21. ASSUME NEW c \in Callers, ShutdownEnds(c) PROVE ServedInv'
  BY <1>21 DEF ShutdownEnds, Goes, Over, StopEnds, Stopped
<1>22. ASSUME NEW c \in Callers, ShutdownFails(c) PROVE ServedInv'
  BY <1>22 DEF ShutdownFails, Goes, Over, StopFails, MayStop
<1>23. ASSUME NEW c \in Callers, QuiesceAbsent(c) PROVE ServedInv'
  BY <1>23 DEF QuiesceAbsent, Goes, At
<1>24. ASSUME NEW c \in Callers, QuiesceRefused(c) PROVE ServedInv'
  BY <1>24 DEF QuiesceRefused, Goes, Refused, At
<1>25. ASSUME NEW c \in Callers, ResumeRefused(c) PROVE ServedInv'
  BY <1>25 DEF ResumeRefused, Goes, Refused, At
<1>26. ASSUME NEW c \in Callers, AskEngine(c) PROVE ServedInv'
  BY <1>26 DEF AskEngine, Goes, Unresolved, Available
<1>27. ASSUME NEW c \in Callers, Acknowledged(c) PROVE ServedInv'
  BY <1>27 DEF Acknowledged, Goes, Over, Asked
<1>28. ASSUME NEW c \in Callers, Unacknowledged(c) PROVE ServedInv'
  BY <1>28 DEF Unacknowledged, Goes, Over, Asked
<1>29. CASE MonitorFails
  BY <1>29 DEF MonitorFails
<1>30. CASE MonitorStops
  BY <1>30 DEF MonitorStops, BeginStop
<1>31. CASE MonitorStopped
  BY <1>31 DEF MonitorStopped, StopEnds, Stopped
<1>32. CASE MonitorStopFails
  BY <1>32 DEF MonitorStopFails, StopFails, MayStop
<1>33. ASSUME NEW g \in Groups, GroupExits(g) PROVE ServedInv'
  BY <1>33 DEF GroupExits, Alive
<1>34. CASE AllOver
  BY <1>34 DEF AllOver, vars
<1> QED BY <1>1, <1>2, <1>3, <1>4, <1>5, <1>6, <1>7, <1>8, <1>9, <1>10, <1>11, <1>12,
    <1>13, <1>14, <1>15, <1>16, <1>17, <1>18, <1>19, <1>20, <1>21, <1>22, <1>23, <1>24,
    <1>25, <1>26, <1>27, <1>28, <1>29, <1>30, <1>31, <1>32, <1>33, <1>34 DEF Next,
    CallStep, GoesOn, MonitorStep

(* A step that leaves the groups and their handles alone, and is not at one   *)
(* of the waits that need them, leaves the lifetime as it is.                 *)
LEMMA LifetimeStands ==
  ASSUME TypeOK, LifetimeInv, NEW c \in Callers, NEW await \in Awaits, Goes(c, await),
         await \notin {"spawn check", "check", "checked", "unchecked", "spawn"},
         UNCHANGED <<process, check, withdrawn, orphaned, group>>
  PROVE  LifetimeInv'
<1>1. call'[c].at = await /\ \A d \in Callers \ {c} : call'[d] = call[d]
  BY GoesEffect
<1>2. AllKnown' <=> AllKnown
  BY DEF AllKnown, Alive
<1>3. ASSUME NEW d \in Callers \ {c} PROVE HandlesAt(d)'
  BY <1>1, <1>2 DEF LifetimeInv, HandlesAt, At
<1>4. HandlesAt(c)'
  BY <1>1 DEF HandlesAt, At
<1> QED BY <1>2, <1>3, <1>4 DEF LifetimeInv, Owned

(* A handle is dropped when its group is gone, or the lifetime is fenced.     *)
LEMMA LifetimeKept == IInv /\ Next => LifetimeInv'
<1> SUFFICES ASSUME IInv, Next PROVE LifetimeInv'
  OBVIOUS
<1>0. TypeOK /\ LifetimeInv
  BY DEF IInv
<1> USE SlimServeAssumption DEF IInv, TypeOK, LifetimeInv, HandlesAt, AllKnown, Alive,
    Owned, At, backendVars
<1>1. ASSUME NEW c \in Callers, NEW op \in Offered, Call(c, op) PROVE LifetimeInv'
  BY <1>1 DEF Call
<1>2. ASSUME NEW c \in Callers, CancelWaiting(c) PROVE LifetimeInv'
  <2>1. Goes(c, "done") /\ UNCHANGED <<process, check, withdrawn, orphaned, group>>
    BY <1>2 DEF CancelWaiting
  <2> QED BY ONLY <1>0, <2>1, LifetimeStands DEF Awaits
<1>3. ASSUME NEW c \in Callers, ValidateRefused(c) PROVE LifetimeInv'
  <2>1. Goes(c, "done") /\ UNCHANGED <<process, check, withdrawn, orphaned, group>>
    BY <1>3 DEF ValidateRefused, Refused
  <2> QED BY ONLY <1>0, <2>1, LifetimeStands DEF Awaits
<1>4. ASSUME NEW c \in Callers, Validate(c) PROVE LifetimeInv'
  <2>1. Goes(c, "spawn check") /\ lock \in {c, None}
    BY <1>4 DEF Validate, BeginCheck
  <2>2. \A d \in Callers \ {c} : HandlesAt(d)'
    BY <2>1, OthersWait DEF Awaits
  <2>3. call'[c].at = "spawn check" /\ call'[c].op = call[c].op
    BY <2>1, GoesEffect DEF Awaits
  <2>4. HandlesAt(c)'
    BY <1>4, <2>3 DEF Validate, BeginCheck, MayCheck, Unresolved
  <2>5. (/\ Owned # {} => withdrawn = "no"
         /\ ~orphaned /\ (Owned # {} \/ withdrawn # "no") => AllKnown)'
    BY <1>4 DEF Validate, BeginCheck, MayCheck, Unresolved
  <2> QED BY <2>2, <2>4, <2>5
<1>5. ASSUME NEW c \in Callers, CheckSpawned(c) PROVE LifetimeInv'
  <2>1. Goes(c, "check") /\ lock \in {c, None}
    BY <1>5 DEF CheckSpawned
  <2>2. \A d \in Callers \ {c} : HandlesAt(d)'
    BY <2>1, OthersWait DEF Awaits
  <2>3. call'[c].at = "check" /\ call'[c].op = call[c].op
    BY <2>1, GoesEffect DEF Awaits
  <2>4. HandlesAt(c)'
    BY <1>5, <2>3 DEF CheckSpawned
  <2>5. (/\ Owned # {} => withdrawn = "no"
         /\ ~orphaned /\ (Owned # {} \/ withdrawn # "no") => AllKnown)'
    BY <1>5 DEF CheckSpawned
  <2> QED BY <2>2, <2>4, <2>5
<1>6. ASSUME NEW c \in Callers, CheckNotSpawned(c) PROVE LifetimeInv'
  BY <1>6 DEF CheckNotSpawned, Goes, Over
<1>7. ASSUME NEW c \in Callers, CheckSpawnCancelled(c) PROVE LifetimeInv'
  <2>1. Goes(c, "done") /\ lock \in {c, None}
    BY <1>7 DEF CheckSpawnCancelled, Over
  <2>2. \A d \in Callers \ {c} : HandlesAt(d)'
    BY <2>1, OthersWait DEF Awaits
  <2>3. call'[c].at = "done" /\ call'[c].op = call[c].op
    BY <2>1, GoesEffect DEF Awaits
  <2>4. HandlesAt(c)'
    BY <2>3
  <2>5. (/\ Owned # {} => withdrawn = "no"
         /\ ~orphaned /\ (Owned # {} \/ withdrawn # "no") => AllKnown)'
    BY <1>7 DEF CheckSpawnCancelled, Orphan
  <2> QED BY <2>2, <2>4, <2>5
<1>8. ASSUME NEW c \in Callers, CheckAnswers(c) PROVE LifetimeInv'
  <2>1. lock = c /\ (Goes(c, "checked") \/ Goes(c, "unchecked"))
    BY <1>8 DEF CheckAnswers
  <2>2. \A d \in Callers \ {c} : HandlesAt(d)'
    BY <2>1, OthersWait DEF Awaits
  <2>3. call'[c].at \in {"checked", "unchecked"} /\ call'[c].op = call[c].op
    BY <2>1, GoesEffect DEF Awaits
  <2>4. HandlesAt(c)'
    BY <1>8, <2>3 DEF CheckAnswers
  <2>5. (/\ Owned # {} => withdrawn = "no"
         /\ ~orphaned /\ (Owned # {} \/ withdrawn # "no") => AllKnown)'
    BY <1>8 DEF CheckAnswers
  <2> QED BY <2>2, <2>4, <2>5
<1>9. ASSUME NEW c \in Callers, CheckStopped(c) PROVE LifetimeInv'
  <2>1. \A g \in Groups : Alive(g)' => Alive(g) /\ g # check
    BY <1>9, StoppedEffect DEF CheckStopped
  <2>2. check # None /\ check' = None /\ process' = process /\ orphaned' = orphaned
    BY <1>9 DEF CheckStopped
  <2>3. ~orphaned => \A g \in Groups : Alive(g)' => g = process
    BY <2>1, <2>2
  <2>4. CASE At(c, "start", "checked")
    <3>1. Goes(c, "spawn") /\ lock = c
      BY <1>9, <2>4 DEF CheckStopped, BeginSpawn
    <3>2. \A d \in Callers \ {c} : HandlesAt(d)'
      BY <3>1, OthersWait DEF Awaits
    <3>3. call'[c].at = "spawn"
      BY <3>1, GoesEffect DEF Awaits
    <3>4. withdrawn' = "no" /\ process = None
      BY <1>9, <2>4 DEF CheckStopped, BeginSpawn
    <3> QED BY <2>2, <2>3, <3>2, <3>3, <3>4
  <2>5. CASE ~At(c, "start", "checked")
    <3>1. Goes(c, "done") /\ lock = c
      BY <1>9, <2>5 DEF CheckStopped, Over
    <3>2. \A d \in Callers \ {c} : HandlesAt(d)'
      BY <3>1, OthersWait DEF Awaits
    <3>3. call'[c].at = "done"
      BY <3>1, GoesEffect DEF Awaits
    <3>4. process # None => withdrawn' = "no"
      BY <1>9, <2>5 DEF CheckStopped
    <3> QED BY <2>2, <2>3, <3>2, <3>3, <3>4
  <2> QED BY <2>4, <2>5
<1>10. ASSUME NEW c \in Callers, CheckStopFails(c) PROVE LifetimeInv'
  <2>1. Goes(c, "done") /\ lock \in {c, None}
    BY <1>10 DEF CheckStopFails, Over
  <2>2. \A d \in Callers \ {c} : HandlesAt(d)'
    BY <2>1, OthersWait DEF Awaits
  <2>3. call'[c].at = "done" /\ call'[c].op = call[c].op
    BY <2>1, GoesEffect DEF Awaits
  <2>4. HandlesAt(c)'
    BY <2>3
  <2>5. (/\ Owned # {} => withdrawn = "no"
         /\ ~orphaned /\ (Owned # {} \/ withdrawn # "no") => AllKnown)'
    BY <1>10, MayStopEffect DEF CheckStopFails
  <2> QED BY <2>2, <2>4, <2>5
<1>11. ASSUME NEW c \in Callers, StartRefused(c) PROVE LifetimeInv'
  <2>1. Goes(c, "done") /\ UNCHANGED <<process, check, withdrawn, orphaned, group>>
    BY <1>11 DEF StartRefused, Refused
  <2> QED BY ONLY <1>0, <2>1, LifetimeStands DEF Awaits
<1>12. ASSUME NEW c \in Callers, StartChecks(c) PROVE LifetimeInv'
  <2>1. Goes(c, "spawn check") /\ lock \in {c, None}
    BY <1>12 DEF StartChecks, BeginCheck
  <2>2. \A d \in Callers \ {c} : HandlesAt(d)'
    BY <2>1, OthersWait DEF Awaits
  <2>3. call'[c].at = "spawn check" /\ call'[c].op = call[c].op
    BY <2>1, GoesEffect DEF Awaits
  <2>4. HandlesAt(c)'
    BY <1>12, <2>3 DEF StartChecks, BeginCheck, MayStart
  <2>5. (/\ Owned # {} => withdrawn = "no"
         /\ ~orphaned /\ (Owned # {} \/ withdrawn # "no") => AllKnown)'
    BY <1>12 DEF StartChecks, BeginCheck, MayStart
  <2> QED BY <2>2, <2>4, <2>5
<1>13. ASSUME NEW c \in Callers, StartValidated(c) PROVE LifetimeInv'
  <2>1. Goes(c, "spawn") /\ lock \in {c, None}
    BY <1>13 DEF StartValidated, BeginSpawn
  <2>2. \A d \in Callers \ {c} : HandlesAt(d)'
    BY <2>1, OthersWait DEF Awaits
  <2>3. call'[c].at = "spawn" /\ call'[c].op = call[c].op
    BY <2>1, GoesEffect DEF Awaits
  <2>4. HandlesAt(c)'
    BY <1>13, <2>3 DEF StartValidated, BeginSpawn, MayStart
  <2>5. (/\ Owned # {} => withdrawn = "no"
         /\ ~orphaned /\ (Owned # {} \/ withdrawn # "no") => AllKnown)'
    BY <1>13 DEF StartValidated, BeginSpawn, MayStart
  <2> QED BY <2>2, <2>4, <2>5
<1>14. ASSUME NEW c \in Callers, Spawned(c) PROVE LifetimeInv'
  <2>1. Goes(c, "load") /\ lock \in {c, None}
    BY <1>14 DEF Spawned
  <2>2. \A d \in Callers \ {c} : HandlesAt(d)'
    BY <2>1, OthersWait DEF Awaits
  <2>3. call'[c].at = "load" /\ call'[c].op = call[c].op
    BY <2>1, GoesEffect DEF Awaits
  <2>4. HandlesAt(c)'
    BY <2>3
  <2>5. (/\ Owned # {} => withdrawn = "no"
         /\ ~orphaned /\ (Owned # {} \/ withdrawn # "no") => AllKnown)'
    BY <1>14 DEF Spawned
  <2> QED BY <2>2, <2>4, <2>5
<1>15. ASSUME NEW c \in Callers, SpawnFails(c) PROVE LifetimeInv'
  <2>1. Goes(c, "unwind") /\ lock \in {c, None}
    BY <1>15 DEF SpawnFails
  <2>2. \A d \in Callers \ {c} : HandlesAt(d)'
    BY <2>1, OthersWait DEF Awaits
  <2>3. call'[c].at = "unwind" /\ call'[c].op = call[c].op
    BY <2>1, GoesEffect DEF Awaits
  <2>4. HandlesAt(c)'
    BY <2>3
  <2>5. (/\ Owned # {} => withdrawn = "no"
         /\ ~orphaned /\ (Owned # {} \/ withdrawn # "no") => AllKnown)'
    BY <1>15 DEF SpawnFails, Orphan, BeginStop
  <2> QED BY <2>2, <2>4, <2>5
<1>16. ASSUME NEW c \in Callers, Loaded(c) PROVE LifetimeInv'
  BY <1>16 DEF Loaded, Goes, Over
<1>17. ASSUME NEW c \in Callers, LoadFails(c) PROVE LifetimeInv'
  <2>1. Goes(c, "unwind") /\ UNCHANGED <<process, check, withdrawn, orphaned, group>>
    BY <1>17 DEF LoadFails, BeginStop
  <2> QED BY ONLY <1>0, <2>1, LifetimeStands DEF Awaits
<1>18. ASSUME NEW c \in Callers, Unwound(c) PROVE LifetimeInv'
  <2>1. TypeOK
    OBVIOUS
  <2>2. \A g \in Groups : Alive(g)' => Alive(g) /\ g \notin Owned
    BY ONLY <1>18, <2>1, StoppedEffect DEF Unwound, StopEnds
  <2>3. Goes(c, "done") /\ lock = c
    BY <1>18 DEF Unwound, Over
  <2>4. \A d \in Callers \ {c} : HandlesAt(d)'
    BY <2>3, OthersWait DEF Awaits
  <2>5. call'[c].at = "done"
    BY <2>3, GoesEffect DEF Awaits
  <2> QED BY <1>18, <2>2, <2>4, <2>5 DEF Unwound, StopEnds
<1>19. ASSUME NEW c \in Callers, UnwindFails(c) PROVE LifetimeInv'
  <2>1. TypeOK
    OBVIOUS
  <2>2. \A g \in Groups : Alive(g)' => Alive(g)
    BY ONLY <1>19, <2>1, MayStopEffect DEF UnwindFails, StopFails
  <2>3. Goes(c, "done") /\ lock = c
    BY <1>19 DEF UnwindFails, Over
  <2>4. \A d \in Callers \ {c} : HandlesAt(d)'
    BY <2>3, OthersWait DEF Awaits
  <2>5. call'[c].at = "done"
    BY <2>3, GoesEffect DEF Awaits
  <2>6. UNCHANGED <<process, check, withdrawn, orphaned>>
    BY <1>19 DEF UnwindFails, StopFails
  <2> QED BY <2>2, <2>4, <2>5, <2>6
<1>20. ASSUME NEW c \in Callers, Shutdown(c) PROVE LifetimeInv'
  <2>1. Goes(c, "stop") /\ UNCHANGED <<process, check, withdrawn, orphaned, group>>
    BY <1>20 DEF Shutdown, BeginStop
  <2> QED BY ONLY <1>0, <2>1, LifetimeStands DEF Awaits
<1>21. ASSUME NEW c \in Callers, ShutdownEnds(c) PROVE LifetimeInv'
  <2>1. TypeOK
    OBVIOUS
  <2>2. \A g \in Groups : Alive(g)' => Alive(g) /\ g \notin Owned
    BY ONLY <1>21, <2>1, StoppedEffect DEF ShutdownEnds, StopEnds
  <2>3. Goes(c, "done") /\ lock = c
    BY <1>21 DEF ShutdownEnds, Over
  <2>4. \A d \in Callers \ {c} : HandlesAt(d)'
    BY <2>3, OthersWait DEF Awaits
  <2>5. call'[c].at = "done"
    BY <2>3, GoesEffect DEF Awaits
  <2> QED BY <1>21, <2>2, <2>4, <2>5 DEF ShutdownEnds, StopEnds
<1>22. ASSUME NEW c \in Callers, ShutdownFails(c) PROVE LifetimeInv'
  <2>1. TypeOK
    OBVIOUS
  <2>2. \A g \in Groups : Alive(g)' => Alive(g)
    BY ONLY <1>22, <2>1, MayStopEffect DEF ShutdownFails, StopFails
  <2>3. Goes(c, "done") /\ lock = c
    BY <1>22 DEF ShutdownFails, Over
  <2>4. \A d \in Callers \ {c} : HandlesAt(d)'
    BY <2>3, OthersWait DEF Awaits
  <2>5. call'[c].at = "done"
    BY <2>3, GoesEffect DEF Awaits
  <2>6. UNCHANGED <<process, check, withdrawn, orphaned>>
    BY <1>22 DEF ShutdownFails, StopFails
  <2> QED BY <2>2, <2>4, <2>5, <2>6
<1>23. ASSUME NEW c \in Callers, QuiesceAbsent(c) PROVE LifetimeInv'
  <2>1. Goes(c, "done") /\ UNCHANGED <<process, check, withdrawn, orphaned, group>>
    BY <1>23 DEF QuiesceAbsent
  <2> QED BY ONLY <1>0, <2>1, LifetimeStands DEF Awaits
<1>24. ASSUME NEW c \in Callers, QuiesceRefused(c) PROVE LifetimeInv'
  <2>1. Goes(c, "done") /\ UNCHANGED <<process, check, withdrawn, orphaned, group>>
    BY <1>24 DEF QuiesceRefused, Refused
  <2> QED BY ONLY <1>0, <2>1, LifetimeStands DEF Awaits
<1>25. ASSUME NEW c \in Callers, ResumeRefused(c) PROVE LifetimeInv'
  <2>1. Goes(c, "done") /\ UNCHANGED <<process, check, withdrawn, orphaned, group>>
    BY <1>25 DEF ResumeRefused, Refused
  <2> QED BY ONLY <1>0, <2>1, LifetimeStands DEF Awaits
<1>26. ASSUME NEW c \in Callers, AskEngine(c) PROVE LifetimeInv'
  <2>1. Goes(c, "ask") /\ UNCHANGED <<process, check, withdrawn, orphaned, group>>
    BY <1>26 DEF AskEngine
  <2> QED BY ONLY <1>0, <2>1, LifetimeStands DEF Awaits
<1>27. ASSUME NEW c \in Callers, Acknowledged(c) PROVE LifetimeInv'
  <2>1. Goes(c, "done") /\ UNCHANGED <<process, check, withdrawn, orphaned, group>>
    BY <1>27 DEF Acknowledged, Over
  <2> QED BY ONLY <1>0, <2>1, LifetimeStands DEF Awaits
<1>28. ASSUME NEW c \in Callers, Unacknowledged(c) PROVE LifetimeInv'
  <2>1. Goes(c, "done") /\ UNCHANGED <<process, check, withdrawn, orphaned, group>>
    BY <1>28 DEF Unacknowledged, Over
  <2> QED BY ONLY <1>0, <2>1, LifetimeStands DEF Awaits
<1>29. CASE MonitorFails
  BY <1>29 DEF MonitorFails
<1>30. CASE MonitorStops
  BY <1>30 DEF MonitorStops, BeginStop
<1>31. CASE MonitorStopped
  <2>1. TypeOK
    OBVIOUS
  <2>2. \A g \in Groups : Alive(g)' => Alive(g) /\ g \notin Owned
    BY ONLY <1>31, <2>1, StoppedEffect DEF MonitorStopped, StopEnds
  <2> QED BY <1>31, <2>2 DEF MonitorStopped, StopEnds
<1>32. CASE MonitorStopFails
  <2>1. TypeOK
    OBVIOUS
  <2>2. \A g \in Groups : Alive(g)' => Alive(g)
    BY ONLY <1>32, <2>1, MayStopEffect DEF MonitorStopFails, StopFails
  <2>6. UNCHANGED <<call, process, check, withdrawn, orphaned>>
    BY <1>32 DEF MonitorStopFails, StopFails
  <2> QED BY <2>2, <2>6
<1>33. ASSUME NEW g \in Groups, GroupExits(g) PROVE LifetimeInv'
  BY <1>33 DEF GroupExits
<1>34. CASE AllOver
  BY <1>34 DEF AllOver, vars
<1> QED BY <1>1, <1>2, <1>3, <1>4, <1>5, <1>6, <1>7, <1>8, <1>9, <1>10, <1>11, <1>12,
    <1>13, <1>14, <1>15, <1>16, <1>17, <1>18, <1>19, <1>20, <1>21, <1>22, <1>23, <1>24,
    <1>25, <1>26, <1>27, <1>28, <1>29, <1>30, <1>31, <1>32, <1>33, <1>34 DEF Next,
    CallStep, GoesOn, MonitorStep

(* A quiesce is acknowledged behind the gate it closed.                      *)
LEMMA QuiescedKept == IInv /\ Next => QuiescedStaysClosed'
<1> SUFFICES ASSUME IInv, Next PROVE QuiescedStaysClosed'
  OBVIOUS
<1> USE SlimServeAssumption DEF IInv, TypeOK, ControlInv, Controlled, Controls,
    QuiescedStaysClosed, backendVars
<1>1. ASSUME NEW c \in Callers, NEW op \in Offered, Call(c, op) PROVE
    QuiescedStaysClosed'
  BY <1>1 DEF Call
<1>2. ASSUME NEW c \in Callers, CancelWaiting(c) PROVE QuiescedStaysClosed'
  BY <1>2 DEF CancelWaiting, Goes
<1>3. ASSUME NEW c \in Callers, ValidateRefused(c) PROVE QuiescedStaysClosed'
  BY <1>3 DEF ValidateRefused, Goes, Refused, At
<1>4. ASSUME NEW c \in Callers, Validate(c) PROVE QuiescedStaysClosed'
  BY <1>4 DEF Validate, Goes, BeginCheck, MayCheck, Unresolved, At
<1>5. ASSUME NEW c \in Callers, CheckSpawned(c) PROVE QuiescedStaysClosed'
  BY <1>5 DEF CheckSpawned, Goes
<1>6. ASSUME NEW c \in Callers, CheckNotSpawned(c) PROVE QuiescedStaysClosed'
  BY <1>6 DEF CheckNotSpawned, Goes, Over
<1>7. ASSUME NEW c \in Callers, CheckSpawnCancelled(c) PROVE QuiescedStaysClosed'
  BY <1>7 DEF CheckSpawnCancelled, Goes, Over, Orphan
<1>8. ASSUME NEW c \in Callers, CheckAnswers(c) PROVE QuiescedStaysClosed'
  BY <1>8 DEF CheckAnswers, Goes
<1>9. ASSUME NEW c \in Callers, CheckStopped(c) PROVE QuiescedStaysClosed'
  BY <1>9 DEF CheckStopped, Goes, Over, BeginSpawn, Stopped, At
<1>10. ASSUME NEW c \in Callers, CheckStopFails(c) PROVE QuiescedStaysClosed'
  BY <1>10 DEF CheckStopFails, Goes, Over, MayStop
<1>11. ASSUME NEW c \in Callers, StartRefused(c) PROVE QuiescedStaysClosed'
  BY <1>11 DEF StartRefused, Goes, Refused, At
<1>12. ASSUME NEW c \in Callers, StartChecks(c) PROVE QuiescedStaysClosed'
  BY <1>12 DEF StartChecks, Goes, MayStart, BeginCheck, At
<1>13. ASSUME NEW c \in Callers, StartValidated(c) PROVE QuiescedStaysClosed'
  BY <1>13 DEF StartValidated, Goes, MayStart, BeginSpawn, At
<1>14. ASSUME NEW c \in Callers, Spawned(c) PROVE QuiescedStaysClosed'
  BY <1>14 DEF Spawned, Goes
<1>15. ASSUME NEW c \in Callers, SpawnFails(c) PROVE QuiescedStaysClosed'
  BY <1>15 DEF SpawnFails, Goes, Orphan, BeginStop
<1>16. ASSUME NEW c \in Callers, Loaded(c) PROVE QuiescedStaysClosed'
  BY <1>16 DEF Loaded, Goes, Over
<1>17. ASSUME NEW c \in Callers, LoadFails(c) PROVE QuiescedStaysClosed'
  BY <1>17 DEF LoadFails, Goes, BeginStop
<1>18. ASSUME NEW c \in Callers, Unwound(c) PROVE QuiescedStaysClosed'
  BY <1>18 DEF Unwound, Goes, Over, StopEnds, Stopped
<1>19. ASSUME NEW c \in Callers, UnwindFails(c) PROVE QuiescedStaysClosed'
  BY <1>19 DEF UnwindFails, Goes, Over, StopFails, MayStop
<1>20. ASSUME NEW c \in Callers, Shutdown(c) PROVE QuiescedStaysClosed'
  BY <1>20 DEF Shutdown, Goes, BeginStop, At
<1>21. ASSUME NEW c \in Callers, ShutdownEnds(c) PROVE QuiescedStaysClosed'
  BY <1>21 DEF ShutdownEnds, Goes, Over, StopEnds, Stopped
<1>22. ASSUME NEW c \in Callers, ShutdownFails(c) PROVE QuiescedStaysClosed'
  BY <1>22 DEF ShutdownFails, Goes, Over, StopFails, MayStop
<1>23. ASSUME NEW c \in Callers, QuiesceAbsent(c) PROVE QuiescedStaysClosed'
  BY <1>23 DEF QuiesceAbsent, Goes, At
<1>24. ASSUME NEW c \in Callers, QuiesceRefused(c) PROVE QuiescedStaysClosed'
  BY <1>24 DEF QuiesceRefused, Goes, Refused, At
<1>25. ASSUME NEW c \in Callers, ResumeRefused(c) PROVE QuiescedStaysClosed'
  BY <1>25 DEF ResumeRefused, Goes, Refused, At
<1>26. ASSUME NEW c \in Callers, AskEngine(c) PROVE QuiescedStaysClosed'
  BY <1>26 DEF AskEngine, Goes, Unresolved, Available
<1>27. ASSUME NEW c \in Callers, Acknowledged(c) PROVE QuiescedStaysClosed'
  BY <1>27 DEF Acknowledged, Goes, Over, Asked
<1>28. ASSUME NEW c \in Callers, Unacknowledged(c) PROVE QuiescedStaysClosed'
  BY <1>28 DEF Unacknowledged, Goes, Over, Asked
<1>29. CASE MonitorFails
  BY <1>29 DEF MonitorFails
<1>30. CASE MonitorStops
  BY <1>30 DEF MonitorStops, BeginStop
<1>31. CASE MonitorStopped
  BY <1>31 DEF MonitorStopped, StopEnds, Stopped
<1>32. CASE MonitorStopFails
  BY <1>32 DEF MonitorStopFails, StopFails, MayStop
<1>33. ASSUME NEW g \in Groups, GroupExits(g) PROVE QuiescedStaysClosed'
  BY <1>33 DEF GroupExits, Alive
<1>34. CASE AllOver
  BY <1>34 DEF AllOver, vars
<1> QED BY <1>1, <1>2, <1>3, <1>4, <1>5, <1>6, <1>7, <1>8, <1>9, <1>10, <1>11, <1>12,
    <1>13, <1>14, <1>15, <1>16, <1>17, <1>18, <1>19, <1>20, <1>21, <1>22, <1>23, <1>24,
    <1>25, <1>26, <1>27, <1>28, <1>29, <1>30, <1>31, <1>32, <1>33, <1>34 DEF Next,
    CallStep, GoesOn, MonitorStep

(* The backend begins in the invariant.                                      *)
LEMMA InitInvariant == Init => IInv
<1> SUFFICES ASSUME Init PROVE IInv
  OBVIOUS
<1>1. TypeOK
  BY SlimServeAssumption DEF Init, TypeOK, Operations, Awaits
<1>2. ControlInv /\ ServedInv /\ QuiescedStaysClosed
  BY DEF Init, ControlInv, ServedInv, QuiescedStaysClosed, Controlled
<1>3. LifetimeInv
  BY DEF Init, LifetimeInv, HandlesAt, AllKnown, Alive, Owned, At
<1> QED BY <1>1, <1>2, <1>3 DEF IInv

(* A step of the backend, or none, keeps the invariant.                      *)
LEMMA StepInvariant == IInv /\ [Next]_vars => IInv'
<1> SUFFICES ASSUME IInv, [Next]_vars PROVE IInv'
  OBVIOUS
<1>1. CASE Next
  BY <1>1, TypesKept, ControlKept, ServedKept, LifetimeKept, QuiescedKept DEF IInv
<1>2. CASE UNCHANGED vars
  <2> USE <1>2 DEF vars, backendVars
  <2>1. TypeOK'
    BY DEF IInv, TypeOK
  <2>2. ControlInv'
    BY DEF IInv, ControlInv, Controlled
  <2>3. ServedInv' /\ QuiescedStaysClosed'
    BY DEF IInv, ServedInv, QuiescedStaysClosed
  <2>4. AllKnown' <=> AllKnown
    BY DEF AllKnown, Alive
  <2>5. LifetimeInv'
    BY <2>4 DEF IInv, LifetimeInv, HandlesAt, Owned, At
  <2> QED BY <2>1, <2>2, <2>3, <2>5 DEF IInv
<1> QED BY <1>1, <1>2

(* Every part of the invariant holds in every state.                         *)
THEOREM SlimServeInvariant == Spec => []IInv
  BY InitInvariant, StepInvariant, PTL DEF Spec

(* The backend's variables keep their types, and _operation is held by       *)
(* whoever is past its lock.                                                 *)
THEOREM SlimServeTypeCorrect == Spec => []TypeOK
<1>1. IInv => TypeOK
  BY DEF IInv
<1> QED BY <1>1, SlimServeInvariant, PTL

(* An acknowledged quiesce keeps the gate closed until a resume is           *)
(* acknowledged, whatever fails, is shut down or started meanwhile.          *)
THEOREM QuiesceHolds == Spec => []QuiescedStaysClosed
<1>1. IInv => QuiescedStaysClosed
  BY DEF IInv
<1> QED BY <1>1, SlimServeInvariant, PTL

(* Behind an open gate a healthy engine is watched, and an engine that runs  *)
(* was last told to run.                                                     *)
THEOREM OpenGateServes == Spec => []OpenGateIsServed
<1>1. IInv => OpenGateIsServed
  BY DEF IInv, ServedInv, OpenGateIsServed
<1> QED BY <1>1, SlimServeInvariant, PTL

(* No process group is forgotten: its handle is kept, or the lifetime is not *)
(* called withdrawn.                                                         *)
THEOREM GroupsAreRemembered == Spec => []NothingIsForgotten
<1>1. IInv => NothingIsForgotten
  BY DEF IInv, LifetimeInv, AllKnown, NothingIsForgotten
<1> QED BY <1>1, SlimServeInvariant, PTL

(* An engine takes a group's handle only in its spawn.                       *)
LEMMA EngineSpawns ==
  ASSUME IInv, Next, NEW g \in Groups, process' = g, process # g
  PROVE  \E c \in Callers : call[c].at = "spawn"
<1>1. CASE \E c \in Callers : GoesOn(c)
  BY <1>1, SlimServeAssumption DEF GoesOn, ValidateRefused, Validate, CheckSpawned,
     CheckNotSpawned, CheckSpawnCancelled, CheckAnswers, CheckStopped, CheckStopFails,
     StartRefused, StartChecks, StartValidated, Spawned, SpawnFails, Loaded, LoadFails,
     Unwound, UnwindFails, Shutdown, ShutdownEnds, ShutdownFails, QuiesceAbsent,
     QuiesceRefused, ResumeRefused, AskEngine, Acknowledged, Unacknowledged, backendVars,
     Refused, BeginCheck, StopEnds, StopFails
<1>2. CASE \E c \in Callers : CancelWaiting(c) \/ \E op \in Offered : Call(c, op)
  BY <1>2 DEF CancelWaiting, Call, backendVars
<1>3. CASE MonitorStep
  BY <1>3, SlimServeAssumption DEF MonitorStep, MonitorFails, MonitorStops, MonitorStopped,
     MonitorStopFails, StopEnds, StopFails
<1>4. CASE AllOver \/ \E h \in Groups : GroupExits(h)
  BY <1>4 DEF AllOver, vars, GroupExits, backendVars
<1> QED BY <1>1, <1>2, <1>3, <1>4 DEF Next, CallStep

(* A new engine is spawned beside no group that is alive.                    *)
THEOREM EnginesStayApart == Spec => EnginesDoNotOverlap
<1> DEFINE Apart == \A g \in Groups :
      ~orphaned /\ group[g] = "unborn" /\ process' = g /\ process # g
        => \A other \in Groups : ~Alive(other)
<1>1. IInv /\ [Next]_vars => [Apart]_vars
  <2> SUFFICES ASSUME IInv, Next, NEW g \in Groups, ~orphaned, process' = g, process # g,
                      NEW other \in Groups
               PROVE  ~Alive(other)
    OBVIOUS
  <2>1. PICK c \in Callers : call[c].at = "spawn"
    BY EngineSpawns
  <2>2. process = None /\ check = None /\ AllKnown
    BY <2>1 DEF IInv, LifetimeInv, HandlesAt
  <2> QED BY <2>2, SlimServeAssumption DEF AllKnown
<1> QED BY <1>1, SlimServeInvariant, PTL DEF Spec, EnginesDoNotOverlap
=============================================================================
