----------------------------- MODULE SlimServe ------------------------------
(***************************************************************************)
(* The lifetime of a SlimServe engine, one process group in an isolated    *)
(* interpreter, as the appliance's backend manages it                      *)
(* (lazarus/appliance/backends/slimserve.py).                              *)
(*                                                                         *)
(* Callers run the backend's operations in any order and at the same time; *)
(* each call can be cancelled at each of its awaits.  _operation lets one  *)
(* call, or the monitor of the engine, go on at a time; the API's          *)
(* generation_control lets one call of quiesce or resume be made at a time *)
(* (lazarus/appliance/api.py).  A group is gone only when its leader is    *)
(* reaped and no descendant is left.                                       *)
(***************************************************************************)
EXTENDS Naturals, FiniteSets

CONSTANTS
  Callers,  \* bound: the calls made, each once
  Groups,   \* bound: the process groups spawned
  Offered,  \* the operations that are called
  Monitor,  \* the task _watch, as a holder of the lock
  None

ASSUME SlimServeAssumption ==
  /\ None \notin Callers \cup Groups /\ Monitor \notin Callers /\ Monitor # None
  /\ Offered \subseteq {"validate", "start", "quiesce", "resume", "shutdown"}

VARIABLES
  call,       \* the operation and the await of each call
  lock,       \* who holds _operation
  paused,     \* generation_paused
  process,    \* _process
  check,      \* _check_process
  withdrawn,  \* _withdrawn: "unset", "yes" or "no"
  cleanup,    \* _cleanup_pending
  client,     \* _client is open
  monitor,    \* what _monitor is doing
  configured, \* _config is set
  validated,  \* _validated_config is the configuration's
  info,       \* the status of _info
  group,      \* what each process group is
  engine,     \* whether the engine's scheduler runs or is paused
  quiesced,   \* the last acknowledgement given was a quiesce's
  orphaned    \* a check made beside a managed engine lost its handle

backendVars == <<process, check, withdrawn, cleanup, client, monitor, configured,
                 validated, info>>
vars == <<call, lock, paused, backendVars, group, engine, quiesced, orphaned>>

Operations == {"validate", "start", "quiesce", "resume", "shutdown"}

\* "checked" and "unchecked" stop the check after it was good or not.
Awaits == {"new", "lock", "spawn check", "check", "checked", "unchecked",
           "spawn", "load", "ask", "unwind", "stop", "done"}

Init ==
  /\ call = [c \in Callers |-> [op |-> "start", at |-> "new"]]
  /\ lock = None /\ paused = FALSE
  /\ process = None /\ check = None /\ withdrawn = "unset"
  /\ cleanup = FALSE /\ client = FALSE /\ monitor = "none"
  /\ configured = FALSE /\ validated = FALSE /\ info = "disabled"
  /\ group = [g \in Groups |-> "unborn"] /\ engine = "running"
  /\ quiesced = FALSE /\ orphaned = FALSE

-----------------------------------------------------------------------------
At(c, op, await) == call[c].op = op /\ call[c].at = await
Goes(c, await) == call' = [call EXCEPT ![c].at = await]

\* A call is over; it held the lock.
Over(c) == Goes(c, "done") /\ lock' = None

Running(g) == g # None /\ group[g] = "running"
Alive(g) == group[g] \in {"running", "leaderless"}

\* The lifetime of some engine or check is unresolved.
Unresolved == cleanup \/ check # None

\* The control calls of the API, one at a time.
Controls == {"quiesce", "resume"}
Controlled(c) == call[c].op \in Controls /\ call[c].at \notin {"new", "done"}

\* A call of an operation; quiesce and resume close the gate before anything.
Call(c, op) ==
  /\ call[c].at = "new"
  /\ op \in Controls => ~\E other \in Callers : Controlled(other)
  /\ call' = [call EXCEPT ![c] = [op |-> op, at |-> "lock"]]
  /\ paused' = (paused \/ op \in Controls)
  /\ UNCHANGED <<lock, backendVars, group, engine, quiesced, orphaned>>

CancelWaiting(c) ==
  /\ call[c].at = "lock" /\ Goes(c, "done")
  /\ UNCHANGED <<lock, paused, backendVars, group, engine, quiesced, orphaned>>

\* The call has the lock and is refused at once.
Refused(c, op) ==
  /\ At(c, op, "lock") /\ lock = None /\ Goes(c, "done")
  /\ UNCHANGED <<lock, paused, backendVars, group, engine, quiesced, orphaned>>

-----------------------------------------------------------------------------
(* validate, and the check a start makes unless it was made for the same    *)
(* configuration.                                                           *)

MayCheck == ~Unresolved /\ ~(withdrawn = "no" /\ process = None)

ValidateRefused(c) == ~MayCheck /\ Refused(c, "validate")

BeginCheck(c, op) ==
  /\ At(c, op, "lock") /\ lock = None /\ lock' = c
  /\ Goes(c, "spawn check")
  /\ withdrawn' = "no" /\ validated' = FALSE
  /\ UNCHANGED <<paused, process, check, cleanup, client, monitor, configured, info,
                 group, engine, quiesced, orphaned>>

Validate(c) == MayCheck /\ BeginCheck(c, "validate")

CheckSpawned(c) ==
  /\ call[c].at = "spawn check" /\ Goes(c, "check")
  /\ \E g \in Groups :
       /\ group[g] = "unborn" /\ check' = g
       /\ group' = [group EXCEPT ![g] = "running"]
  /\ UNCHANGED <<lock, paused, process, withdrawn, cleanup, client, monitor, configured,
                 validated, info, engine, quiesced, orphaned>>

\* The interpreter is missing: nothing was spawned.  A lifetime that was not
\* withdrawn is an engine's that runs still, or the call would be refused.
CheckNotSpawned(c) ==
  /\ call[c].at = "spawn check" /\ Over(c)
  /\ withdrawn' = IF process = None THEN "yes" ELSE "no"
  /\ UNCHANGED <<paused, process, check, cleanup, client, monitor, configured, validated,
                 info, group, engine, quiesced, orphaned>>

\* A process may have been spawned, and its handle is lost.
Orphan ==
  \/ UNCHANGED group
  \/ \E g \in Groups : group[g] = "unborn" /\ group' = [group EXCEPT ![g] = "running"]

CheckSpawnCancelled(c) ==
  /\ call[c].at = "spawn check" /\ Over(c) /\ Orphan
  /\ orphaned' = (orphaned \/ process # None)
  /\ UNCHANGED <<paused, backendVars, engine, quiesced>>

\* The check's verdict, its deadline, or a cancellation.
CheckAnswers(c) ==
  /\ call[c].at = "check"
  /\ \/ Goes(c, "checked") /\ validated' = TRUE
     \/ Goes(c, "unchecked") /\ UNCHANGED validated
  /\ UNCHANGED <<lock, paused, process, check, withdrawn, cleanup, client, monitor,
                 configured, info, group, engine, quiesced, orphaned>>

\* What a stop that fails or is cancelled leaves of a group.
MayStop(gs) ==
  \E gone \in SUBSET gs, leaderless \in SUBSET gs :
    group' = [g \in Groups |->
      IF g \in gone THEN "gone"
      ELSE IF g \in leaderless /\ group[g] = "running" THEN "leaderless" ELSE group[g]]

Stopped(gs) == group' = [g \in Groups |-> IF g \in gs THEN "gone" ELSE group[g]]

\* A start goes on to spawn its engine.
BeginSpawn(c) ==
  /\ Goes(c, "spawn") /\ lock' = c
  /\ configured' = TRUE /\ info' = "loading" /\ withdrawn' = "no"

CheckStopped(c) ==
  /\ call[c].at \in {"checked", "unchecked"}
  /\ Stopped({check}) /\ check' = None
  /\ IF At(c, "start", "checked") THEN BeginSpawn(c)
     ELSE /\ Over(c) /\ withdrawn' = IF process = None THEN "yes" ELSE "no"
          /\ UNCHANGED <<configured, info>>
  /\ UNCHANGED <<paused, process, cleanup, client, monitor, validated, engine, quiesced,
                 orphaned>>

\* Mutant of CheckStopFails: the check's handle is dropped all the same.
CheckStopForgets(c) ==
  /\ call[c].at \in {"checked", "unchecked"} /\ Over(c)
  /\ MayStop({check}) /\ check' = None
  /\ withdrawn' = IF process = None THEN "yes" ELSE "no"
  /\ UNCHANGED <<paused, process, cleanup, client, monitor, configured, validated, info,
                 engine, quiesced, orphaned>>

CheckStopFails(c) ==
  /\ call[c].at \in {"checked", "unchecked"} /\ Over(c)
  /\ MayStop({check})
  /\ UNCHANGED <<paused, backendVars, engine, quiesced, orphaned>>

-----------------------------------------------------------------------------
(* start *)

\* Mutant of MayStart: a lost handle does not fence the next start.
MayStartAnyway == process = None /\ ~cleanup

MayStart == process = None /\ withdrawn # "no" /\ ~cleanup

StartRefused(c) == ~MayStart /\ Refused(c, "start")

\* _withdrawn is set before the check's own guard, which may still refuse.
StartChecks(c) ==
  /\ MayStart /\ ~validated /\ check = None
  /\ BeginCheck(c, "start")

StartValidated(c) ==
  /\ At(c, "start", "lock") /\ lock = None /\ MayStart /\ validated
  /\ BeginSpawn(c)
  /\ UNCHANGED <<paused, process, check, cleanup, client, monitor, validated, group,
                 engine, quiesced, orphaned>>

\* Mutant of Spawned: a new engine opens the gate.
SpawnedOpen(c) ==
  /\ call[c].at = "spawn" /\ Goes(c, "load")
  /\ \E g \in Groups :
       /\ group[g] = "unborn" /\ process' = g
       /\ group' = [group EXCEPT ![g] = "running"]
  /\ client' = TRUE /\ engine' = "running" /\ paused' = FALSE
  /\ UNCHANGED <<lock, check, withdrawn, cleanup, monitor, configured, validated, info,
                 quiesced, orphaned>>

Spawned(c) ==
  /\ call[c].at = "spawn" /\ Goes(c, "load")
  /\ \E g \in Groups :
       /\ group[g] = "unborn" /\ process' = g
       /\ group' = [group EXCEPT ![g] = "running"]
  /\ client' = TRUE /\ engine' = "running"
  /\ UNCHANGED <<lock, paused, check, withdrawn, cleanup, monitor, configured, validated,
                 info, quiesced, orphaned>>

\* What _shutdown_inner does before its first await: the gate closes for every
\* lifetime that was attempted, and the monitor, unless it is the caller, is
\* cancelled wherever it waits.
BeginStop ==
  /\ paused' = (paused \/ configured \/ withdrawn' # "yes")
  /\ cleanup' = TRUE /\ info' = "unhealthy" /\ monitor' = "none"

SpawnFails(c) ==
  /\ call[c].at = "spawn" /\ Goes(c, "unwind")
  /\ \/ withdrawn' = "yes" /\ UNCHANGED group   \* nothing was spawned
     \/ UNCHANGED withdrawn /\ Orphan           \* cancelled
  /\ BeginStop
  /\ UNCHANGED <<lock, process, check, client, configured, validated, engine, quiesced,
                 orphaned>>

\* The engine answered a completion, and was observed as configured.
Loaded(c) ==
  /\ call[c].at = "load" /\ Running(process) /\ Over(c)
  /\ info' = "healthy" /\ monitor' = "watching"
  /\ UNCHANGED <<paused, process, check, withdrawn, cleanup, client, configured, validated,
                 group, engine, quiesced, orphaned>>

\* The engine exited, its deadline passed, it was not what was configured, or
\* the call was cancelled.
LoadFails(c) ==
  /\ call[c].at = "load" /\ Goes(c, "unwind")
  /\ withdrawn' = withdrawn /\ BeginStop
  /\ UNCHANGED <<lock, process, check, client, configured, validated, group, engine,
                 quiesced, orphaned>>

-----------------------------------------------------------------------------
(* _shutdown_inner, for a start that failed, the monitor, or a shutdown.    *)

Owned == {check, process} \ {None}

\* Every group it owns is stopped, and their handles are dropped.
StopEnds ==
  /\ Stopped(Owned)
  /\ withdrawn' = IF Owned # {} THEN "yes" ELSE withdrawn
  /\ client' = FALSE /\ process' = None /\ check' = None /\ cleanup' = FALSE
  /\ validated' = FALSE

\* A group cannot be signalled, survives, or the caller is cancelled: the
\* handles are kept and the cleanup stays pending.
StopFails ==
  /\ MayStop(Owned)
  /\ UNCHANGED <<withdrawn, client, process, check, cleanup, validated, orphaned>>

Unwound(c) ==
  /\ call[c].at = "unwind" /\ Over(c)
  /\ StopEnds /\ info' = "unhealthy"
  /\ UNCHANGED <<paused, monitor, configured, engine, quiesced, orphaned>>

UnwindFails(c) ==
  /\ call[c].at = "unwind" /\ Over(c)
  /\ StopFails
  /\ UNCHANGED <<paused, monitor, configured, info, engine, quiesced, orphaned>>

Shutdown(c) ==
  /\ At(c, "shutdown", "lock") /\ lock = None /\ lock' = c
  /\ Goes(c, "stop")
  /\ withdrawn' = withdrawn /\ BeginStop
  /\ UNCHANGED <<process, check, client, configured, validated, group, engine, quiesced,
                 orphaned>>

ShutdownEnds(c) ==
  /\ call[c].at = "stop" /\ Over(c)
  /\ StopEnds /\ info' = "disabled"
  /\ UNCHANGED <<paused, monitor, configured, engine, quiesced, orphaned>>

ShutdownFails(c) ==
  /\ call[c].at = "stop" /\ Over(c)
  /\ StopFails
  /\ UNCHANGED <<paused, monitor, configured, info, engine, quiesced, orphaned>>

-----------------------------------------------------------------------------
(* The monitor. *)

\* Mutant of MonitorFails: the role is not marked unhealthy.
MonitorFailsHealthy ==
  /\ monitor = "watching"
  /\ paused' = TRUE /\ monitor' \in {"failing", "dead"}
  /\ UNCHANGED <<call, lock, process, check, withdrawn, cleanup, client, configured,
                 validated, info, group, engine, quiesced, orphaned>>

\* The engine exited, or could not be observed as it was.  The callback may
\* raise, as it writes the manifest, and then the monitor is no more.
MonitorFails ==
  /\ monitor = "watching"
  /\ paused' = TRUE /\ info' = "unhealthy"
  /\ monitor' \in {"failing", "dead"}
  /\ UNCHANGED <<call, lock, process, check, withdrawn, cleanup, client, configured,
                 validated, group, engine, quiesced, orphaned>>

\* Mutant of MonitorStops: a failed engine is left as it is.
MonitorEnds ==
  /\ monitor = "failing" /\ lock = None /\ monitor' = "none"
  /\ UNCHANGED <<call, lock, paused, process, check, withdrawn, cleanup, client,
                 configured, validated, info, group, engine, quiesced, orphaned>>

\* It has the lock.  It is not the monitor any more, and will not be cancelled.
MonitorStops ==
  /\ monitor = "failing" /\ lock = None /\ lock' = Monitor
  /\ withdrawn' = withdrawn /\ BeginStop
  /\ UNCHANGED <<call, process, check, client, configured, validated, group, engine,
                 quiesced, orphaned>>

MonitorStopped ==
  /\ lock = Monitor /\ lock' = None
  /\ StopEnds /\ info' = "unhealthy"
  /\ UNCHANGED <<call, paused, monitor, configured, engine, quiesced, orphaned>>

MonitorStopFails ==
  /\ lock = Monitor /\ lock' = None
  /\ StopFails
  /\ UNCHANGED <<call, paused, monitor, configured, info, engine, quiesced, orphaned>>

-----------------------------------------------------------------------------
(* quiesce and resume *)

Withdrawn == withdrawn = "yes" /\ process = None /\ check = None /\ ~client
Available == client /\ Running(process)

\* Nothing runs that could work: the absence of an engine is proven.
QuiesceAbsent(c) ==
  /\ At(c, "quiesce", "lock") /\ lock = None
  /\ ~Unresolved /\ Withdrawn
  /\ Goes(c, "done") /\ quiesced' = TRUE
  /\ UNCHANGED <<lock, paused, backendVars, group, engine, orphaned>>

QuiesceRefused(c) ==
  /\ Unresolved \/ (~Withdrawn /\ ~Available)
  /\ Refused(c, "quiesce")

ResumeRefused(c) == (Unresolved \/ ~Available) /\ Refused(c, "resume")

AskEngine(c) ==
  /\ call[c].at = "lock" /\ call[c].op \in Controls /\ lock = None
  /\ ~Unresolved /\ Available
  /\ Goes(c, "ask") /\ lock' = c
  /\ UNCHANGED <<paused, backendVars, group, engine, quiesced, orphaned>>

\* The engine does what it is asked; its answer may not come.
Asked(c) == IF call[c].op = "quiesce" THEN "paused" ELSE "running"

Acknowledged(c) ==
  /\ call[c].at = "ask" /\ Running(process) /\ Over(c)
  /\ engine' = Asked(c)
  /\ quiesced' = (call[c].op = "quiesce") /\ paused' = (paused /\ call[c].op = "quiesce")
  /\ UNCHANGED <<backendVars, group, orphaned>>

\* Mutant of Unacknowledged: an engine that exits leaves the call waiting.
UnacknowledgedAlive(c) ==
  /\ call[c].at = "ask" /\ Running(process) /\ Over(c)
  /\ engine' \in {engine, Asked(c)}
  /\ UNCHANGED <<paused, backendVars, group, quiesced, orphaned>>

Unacknowledged(c) ==
  /\ call[c].at = "ask" /\ Over(c)
  /\ engine' \in {engine, Asked(c)}
  /\ UNCHANGED <<paused, backendVars, group, quiesced, orphaned>>

-----------------------------------------------------------------------------
\* A group's leader exits, or all of it.
GroupExits(g) ==
  /\ Alive(g)
  /\ \E left \in {"leaderless", "gone"} :
       left # group[g] /\ group' = [group EXCEPT ![g] = left]
  /\ UNCHANGED <<call, lock, paused, backendVars, engine, quiesced, orphaned>>

\* A call that was made goes on; CancelWaiting is no way on.
GoesOn(c) ==
  \/ ValidateRefused(c) \/ Validate(c)
  \/ CheckSpawned(c) \/ CheckNotSpawned(c) \/ CheckSpawnCancelled(c)
  \/ CheckAnswers(c) \/ CheckStopped(c) \/ CheckStopFails(c)
  \/ StartRefused(c) \/ StartChecks(c) \/ StartValidated(c)
  \/ Spawned(c) \/ SpawnFails(c) \/ Loaded(c) \/ LoadFails(c)
  \/ Unwound(c) \/ UnwindFails(c)
  \/ Shutdown(c) \/ ShutdownEnds(c) \/ ShutdownFails(c)
  \/ QuiesceAbsent(c) \/ QuiesceRefused(c) \/ ResumeRefused(c)
  \/ AskEngine(c) \/ Acknowledged(c) \/ Unacknowledged(c)

CallStep(c) == GoesOn(c) \/ CancelWaiting(c) \/ \E op \in Offered : Call(c, op)

MonitorStep == MonitorFails \/ MonitorStops \/ MonitorStopped \/ MonitorStopFails

\* Every call was made and is over.
AllOver ==
  /\ \A c \in Callers : call[c].at = "done"
  /\ UNCHANGED vars

Next ==
  \/ \E c \in Callers : CallStep(c)
  \/ MonitorStep
  \/ \E g \in Groups : GroupExits(g)
  \/ AllOver

Spec == Init /\ [][Next]_vars

(* A call that was made goes on: every wait has a deadline, but the one for *)
(* the engine's acknowledgement, which is taken to come or to fail.         *)
FairSpec ==
  /\ Spec
  /\ \A c \in Callers : WF_vars(GoesOn(c))
  /\ WF_vars(MonitorStops) /\ WF_vars(MonitorStopped \/ MonitorStopFails)

-----------------------------------------------------------------------------
(* The backend's state stays within its types, and _operation is held by    *)
(* whoever is past its lock.                                                *)
TypeOK ==
  /\ call \in [Callers -> [op : Operations, at : Awaits]]
  /\ lock \in Callers \cup {Monitor, None}
  /\ \A c \in Callers : lock = c <=> call[c].at \notin {"new", "lock", "done"}
  /\ {paused, cleanup, client, configured, validated, quiesced, orphaned} \subseteq BOOLEAN
  /\ {process, check} \subseteq Groups \cup {None}
  /\ withdrawn \in {"unset", "yes", "no"}
  /\ monitor \in {"none", "watching", "failing", "dead"}
  /\ info \in {"disabled", "loading", "healthy", "unhealthy"}
  /\ group \in [Groups -> {"unborn", "running", "leaderless", "gone"}]
  /\ engine \in {"running", "paused"}

(* A process group that is not gone is owned by its handle, or the lifetime *)
(* says that it is not withdrawn: no failed stop, lost handle or cancelled  *)
(* spawn is taken for an absent engine.  The one exception is the handle of *)
(* a check lost beside a managed engine, whose lifetime _withdrawn then     *)
(* goes by.                                                                 *)
NothingIsForgotten ==
  ~orphaned => \A g \in Groups : Alive(g) => g \in {process, check} \/ withdrawn = "no"

(* A new engine is spawned only when every group before it, an engine's or  *)
(* a check's, is gone, but for a check whose handle was lost beside one.    *)
EnginesDoNotOverlap ==
  [][\A g \in Groups : ~orphaned /\ group[g] = "unborn" /\ process' = g /\ process # g
        => \A other \in Groups : ~Alive(other)]_vars

(* After a quiesce was acknowledged, through failures, shutdowns and new    *)
(* starts, the gate stays closed until a resume is.                         *)
QuiescedStaysClosed == quiesced => paused

(* An open gate is the one of a healthy engine that is watched, so that its  *)
(* death will be noticed, or of none that serves yet; and an engine behind  *)
(* it was last told to run.                                                 *)
OpenGateIsServed ==
  ~paused =>
    /\ info = "healthy" => monitor = "watching"
    /\ Running(process) => engine = "running"

(* An engine that failed under its monitor is stopped, or its cleanup is    *)
(* pending, whatever calls hold _operation at that time.                    *)
FailedEngineIsStopped ==
  monitor = "failing" ~> process = None \/ cleanup

(* Every call that was made ends: neither the monitor's wait for the lock   *)
(* nor a shutdown's wait for the monitor blocks the other.                  *)
CallsEnd ==
  \A c \in Callers : call[c].at = "lock" ~> call[c].at = "done"
=============================================================================
