---------------------------- MODULE VllmLifetime ----------------------------
(***************************************************************************)
(* The in-process vLLM engines of an appliance, one for each role, and     *)
(* their lifetime (lazarus/appliance/backends/vllm_engine.py).             *)
(*                                                                         *)
(* One task, the appliance's lifecycle, starts the roles one after the     *)
(* other.  An engine is constructed in a thread that no cancellation       *)
(* stops.  Beside it the API makes control calls, one at a time, and at    *)
(* the end cancels the lifecycle and calls shutdown (api.py).  The server  *)
(* has answered every call by then, so that no control call runs.          *)
(***************************************************************************)
EXTENDS Naturals, Sequences, VllmArguments

CONSTANTS
  Roles,   \* the configured roles that are enabled, as they are loaded
  Given,   \* what their configurations may give
  Parsers  \* the flags that an installed vLLM may know

Names == {"generation", "embedding", "vision"}

ASSUME RolesAssumption ==
  /\ Roles \in Seq(Names)
  /\ \A i, j \in 1..Len(Roles) : Roles[i] = Roles[j] => i = j

ASSUME LaunchAssumption == Given \subseteq SUBSET Options /\ Parsers \subseteq SUBSET Flags

VARIABLES
  start,      \* the await that start is at, or how it ended
  index,      \* the role that start is at
  cancelled,  \* the lifecycle was cancelled and has not noticed yet
  unwinding,  \* a role's failure is a cancellation
  loading,    \* _loading_roles
  thread,     \* the constructor's thread; it is in _construction_tasks until idle
  native,     \* _native_lifetime_started
  engines,    \* _engines
  apps,       \* _apps
  roles,      \* the status of each role's RoleInfo
  cleanup,    \* _cleanup_pending
  paused,     \* generation_paused
  control,    \* the control call that waits for the engine
  stop,       \* whether shutdown began, and how it ended
  engine,     \* each role's engine, whoever knows of it
  launch,     \* what is configured, and the flags that are known
  settings,   \* what each role's engine runs with
  scheduler,  \* whether the generation engine's scheduler is paused
  absent,     \* a quiesce was acknowledged for want of an engine
  quiesced    \* the last acknowledgement given was a quiesce's

startVars == <<start, index, cancelled, unwinding, loading>>
engineVars == <<thread, native, engines, engine>>
roleVars == <<apps, roles>>
controlVars == <<control, scheduler, absent, quiesced>>
launchVars == <<launch, settings>>
vars == <<startVars, engineVars, roleVars, cleanup, paused, controlVars, stop, launchVars>>

Supported == {"generation", "embedding"}

\* start has not begun, is under way, or is over.
Underway == {"downloading", "choosing", "constructing", "collecting", "mounting",
             "cleaning", "probing"}
Ended == {"returned", "raised", "cancelled", "never"}

Init ==
  /\ start = "before" /\ index = 1 /\ cancelled = FALSE /\ unwinding = FALSE
  /\ loading = {} /\ thread = "idle" /\ native = FALSE
  /\ engines = {} /\ apps = {} /\ roles = [r \in Names |-> "absent"]
  /\ cleanup = FALSE /\ paused = FALSE
  /\ control = "none" /\ stop = "none"
  /\ engine = [r \in Names |-> "none"] /\ scheduler = "running"
  /\ launch \in [given : Given, known : Parsers] /\ settings = [r \in Names |-> {}]
  /\ absent = FALSE /\ quiesced = FALSE

-----------------------------------------------------------------------------
(* start *)

Role == Roles[index]
Arguments(r) == RoleArgv(r, launch.given)
Starting == start \in Underway    \* _starting, and _start_task is set
Attempted == start \notin {"before", "never"}  \* _startup_attempted

NextRole == start' = "choosing" /\ index' = index + 1
Ends(how) == start' = how /\ UNCHANGED index

\* Configuration, import and devices are checked before anything is awaited.
StartRefused ==
  /\ start = "before" /\ Ends("raised")
  /\ UNCHANGED <<cancelled, unwinding, loading, engineVars, roleVars, cleanup, paused,
                 controlVars, launchVars, stop>>

Start ==
  /\ start = "before" /\ start' = "downloading"
  /\ UNCHANGED <<index, cancelled, unwinding, loading, engineVars, roleVars, cleanup,
                 paused, controlVars, launchVars, stop>>

\* Every role's weights are there; a download that fails marks its role.
Downloaded ==
  /\ start = "downloading" /\ ~cancelled
  /\ start' = "choosing" /\ UNCHANGED index
  /\ \E failed \in SUBSET {Roles[i] : i \in 1..Len(Roles)} :
       roles' = [r \in Names |-> IF r \in failed THEN "unhealthy" ELSE roles[r]]
  /\ UNCHANGED <<cancelled, unwinding, loading, engineVars, apps, cleanup, paused,
                 controlVars, launchVars, stop>>

StartReturns ==
  /\ start = "choosing" /\ index > Len(Roles) /\ Ends("returned")
  /\ UNCHANGED <<cancelled, unwinding, loading, engineVars, roleVars, cleanup, paused,
                 controlVars, launchVars, stop>>

\* The download failed, or the role is not one that this backend has.
SkipRole ==
  /\ start = "choosing" /\ index <= Len(Roles)
  /\ roles[Role] = "unhealthy" \/ Role \notin Supported
  /\ roles' = [roles EXCEPT ![Role] = "unhealthy"] /\ NextRole
  /\ UNCHANGED <<cancelled, unwinding, loading, engineVars, apps, cleanup, paused,
                 controlVars, launchVars, stop>>

StartRole ==
  /\ start = "choosing" /\ index <= Len(Roles)
  /\ roles[Role] # "unhealthy" /\ Role \in Supported
  /\ start' = "constructing" /\ UNCHANGED index
  /\ loading' = loading \cup {Role} /\ thread' = "queued"
  /\ UNCHANGED <<cancelled, unwinding, native, engines, engine, roleVars, cleanup, paused,
                 controlVars, launchVars, stop>>

-----------------------------------------------------------------------------
(* The constructor, in its thread. *)

\* The bundle of a generation is invalid, or a required flag is unknown (a
\* BackendStartError); or the import or the parser fails.
ThreadRefuses ==
  /\ thread = "queued"
  /\ \/ thread' = "refused" /\ (Role = "generation" \/ Refused(Arguments(Role), launch.known))
     \/ thread' = "failed"
  /\ UNCHANGED <<startVars, native, engines, engine, roleVars, cleanup, paused, controlVars,
                 launchVars, stop>>

ThreadEnters ==
  /\ thread = "queued" /\ ~Refused(Arguments(Role), launch.known)
  /\ thread' = "native" /\ native' = TRUE
  /\ UNCHANGED <<startVars, engines, engine, roleVars, cleanup, paused, controlVars,
                 launchVars, stop>>

ThreadFails ==
  /\ thread = "native" /\ thread' = "failed"
  /\ UNCHANGED <<startVars, native, engines, engine, roleVars, cleanup, paused, controlVars,
                 launchVars, stop>>

\* The engine may settle on another window or concurrency than it is given, and
\* where a flag was dropped its default may be what is configured.
ThreadBuilds ==
  /\ thread = "native" /\ thread' = "built"
  /\ engine' = [engine EXCEPT ![Role] = "running"] /\ engines' = engines \cup {Role}
  /\ \E departed \in SUBSET {"window", "concurrency"},
        alike \in {{}, Arguments(Role) \ launch.known} :
       settings' = [settings EXCEPT ![Role] =
         (Taken(Arguments(Role), launch.known) \ departed) \cup alike]
  /\ UNCHANGED <<startVars, native, roleVars, cleanup, paused, controlVars, launch, stop>>

-----------------------------------------------------------------------------
(* A role's engine was constructed, or was not. *)

Constructed ==
  /\ start = "constructing" /\ ~cancelled /\ thread = "built"
  /\ start' = "mounting" /\ thread' = "idle"
  /\ UNCHANGED <<index, cancelled, unwinding, loading, native, engines, engine, roleVars,
                 cleanup, paused, controlVars, launchVars, stop>>

\* A role fails: the gate closes, and an engine that was returned is shut down.
Unhealthy == roles' = [roles EXCEPT ![Role] = "unhealthy"] /\ paused' = TRUE

ConstructionFails ==
  /\ start = "constructing" /\ ~cancelled /\ thread \in {"refused", "failed"}
  /\ thread' = "idle" /\ loading' = loading \ {Role} /\ Unhealthy
  /\ IF thread = "refused" THEN Ends("raised") ELSE NextRole
  /\ UNCHANGED <<cancelled, unwinding, native, engines, engine, apps, cleanup, controlVars,
                 launchVars, stop>>

\* The task is shielded: the cancellation waits for its result.
CancelConstruction ==
  /\ start = "constructing" /\ cancelled
  /\ start' = "collecting" /\ cancelled' = FALSE
  /\ UNCHANGED <<index, unwinding, loading, engineVars, roleVars, cleanup, paused,
                 controlVars, launchVars, stop>>

\* Mutant of Collected: the engine that was constructed is not shut down, as it
\* was never mounted.
CollectedIgnored ==
  /\ start = "collecting" /\ thread \in {"built", "refused", "failed"}
  /\ thread' = "idle" /\ Unhealthy
  /\ Ends("cancelled") /\ loading' = loading \ {Role} /\ engines' = engines \ {Role}
  /\ UNCHANGED <<cancelled, unwinding, native, engine, apps, cleanup, controlVars,
                 launchVars, stop>>

\* Mutant of Collected: a cancelled start waits for an engine, and never
\* looks at a constructor that failed.
CollectedOnlyBuilt ==
  /\ start = "collecting" /\ thread = "built"
  /\ thread' = "idle" /\ Unhealthy
  /\ start' = "cleaning" /\ unwinding' = TRUE /\ cleanup' = TRUE
  /\ UNCHANGED <<index, loading, cancelled, native, engines, engine, apps, controlVars,
                 launchVars, stop>>

Collected ==
  /\ start = "collecting" /\ thread \in {"built", "refused", "failed"}
  /\ thread' = "idle" /\ Unhealthy
  /\ IF Role \in engines
     THEN /\ start' = "cleaning" /\ unwinding' = TRUE /\ cleanup' = TRUE
          /\ UNCHANGED <<index, loading>>
     ELSE /\ Ends("cancelled") /\ loading' = loading \ {Role}
          /\ UNCHANGED <<unwinding, cleanup>>
  /\ UNCHANGED <<cancelled, native, engines, engine, apps, controlVars, launchVars, stop>>

\* The role's application is assembled on the engine and found as configured.
Mounted ==
  /\ start = "mounting" /\ ~cancelled
  /\ Matches(Role, launch.given, settings[Role])
  /\ apps' = apps \cup {Role} /\ roles' = [roles EXCEPT ![Role] = "healthy"]
  /\ loading' = loading \ {Role}
  /\ IF Role = "embedding" THEN start' = "probing" /\ UNCHANGED index ELSE NextRole
  /\ UNCHANGED <<cancelled, unwinding, engineVars, cleanup, paused, controlVars, launchVars,
                 stop>>

\* Mutant of MountFails: an engine without an application is not cleaned up.
MountFailsUnclean ==
  /\ start = "mounting" /\ Unhealthy
  /\ cancelled' = FALSE /\ loading' = loading \ {Role}
  /\ IF cancelled THEN Ends("cancelled") ELSE NextRole
  /\ UNCHANGED <<unwinding, engineVars, apps, cleanup, controlVars, launchVars, stop>>

\* The application cannot be assembled, or the engine is not the one that was
\* selected, or the start is cancelled; the engine is shut down.
MountFails ==
  /\ start = "mounting" /\ start' = "cleaning"
  /\ Unhealthy /\ cleanup' = TRUE
  /\ unwinding' = cancelled /\ cancelled' = FALSE
  /\ UNCHANGED <<index, loading, engineVars, apps, controlVars, launchVars, stop>>

Cleaned ==
  /\ start = "cleaning" /\ ~cancelled
  /\ engine' = [engine EXCEPT ![Role] = "down"] /\ loading' = loading \ {Role}
  /\ IF unwinding THEN Ends("cancelled") ELSE NextRole
  /\ UNCHANGED <<cancelled, unwinding, thread, native, engines, roleVars, cleanup, paused,
                 controlVars, launchVars, stop>>

\* The engine's shutdown fails, or is cancelled.
CleaningFails ==
  /\ start = "cleaning"
  /\ \/ UNCHANGED engine
     \/ cancelled /\ engine' = [engine EXCEPT ![Role] = "down"]
  /\ Ends(IF cancelled THEN "cancelled" ELSE "raised")
  /\ loading' = loading \ {Role} /\ cancelled' = FALSE
  /\ UNCHANGED <<unwinding, thread, native, engines, roleVars, cleanup, paused, controlVars,
                 launchVars, stop>>

\* The embedding's dimensions are probed; its application stays either way.
Probed ==
  /\ start = "probing" /\ ~cancelled /\ NextRole
  /\ \E status \in {"healthy", "unhealthy"} : roles' = [roles EXCEPT ![Role] = status]
  /\ UNCHANGED <<cancelled, unwinding, loading, engineVars, apps, cleanup, paused,
                 controlVars, launchVars, stop>>

CancelIdleAwait ==
  /\ start \in {"downloading", "probing"} /\ cancelled
  /\ Ends("cancelled") /\ cancelled' = FALSE
  /\ UNCHANGED <<unwinding, loading, engineVars, roleVars, cleanup, paused, controlVars,
                 launchVars, stop>>

-----------------------------------------------------------------------------
(* quiesce and resume *)

Unsettled == Starting \/ loading # {} \/ thread # "idle"

\* No constructor was ever entered, and start was called: there is no engine.
NeverNative == Attempted /\ ~native /\ engines = {} /\ apps = {}

MayControl == control = "none" /\ stop = "none"

ControlRefused ==
  /\ MayControl /\ paused' = TRUE
  /\ cleanup \/ Unsettled \/ "generation" \notin apps
  /\ UNCHANGED <<startVars, engineVars, roleVars, cleanup, controlVars, launchVars, stop>>

\* Mutant of QuiesceAbsent: a construction that has not settled is overlooked.
QuiesceAbsentUnsettled ==
  /\ MayControl /\ paused' = TRUE
  /\ ~cleanup /\ "generation" \notin apps /\ NeverNative
  /\ absent' = TRUE /\ quiesced' = TRUE
  /\ UNCHANGED <<startVars, engineVars, roleVars, cleanup, control, scheduler, stop,
                 launchVars>>

QuiesceAbsent ==
  /\ MayControl /\ paused' = TRUE
  /\ ~cleanup /\ ~Unsettled /\ "generation" \notin apps /\ NeverNative
  /\ absent' = TRUE /\ quiesced' = TRUE
  /\ UNCHANGED <<startVars, engineVars, roleVars, cleanup, control, scheduler, stop,
                 launchVars>>

AskEngine(op) ==
  /\ MayControl /\ paused' = TRUE
  /\ ~cleanup /\ ~Unsettled /\ "generation" \in apps
  /\ control' = op
  /\ UNCHANGED <<startVars, engineVars, roleVars, cleanup, scheduler, absent, quiesced,
                 stop, launchVars>>

Asked == IF control = "quiesce" THEN "paused" ELSE "running"

Acknowledged ==
  /\ control # "none" /\ control' = "none"
  /\ scheduler' = Asked
  /\ paused' = (control = "quiesce") /\ quiesced' = (control = "quiesce")
  /\ UNCHANGED <<startVars, engineVars, roleVars, cleanup, absent, stop, launchVars>>

\* The engine fails to answer, answers otherwise, or the call is cancelled.
\* The engine takes calls in their order: none is carried out after a later one.
Unacknowledged ==
  /\ control # "none" /\ control' = "none"
  /\ scheduler' \in {scheduler, Asked}
  /\ UNCHANGED <<startVars, engineVars, roleVars, cleanup, paused, absent, quiesced, stop,
                 launchVars>>

-----------------------------------------------------------------------------
(* shutdown, after the lifecycle was cancelled *)

Stop ==
  /\ control = "none" /\ stop = "none" /\ stop' = "waiting" /\ paused' = TRUE
  /\ start' = IF start = "before" THEN "never" ELSE start
  /\ cancelled' = Starting
  /\ UNCHANGED <<index, unwinding, loading, engineVars, roleVars, cleanup, controlVars,
                 launchVars>>

\* A construction that has not settled is refused.  Else clients are closed and
\* engines shut down, each of which may fail.
Stopped ==
  /\ stop = "waiting" /\ start \in Ended
  /\ IF Unsettled THEN stop' = "failed" /\ UNCHANGED <<apps, engine, cleanup>>
     ELSE \E kept \in SUBSET apps, failed \in SUBSET engines :
            /\ apps' = kept
            /\ engine' = [r \in Names |-> IF r \in engines \ failed THEN "down" ELSE engine[r]]
            /\ stop' = IF kept \cup failed = {} THEN "done" ELSE "failed"
            /\ cleanup' = (native \/ kept \cup failed # {})
  /\ UNCHANGED <<startVars, thread, native, engines, roles, paused, controlVars,
                 launchVars>>

-----------------------------------------------------------------------------
StartStep ==
  \/ Downloaded \/ StartReturns \/ SkipRole \/ StartRole
  \/ Constructed \/ ConstructionFails \/ CancelConstruction \/ Collected
  \/ Mounted \/ MountFails \/ Cleaned \/ CleaningFails \/ Probed \/ CancelIdleAwait

ThreadStep == ThreadRefuses \/ ThreadEnters \/ ThreadFails \/ ThreadBuilds

ControlStep ==
  \/ ControlRefused \/ QuiesceAbsent \/ Acknowledged \/ Unacknowledged
  \/ \E op \in {"quiesce", "resume"} : AskEngine(op)

Exited == stop \in {"done", "failed"} /\ UNCHANGED vars

Next ==
  \/ StartRefused \/ Start \/ StartStep \/ ThreadStep
  \/ ControlStep \/ Stop \/ Stopped \/ Exited

Spec == Init /\ [][Next]_vars

(* Downloads, constructors and cleanups end, one way or another; nothing    *)
(* makes a control call or a stop come.                                     *)
FairSpec == Spec /\ WF_vars(StartStep) /\ WF_vars(ThreadStep) /\ WF_vars(Stopped)
-----------------------------------------------------------------------------
(* The backend's state stays within its types; one role at a time is loaded, *)
(* and a constructor runs only for a start that waits for it.                *)
TypeOK ==
  /\ start \in {"before"} \cup Underway \cup Ended /\ index \in 1..(Len(Roles) + 1)
  /\ {cancelled, unwinding, native, cleanup, paused, absent, quiesced} \subseteq BOOLEAN
  /\ thread \in {"idle", "queued", "native", "refused", "failed", "built"}
  /\ loading \subseteq Names /\ engines \subseteq Names /\ apps \subseteq engines
  /\ roles \in [Names -> {"absent", "healthy", "unhealthy"}]
  /\ control \in {"none", "quiesce", "resume"} /\ scheduler \in {"running", "paused"}
  /\ stop \in {"none", "waiting", "done", "failed"}
  /\ engine \in [Names -> {"none", "running", "down"}]
  /\ launch \in [given : Given, known : Parsers] /\ settings \in [Names -> SUBSET Flags]

(* A shutdown ends with no constructor running, and with every engine that   *)
(* was ever built shut down, or known and reported as not cleaned up: also   *)
(* the engine of a start that was cancelled while its thread built it.       *)
NothingOutlivesShutdown ==
  stop \in {"done", "failed"} =>
    /\ thread = "idle"
    /\ \A r \in Names : engine[r] = "running" => stop = "failed" /\ r \in engines /\ cleanup

(* A quiesce is acknowledged without an engine only when no constructor was  *)
(* entered, and none is entered after it.                                    *)
AbsenceIsFinal == absent => ~native /\ thread = "idle" /\ engines = {}

(* While the gate is open nothing is unresolved: no cleanup is pending,      *)
(* every engine that runs serves its application or is about to, and the     *)
(* generation engine that a completed start found healthy schedules work.    *)
OpenGateIsResolved ==
  ~paused =>
    /\ ~cleanup /\ ~quiesced
    /\ \A r \in Names : engine[r] = "running" => r \in apps \/ r \in loading
    /\ start = "returned" /\ roles["generation"] = "healthy" =>
         engine["generation"] = "running" /\ scheduler = "running"

(* A healthy role's engine runs the model, under the alias, at the revision  *)
(* and on the placement that are configured, and a profile's with its window *)
(* and concurrency, whichever flags the installed version has lost and       *)
(* whatever the engine made of the others.                                   *)
AppliedIsSelected ==
  \A r \in Supported : roles[r] = "healthy" =>
    /\ {"model", "alias", "revision", "parallel", "eager"} \cap Arguments(r)
         \subseteq settings[r]
    /\ r = "generation" /\ "profile" \in launch.given =>
         {"window", "concurrency"} \subseteq settings[r]

(* A shutdown ends: it waits for the start it cancelled, which waits for the *)
(* constructor that no cancellation stops.                                   *)
StopEnds == stop = "waiting" ~> stop \in {"done", "failed"}
=============================================================================
