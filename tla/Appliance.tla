----------------------------- MODULE Appliance ------------------------------
(***************************************************************************)
(* The appliance around its backend: the lifecycle that starts the roles   *)
(* (lazarus/appliance/launcher.py), the state and errors it keeps          *)
(* (state.py), the manifest it publishes (manifest.py), and the control    *)
(* calls and readiness of its API (api.py).                                *)
(*                                                                         *)
(* The backend is what it shows of itself: a start that ends in some way,  *)
(* a status for each role, and, when it watches its engine as SlimServe's  *)
(* does (backends/slimserve.py), a monitor that refreshes that status and  *)
(* reports the engine's failure.                                           *)
(***************************************************************************)
EXTENDS Naturals, Sequences, FiniteSets

CONSTANT Configs  \* the configurations that load_config accepts

Names == {"generation", "embedding"}

\* enabled: the enabled roles in their order; watched: the backend watches its
\* engine, which serves generation alone (config.py); smoke: smoke_test_on_start;
\* fatal: the roles whose failure ends the process.
Config == [enabled : {<<"generation">>, <<"embedding">>, <<"generation", "embedding">>},
           watched : BOOLEAN, smoke : BOOLEAN, fatal : SUBSET Names]

ASSUME ApplianceAssumption ==
  /\ Configs \subseteq Config
  /\ \A c \in Configs : c.watched => c.enabled = <<"generation">>

VARIABLES
  config,     \* the configuration
  lifecycle,  \* where run_lifecycle is
  testing,    \* the roles whose smoke test is still to end
  state,      \* the StateMachine's state
  errors,     \* its records, by code and role
  status,     \* the status of each role's RoleInfo
  paused,     \* generation_paused
  disk,       \* the manifest on disk
  monitor,    \* the backend's monitor
  serving,    \* the generation engine can answer a control call
  control,    \* the control call under way
  exiting,    \* the process was told to end
  failed,     \* the roles whose smoke test failed
  unwritten,  \* the last manifest could not be written
  reclosed    \* the monitor closed a gate that was resumed as its engine failed

starting == <<config, lifecycle, testing, failed>>
shown == <<state, errors, status>>
written == <<disk, unwritten, reclosed>>
vars == <<starting, shown, paused, written, monitor, serving, control, exiting>>

RolesOf(list) == {list[i] : i \in 1..Len(list)}
Roles == RolesOf(config.enabled)

Init ==
  /\ config \in Configs
  /\ lifecycle = "new" /\ testing = <<>> /\ state = "initializing" /\ errors = {}
  /\ status = [r \in Names |-> "disabled"] /\ paused = FALSE
  /\ disk = [state |-> "unwritten"] /\ monitor = "off" /\ serving = FALSE
  /\ control = "none" /\ exiting = FALSE /\ failed = {}
  /\ unwritten = FALSE /\ reclosed = FALSE

-----------------------------------------------------------------------------
(* The manifest and what it is made of. *)

Manifest == [state |-> state, paused |-> paused, status |-> status]

Published == disk' = Manifest' /\ unwritten' = FALSE /\ reclosed' = FALSE

\* The file is written in its place: a write that fails may leave a part of it.
NotPublished ==
  /\ disk' \in {disk, [state |-> "torn"]} /\ unwritten' = TRUE
  /\ UNCHANGED reclosed

Record(code, role) == [code |-> code, role |-> role]

\* _maybe_fail_process
MayFailProcess(now) ==
  exiting' = (exiting \/ \E r \in Roles \cap config.fatal : now[r] # "healthy")

-----------------------------------------------------------------------------
(* run_lifecycle *)

\* The lifecycle ends, "over" when start had returned and "failed" when it never
\* did, with a state, errors and a manifest.  When the manifest cannot be written
\* it has crashed, and publishes that, or not.
Concludes(end, how, why) ==
  lifecycle' = end /\ state' = how /\ errors' = errors \cup why /\ Published
Crashes(end, why) ==
  /\ lifecycle' = end /\ state' = "runtime_error"
  /\ errors' = errors \cup why \cup {Record("ENGINE_DEAD", "none")}
  /\ Published \/ NotPublished
  /\ UNCHANGED exiting

ConfigInvalid ==
  /\ lifecycle = "new"
  /\ UNCHANGED <<config, testing, failed, status, paused, monitor, serving, control>>
  /\ LET why == {Record("CONFIG_INVALID", "none")}
     IN \/ Concludes("failed", "configuration_error", why) /\ UNCHANGED exiting
        \/ Crashes("failed", why)

Starts ==
  /\ lifecycle = "new" /\ lifecycle' = "starting"
  /\ UNCHANGED <<config, testing, failed, shown, paused, written, monitor, serving, control,
                 exiting>>

\* on_state: what the backend is at shows in the state, not in the manifest.
BackendState ==
  /\ lifecycle = "starting"
  /\ \E at \in {"downloading", "loading"} : at # state /\ state' = at
  /\ UNCHANGED <<starting, errors, status, paused, written, monitor, serving, control, exiting>>

\* What the roles may be at when start ends at the one in place i, or before the
\* first of them: those before it are up or not, and those after it are not.
LeftAt(i) ==
  {now \in [Names -> {"disabled", "healthy", "unhealthy"}] :
     /\ \A r \in Names \ Roles : now[r] = "disabled"
     /\ \A j \in DOMAIN config.enabled :
          now[config.enabled[j]] \in
            CASE j < i -> {"healthy", "unhealthy"}
              [] j = i -> {"unhealthy"}
              [] OTHER -> IF i = 0 THEN {"disabled"} ELSE {"disabled", "unhealthy"}}

\* An attempted engine closes the gate; one that is up stays up.
StartLeaves(i) ==
  /\ status' \in LeftAt(i)
  /\ paused' = (i > 0 \/ paused) /\ serving' = (status'["generation"] = "healthy")
  /\ UNCHANGED <<config, testing, failed, monitor, control>>

\* start raises, at a role or before the first of them: that one is recorded, if
\* any, and the lifecycle ends without a look at the others.
StartFails ==
  /\ lifecycle = "starting"
  /\ \E i \in 0..Len(config.enabled) : \E how \in {"configuration_error", "runtime_error"} :
       /\ StartLeaves(i)
       /\ \E role \in IF i > 0 THEN {config.enabled[i]} ELSE {"none"} \cup (Roles \cap {"generation"}) :
            LET why == {Record("START_FAILED", role)}
            IN \/ Concludes("failed", how, why) /\ UNCHANGED exiting
               \/ Crashes("failed", why)

\* Anything else goes wrong in it, or before it: no role is recorded.
StartCrashes ==
  /\ lifecycle = "starting"
  /\ \E i \in IF config.watched THEN {0, 1} ELSE {0} : StartLeaves(i)
  /\ Crashes("failed", {})

\* The state that the roles' status makes.
Terminal(now) ==
  LET healthy == {r \in Roles : now[r] = "healthy"}
  IN IF healthy = {} THEN "configuration_error"
     ELSE IF healthy = Roles THEN "healthy" ELSE "degraded"

Finishes(now, why) ==
  \/ Concludes("over", Terminal(now), why) /\ MayFailProcess(now)
  \/ Crashes("over", why)

\* The lists of roles to test: all that are enabled, or one.
TestLists == {config.enabled} \cup {<<r>> : r \in Names}

\* The engines are started, some of them healthy, and watched from then on.
StartReturns ==
  /\ lifecycle = "starting"
  /\ UNCHANGED <<config, failed, control>>
  /\ \E up \in IF config.watched THEN {Roles} ELSE SUBSET Roles :
       LET now == [r \in Names |-> IF r \in up THEN "healthy"
                                   ELSE IF r \in Roles THEN "unhealthy" ELSE "disabled"]
           why == {Record("MODEL_LOAD_FAILED", r) : r \in {r \in Roles : now[r] = "unhealthy"}}
       IN /\ status' = now /\ serving' = ("generation" \in up)
          /\ paused' \in {paused, up # Roles \/ paused}
          /\ IF up # {} /\ config.smoke
             THEN /\ lifecycle' = "testing" /\ state' = "smoke_testing"
                  /\ testing' \in {list \in TestLists : RolesOf(list) = up}
                  /\ errors' = errors \cup why
                  /\ UNCHANGED <<written, exiting>>
             ELSE Finishes(now, why) /\ UNCHANGED testing
  /\ monitor' = IF config.watched THEN "watching" ELSE "off"

\* Mutant of Tested: the roles are not read again after their tests.
TestedOnce ==
  /\ lifecycle = "testing" /\ testing' = Tail(testing)
  /\ UNCHANGED <<config, paused, monitor, serving, control>>
  /\ \E ok \in BOOLEAN :
       LET r   == Head(testing)
           now == IF ok THEN status ELSE [status EXCEPT ![r] = "unhealthy"]
           why == IF ok THEN {} ELSE {Record("SMOKE_TEST_FAILED", r)}
       IN /\ status' = now /\ failed' = IF ok THEN failed ELSE failed \cup {r}
          /\ IF Len(testing) = 1 THEN Finishes(status, why)
             ELSE errors' = errors \cup why /\ UNCHANGED <<lifecycle, state, written, exiting>>

\* A role's smoke test ends.  After the last of them the roles are read again,
\* and the lifecycle ends.
Tested ==
  /\ lifecycle = "testing" /\ testing' = Tail(testing)
  /\ UNCHANGED <<config, paused, monitor, serving, control>>
  /\ \E ok \in BOOLEAN :
       LET r   == Head(testing)
           now == IF ok THEN status ELSE [status EXCEPT ![r] = "unhealthy"]
           why == IF ok THEN {} ELSE {Record("SMOKE_TEST_FAILED", r)}
       IN /\ status' = now /\ failed' = IF ok THEN failed ELSE failed \cup {r}
          /\ IF Len(testing) = 1 THEN Finishes(now, why)
             ELSE errors' = errors \cup why /\ UNCHANGED <<lifecycle, state, written, exiting>>

-----------------------------------------------------------------------------
(* The backend's monitor. *)

\* A new observation is a new RoleInfo.
Refreshed ==
  /\ monitor = "watching"
  /\ status' = [status EXCEPT !["generation"] = "healthy"]
  /\ UNCHANGED <<starting, state, errors, paused, written, monitor, serving, control, exiting>>

\* Mutant of EngineFails: the failure is not told to the appliance.
EngineFailsSilently ==
  /\ monitor = "watching" /\ monitor' = "failing"
  /\ paused' = TRUE /\ status' = [status EXCEPT !["generation"] = "unhealthy"]
  /\ UNCHANGED <<starting, state, errors, written, serving, control, exiting>>

\* The engine died or is not what it was.  The gate closes, and the state, the
\* error and the manifest say so; if they cannot, the monitor is no more.
EngineFails ==
  /\ monitor = "watching"
  /\ UNCHANGED <<starting, serving, control>>
  /\ paused' = TRUE /\ status' = [status EXCEPT !["generation"] = "unhealthy"]
  /\ state' = "runtime_error" /\ errors' = errors \cup {Record("ENGINE_DEAD", "generation")}
  /\ \/ monitor' = "failing" /\ Published /\ MayFailProcess(status')
     \/ monitor' = "dead" /\ NotPublished /\ UNCHANGED exiting

\* The monitor stops the engine when no control call holds the backend's lock,
\* and closes the gate again.
EngineStopped ==
  /\ monitor = "failing" /\ control \notin {"quiesce", "resume"}
  /\ monitor' = "over" /\ serving' = FALSE /\ paused' = TRUE
  /\ reclosed' = (reclosed \/ ~paused)
  /\ UNCHANGED <<starting, shown, disk, unwritten, control, exiting>>

-----------------------------------------------------------------------------
(* quiesce and resume, one at a time (managed_generation) *)

\* The gate is closed and published before anything else; a manifest that
\* cannot be written is tried once more, and the call has failed.
ControlBegins ==
  /\ control = "none" /\ paused' = TRUE
  /\ UNCHANGED <<starting, shown, monitor, serving, exiting>>
  /\ \/ control' = "begun" /\ Published
     \/ UNCHANGED control /\ (Published \/ NotPublished)

\* The backend asks its engine, once it is not being started.
ControlAsks(op) ==
  /\ control = "begun" /\ serving /\ control' = op
  /\ UNCHANGED <<starting, shown, paused, written, monitor, serving, exiting>>

\* Mutant of ControlAcknowledged: the manifest is written before the answer only.
ControlUnpublished ==
  /\ control \in {"quiesce", "resume"} /\ control' = "none"
  /\ paused' = (control = "quiesce")
  /\ UNCHANGED <<starting, shown, written, monitor, serving, exiting>>

\* The engine acknowledges, and the gate is published as it is; or is closed.
ControlAcknowledged ==
  /\ control \in {"quiesce", "resume"} /\ control' = "none"
  /\ UNCHANGED <<starting, shown, monitor, serving, exiting>>
  /\ \/ paused' = (control = "quiesce") /\ Published
     \/ paused' = TRUE /\ (Published \/ NotPublished)

\* Refused, not acknowledged, or cancelled.
ControlFails ==
  /\ control # "none" /\ control' = "none" /\ paused' = TRUE
  /\ UNCHANGED <<starting, shown, monitor, serving, exiting>>
  /\ Published \/ NotPublished

-----------------------------------------------------------------------------
Next ==
  \/ ConfigInvalid \/ Starts \/ BackendState \/ StartFails \/ StartCrashes
  \/ StartReturns \/ Tested
  \/ Refreshed \/ EngineFails \/ EngineStopped
  \/ ControlBegins \/ ControlAcknowledged \/ ControlFails
  \/ \E op \in {"quiesce", "resume"} : ControlAsks(op)

Spec == Init /\ [][Next]_vars

-----------------------------------------------------------------------------
\* is_ready, for a role.
Ready(r) ==
  /\ state = "healthy" /\ status[r] = "healthy"
  /\ r = "generation" => ~paused

Ended == lifecycle \in {"over", "failed"}
Quiet == Ended /\ control = "none" /\ monitor # "failing"

(* The appliance's state stays within its types.                             *)
TypeOK ==
  /\ config \in Configs /\ lifecycle \in {"new", "starting", "testing", "over", "failed"}
  /\ lifecycle = "testing" <=> testing # <<>>
  /\ state \in {"initializing", "downloading", "loading", "smoke_testing", "healthy",
                "degraded", "configuration_error", "runtime_error"}
  /\ status \in [Names -> {"disabled", "healthy", "unhealthy"}]
  /\ {paused, serving, exiting, unwritten, reclosed} \subseteq BOOLEAN
  /\ monitor \in {"off", "watching", "failing", "dead", "over"}
  /\ control \in {"none", "begun", "quiesce", "resume"} /\ failed \subseteq Roles

(* No role is ready once the watched engine failed, or a smoke test did,     *)
(* whatever the lifecycle or the monitor writes over it afterwards: the      *)
(* lifecycle's last transition over a runtime_error, an observation over the *)
(* mark of a failed test.                                                    *)
NotReadyAfterFailure ==
  monitor \in {"failing", "dead", "over"} \/ failed # {} => \A r \in Names : ~Ready(r)

(* What /runtime/errors shows agrees with the state, in whichever order the  *)
(* lifecycle, the smoke tests and the monitor write: a bad state has a       *)
(* record, a healthy one has none, and once start has returned each role     *)
(* that is not healthy has a record of its own.  A start that fails records  *)
(* the role at fault, or none, and says nothing of the others.               *)
StateIsExplained ==
  /\ state \in {"configuration_error", "degraded", "runtime_error"} => errors # {}
  /\ state = "healthy" => errors = {}
  /\ lifecycle \in {"testing", "over"} =>
       \A r \in Roles : status[r] # "healthy" => \E e \in errors : e.role = r

(* Once the lifecycle has ended, and while a control call or the monitor is  *)
(* at work, the manifest on disk has the state and the gate that the runtime *)
(* has, unless the last one could not be written, or the monitor closed the  *)
(* gate once more; and its roles, unless they are watched and were observed  *)
(* since.                                                                    *)
DiskIsCurrent ==
  Ended /\ ~unwritten =>
    /\ disk.state = state
    /\ disk.paused = paused \/ reclosed
    /\ disk.status = status \/ config.watched

(* "The live manifest and configured on-disk publisher update at gate        *)
(* closure, acknowledgement, and failure" (README.md): when nothing is under *)
(* way, a closed gate is closed in the last manifest that was written.       *)
GateClosuresArePublished == Quiet /\ ~unwritten /\ paused => disk.paused
=============================================================================
