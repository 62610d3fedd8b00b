-------------------------- MODULE ApplianceProofs ---------------------------
(***************************************************************************)
(* Proofs about Appliance: its types, and its three invariants: no role is *)
(* ready after a failure, the records agree with the state and the roles,  *)
(* and the manifest on disk is current, for every set of configurations    *)
(* that load_config accepts.                                               *)
(*                                                                         *)
(* The invariant says how far each stage of run_lifecycle has come, what a *)
(* failure of the watched engine or of a smoke test has left behind it, and*)
(* which records are kept of it.                                           *)
(***************************************************************************)
EXTENDS Appliance, SequenceTheorems, TLAPS

-----------------------------------------------------------------------------
(* The inductive invariant. *)

\* The backend has no monitor, and no test has failed, before start returns; a
\* watched engine has its one test, after which the lifecycle is over; and the
\* state is healthy at the end only.
StageInv ==
  /\ testing \in Seq(Roles)
  /\ lifecycle \in {"new", "starting"} =>
       /\ monitor = "off" /\ failed = {}
       /\ state \in {"initializing", "downloading", "loading"}
  /\ lifecycle = "failed" => monitor = "off" /\ failed = {}
  /\ lifecycle = "testing" => state \in {"smoke_testing", "runtime_error"}
  /\ ~config.watched => monitor = "off"
  /\ config.watched /\ lifecycle = "testing" => Len(testing) = 1 /\ failed = {}

\* A watched engine serves generation alone, and stays unhealthy once it has
\* failed; a role whose test failed is unhealthy until the lifecycle ends, which
\* it then does in a state that is not healthy.
FailureInv ==
  /\ monitor # "off" => status["embedding"] # "healthy"
  /\ monitor \in {"failing", "dead", "over"} => status["generation"] # "healthy"
  /\ failed # {} => state # "healthy"
  /\ lifecycle = "testing" => \A r \in failed : status[r] = "unhealthy"

Explained(r) == \E e \in errors : e.role = r

\* From start's return on, each role that is not healthy has a record of its own.
\* Until the lifecycle has ended a record means that a role is not healthy; one
\* that an observation could still mark healthy has none.
ErrorInv ==
  /\ state \in {"configuration_error", "degraded", "runtime_error"} => errors # {}
  /\ state = "healthy" => errors = {}
  /\ lifecycle \in {"new", "starting"} => errors = {}
  /\ lifecycle = "testing" /\ errors # {} =>
       monitor # "watching" /\ \E r \in Roles : status[r] # "healthy"
  /\ lifecycle \in {"testing", "over"} => \A r \in Roles : status[r] # "healthy" => Explained(r)

IInv == TypeOK /\ StageInv /\ FailureInv /\ ErrorInv /\ DiskIsCurrent

-----------------------------------------------------------------------------
(* The roles of a configuration, and the lists of them to test. *)

(* A configuration enables one role or two, and generation alone when its    *)
(* engine is watched.                                                        *)
LEMMA Shape ==
  ASSUME config \in Configs
  PROVE  /\ Roles # {} /\ Roles \subseteq Names
         /\ config.watched \in BOOLEAN
         /\ config.watched => Roles = {"generation"}
         /\ config.fatal \subseteq Names
<1>1. config \in Config /\ (config.watched => config.enabled = <<"generation">>)
  BY ApplianceAssumption
<1>2. CASE config.enabled = <<"generation">>
  <2>1. Roles = {"generation"}
    BY <1>2 DEF Roles, RolesOf
  <2> QED BY <1>1, <2>1 DEF Config, Names
<1>3. CASE config.enabled = <<"embedding">>
  <2>1. Roles = {"embedding"}
    BY <1>3 DEF Roles, RolesOf
  <2> QED BY <1>1, <1>3, <2>1 DEF Config, Names
<1>4. CASE config.enabled = <<"generation", "embedding">>
  <2>1. Roles = {"generation", "embedding"}
    BY <1>4 DEF Roles, RolesOf
  <2>2. config.enabled # <<"generation">>
    BY <1>4
  <2> QED BY <1>1, <2>1, <2>2 DEF Config, Names
<1> QED BY <1>1, <1>2, <1>3, <1>4 DEF Config

(* The list of the roles to test is a sequence of roles, empty for none, and *)
(* of one role for a watched engine.                                         *)
LEMMA TestsOf ==
  ASSUME config \in Configs, NEW up \in SUBSET Roles, NEW list \in TestLists, RolesOf(list) = up
  PROVE  /\ list \in Seq(Roles)
         /\ up # {} => list # <<>>
         /\ config.watched => Len(list) = 1
<1>1. /\ config.enabled \in {<<"generation">>, <<"embedding">>, <<"generation", "embedding">>}
      /\ config.watched => config.enabled = <<"generation">>
  BY ApplianceAssumption DEF Config
<1>2. /\ list = config.enabled \/ \E r \in Names : list = <<r>>
      /\ \A r \in Names : <<r>> \in Seq(Names) /\ Len(<<r>>) = 1
      /\ <<"generation", "embedding">> \in Seq(Names)
  BY DEF TestLists, Names
<1>5. list \in Seq(Names) /\ (config.watched => Len(list) = 1)
  BY <1>1, <1>2 DEF Names
<1>3. list \in Seq(Roles)
  <2>1. \A i \in 1..Len(list) : list[i] \in Roles
    BY DEF RolesOf
  <2> QED BY <1>5, <2>1
<1>4. up # {} => list # <<>>
  BY DEF RolesOf
<1> QED BY <1>5, <1>3, <1>4

(* What is left of the roles to test after the first of them.                *)
LEMMA TestsLeft ==
  ASSUME testing \in Seq(Roles), testing # <<>>
  PROVE  /\ Head(testing) \in Roles /\ Tail(testing) \in Seq(Roles)
         /\ Len(testing) \in Nat \ {0} /\ Len(Tail(testing)) = Len(testing) - 1
         /\ Len(testing) = 1 <=> Tail(testing) = <<>>
<1>1. Len(testing) \in Nat \ {0} /\ Len(Tail(testing)) = Len(testing) - 1
  OBVIOUS
<1>2. Tail(testing) \in Seq(Roles) /\ Head(testing) \in Roles
  OBVIOUS
<1>3. Len(Tail(testing)) = 0 <=> Tail(testing) = <<>>
  BY <1>2, EmptySeq
<1> QED BY <1>1, <1>2, <1>3

(* No step changes the configuration.                                        *)
LEMMA ConfigKept == Next => config' = config /\ Roles' = Roles
<1>1. Next => config' = config
  BY DEF Next, ConfigInvalid, Starts, BackendState, StartFails, StartCrashes, StartLeaves,
     StartReturns, Tested, Refreshed, EngineFails, EngineStopped, ControlBegins,
     ControlAsks, ControlAcknowledged, ControlFails, starting
<1> QED BY <1>1 DEF Roles

(* What a manifest that was written holds.                                   *)
LEMMA PublishedManifest ==
  ASSUME Published
  PROVE  /\ disk'.state = state' /\ disk'.paused = paused' /\ disk'.status = status'
         /\ unwritten' = FALSE /\ reclosed' = FALSE
  BY DEF Published, Manifest

(* How the lifecycle ends: with what it concluded, or with a crash.          *)
LEMMA Concluded ==
  ASSUME NEW end, NEW how, NEW why, Concludes(end, how, why)
  PROVE  /\ lifecycle' = end /\ errors' = errors \cup why /\ state' = how
         /\ unwritten' \in BOOLEAN /\ reclosed' \in BOOLEAN
         /\ ~unwritten' => /\ disk'.state = state' /\ disk'.paused = paused'
                           /\ disk'.status = status'
  BY PublishedManifest DEF Concludes

LEMMA Crashed ==
  ASSUME NEW end, NEW why, Crashes(end, why), TypeOK
  PROVE  /\ lifecycle' = end /\ errors \cup why \subseteq errors'
         /\ state' = "runtime_error" /\ errors' # {}
         /\ exiting' \in BOOLEAN /\ unwritten' \in BOOLEAN /\ reclosed' \in BOOLEAN
         /\ ~unwritten' => /\ disk'.state = state' /\ disk'.paused = paused'
                           /\ disk'.status = status'
  BY PublishedManifest DEF Crashes, NotPublished, TypeOK

(* What a start that raises leaves: a bad state with a record, and a         *)
(* lifecycle that has ended.                                                 *)
LEMMA StartEnds ==
  ASSUME TypeOK, StartFails \/ StartCrashes
  PROVE  /\ lifecycle = "starting" /\ lifecycle' = "failed"
         /\ UNCHANGED <<config, testing, failed, monitor, control>>
         /\ status' \in [Names -> {"disabled", "healthy", "unhealthy"}]
         /\ paused' \in BOOLEAN /\ serving' \in BOOLEAN
         /\ exiting' \in BOOLEAN /\ unwritten' \in BOOLEAN /\ reclosed' \in BOOLEAN
         /\ state' \in {"configuration_error", "runtime_error"} /\ errors' # {}
         /\ ~unwritten' => /\ disk'.state = state' /\ disk'.paused = paused'
                           /\ disk'.status = status'
<1>1. PICK i \in Nat : StartLeaves(i)
  BY DEF StartFails, StartCrashes
<1>2. /\ UNCHANGED <<config, testing, failed, monitor, control>>
      /\ status' \in [Names -> {"disabled", "healthy", "unhealthy"}]
      /\ paused' \in BOOLEAN /\ serving' \in BOOLEAN
  BY <1>1 DEF StartLeaves, LeftAt, TypeOK
<1>3. CASE StartFails
  <2>1. PICK how \in {"configuration_error", "runtime_error"} :
          \E role : \/ Concludes("failed", how, {Record("START_FAILED", role)}) /\ UNCHANGED exiting
                    \/ Crashes("failed", {Record("START_FAILED", role)})
    <3>1. PICK j \in 0..Len(config.enabled), how \in {"configuration_error", "runtime_error"} :
            \E role \in IF j > 0 THEN {config.enabled[j]} ELSE {"none"} \cup (Roles \cap {"generation"}) :
              LET why == {Record("START_FAILED", role)}
              IN \/ Concludes("failed", how, why) /\ UNCHANGED exiting
                 \/ Crashes("failed", why)
      BY <1>3 DEF StartFails
    <3> QED BY <3>1
  <2>2. PICK role : \/ Concludes("failed", how, {Record("START_FAILED", role)}) /\ UNCHANGED exiting
                    \/ Crashes("failed", {Record("START_FAILED", role)})
    BY <2>1
  <2>3. CASE Concludes("failed", how, {Record("START_FAILED", role)}) /\ UNCHANGED exiting
    BY <1>2, <1>3, <2>3, Concluded DEF StartFails, TypeOK
  <2>4. CASE Crashes("failed", {Record("START_FAILED", role)})
    BY <1>2, <1>3, <2>4, Crashed DEF StartFails
  <2> QED BY <2>2, <2>3, <2>4
<1>4. CASE StartCrashes
  BY <1>2, <1>4, Crashed DEF StartCrashes
<1> QED BY <1>3, <1>4

(* The same after start returned or the last test ended, with the state that *)
(* the roles make.                                                           *)
LEMMA Finished ==
  ASSUME NEW now, NEW why, TypeOK, Finishes(now, why)
  PROVE  /\ lifecycle' = "over" /\ errors \cup why \subseteq errors'
         /\ exiting' \in BOOLEAN /\ unwritten' \in BOOLEAN /\ reclosed' \in BOOLEAN
         /\ state' \in {"configuration_error", "degraded", "healthy", "runtime_error"}
         /\ state' = "healthy" => errors' = errors \cup why /\ \A r \in Roles : now[r] = "healthy"
         /\ state' \in {"configuration_error", "degraded"} => \E r \in Roles : now[r] # "healthy"
         /\ state' = "runtime_error" => errors' # {}
         /\ ~unwritten' => /\ disk'.state = state' /\ disk'.paused = paused'
                           /\ disk'.status = status'
<1>1. /\ Terminal(now) \in {"configuration_error", "degraded", "healthy"}
      /\ Terminal(now) = "healthy" => \A r \in Roles : now[r] = "healthy"
      /\ Terminal(now) \in {"configuration_error", "degraded"} =>
           \E r \in Roles : now[r] # "healthy"
  BY Shape DEF Terminal, TypeOK
<1>2. CASE Concludes("over", Terminal(now), why) /\ MayFailProcess(now)
  <2>1. exiting' \in BOOLEAN
    BY <1>2 DEF MayFailProcess, TypeOK
  <2> QED BY <1>1, <1>2, <2>1, Concluded
<1>3. CASE Crashes("over", why)
  BY <1>3, Crashed
<1> QED BY <1>2, <1>3 DEF Finishes

(* What the end of a role's smoke test leaves: the role unhealthy and its    *)
(* record kept if it failed, and a state that the roles make if it was the   *)
(* last.                                                                     *)
LEMMA TestEnds ==
  ASSUME TypeOK, StageInv, Tested
  PROVE  \E ok \in BOOLEAN :
           LET r == Head(testing)
           IN /\ status' = IF ok THEN status ELSE [status EXCEPT ![r] = "unhealthy"]
              /\ failed' = IF ok THEN failed ELSE failed \cup {r}
              /\ errors \cup (IF ok THEN {} ELSE {Record("SMOKE_TEST_FAILED", r)})
                   \subseteq errors'
              /\ \/ /\ lifecycle' = lifecycle /\ state' = state /\ monitor = "off"
                    /\ errors' # errors => ~ok
                 \/ /\ lifecycle' = "over"
                    /\ state' = "healthy" => /\ \A p \in Roles : status'[p] = "healthy"
                                             /\ ok /\ errors' = errors
                    /\ \/ state' = "healthy"
                       \/ state' = "runtime_error" /\ errors' # {}
                       \/ \E p \in Roles : status'[p] # "healthy"
<1>1. PICK ok \in BOOLEAN :
        LET r   == Head(testing)
            now == IF ok THEN status ELSE [status EXCEPT ![r] = "unhealthy"]
            why == IF ok THEN {} ELSE {Record("SMOKE_TEST_FAILED", r)}
        IN /\ status' = now /\ failed' = IF ok THEN failed ELSE failed \cup {r}
           /\ IF Len(testing) = 1 THEN Finishes(now, why)
              ELSE errors' = errors \cup why /\ UNCHANGED <<lifecycle, state>>
  BY DEF Tested
<1> DEFINE now == IF ok THEN status ELSE [status EXCEPT ![Head(testing)] = "unhealthy"]
           why == IF ok THEN {} ELSE {Record("SMOKE_TEST_FAILED", Head(testing))}
<1>2. /\ status' = now /\ failed' = IF ok THEN failed ELSE failed \cup {Head(testing)}
      /\ IF Len(testing) = 1 THEN Finishes(now, why)
         ELSE errors' = errors \cup why /\ UNCHANGED <<lifecycle, state>>
  BY <1>1
<1>3. Head(testing) \in Roles /\ Roles \subseteq Names /\ (~ok => why # {})
  BY Shape, TestsLeft DEF Tested, TypeOK, StageInv
<1>4. /\ (~ok => now[Head(testing)] = "unhealthy") /\ (ok => why = {})
      /\ Len(testing) # 1 => monitor = "off"
  BY <1>3 DEF TypeOK, StageInv, Tested
<1>5. /\ errors \cup why \subseteq errors'
      /\ \/ /\ lifecycle' = lifecycle /\ state' = state /\ monitor = "off"
            /\ errors' # errors => ~ok
         \/ /\ lifecycle' = "over"
            /\ state' = "healthy" => /\ \A p \in Roles : status'[p] = "healthy"
                                     /\ ok /\ errors' = errors
            /\ \/ state' = "healthy"
               \/ state' = "runtime_error" /\ errors' # {}
               \/ \E p \in Roles : status'[p] # "healthy"
  <2> HIDE DEF now, why
  <2>1. CASE Len(testing) = 1
    BY <1>2, <1>3, <1>4, <2>1, Finished
  <2>2. CASE Len(testing) # 1
    BY <1>2, <1>4, <2>2
  <2> QED BY <2>1, <2>2
<1> QED BY <1>2, <1>5

-----------------------------------------------------------------------------
(* Each part is kept by every action, given the invariant before it. *)

(* Every step of the appliance keeps its state within its types.             *)
LEMMA TypeStep == IInv /\ Next => TypeOK'
<1> SUFFICES ASSUME IInv, Next PROVE TypeOK'
  OBVIOUS
<1> config' = config /\ Roles' = Roles
  BY ConfigKept
<1> USE DEF starting, shown, written, Names, IInv, TypeOK, StageInv
<1>1. CASE ConfigInvalid
  BY <1>1, PublishedManifest DEF ConfigInvalid, Concludes, Crashes, NotPublished
<1>2. CASE Starts
  BY <1>2 DEF Starts
<1>3. CASE BackendState
  BY <1>3 DEF BackendState
<1>4. CASE StartFails \/ StartCrashes
  BY <1>4, StartEnds
<1>5. CASE StartReturns
  <2>1. /\ status' \in [Names -> {"disabled", "healthy", "unhealthy"}]
        /\ config' \in Configs /\ failed' \subseteq Roles /\ control' = control
        /\ monitor' \in {"off", "watching"}
    BY <1>5 DEF StartReturns
  <2>2. PICK up \in SUBSET Roles :
          /\ serving' = ("generation" \in up)
          /\ paused' \in {paused, up # Roles \/ paused}
    BY <1>5 DEF StartReturns
  <2>3. serving' \in BOOLEAN /\ paused' \in BOOLEAN
    <3>1. paused \in BOOLEAN /\ ("generation" \in up) \in BOOLEAN
             /\ (up # Roles \/ paused) \in BOOLEAN
      OBVIOUS
    <3>2. paused' = paused \/ paused' = (up # Roles \/ paused)
      BY <2>2
    <3>3. CASE paused' = paused
      BY <2>2, <3>1, <3>3
    <3>4. CASE paused' = (up # Roles \/ paused)
      BY <2>2, <3>1, <3>4
    <3> QED BY <3>2, <3>3, <3>4
  <2>4. /\ lifecycle' \in {"testing", "over"} /\ (lifecycle' = "testing" <=> testing' # <<>>)
        /\ state' \in {"smoke_testing", "configuration_error", "degraded", "healthy",
                       "runtime_error"}
        /\ exiting' \in BOOLEAN /\ unwritten' \in BOOLEAN /\ reclosed' \in BOOLEAN
    BY <1>5, Shape, TestsOf, Finished DEF StartReturns
  <2> QED BY <2>1, <2>4, <2>3
<1>6. CASE Tested
  BY <1>6, Shape, TestsLeft, Finished DEF Tested
<1>7. CASE Refreshed
  BY <1>7 DEF Refreshed
<1>8. CASE EngineFails
  BY <1>8, PublishedManifest DEF EngineFails, NotPublished, MayFailProcess
<1>9. CASE EngineStopped
  BY <1>9 DEF EngineStopped
<1>10. CASE ControlBegins
  BY <1>10, PublishedManifest DEF ControlBegins, NotPublished
<1>11. CASE ControlAcknowledged
  BY <1>11, PublishedManifest DEF ControlAcknowledged, NotPublished
<1>12. CASE ControlFails
  BY <1>12, PublishedManifest DEF ControlFails, NotPublished
<1>13. ASSUME NEW op \in {"quiesce", "resume"}, ControlAsks(op) PROVE TypeOK'
  BY <1>13 DEF ControlAsks
<1> QED BY <1>1, <1>2, <1>3, <1>4, <1>5, <1>6, <1>7, <1>8, <1>9, <1>10, <1>11, <1>12,
    <1>13 DEF Next

(* Every step keeps to the lifecycle's order, and to the one test of a       *)
(* watched engine.                                                           *)
LEMMA StageStep == IInv /\ Next => StageInv'
<1> SUFFICES ASSUME IInv, Next PROVE StageInv'
  OBVIOUS
<1> config' = config /\ Roles' = Roles
  BY ConfigKept
<1> USE DEF starting, shown, written, Names, IInv, TypeOK, StageInv
<1>1. CASE ConfigInvalid
  BY <1>1, PublishedManifest DEF ConfigInvalid, Concludes, Crashes, NotPublished
<1>2. CASE Starts
  BY <1>2 DEF Starts
<1>3. CASE BackendState
  BY <1>3 DEF BackendState
<1>4. CASE StartFails \/ StartCrashes
  BY <1>4, StartEnds
<1>5. CASE StartReturns
  BY <1>5, Shape, TestsOf, Finished DEF StartReturns
<1>6. CASE Tested
  BY <1>6, Shape, TestsLeft, Finished DEF Tested, Roles
<1>7. CASE Refreshed
  BY <1>7 DEF Refreshed
<1>8. CASE EngineFails
  BY <1>8, PublishedManifest DEF EngineFails, NotPublished, Roles, MayFailProcess
<1>9. CASE EngineStopped
  BY <1>9 DEF EngineStopped
<1>10. CASE ControlBegins
  BY <1>10, PublishedManifest DEF ControlBegins, NotPublished
<1>11. CASE ControlAcknowledged
  BY <1>11, PublishedManifest DEF ControlAcknowledged, NotPublished
<1>12. CASE ControlFails
  BY <1>12, PublishedManifest DEF ControlFails, NotPublished
<1>13. ASSUME NEW op \in {"quiesce", "resume"}, ControlAsks(op) PROVE StageInv'
  BY <1>13 DEF ControlAsks
<1> QED BY <1>1, <1>2, <1>3, <1>4, <1>5, <1>6, <1>7, <1>8, <1>9, <1>10, <1>11, <1>12,
    <1>13 DEF Next

(* Every step keeps what a failure of the engine or of a test leaves.        *)
LEMMA FailureStep == IInv /\ Next => FailureInv'
<1> SUFFICES ASSUME IInv, Next PROVE FailureInv'
  OBVIOUS
<1> config' = config /\ Roles' = Roles
  BY ConfigKept
<1> USE DEF starting, shown, written, Names, IInv, TypeOK, FailureInv, StageInv
<1>1. CASE ConfigInvalid
  BY <1>1, PublishedManifest DEF ConfigInvalid, Concludes, Crashes, NotPublished
<1>2. CASE Starts
  BY <1>2 DEF Starts
<1>3. CASE BackendState
  BY <1>3 DEF BackendState
<1>4. CASE StartFails \/ StartCrashes
  BY <1>4, StartEnds
<1>5. CASE StartReturns
  BY <1>5, Shape, Finished DEF StartReturns
<1>6. CASE Tested
  <2>1. PICK ok \in BOOLEAN :
          LET r == Head(testing)
          IN /\ status' = IF ok THEN status ELSE [status EXCEPT ![r] = "unhealthy"]
             /\ failed' = IF ok THEN failed ELSE failed \cup {r}
             /\ \/ lifecycle' = lifecycle /\ state' = state
                \/ /\ lifecycle' = "over"
                   /\ state' = "healthy" => \A p \in Roles : status'[p] = "healthy"
    BY <1>6, TestEnds
  <2>2. Head(testing) \in Roles /\ Roles \subseteq Names /\ lifecycle = "testing"
    BY <1>6, Shape, TestsLeft DEF Tested
  <2>3. /\ \A r \in failed' : status'[r] = "unhealthy"
        /\ \A r \in Names : status[r] # "healthy" => status'[r] # "healthy"
        /\ failed' \subseteq Roles
    BY <2>1, <2>2
  <2>4. monitor' = monitor
    BY <1>6 DEF Tested
  <2>5. failed' # {} => state' # "healthy"
    BY <2>1, <2>2, <2>3
  <2> QED BY <2>3, <2>4, <2>5
<1>7. CASE Refreshed
  BY <1>7 DEF Refreshed
<1>8. CASE EngineFails
  BY <1>8, PublishedManifest DEF EngineFails, NotPublished, MayFailProcess
<1>9. CASE EngineStopped
  BY <1>9 DEF EngineStopped
<1>10. CASE ControlBegins
  BY <1>10, PublishedManifest DEF ControlBegins, NotPublished
<1>11. CASE ControlAcknowledged
  BY <1>11, PublishedManifest DEF ControlAcknowledged, NotPublished
<1>12. CASE ControlFails
  BY <1>12, PublishedManifest DEF ControlFails, NotPublished
<1>13. ASSUME NEW op \in {"quiesce", "resume"}, ControlAsks(op) PROVE FailureInv'
  BY <1>13 DEF ControlAsks
<1> QED BY <1>1, <1>2, <1>3, <1>4, <1>5, <1>6, <1>7, <1>8, <1>9, <1>10, <1>11, <1>12,
    <1>13 DEF Next

(* Every step keeps the records that explain the state and the roles.        *)
LEMMA ErrorStep == IInv /\ Next => ErrorInv'
<1> SUFFICES ASSUME IInv, Next PROVE ErrorInv'
  OBVIOUS
<1> config' = config /\ Roles' = Roles
  BY ConfigKept
<1> USE DEF starting, shown, written, Names, IInv, TypeOK, ErrorInv, StageInv, Explained
<1>1. CASE ConfigInvalid
  <2>1. Record("CONFIG_INVALID", "none") \in errors'
    BY <1>1 DEF ConfigInvalid, Concludes, Crashes
  <2>2. lifecycle' = "failed" /\ state' \in {"configuration_error", "runtime_error"}
    BY <1>1 DEF ConfigInvalid, Concludes, Crashes
  <2> QED BY <2>1, <2>2
<1>2. CASE Starts
  BY <1>2 DEF Starts
<1>3. CASE BackendState
  BY <1>3 DEF BackendState
<1>4. CASE StartFails \/ StartCrashes
  BY <1>4, StartEnds
<1>5. CASE StartReturns
  <2> DEFINE Why(now) == {Record("MODEL_LOAD_FAILED", r) : r \in {r \in Roles : now[r] = "unhealthy"}}
  <2>1. PICK up \in IF config.watched THEN {Roles} ELSE SUBSET Roles :
          LET now == [r \in Names |-> IF r \in up THEN "healthy"
                                      ELSE IF r \in Roles THEN "unhealthy" ELSE "disabled"]
          IN /\ status' = now
             /\ \/ /\ lifecycle' = "testing" /\ state' = "smoke_testing"
                   /\ errors' = errors \cup Why(now)
                \/ Finishes(now, Why(now))
    <3> HIDE DEF Finishes
    <3> QED BY <1>5 DEF StartReturns
  <2>2. /\ errors = {} /\ Roles \subseteq Names
        /\ monitor' = "watching" => config.watched
    BY <1>5, Shape DEF StartReturns
  <2>3. /\ config.watched => up = Roles
        /\ status' = [r \in Names |-> IF r \in up THEN "healthy"
                                      ELSE IF r \in Roles THEN "unhealthy" ELSE "disabled"]
        /\ \A r \in Roles : status'[r] = IF r \in up THEN "healthy" ELSE "unhealthy"
        /\ up \subseteq Roles
    BY <2>1, <2>2
  <2>4. Why(status') # {} => \E r \in Roles : status'[r] # "healthy"
    OBVIOUS
  <2>5. \/ /\ lifecycle' = "testing" /\ state' = "smoke_testing" /\ errors' = Why(status')
        \/ /\ lifecycle' = "over" /\ Why(status') \subseteq errors'
           /\ state' \in {"configuration_error", "degraded", "healthy", "runtime_error"}
           /\ state' = "healthy" => /\ errors' = Why(status')
                                    /\ \A r \in Roles : status'[r] = "healthy"
           /\ state' \in {"configuration_error", "degraded"} =>
                \E r \in Roles : status'[r] # "healthy"
           /\ state' = "runtime_error" => errors' # {}
    <3>1. \/ /\ lifecycle' = "testing" /\ state' = "smoke_testing"
             /\ errors' = errors \cup Why(status')
          \/ Finishes(status', Why(status'))
      BY <2>1
    <3> HIDE DEF Why
    <3>2. CASE Finishes(status', Why(status'))
      BY <2>2, <3>2, Finished
    <3> QED BY <2>2, <3>1, <3>2
  <2>6. ASSUME NEW r \in Roles, status'[r] # "healthy" PROVE Explained(r)'
    <3>1. Record("MODEL_LOAD_FAILED", r) \in errors'
      BY <2>3, <2>5, <2>6
    <3>2. Record("MODEL_LOAD_FAILED", r).role = r
      BY DEF Record
    <3> QED BY <3>1, <3>2
  <2>7. \A r \in Roles : status'[r] # "healthy" => errors' # {}
    BY <2>6
  <2> HIDE DEF Why
  <2>8. state' = "healthy" => errors' = {}
    BY <2>4, <2>5
  <2>9. lifecycle' = "testing" /\ errors' # {} =>
          monitor' # "watching" /\ \E r \in Roles : status'[r] # "healthy"
    BY <2>2, <2>3, <2>4, <2>5
  <2> QED BY <2>5, <2>6, <2>7, <2>8, <2>9
<1>6. CASE Tested
  <2>1. PICK ok \in BOOLEAN :
          LET r == Head(testing)
          IN /\ status' = IF ok THEN status ELSE [status EXCEPT ![r] = "unhealthy"]
             /\ errors \cup (IF ok THEN {} ELSE {Record("SMOKE_TEST_FAILED", r)})
                  \subseteq errors'
             /\ \/ /\ lifecycle' = lifecycle /\ state' = state /\ monitor = "off"
                   /\ errors' # errors => ~ok
                \/ /\ lifecycle' = "over"
                   /\ state' = "healthy" => /\ \A p \in Roles : status'[p] = "healthy"
                                            /\ ok /\ errors' = errors
                   /\ \/ state' = "healthy"
                      \/ state' = "runtime_error" /\ errors' # {}
                      \/ \E p \in Roles : status'[p] # "healthy"
    BY <1>6, TestEnds
  <2>2. /\ Head(testing) \in Roles /\ lifecycle = "testing" /\ Roles \subseteq Names
        /\ monitor' = monitor
    BY <1>6, Shape, TestsLeft DEF Tested
  <2>3. /\ \A r \in Roles : status[r] # "healthy" => status'[r] # "healthy"
        /\ ~ok => status'[Head(testing)] # "healthy"
    BY <2>1, <2>2
  <2>4. ASSUME NEW r \in Roles, status'[r] # "healthy" PROVE Explained(r)'
    <3>1. CASE status[r] # "healthy"
      BY <2>1, <2>2, <3>1
    <3>2. CASE status[r] = "healthy"
      <4>1. r = Head(testing) /\ Record("SMOKE_TEST_FAILED", r) \in errors'
        BY <2>1, <2>2, <2>4, <3>2
      <4>2. Record("SMOKE_TEST_FAILED", r).role = r
        BY DEF Record
      <4> QED BY <4>1, <4>2
    <3> QED BY <3>1, <3>2
  <2>5. \A r \in Roles : status'[r] # "healthy" => errors' # {}
    BY <2>4
  <2>6. state' = "healthy" => errors' = {}
    BY <2>1, <2>2, <2>3
  <2>7. lifecycle' = "testing" /\ errors' # {} =>
          monitor' # "watching" /\ \E r \in Roles : status'[r] # "healthy"
    BY <2>1, <2>2, <2>3
  <2>8. state' \in {"configuration_error", "degraded", "runtime_error"} => errors' # {}
    BY <2>1, <2>2, <2>5
  <2> QED BY <2>1, <2>2, <2>4, <2>6, <2>7, <2>8
<1>7. CASE Refreshed
  BY <1>7 DEF Refreshed
<1>8. CASE EngineFails
  <2>1. /\ Record("ENGINE_DEAD", "generation") \in errors' /\ errors \subseteq errors'
        /\ status' = [status EXCEPT !["generation"] = "unhealthy"]
        /\ lifecycle' = lifecycle /\ state' = "runtime_error"
        /\ monitor = "watching" /\ monitor' # "watching"
    BY <1>8 DEF EngineFails
  <2>2. Record("ENGINE_DEAD", "generation").role = "generation"
    BY DEF Record
  <2>3. Roles = {"generation"} /\ status'["generation"] = "unhealthy"
    BY <2>1, Shape
  <2> QED BY <2>1, <2>2, <2>3
<1>9. CASE EngineStopped
  BY <1>9 DEF EngineStopped
<1>10. CASE ControlBegins
  BY <1>10, PublishedManifest DEF ControlBegins, NotPublished
<1>11. CASE ControlAcknowledged
  BY <1>11, PublishedManifest DEF ControlAcknowledged, NotPublished
<1>12. CASE ControlFails
  BY <1>12, PublishedManifest DEF ControlFails, NotPublished
<1>13. ASSUME NEW op \in {"quiesce", "resume"}, ControlAsks(op) PROVE ErrorInv'
  BY <1>13 DEF ControlAsks
<1> QED BY <1>1, <1>2, <1>3, <1>4, <1>5, <1>6, <1>7, <1>8, <1>9, <1>10, <1>11, <1>12,
    <1>13 DEF Next

(* Every step keeps the manifest on disk as current as it has to be.         *)
LEMMA DiskStep == IInv /\ Next => DiskIsCurrent'
<1> SUFFICES ASSUME IInv, Next PROVE DiskIsCurrent'
  OBVIOUS
<1> config' = config /\ Roles' = Roles
  BY ConfigKept
<1> USE DEF starting, shown, written, Names, IInv, TypeOK, DiskIsCurrent, Ended, StageInv
<1>1. CASE ConfigInvalid
  BY <1>1, PublishedManifest DEF ConfigInvalid, Concludes, Crashes, NotPublished
<1>2. CASE Starts
  BY <1>2 DEF Starts
<1>3. CASE BackendState
  BY <1>3 DEF BackendState
<1>4. CASE StartFails \/ StartCrashes
  BY <1>4, StartEnds
<1>5. CASE StartReturns
  BY <1>5, Finished DEF StartReturns
<1>6. CASE Tested
  BY <1>6, Shape, TestsLeft, Finished DEF Tested
<1>7. CASE Refreshed
  BY <1>7 DEF Refreshed
<1>8. CASE EngineFails
  BY <1>8, PublishedManifest DEF EngineFails, NotPublished, MayFailProcess
<1>9. CASE EngineStopped
  BY <1>9 DEF EngineStopped
<1>10. CASE ControlBegins
  BY <1>10, PublishedManifest DEF ControlBegins, NotPublished
<1>11. CASE ControlAcknowledged
  BY <1>11, PublishedManifest DEF ControlAcknowledged, NotPublished
<1>12. CASE ControlFails
  BY <1>12, PublishedManifest DEF ControlFails, NotPublished
<1>13. ASSUME NEW op \in {"quiesce", "resume"}, ControlAsks(op) PROVE DiskIsCurrent'
  BY <1>13 DEF ControlAsks
<1> QED BY <1>1, <1>2, <1>3, <1>4, <1>5, <1>6, <1>7, <1>8, <1>9, <1>10, <1>11, <1>12,
    <1>13 DEF Next

(* The initial states satisfy the invariant.                                 *)
LEMMA InitInvariant == Init => IInv
<1> SUFFICES ASSUME Init PROVE IInv
  OBVIOUS
<1>1. TypeOK
  BY DEF Init, TypeOK, Names
<1>2. StageInv /\ FailureInv /\ ErrorInv /\ DiskIsCurrent
  BY DEF Init, StageInv, FailureInv, ErrorInv, DiskIsCurrent, Ended, Names
<1> QED BY <1>1, <1>2 DEF IInv

(* Every step, a stuttering one too, keeps it.                               *)
LEMMA StepInvariant == IInv /\ [Next]_vars => IInv'
<1> SUFFICES ASSUME IInv, [Next]_vars PROVE IInv'
  OBVIOUS
<1>1. CASE Next
  BY <1>1, TypeStep, StageStep, FailureStep, ErrorStep, DiskStep DEF IInv
<1>2. CASE UNCHANGED vars
  BY <1>2 DEF vars, starting, shown, written, IInv, TypeOK, StageInv, FailureInv, ErrorInv,
     Explained, DiskIsCurrent, Ended, Roles, RolesOf
<1> QED BY <1>1, <1>2

-----------------------------------------------------------------------------
(* The invariant holds in every behaviour.                                   *)
THEOREM ApplianceInvariant == Spec => []IInv
<1> QED BY InitInvariant, StepInvariant, PTL DEF Spec

(* The appliance's state stays within its types.                             *)
THEOREM ApplianceTypeCorrect == Spec => []TypeOK
<1>1. IInv => TypeOK
  BY DEF IInv
<1> QED BY <1>1, ApplianceInvariant, PTL

(* No role is ready once the watched engine or a smoke test has failed,      *)
(* whatever the lifecycle or the monitor writes over it (Appliance's         *)
(* is_ready).                                                                *)
THEOREM FailureIsNeverReady == Spec => []NotReadyAfterFailure
<1>1. IInv => NotReadyAfterFailure
  BY DEF IInv, FailureInv, NotReadyAfterFailure, Ready, Names
<1> QED BY <1>1, ApplianceInvariant, PTL

(* A bad state has a record among /runtime/errors and a healthy one none,    *)
(* and once start has returned each role that is not healthy has one of its  *)
(* own.                                                                      *)
THEOREM EveryStateIsExplained == Spec => []StateIsExplained
<1>1. IInv => StateIsExplained
  BY DEF IInv, ErrorInv, Explained, StateIsExplained
<1> QED BY <1>1, ApplianceInvariant, PTL

(* Once the lifecycle has ended the manifest on disk is the one that the     *)
(* runtime would write, with the exceptions that DiskIsCurrent names.        *)
THEOREM DiskStaysCurrent == Spec => []DiskIsCurrent
<1>1. IInv => DiskIsCurrent
  BY DEF IInv
<1> QED BY <1>1, ApplianceInvariant, PTL
=============================================================================
