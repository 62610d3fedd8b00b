------------------------- MODULE VllmLifetimeProofs -------------------------
(***************************************************************************)
(* The safety properties of VllmLifetime, for every list of roles, every   *)
(* configuration and every installed parser.                               *)
(***************************************************************************)
EXTENDS VllmLifetime, TLAPS

-----------------------------------------------------------------------------
(* The inductive invariant: where the start is, what it has made so far, and *)
(* what that leaves for a control call and for a shutdown.                   *)

\* The awaits at which the start waits for the role's constructor, and those
\* at which the role counts as being loaded.
Constructing == {"constructing", "collecting"}
LoadingRole == Constructing \cup {"mounting", "cleaning"}

StartAt ==
  /\ start \in LoadingRole \cup {"probing"} => index <= Len(Roles) /\ Role \in Names
  /\ start \in LoadingRole => loading = {Role}
  /\ start \notin LoadingRole => loading = {}
  /\ thread # "idle" <=> start \in Constructing
  /\ start = "before" => engines = {}

\* An engine is built by the role that the start is at, once for each role.
EngineAt ==
  /\ \A r \in Names : engine[r] = "running" => r \in engines
  /\ engines # {} \/ thread = "native" => native
  /\ thread = "built" \/ start = "mounting" => engine[Role] = "running"
  /\ start = "cleaning" => Role \in engines /\ cleanup /\ roles[Role] # "healthy"
  /\ start = "probing" =>
       Role = "embedding" /\ Role \in apps /\ engine[Role] = "running"
  /\ start \notin Ended => \A i \in 1..Len(Roles) : Roles[i] \in engines =>
       \/ i < index
       \/ i = index /\ (thread = "built" \/ start \in {"mounting", "cleaning", "probing"})

\* Until a shutdown ends, each engine serves, is being loaded or is to be
\* cleaned up, and only a role that serves is healthy.
RoleAt ==
  stop \in {"none", "waiting"} =>
    \A r \in Names :
      /\ engine[r] = "running" => r \in apps \/ r \in loading \/ cleanup
      /\ roles[r] = "healthy" => r \in apps /\ engine[r] = "running"

\* The gate is open, or something may be pending.
GateAt ==
  /\ ~paused => ~cleanup /\ ~quiesced /\ scheduler = "running" /\ stop = "none"
  /\ control # "none" =>
       paused /\ ~cleanup /\ ~Unsettled /\ "generation" \in apps /\ stop = "none"
  /\ absent => start \in Ended
  /\ stop # "none" => start # "before"
  /\ stop \in {"done", "failed"} => start \in Ended

\* The arguments whose flags are never dropped, and what an engine took of them.
Pinned == {"model", "alias", "revision", "parallel", "eager"}

TookPinned(r) == Pinned \cap Arguments(r) \subseteq settings[r]

SettingsAt ==
  /\ thread = "native" => ~Refused(Arguments(Role), launch.known)
  /\ thread = "built" \/ start \in {"mounting", "probing"} => TookPinned(Role)
  /\ \A r \in Names : roles[r] = "healthy" => r \in engines

IInv ==
  /\ TypeOK /\ StartAt /\ EngineAt /\ RoleAt /\ GateAt /\ SettingsAt
  /\ NothingOutlivesShutdown /\ AbsenceIsFinal /\ AppliedIsSelected

-----------------------------------------------------------------------------
(* Proofs *)

(* The arguments of a role are among the flags.                              *)
LEMMA RoleArgvTyped ==
  ASSUME NEW r, NEW given \in SUBSET Options
  PROVE  RoleArgv(r, given) \subseteq Flags
  BY DEF RoleArgv, Options, Flags

(* Types.                                                                    *)
LEMMA TypesKept == IInv /\ Next => TypeOK'
<1> SUFFICES ASSUME IInv, Next PROVE TypeOK'
  OBVIOUS
<1> USE RolesAssumption DEF IInv, TypeOK, StartAt, Role, LoadingRole, Constructing,
    Underway, Ended, Names, startVars, engineVars, roleVars, controlVars, launchVars
<1>1. CASE StartRefused
  BY <1>1 DEF StartRefused, Ends
<1>2. CASE Start
  BY <1>2 DEF Start
<1>3. CASE Downloaded
  BY <1>3 DEF Downloaded
<1>4. CASE StartReturns
  BY <1>4 DEF StartReturns, Ends
<1>5. CASE SkipRole
  BY <1>5 DEF SkipRole, NextRole
<1>6. CASE StartRole
  BY <1>6 DEF StartRole, Supported
<1>7. CASE Constructed
  BY <1>7 DEF Constructed
<1>8. CASE ConstructionFails
  BY <1>8 DEF ConstructionFails, NextRole, Ends, Unhealthy
<1>9. CASE CancelConstruction
  BY <1>9 DEF CancelConstruction
<1>10. CASE Collected
  BY <1>10 DEF Collected, Ends, Unhealthy
<1>11. CASE Mounted
  <2>1. Role \in engines /\ Role \in Names
    BY <1>11 DEF Mounted, EngineAt
  <2>2. start' \in Underway /\ index' \in 1..(Len(Roles) + 1)
    BY <1>11 DEF Mounted, NextRole
  <2>3. apps' \subseteq engines' /\ engines' \subseteq Names /\ loading' \subseteq Names
    BY <1>11, <2>1 DEF Mounted
  <2>4. roles' \in [Names -> {"absent", "healthy", "unhealthy"}]
    BY <1>11, <2>1 DEF Mounted
  <2>5. {cancelled, unwinding, native, cleanup, paused, absent, quiesced}' \subseteq BOOLEAN
    BY <1>11 DEF Mounted
  <2> QED BY <1>11, <2>2, <2>3, <2>4, <2>5 DEF Mounted
<1>12. CASE MountFails
  BY <1>12 DEF MountFails, Unhealthy
<1>13. CASE Cleaned
  BY <1>13 DEF Cleaned, NextRole, Ends
<1>14. CASE CleaningFails
  <2>1. Role \in Names
    BY <1>14 DEF CleaningFails
  <2>2. start' \in Ended /\ index' = index
    BY <1>14 DEF CleaningFails, Ends
  <2>3. engine' \in [Names -> {"none", "running", "down"}]
    BY <1>14, <2>1 DEF CleaningFails
  <2> QED BY <1>14, <2>2, <2>3 DEF CleaningFails
<1>15. CASE Probed
  BY <1>15 DEF Probed, NextRole
<1>16. CASE CancelIdleAwait
  BY <1>16 DEF CancelIdleAwait, Ends
<1>17. CASE ThreadRefuses
  BY <1>17 DEF ThreadRefuses
<1>18. CASE ThreadEnters
  BY <1>18 DEF ThreadEnters
<1>19. CASE ThreadFails
  BY <1>19 DEF ThreadFails
<1>20. CASE ThreadBuilds
  <2>1. Role \in Names
    BY <1>20 DEF ThreadBuilds
  <2>2. Arguments(Role) \subseteq Flags
    BY RoleArgvTyped, LaunchAssumption DEF Arguments
  <2>3. settings' \in [Names -> SUBSET Flags]
    <3>1. PICK departed \in SUBSET {"window", "concurrency"},
               alike \in {{}, Arguments(Role) \ launch.known} :
            settings' = [settings EXCEPT ![Role] =
              (Taken(Arguments(Role), launch.known) \ departed) \cup alike]
      BY <1>20 DEF ThreadBuilds
    <3>2. (Taken(Arguments(Role), launch.known) \ departed) \cup alike \subseteq Flags
      BY <2>2 DEF Taken
    <3> QED BY <2>1, <3>1, <3>2
  <2>4. engine' \in [Names -> {"none", "running", "down"}]
    BY <1>20, <2>1 DEF ThreadBuilds
  <2> QED BY <1>20, <2>1, <2>3, <2>4 DEF ThreadBuilds
<1>21. CASE ControlRefused
  BY <1>21 DEF ControlRefused, MayControl
<1>22. CASE QuiesceAbsent
  BY <1>22 DEF QuiesceAbsent, NeverNative, Attempted, MayControl
<1>23. CASE Acknowledged
  BY <1>23 DEF Acknowledged, Asked
<1>24. CASE Unacknowledged
  BY <1>24 DEF Unacknowledged, Asked
<1>25. ASSUME NEW op \in {"quiesce", "resume"}, AskEngine(op) PROVE TypeOK'
  BY <1>25 DEF AskEngine, MayControl
<1>26. CASE Stop
  BY <1>26 DEF Stop, Starting
<1>27. CASE Stopped
  <2>1. CASE Unsettled
    BY <1>27, <2>1 DEF Stopped
  <2>2. CASE ~Unsettled
    <3>1. PICK kept \in SUBSET apps, failed \in SUBSET engines :
            /\ apps' = kept
            /\ engine' = [r \in Names |->
                            IF r \in engines \ failed THEN "down" ELSE engine[r]]
            /\ stop' = IF kept \cup failed = {} THEN "done" ELSE "failed"
            /\ cleanup' = (native \/ kept \cup failed # {})
      BY <1>27, <2>2 DEF Stopped
    <3>2. engine' \in [Names -> {"none", "running", "down"}]
      BY <3>1
    <3>3. apps' \subseteq engines' /\ cleanup' \in BOOLEAN
      BY <1>27, <3>1 DEF Stopped
    <3> QED BY <1>27, <3>1, <3>2, <3>3 DEF Stopped
  <2> QED BY <2>1, <2>2
<1>28. CASE Exited
  BY <1>28 DEF Exited, vars
<1> QED BY <1>1, <1>2, <1>3, <1>4, <1>5, <1>6, <1>7, <1>8, <1>9, <1>10, <1>11, <1>12,
    <1>13, <1>14, <1>15, <1>16, <1>17, <1>18, <1>19, <1>20, <1>21, <1>22, <1>23, <1>24,
    <1>25, <1>26, <1>27, <1>28 DEF Next, StartStep, ThreadStep, ControlStep

(* Where the start is, what is loading and whether a thread runs agree.      *)
LEMMA StartKept == IInv /\ Next => StartAt'
<1> SUFFICES ASSUME IInv, Next PROVE StartAt'
  OBVIOUS
<1> USE RolesAssumption DEF IInv, TypeOK, StartAt, EngineAt, Role, LoadingRole,
    Constructing, Underway, Ended, Names, startVars, engineVars, roleVars, controlVars,
    launchVars
<1>1. CASE StartRefused
  BY <1>1 DEF StartRefused, Ends
<1>2. CASE Start
  BY <1>2 DEF Start
<1>3. CASE Downloaded
  BY <1>3 DEF Downloaded
<1>4. CASE StartReturns
  BY <1>4 DEF StartReturns, Ends
<1>5. CASE SkipRole
  BY <1>5 DEF SkipRole, NextRole
<1>6. CASE StartRole
  BY <1>6 DEF StartRole, Supported
<1>7. CASE Constructed
  BY <1>7 DEF Constructed
<1>8. CASE ConstructionFails
  BY <1>8 DEF ConstructionFails, NextRole, Ends, Unhealthy
<1>9. CASE CancelConstruction
  BY <1>9 DEF CancelConstruction
<1>10. CASE Collected
  BY <1>10 DEF Collected, Ends, Unhealthy
<1>11. CASE Mounted
  BY <1>11 DEF Mounted, NextRole
<1>12. CASE MountFails
  BY <1>12 DEF MountFails, Unhealthy
<1>13. CASE Cleaned
  BY <1>13 DEF Cleaned, NextRole, Ends
<1>14. CASE CleaningFails
  BY <1>14 DEF CleaningFails, Ends
<1>15. CASE Probed
  BY <1>15 DEF Probed, NextRole
<1>16. CASE CancelIdleAwait
  BY <1>16 DEF CancelIdleAwait, Ends
<1>17. CASE ThreadRefuses
  BY <1>17 DEF ThreadRefuses
<1>18. CASE ThreadEnters
  BY <1>18 DEF ThreadEnters
<1>19. CASE ThreadFails
  BY <1>19 DEF ThreadFails
<1>20. CASE ThreadBuilds
  BY <1>20 DEF ThreadBuilds
<1>21. CASE ControlRefused
  BY <1>21 DEF ControlRefused, MayControl
<1>22. CASE QuiesceAbsent
  BY <1>22 DEF QuiesceAbsent, NeverNative, Attempted, MayControl
<1>23. CASE Acknowledged
  BY <1>23 DEF Acknowledged, Asked
<1>24. CASE Unacknowledged
  BY <1>24 DEF Unacknowledged, Asked
<1>25. ASSUME NEW op \in {"quiesce", "resume"}, AskEngine(op) PROVE StartAt'
  BY <1>25 DEF AskEngine, MayControl
<1>26. CASE Stop
  BY <1>26 DEF Stop, Starting
<1>27. CASE Stopped
  BY <1>27 DEF Stopped, Unsettled, Starting
<1>28. CASE Exited
  BY <1>28 DEF Exited, vars
<1> QED BY <1>1, <1>2, <1>3, <1>4, <1>5, <1>6, <1>7, <1>8, <1>9, <1>10, <1>11, <1>12,
    <1>13, <1>14, <1>15, <1>16, <1>17, <1>18, <1>19, <1>20, <1>21, <1>22, <1>23, <1>24,
    <1>25, <1>26, <1>27, <1>28 DEF Next, StartStep, ThreadStep, ControlStep

(* Engines are built in the order of the roles, by the role being started.   *)
LEMMA EngineKept == IInv /\ Next => EngineAt'
<1> SUFFICES ASSUME IInv, Next PROVE EngineAt'
  OBVIOUS
<1> USE RolesAssumption DEF IInv, TypeOK, StartAt, EngineAt, RoleAt, GateAt, SettingsAt,
    Role, LoadingRole, Constructing, Underway, Ended, Names, Supported, startVars,
    engineVars, roleVars, controlVars, launchVars
<1>1. CASE StartRefused
  BY <1>1 DEF StartRefused, Ends
<1>2. CASE Start
  BY <1>2 DEF Start
<1>3. CASE Downloaded
  BY <1>3 DEF Downloaded
<1>4. CASE StartReturns
  BY <1>4 DEF StartReturns, Ends
<1>5. CASE SkipRole
  BY <1>5 DEF SkipRole, NextRole
<1>6. CASE StartRole
  BY <1>6 DEF StartRole
<1>7. CASE Constructed
  BY <1>7 DEF Constructed
<1>8. CASE ConstructionFails
  BY <1>8 DEF ConstructionFails, NextRole, Ends, Unhealthy
<1>9. CASE CancelConstruction
  BY <1>9 DEF CancelConstruction
<1>10. CASE Collected
  BY <1>10 DEF Collected, Ends, Unhealthy
<1>11. CASE Mounted
  BY <1>11 DEF Mounted, NextRole
<1>12. CASE MountFails
  BY <1>12 DEF MountFails, Unhealthy
<1>13. CASE Cleaned
  BY <1>13 DEF Cleaned, NextRole, Ends
<1>14. CASE CleaningFails
  BY <1>14 DEF CleaningFails, Ends
<1>15. CASE Probed
  BY <1>15 DEF Probed, NextRole
<1>16. CASE CancelIdleAwait
  BY <1>16 DEF CancelIdleAwait, Ends
<1>17. CASE ThreadRefuses
  BY <1>17 DEF ThreadRefuses
<1>18. CASE ThreadEnters
  BY <1>18 DEF ThreadEnters
<1>19. CASE ThreadFails
  BY <1>19 DEF ThreadFails
<1>20. CASE ThreadBuilds
  BY <1>20 DEF ThreadBuilds
<1>21. CASE ControlRefused
  BY <1>21 DEF ControlRefused, MayControl
<1>22. CASE QuiesceAbsent
  BY <1>22 DEF QuiesceAbsent, NeverNative, Attempted, MayControl
<1>23. CASE Acknowledged
  BY <1>23 DEF Acknowledged, Asked
<1>24. CASE Unacknowledged
  BY <1>24 DEF Unacknowledged, Asked
<1>25. ASSUME NEW op \in {"quiesce", "resume"}, AskEngine(op) PROVE EngineAt'
  BY <1>25 DEF AskEngine, MayControl
<1>26. CASE Stop
  BY <1>26 DEF Stop, Starting
<1>27. CASE Stopped
  BY <1>27 DEF Stopped, Unsettled, Starting
<1>28. CASE Exited
  BY <1>28 DEF Exited, vars
<1> QED BY <1>1, <1>2, <1>3, <1>4, <1>5, <1>6, <1>7, <1>8, <1>9, <1>10, <1>11, <1>12,
    <1>13, <1>14, <1>15, <1>16, <1>17, <1>18, <1>19, <1>20, <1>21, <1>22, <1>23, <1>24,
    <1>25, <1>26, <1>27, <1>28 DEF Next, StartStep, ThreadStep, ControlStep

(* Each engine serves, is loading or is to be cleaned up.                    *)
LEMMA RoleKept == IInv /\ Next => RoleAt'
<1> SUFFICES ASSUME IInv, Next PROVE RoleAt'
  OBVIOUS
<1> USE RolesAssumption DEF IInv, TypeOK, StartAt, EngineAt, RoleAt, GateAt, SettingsAt,
    Role, LoadingRole, Constructing, Underway, Ended, Names, startVars, engineVars,
    roleVars, controlVars, launchVars
<1>1. CASE StartRefused
  BY <1>1 DEF StartRefused, Ends
<1>2. CASE Start
  BY <1>2 DEF Start
<1>3. CASE Downloaded
  BY <1>3 DEF Downloaded
<1>4. CASE StartReturns
  BY <1>4 DEF StartReturns, Ends
<1>5. CASE SkipRole
  BY <1>5 DEF SkipRole, NextRole
<1>6. CASE StartRole
  BY <1>6 DEF StartRole
<1>7. CASE Constructed
  BY <1>7 DEF Constructed
<1>8. CASE ConstructionFails
  BY <1>8 DEF ConstructionFails, NextRole, Ends, Unhealthy
<1>9. CASE CancelConstruction
  BY <1>9 DEF CancelConstruction
<1>10. CASE Collected
  BY <1>10 DEF Collected, Ends, Unhealthy
<1>11. CASE Mounted
  BY <1>11 DEF Mounted, NextRole
<1>12. CASE MountFails
  BY <1>12 DEF MountFails, Unhealthy
<1>13. CASE Cleaned
  BY <1>13 DEF Cleaned, NextRole, Ends
<1>14. CASE CleaningFails
  BY <1>14 DEF CleaningFails, Ends
<1>15. CASE Probed
  BY <1>15 DEF Probed, NextRole
<1>16. CASE CancelIdleAwait
  BY <1>16 DEF CancelIdleAwait, Ends
<1>17. CASE ThreadRefuses
  BY <1>17 DEF ThreadRefuses
<1>18. CASE ThreadEnters
  BY <1>18 DEF ThreadEnters
<1>19. CASE ThreadFails
  BY <1>19 DEF ThreadFails
<1>20. CASE ThreadBuilds
  BY <1>20 DEF ThreadBuilds
<1>21. CASE ControlRefused
  BY <1>21 DEF ControlRefused, MayControl
<1>22. CASE QuiesceAbsent
  BY <1>22 DEF QuiesceAbsent, NeverNative, Attempted, MayControl
<1>23. CASE Acknowledged
  BY <1>23 DEF Acknowledged, Asked
<1>24. CASE Unacknowledged
  BY <1>24 DEF Unacknowledged, Asked
<1>25. ASSUME NEW op \in {"quiesce", "resume"}, AskEngine(op) PROVE RoleAt'
  BY <1>25 DEF AskEngine, MayControl
<1>26. CASE Stop
  BY <1>26 DEF Stop, Starting
<1>27. CASE Stopped
  BY <1>27 DEF Stopped, Unsettled
<1>28. CASE Exited
  BY <1>28 DEF Exited, vars
<1> QED BY <1>1, <1>2, <1>3, <1>4, <1>5, <1>6, <1>7, <1>8, <1>9, <1>10, <1>11, <1>12,
    <1>13, <1>14, <1>15, <1>16, <1>17, <1>18, <1>19, <1>20, <1>21, <1>22, <1>23, <1>24,
    <1>25, <1>26, <1>27, <1>28 DEF Next, StartStep, ThreadStep, ControlStep

(* An open gate and a control call each leave nothing pending.               *)
LEMMA GateKept == IInv /\ Next => GateAt'
<1> SUFFICES ASSUME IInv, Next PROVE GateAt'
  OBVIOUS
<1> USE RolesAssumption DEF IInv, TypeOK, StartAt, EngineAt, GateAt, Role, LoadingRole,
    Constructing, Underway, Ended, Unsettled, Starting, startVars, engineVars, roleVars,
    controlVars, launchVars
<1>1. CASE StartRefused
  BY <1>1 DEF StartRefused, Ends
<1>2. CASE Start
  BY <1>2 DEF Start
<1>3. CASE Downloaded
  BY <1>3 DEF Downloaded
<1>4. CASE StartReturns
  BY <1>4 DEF StartReturns, Ends
<1>5. CASE SkipRole
  BY <1>5 DEF SkipRole, NextRole
<1>6. CASE StartRole
  BY <1>6 DEF StartRole
<1>7. CASE Constructed
  BY <1>7 DEF Constructed
<1>8. CASE ConstructionFails
  BY <1>8 DEF ConstructionFails, NextRole, Ends, Unhealthy
<1>9. CASE CancelConstruction
  BY <1>9 DEF CancelConstruction
<1>10. CASE Collected
  BY <1>10 DEF Collected, Ends, Unhealthy
<1>11. CASE Mounted
  BY <1>11 DEF Mounted, NextRole
<1>12. CASE MountFails
  BY <1>12 DEF MountFails, Unhealthy
<1>13. CASE Cleaned
  BY <1>13 DEF Cleaned, NextRole, Ends
<1>14. CASE CleaningFails
  BY <1>14 DEF CleaningFails, Ends
<1>15. CASE Probed
  BY <1>15 DEF Probed, NextRole
<1>16. CASE CancelIdleAwait
  BY <1>16 DEF CancelIdleAwait, Ends
<1>17. CASE ThreadRefuses
  BY <1>17 DEF ThreadRefuses
<1>18. CASE ThreadEnters
  BY <1>18 DEF ThreadEnters
<1>19. CASE ThreadFails
  BY <1>19 DEF ThreadFails
<1>20. CASE ThreadBuilds
  BY <1>20 DEF ThreadBuilds
<1>21. CASE ControlRefused
  BY <1>21 DEF ControlRefused, MayControl
<1>22. CASE QuiesceAbsent
  BY <1>22 DEF QuiesceAbsent, NeverNative, Attempted, MayControl
<1>23. CASE Acknowledged
  BY <1>23 DEF Acknowledged, Asked
<1>24. CASE Unacknowledged
  BY <1>24 DEF Unacknowledged, Asked
<1>25. ASSUME NEW op \in {"quiesce", "resume"}, AskEngine(op) PROVE GateAt'
  BY <1>25 DEF AskEngine, MayControl
<1>26. CASE Stop
  BY <1>26 DEF Stop
<1>27. CASE Stopped
  BY <1>27 DEF Stopped
<1>28. CASE Exited
  BY <1>28 DEF Exited, vars
<1> QED BY <1>1, <1>2, <1>3, <1>4, <1>5, <1>6, <1>7, <1>8, <1>9, <1>10, <1>11, <1>12,
    <1>13, <1>14, <1>15, <1>16, <1>17, <1>18, <1>19, <1>20, <1>21, <1>22, <1>23, <1>24,
    <1>25, <1>26, <1>27, <1>28 DEF Next, StartStep, ThreadStep, ControlStep

(* A flag that is required is passed to the engine.                          *)
LEMMA SettingsKept == IInv /\ Next => SettingsAt'
<1> SUFFICES ASSUME IInv, Next PROVE SettingsAt'
  OBVIOUS
<1> USE RolesAssumption DEF IInv, TypeOK, StartAt, EngineAt, GateAt, SettingsAt,
    TookPinned, Pinned, Arguments, Role, LoadingRole, Constructing, Underway, Ended,
    Names, startVars, engineVars, roleVars, controlVars, launchVars
<1>1. CASE StartRefused
  BY <1>1 DEF StartRefused, Ends
<1>2. CASE Start
  BY <1>2 DEF Start
<1>3. CASE Downloaded
  BY <1>3 DEF Downloaded
<1>4. CASE StartReturns
  BY <1>4 DEF StartReturns, Ends
<1>5. CASE SkipRole
  BY <1>5 DEF SkipRole, NextRole
<1>6. CASE StartRole
  BY <1>6 DEF StartRole
<1>7. CASE Constructed
  BY <1>7 DEF Constructed
<1>8. CASE ConstructionFails
  BY <1>8 DEF ConstructionFails, NextRole, Ends, Unhealthy
<1>9. CASE CancelConstruction
  BY <1>9 DEF CancelConstruction
<1>10. CASE Collected
  BY <1>10 DEF Collected, Ends, Unhealthy
<1>11. CASE Mounted
  BY <1>11 DEF Mounted, NextRole
<1>12. CASE MountFails
  BY <1>12 DEF MountFails, Unhealthy
<1>13. CASE Cleaned
  BY <1>13 DEF Cleaned, NextRole, Ends
<1>14. CASE CleaningFails
  BY <1>14 DEF CleaningFails, Ends
<1>15. CASE Probed
  BY <1>15 DEF Probed, NextRole
<1>16. CASE CancelIdleAwait
  BY <1>16 DEF CancelIdleAwait, Ends
<1>17. CASE ThreadRefuses
  BY <1>17 DEF ThreadRefuses
<1>18. CASE ThreadEnters
  BY <1>18 DEF ThreadEnters, Refused
<1>19. CASE ThreadFails
  BY <1>19 DEF ThreadFails
<1>20. CASE ThreadBuilds
  BY <1>20 DEF ThreadBuilds, Refused, Taken, Required
<1>21. CASE ControlRefused
  BY <1>21 DEF ControlRefused, MayControl
<1>22. CASE QuiesceAbsent
  BY <1>22 DEF QuiesceAbsent, NeverNative, Attempted, MayControl
<1>23. CASE Acknowledged
  BY <1>23 DEF Acknowledged, Asked
<1>24. CASE Unacknowledged
  BY <1>24 DEF Unacknowledged, Asked
<1>25. ASSUME NEW op \in {"quiesce", "resume"}, AskEngine(op) PROVE SettingsAt'
  BY <1>25 DEF AskEngine, MayControl
<1>26. CASE Stop
  BY <1>26 DEF Stop, Starting
<1>27. CASE Stopped
  BY <1>27 DEF Stopped, Unsettled
<1>28. CASE Exited
  BY <1>28 DEF Exited, vars
<1> QED BY <1>1, <1>2, <1>3, <1>4, <1>5, <1>6, <1>7, <1>8, <1>9, <1>10, <1>11, <1>12,
    <1>13, <1>14, <1>15, <1>16, <1>17, <1>18, <1>19, <1>20, <1>21, <1>22, <1>23, <1>24,
    <1>25, <1>26, <1>27, <1>28 DEF Next, StartStep, ThreadStep, ControlStep

(* What a shutdown leaves.                                                   *)
LEMMA ShutdownKept == IInv /\ Next => NothingOutlivesShutdown'
<1> SUFFICES ASSUME IInv, Next PROVE NothingOutlivesShutdown'
  OBVIOUS
<1> USE RolesAssumption DEF IInv, TypeOK, StartAt, EngineAt, GateAt, LoadingRole,
    Constructing, Underway, Ended, Names, NothingOutlivesShutdown, startVars,
    engineVars, roleVars, controlVars, launchVars
<1>1. CASE StartRefused
  BY <1>1 DEF StartRefused, Ends
<1>2. CASE Start
  BY <1>2 DEF Start
<1>3. CASE Downloaded
  BY <1>3 DEF Downloaded
<1>4. CASE StartReturns
  BY <1>4 DEF StartReturns, Ends
<1>5. CASE SkipRole
  BY <1>5 DEF SkipRole, NextRole
<1>6. CASE StartRole
  BY <1>6 DEF StartRole
<1>7. CASE Constructed
  BY <1>7 DEF Constructed
<1>8. CASE ConstructionFails
  BY <1>8 DEF ConstructionFails, NextRole, Ends, Unhealthy
<1>9. CASE CancelConstruction
  BY <1>9 DEF CancelConstruction
<1>10. CASE Collected
  BY <1>10 DEF Collected, Ends, Unhealthy
<1>11. CASE Mounted
  BY <1>11 DEF Mounted, NextRole
<1>12. CASE MountFails
  BY <1>12 DEF MountFails, Unhealthy
<1>13. CASE Cleaned
  BY <1>13 DEF Cleaned, NextRole, Ends
<1>14. CASE CleaningFails
  BY <1>14 DEF CleaningFails, Ends
<1>15. CASE Probed
  BY <1>15 DEF Probed, NextRole
<1>16. CASE CancelIdleAwait
  BY <1>16 DEF CancelIdleAwait, Ends
<1>17. CASE ThreadRefuses
  BY <1>17 DEF ThreadRefuses
<1>18. CASE ThreadEnters
  BY <1>18 DEF ThreadEnters
<1>19. CASE ThreadFails
  BY <1>19 DEF ThreadFails
<1>20. CASE ThreadBuilds
  BY <1>20 DEF ThreadBuilds
<1>21. CASE ControlRefused
  BY <1>21 DEF ControlRefused, MayControl
<1>22. CASE QuiesceAbsent
  BY <1>22 DEF QuiesceAbsent, NeverNative, Attempted, MayControl
<1>23. CASE Acknowledged
  BY <1>23 DEF Acknowledged, Asked
<1>24. CASE Unacknowledged
  BY <1>24 DEF Unacknowledged, Asked
<1>25. ASSUME NEW op \in {"quiesce", "resume"}, AskEngine(op) PROVE NothingOutlivesShutdown'
  BY <1>25 DEF AskEngine, MayControl
<1>26. CASE Stop
  BY <1>26 DEF Stop, Starting
<1>27. CASE Stopped
  <2>1. ~Unsettled
    BY <1>27 DEF Stopped, Unsettled, Starting
  <2>2. PICK kept \in SUBSET apps, failed \in SUBSET engines :
          /\ apps' = kept
          /\ engine' = [r \in Names |->
                          IF r \in engines \ failed THEN "down" ELSE engine[r]]
          /\ stop' = IF kept \cup failed = {} THEN "done" ELSE "failed"
          /\ cleanup' = (native \/ kept \cup failed # {})
    BY <1>27, <2>1 DEF Stopped
  <2>3. thread' = "idle" /\ engines' = engines
    BY <1>27 DEF Stopped
  <2>4. ASSUME NEW r \in Names, engine'[r] = "running"
        PROVE  r \in failed
    BY <2>2, <2>4
  <2> QED BY <2>2, <2>3, <2>4
<1>28. CASE Exited
  BY <1>28 DEF Exited, vars
<1> QED BY <1>1, <1>2, <1>3, <1>4, <1>5, <1>6, <1>7, <1>8, <1>9, <1>10, <1>11, <1>12,
    <1>13, <1>14, <1>15, <1>16, <1>17, <1>18, <1>19, <1>20, <1>21, <1>22, <1>23, <1>24,
    <1>25, <1>26, <1>27, <1>28 DEF Next, StartStep, ThreadStep, ControlStep

(* What the acknowledgement of an absent engine leaves.                      *)
LEMMA AbsenceKept == IInv /\ Next => AbsenceIsFinal'
<1> SUFFICES ASSUME IInv, Next PROVE AbsenceIsFinal'
  OBVIOUS
<1> USE RolesAssumption DEF IInv, TypeOK, StartAt, EngineAt, GateAt, LoadingRole,
    Constructing, Underway, Ended, AbsenceIsFinal, startVars, engineVars, roleVars,
    controlVars, launchVars
<1>1. CASE StartRefused
  BY <1>1 DEF StartRefused, Ends
<1>2. CASE Start
  BY <1>2 DEF Start
<1>3. CASE Downloaded
  BY <1>3 DEF Downloaded
<1>4. CASE StartReturns
  BY <1>4 DEF StartReturns, Ends
<1>5. CASE SkipRole
  BY <1>5 DEF SkipRole, NextRole
<1>6. CASE StartRole
  BY <1>6 DEF StartRole
<1>7. CASE Constructed
  BY <1>7 DEF Constructed
<1>8. CASE ConstructionFails
  BY <1>8 DEF ConstructionFails, NextRole, Ends, Unhealthy
<1>9. CASE CancelConstruction
  BY <1>9 DEF CancelConstruction
<1>10. CASE Collected
  BY <1>10 DEF Collected, Ends, Unhealthy
<1>11. CASE Mounted
  BY <1>11 DEF Mounted, NextRole
<1>12. CASE MountFails
  BY <1>12 DEF MountFails, Unhealthy
<1>13. CASE Cleaned
  BY <1>13 DEF Cleaned, NextRole, Ends
<1>14. CASE CleaningFails
  BY <1>14 DEF CleaningFails, Ends
<1>15. CASE Probed
  BY <1>15 DEF Probed, NextRole
<1>16. CASE CancelIdleAwait
  BY <1>16 DEF CancelIdleAwait, Ends
<1>17. CASE ThreadRefuses
  BY <1>17 DEF ThreadRefuses
<1>18. CASE ThreadEnters
  BY <1>18 DEF ThreadEnters
<1>19. CASE ThreadFails
  BY <1>19 DEF ThreadFails
<1>20. CASE ThreadBuilds
  BY <1>20 DEF ThreadBuilds
<1>21. CASE ControlRefused
  BY <1>21 DEF ControlRefused, MayControl
<1>22. CASE QuiesceAbsent
  BY <1>22 DEF QuiesceAbsent, NeverNative, Attempted, MayControl, Unsettled, Starting
<1>23. CASE Acknowledged
  BY <1>23 DEF Acknowledged, Asked
<1>24. CASE Unacknowledged
  BY <1>24 DEF Unacknowledged, Asked
<1>25. ASSUME NEW op \in {"quiesce", "resume"}, AskEngine(op) PROVE AbsenceIsFinal'
  BY <1>25 DEF AskEngine, MayControl
<1>26. CASE Stop
  BY <1>26 DEF Stop, Starting
<1>27. CASE Stopped
  BY <1>27 DEF Stopped, Unsettled
<1>28. CASE Exited
  BY <1>28 DEF Exited, vars
<1> QED BY <1>1, <1>2, <1>3, <1>4, <1>5, <1>6, <1>7, <1>8, <1>9, <1>10, <1>11, <1>12,
    <1>13, <1>14, <1>15, <1>16, <1>17, <1>18, <1>19, <1>20, <1>21, <1>22, <1>23, <1>24,
    <1>25, <1>26, <1>27, <1>28 DEF Next, StartStep, ThreadStep, ControlStep

(* What an engine that serves was given.                                     *)
LEMMA AppliedKept == IInv /\ Next => AppliedIsSelected'
<1> SUFFICES ASSUME IInv, Next PROVE AppliedIsSelected'
  OBVIOUS
<1> USE RolesAssumption DEF IInv, TypeOK, StartAt, EngineAt, SettingsAt, TookPinned,
    Pinned, Arguments, AppliedIsSelected, Role, LoadingRole, Constructing, Underway,
    Ended, Names, Supported, startVars, engineVars, roleVars, controlVars, launchVars
<1>1. CASE StartRefused
  BY <1>1 DEF StartRefused, Ends
<1>2. CASE Start
  BY <1>2 DEF Start
<1>3. CASE Downloaded
  BY <1>3 DEF Downloaded
<1>4. CASE StartReturns
  BY <1>4 DEF StartReturns, Ends
<1>5. CASE SkipRole
  BY <1>5 DEF SkipRole, NextRole
<1>6. CASE StartRole
  BY <1>6 DEF StartRole
<1>7. CASE Constructed
  BY <1>7 DEF Constructed
<1>8. CASE ConstructionFails
  BY <1>8 DEF ConstructionFails, NextRole, Ends, Unhealthy
<1>9. CASE CancelConstruction
  BY <1>9 DEF CancelConstruction
<1>10. CASE Collected
  BY <1>10 DEF Collected, Ends, Unhealthy
<1>11. CASE Mounted
  BY <1>11 DEF Mounted, NextRole, Matches
<1>12. CASE MountFails
  BY <1>12 DEF MountFails, Unhealthy
<1>13. CASE Cleaned
  BY <1>13 DEF Cleaned, NextRole, Ends
<1>14. CASE CleaningFails
  BY <1>14 DEF CleaningFails, Ends
<1>15. CASE Probed
  BY <1>15 DEF Probed, NextRole
<1>16. CASE CancelIdleAwait
  BY <1>16 DEF CancelIdleAwait, Ends
<1>17. CASE ThreadRefuses
  BY <1>17 DEF ThreadRefuses
<1>18. CASE ThreadEnters
  BY <1>18 DEF ThreadEnters
<1>19. CASE ThreadFails
  BY <1>19 DEF ThreadFails
<1>20. CASE ThreadBuilds
  BY <1>20 DEF ThreadBuilds
<1>21. CASE ControlRefused
  BY <1>21 DEF ControlRefused, MayControl
<1>22. CASE QuiesceAbsent
  BY <1>22 DEF QuiesceAbsent, NeverNative, Attempted, MayControl
<1>23. CASE Acknowledged
  BY <1>23 DEF Acknowledged, Asked
<1>24. CASE Unacknowledged
  BY <1>24 DEF Unacknowledged, Asked
<1>25. ASSUME NEW op \in {"quiesce", "resume"}, AskEngine(op) PROVE AppliedIsSelected'
  BY <1>25 DEF AskEngine, MayControl
<1>26. CASE Stop
  BY <1>26 DEF Stop, Starting
<1>27. CASE Stopped
  BY <1>27 DEF Stopped, Unsettled
<1>28. CASE Exited
  BY <1>28 DEF Exited, vars
<1> QED BY <1>1, <1>2, <1>3, <1>4, <1>5, <1>6, <1>7, <1>8, <1>9, <1>10, <1>11, <1>12,
    <1>13, <1>14, <1>15, <1>16, <1>17, <1>18, <1>19, <1>20, <1>21, <1>22, <1>23, <1>24,
    <1>25, <1>26, <1>27, <1>28 DEF Next, StartStep, ThreadStep, ControlStep

(* The backend begins in the invariant.                                      *)
LEMMA InitInvariant == Init => IInv
<1> SUFFICES ASSUME Init PROVE IInv
  OBVIOUS
<1>1. TypeOK
  <2>1. index \in 1..(Len(Roles) + 1)
    BY RolesAssumption DEF Init
  <2>2. {cancelled, unwinding, native, cleanup, paused, absent, quiesced} \subseteq BOOLEAN
    BY DEF Init
  <2> QED BY <2>1, <2>2 DEF Init, TypeOK, Names
<1>2. StartAt /\ EngineAt /\ RoleAt /\ GateAt /\ SettingsAt
  BY DEF Init, StartAt, EngineAt, RoleAt, GateAt, SettingsAt, Names, LoadingRole,
     Constructing, Ended
<1>3. NothingOutlivesShutdown /\ AbsenceIsFinal /\ AppliedIsSelected
  BY DEF Init, NothingOutlivesShutdown, AbsenceIsFinal, AppliedIsSelected, Names,
     Supported
<1> QED BY <1>1, <1>2, <1>3 DEF IInv

(* Every part of the invariant holds in every state.                         *)
THEOREM VllmInvariant == Spec => []IInv
<1>1. Init => IInv
  BY InitInvariant
<1>2. IInv /\ [Next]_vars => IInv'
  <2> SUFFICES ASSUME IInv, [Next]_vars PROVE IInv'
    OBVIOUS
  <2>1. CASE Next
    BY <2>1, TypesKept, StartKept, EngineKept, RoleKept, GateKept, SettingsKept,
       ShutdownKept, AbsenceKept, AppliedKept DEF IInv
  <2>2. CASE UNCHANGED vars
    BY <2>2 DEF vars, startVars, engineVars, roleVars, controlVars, launchVars, IInv,
       TypeOK, StartAt, EngineAt, RoleAt, GateAt, SettingsAt, Role, Arguments, Unsettled,
       Starting, TookPinned, NothingOutlivesShutdown, AbsenceIsFinal, AppliedIsSelected
  <2> QED BY <2>1, <2>2
<1> QED BY <1>1, <1>2, PTL DEF Spec

(* The backend's variables keep their types.                                 *)
THEOREM VllmTypeCorrect == Spec => []TypeOK
<1>1. IInv => TypeOK
  BY DEF IInv
<1> QED BY <1>1, VllmInvariant, PTL

(* No engine that was ever built is lost to a shutdown: it is down, or known *)
(* and reported, also where a cancelled start left its constructor running.  *)
THEOREM NoEngineIsLost == Spec => []NothingOutlivesShutdown
<1>1. IInv => NothingOutlivesShutdown
  BY DEF IInv
<1> QED BY <1>1, VllmInvariant, PTL

(* A quiesce acknowledged without an engine stays true.                      *)
THEOREM AbsenceStays == Spec => []AbsenceIsFinal
<1>1. IInv => AbsenceIsFinal
  BY DEF IInv
<1> QED BY <1>1, VllmInvariant, PTL

(* An open gate leaves no engine unaccounted for, and a healthy generation   *)
(* role behind it is one whose scheduler runs.                               *)
THEOREM OpenGateLeavesNothing == Spec => []OpenGateIsResolved
<1>1. IInv => OpenGateIsResolved
  BY DEF IInv, TypeOK, RoleAt, GateAt, OpenGateIsResolved, Names
<1> QED BY <1>1, VllmInvariant, PTL

(* A healthy role runs what was selected for it, with any parser.            *)
THEOREM HealthyRunsSelected == Spec => []AppliedIsSelected
<1>1. IInv => AppliedIsSelected
  BY DEF IInv
<1> QED BY <1>1, VllmInvariant, PTL
=============================================================================
