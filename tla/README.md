# Verification of the Lazarus runtime

TLA+ models of the program in `src/lazarus`, the TLC runs that check them on small instances, and
theorems that TLAPS proves for every instance. `PROJECT.json` maps each definition to the lines it
stands for, names what each run checks, and lists the hazards of the code at their lines.

Run a check with `tlc -config Queueing.cfg QueueingMC.tla`, a proof with
`tlapm DeploymentsProofs.tla`.

## 1. The system

There are two programs. The **host agent** (`lazarus/agent`) runs on a machine and keeps one engine
process per configured deployment. The **appliance** (`lazarus/appliance`) is an API over one engine
backend, which it launches, watches, quiesces and resumes. Both are single asyncio event loops: a
coroutine runs alone until it awaits, so everything hard happens *across* awaits, in cancellations, and
at the process boundary.

| Component | State it keeps | Operations | What is hard | What makes it correct |
|---|---|---|---|---|
| Deployments (`agent/deployments.py`) | records, children, gates (`Admission`), locks, port reservations, `agent.yaml` | PUT, DELETE, proxied request, observe | drains race requests, timeouts and abandonment; rollback after any failure; ports shared by all ids | no port is shared, no child is lost, disk is memory, an open gate serves the record, drained means drained |
| Server (`agent/server.py`) | the agent object, `ServerProcess`es, `stopping`, transition tasks | boot, shutdown, heartbeat | a shutdown during transitions that wait for drains and readiness | shutdown ends, and nothing starts after it began |
| Queueing (`agent/queueing.py`) | requests in flight, the line, 24 hours of counts | arrive, leave, restart, last_day | departures in any order, late departures from a process that is no more | counts and waits of the last day are exact; places and line agree |
| API and admission (`appliance/api.py`) | slots, generation counts, the idle event, `generation_control` | request, quiesce, resume | a request queued under an open gate gets its slot under a closed one; cancellations everywhere | acknowledged quiesce means nobody is at the engine; no slot or count is lost |
| SlimServe backend (`appliance/backends/slimserve.py`) | `_operation`, process handles, `_withdrawn`, `_cleanup_pending`, the gate, the monitor | validate, start, quiesce, resume, shutdown, watch | cancelled spawns, failed stops, a monitor that needs the lock a shutdown holds | no living process group is called withdrawn, engines do not overlap, gate and engine agree |
| vLLM backend (`backends/vllm_engine.py`) | engines and applications by role, the constructor's thread, `_cleanup_pending` | start, quiesce, resume, shutdown | a constructor in a thread outlives the cancellation of its start; an installed version that lost a flag | no engine outlives its shutdown, none is taken for absent, a healthy one is the one selected |
| Launcher, state machine (`launcher.py`, `state.py`), manifest | runtime state, errors, published manifest | boot, smoke test, serve, stop | the monitor publishes while the lifecycle moves on | no failure is overwritten; state, errors and manifest tell what happened |
| SlimServe child (`slimserve_observation.py`, `slimserve_worker.py`, `slimserve_provenance.py`) | each worker's kernels, snapshots and models; digests already checked | control, observe | a reload, a kernel call or a changed file while the rows of an observation are collected | an accepted observation is true of the running model, and a sound engine gets one |
| Configuration (`config.py`) | none | load, validate, hand on | rules that ask what was written and not what it holds | the child reads what the appliance meant |
| Launch closure (`slimserve_launch.py`) | none | check, launch, resolve again | what is checked, launched and observed is read at three moments, member by member, and the engine reads it later still | an engine finds the weights that are configured and registered, but for what changed after the launch had read it |
| MPS platform (`platforms/mps`) | tensors | attention, patches | indices and block boundaries | equals its reference |
| Memory, videos, log level, MLX server (`agent/`) | none to speak of | account, convert | boundaries of ranges and of sizes | pure algorithms |

How they interact:

- the agent's HTTP handlers start a *transition task* for each PUT and DELETE. The task outlives its
  request, which can abandon it; the two share a `Transition` object. Transitions of one id wait for each
  other on a lock, those of different ids only share ports and the file;
- a proxied request finds record, gate and child, reads its body (an await), and then checks what it found
  again. It holds a ticket of the deployment's `Queueing` while it is at the child;
- the appliance's requests pass `Admission` (an `asyncio.Semaphore` per role), are checked again, and go to
  the engine. A control call closes the gate, waits until no generation request is active, and asks the
  backend, which asks the engine process;
- the backend's monitor reports a failed engine through a callback that closes the gate and publishes the
  manifest, then takes the lock and stops the process group.

## 2. Plan

1. *(done)* `Deployments` with `DeploymentRecords`: the agent's core, its proofs, and `DeploymentsObserved`.
2. *(done)* `Queueing` with `FairPlaces`.
3. *(done)* `GenerationGate` with `Ingress`, and its proofs.
4. *(done)* `SlimServe`.
5. *(done)* `VllmLifetime` with `VllmArguments`, and its proofs.
6. *(done)* `Appliance`: lifecycle, errors and published manifest around a backend.
7. *(done)* `WorkerEvidence`: what a running SlimServe engine proves of itself.
8. *(done)* `RuntimeConfig` and `LaunchPlan`: from a configuration to the plan of an engine.
9. *(done)* Proofs of `SlimServe`, of `WorkerEvidence` and of `LaunchPlan`.
10. *(done)* Proofs of `Appliance` and of `Queueing`; of the agent's drains, of what its queueings count, and of
    what an observation reports.
11. A crash and restart of the agent between two saves, and the control endpoint whose handler outlives the
    appliance's timeout.

## 3. Modules

| Module | Role |
|---|---|
| `Deployments` | the agent's deployments: one action per stretch between two awaits of a worker (PUT or DELETE), of a proxied request, of a child, and of the shutdown |
| `DeploymentsProperties` | its properties, the inductive invariant, the refinement mapping |
| `DeploymentsObserved` | the same with an observer, who reads, probes and reports over several awaits |
| `DeploymentRecords` | abstract: each PUT and DELETE takes effect on a record at one instant or not at all, and is answered accordingly |
| `DeploymentsProofs` | theorems about all four |
| `Queueing` | tickets, the count, the line, the hours |
| `FairPlaces` | abstract: who has a place, who waits, first come first served |
| `QueueingProofs` | theorems |
| `GenerationGate` | admission of requests and control calls of the appliance, over an abstract backend |
| `Ingress` | abstract: requests enter by an open gate; a quiesce is acknowledged when it is closed and everybody left |
| `GenerationGateProofs` | theorems |
| `SlimServe` | the lifetime of the engine's process group |
| `SlimServeProofs` | theorems |
| `VllmLifetime` | the lifetime of the in-process engines of the vLLM backend |
| `VllmArguments` | what they are constructed with, what an installed version takes of it, and the comparison afterwards |
| `VllmLifetimeProofs` | theorems |
| `Appliance` | the lifecycle, the state machine, the errors and the manifest, over an abstract backend |
| `ApplianceProofs` | theorems |
| `WorkerEvidence` | workers and their instruments, observations and their validation |
| `WorkerEvidenceProofs` | theorems |
| `RuntimeConfig` | the validation of a configuration, as pure operators |
| `LaunchPlan` | the plan resolved from a configuration, its check, launch and replay |
| `LaunchPlanProofs` | theorems |
| `*MC` | instances for TLC: values, symmetry, and the order in which interchangeable calls come |

Each module holds, before some of its actions, the *mutants* of that action: the action as a plausible bug
would have it. They are not used by any specification; a property is only kept when replacing an action by
a mutant makes TLC refute it.

### Deployments

A worker's program counter names the await it is in: `locking` (the deployment's lock, 827-828),
`reserving` (records lock and free port), `draining` (1085), the four `stopping` points (1098-1107),
`verifying` (1028-1043), `waiting` (readiness, 991-1003), `committing`, `undo_*` (rollback, 1272-1298),
`forgetting`. Objects the code compares by identity (records, children, gates) carry the name of their
maker. `closed` holds the gates whose `paused` is set; `inFlight` counts `Admission.requests`; `queued` is
the `Queueing` of an id reduced to the set of requests it counts. A save either happens whole or not at
all (`Path.replace`). A child can exit at any time (`ChildExits`), and survive a stop (`StopFails`).
A request can go away at any time (`Abandon`), and the agent can be stopped at any time (`Shutdown`);
its join of the transitions may be cut short, and its sweep stops every registered child.

`DeploymentsObserved` adds `observe_deployments`: it takes a snapshot of the records, begins a health probe of
each child, awaits the answers and then the measurements, and reports each record against whatever is
registered by then. A probe asks a port, and what answers is whichever child listens there. `ready` is a
ghost: the children that have answered a probe.

Abstractions: the two short sections under the agent-wide `records_lock` are one step each; the model lets
them happen in more orders than the lock does. Records start with different ports, as `free_port` makes
them. A record differs from another by who made it and its port. Readiness, file verification, saving and
stopping have either outcome.

### Queueing

`now` stands for the monotonic clock; `HourLength` ticks of it are an hour of the wall's. The model assumes
that the host's wall clock is not set back. The current hour is appended when it is not the last, and the
hours up to the first that is kept are dropped (`WithHour`, `IsKept`). A ticket that left after a restart
(`LeaveLate`) touches nothing. Every operation is atomic in the code (there is no await in the file).

### GenerationGate

A request is `new`, `queued` or `woken` in the role's semaphore, `held` between getting its slot and being
sent, `inside` the engine, and `done`. The semaphore is CPython 3.11's: a release wakes the first waiter
asleep and hands it the slot before it runs (`Wake`), a cancelled waiter that was woken passes it on, and
one who comes while a waiter is woken queues. The refresh of the observations between slot and engine stays
a possible suspension. The backend is abstract: `paused` is its gate and `engine` whether the engine's
scheduler runs. `Unacknowledged` covers an acknowledgement lost after the engine obeyed, and a manifest that
could not be published.

### SlimServe

A call names the await it is in; a call can be cancelled at each. Groups are process groups: `running`,
`leaderless` (the leader exited, descendants stay), `gone`. A spawn that is cancelled may leave a process
whose handle nobody has (`Orphan`). A stop that fails leaves any part of the groups it was stopping
(`MayStop`). The monitor is cancelled by whoever shuts down; once it has the lock it does not count as the
monitor any more. `quiesce` and `resume` are made one at a time, as `generation_control` of the API has it.
The monitor's refresh of its observations changes nothing the properties of this module see; it is part of
`Appliance` and `WorkerEvidence`.

A `validate` beside a managed engine that is cancelled while it spawns its check loses the handle of the check,
and the next `shutdown` stops the engine and concludes that all is withdrawn. The launcher never calls
`validate` beside a running engine. The run offers `validate` like any other call; the ghost `orphaned` marks
the executions in which this happened, and `NothingIsForgotten` speaks of the others.

### VllmLifetime and VllmArguments

`start` names the await the lifecycle is in: the downloads, the choice of the next role, `constructing` (the
shielded task of the constructor), `collecting` (the same wait, after a cancellation), `mounting` (the
assembly of the application), `cleaning` (the shutdown of an engine whose application failed) and `probing`
(the embedding's dimensions). `thread` is the constructor, which no cancellation reaches: `queued` until it
enters native code, from when on the backend never claims again that there is no engine (`native`). `engine`
says what became of each engine, whoever knows of it; `engines` and `apps` are the backend's dictionaries.
Control calls go one at a time, and none is under way when the server has stopped and shuts the backend down.
Of `shutdown` each close and each stop may fail.

An argument stands for its flag together with the configured value, and `settings` are the arguments whose
values an engine runs with. An installed version knows any set of flags of the instance (`Parsers`); one that
is dropped may still come out as configured, by its default, and the engine may settle on another window or
concurrency than it was given. The local CUDA bundle is a verdict of the constructor's. That `--max-model-len`
and `--pooler-config` of a role without a profile are dropped silently where a version has lost them is the
code's choice, which the model has too.

### Appliance

`lifecycle` follows `run_lifecycle`: `new`, `starting`, `testing` (one smoke test after the other) and its end,
which is `over` where `start` had returned and `failed` where it never did. The backend is abstract, as the
launcher sees it: it may report states while it starts (`BackendState`), its start ends in any way, and a watched
one (SlimServe) has a monitor that refreshes the statuses, and fails (`EngineFails`, the callback that publishes)
before it has stopped its group (`EngineStopped`). A start goes from role to role, so one that raises leaves the
roles before the one at fault up or not and those after it untouched, or refused by their download (`LeftAt`); the
launcher then records the role at fault, or none, and does not look at the others (`StartFails`), and what is no
`BackendStartError` is recorded without a role (`StartCrashes`).

Every publication writes the whole manifest in its place, or fails and may leave a part of it (`torn`). A reader of
the file while it is written is not modelled. Control calls come in their three steps: the closing of the gate,
which is published, the question, the acknowledgement.

### WorkerEvidence

A worker's record has the callables behind the entrypoints of its extension (`entry`: native, the wrapper of
an invocation, or foreign), the current invocation and what it saw executed, the loaded model and the snapshot
of the configuration it was built from. Loading takes two steps, with kernels called, other code replacing
entrypoints, and observations in between. A call of a kernel may be of another object, be captured in a graph,
or complete; only the last is evidence. A wrapper whose instrument has been cut short is put back where it
still stands. An observation reads the facts of the API process, gets the answer of each rank at a moment of
its own, and is validated when the last is in, against the plan. `truth`, in each answer, is a ghost: what was
the case of the worker when it answered. `disk` is the content of the installed files and what `stat` tells of
them; a digest once verified is remembered by that (`cache`).

### RuntimeConfig and LaunchPlan

What is written in a YAML document is a function from the fields that were given, as some rules ask which
fields were given; `Role` adds the defaults. `Valid` is what the validators accept, `Dumped` what is handed to
the isolated interpreter, `Meaning` what a document comes to. `LaunchPlan` resolves it against the profile of
the upstream registry, the prepared directories and the machine, once with digests (to check and to launch) and
once without (to observe). A file is a name, a size, a digest, and for a checkpoint the tensors and the window in
it. The upstream registry is external: its profiles are taken as they come.

A resolution takes as many steps as there is to read. `Begins` is what `_resolve_local` asks before it opens a
directory (`Selected`); `Opens` lists the members of the next one, `Reads` reads one of them (a member that
appears while the directory is listed may be read too, or not), `Misses` finds one gone, and `Resolves` judges all
that was read (`Complete`, `Plan`). A member of the wrong size or with the wrong digest is refused there, and not
already where it is read, which nobody can tell. `why` is what is resolved: the check, the launch or an
observation. A launch executes the engine on what was read at different moments (`at`, `seen`), and the engine
reads the weights at a moment of its own. The members change at any moment, also while they are read; `stale` is a
ghost: those that changed since the launch read them. The directories of the roles themselves stay. Left out of
what is asked are the metadata's size limits, what one architecture asks of its metadata, inputs shared across
sources, and the parsers, which only refuse more.

## 4. Runs

| Run | Instance | Shows |
|---|---|---|
| `two_ids` | 2 ids, 2 workers, 1 request, 3 ports | what ids share: ports, records, reservations; and that the agent implements `DeploymentRecords` |
| `one_id` | 1 id, 2 workers, 2 requests, 1 port, an observer | two transitions of one deployment: gates, drains, counts, and what is said of it meanwhile |
| `shutdown` | 1 id, 2 workers, 1 request, fair | every transition and shutdown ends, and nothing starts after it began |
| `abandoned` (violation) | 1 id, 1 worker, 1 request | finding 1 |
| `queueing` | 4 tickets, 2 places, 1 hour kept of 2 ticks, 5 ticks, restarts | exactness of the day, and fairness of the places (implements `FairPlaces`) |
| `gate` | 4 generations on 2 slots, 2 embeddings on 1, 2 controls, fair | counts, slots, gate, that it implements `Ingress`; nobody queued is forgotten, every control call ends |
| `slimserve` | 3 calls of any operation, 4 groups, fair | the gate, what is known of the process groups, and that lock, monitor and shutdown do not block each other |
| `appliance` | every order of roles, watched or not, with and without smoke tests and fatal failures | no failure is overwritten; state, errors and disk agree, after failed starts and torn writes too |
| `appliance_published` (violation) | the same | finding 2 |
| `vllm` | 2 supported roles and a refused one, 3 configurations, parsers with at most one flag lost, fair | engines, the gate and the shutdown; what a healthy role runs |
| `evidence` | 2 ranks, bound as placed or crosswise, 2 entrypoints, 2 configurations, 3 loads, 1 change, fair | an accepted observation is true, wrappers can be removed, evidence comes |
| `launch_plan` | 4 sound scenarios and all that is got from them by up to two changes of the configuration or one of the rest; 1 or 2 changes of a member in the sound ones | what is handed on means the same, an observation resolves the launch's plan, and what an engine reads is pinned but for late changes |

*Why the bounds are enough to be interesting.* Port conflicts take two ids and a spare port (two ids on two
ports make `free_port` fail; a third port lets it succeed). What stands behind a gate is decided by two
transitions in a row, the second of which finds the gate as the first left it, with one request from before
and one from after; one port suffices, as a replacement keeps its own, and it makes the port's reuse by the
next child certain, which is what a probe can be fooled by. A slot handed to a woken waiter while another
queues behind it takes two more requests than slots. Forgetting a group takes a spawn, a failed or cancelled
stop, and a later call. One hour kept of two ticks makes every hour drop within five ticks. The vLLM backend
needs a role after a failed one and a role that it refuses, and its proofs cover every other list. Evidence
that stands for another's takes two ranks, and evidence of an earlier load two loads; the third lets a failed
load come between. A single change at each moment is enough to tell a check that is made from one that is not;
of the directories of a launch there may be two, so that one can be made up for, or fall between two members.
One is given to the sound scenario with most members.
`SomeConfigs` of `Appliance` leaves out combinations that take no path of their own.

Symmetry is used only where requests, workers, ids or ports are interchangeable, and never with a liveness
property. The refinements are checked under symmetry too: they say something of the initial states and of
single steps, without naming a member of the permuted sets, so a step and its permutation satisfy them alike.
Where liveness is checked, interchangeable calls come in the order of their numbers instead (`InOrder`).

*Deadlock* is checked in all runs: where the system may stop, an explicit step says so (`Exited`, `AllOver`), and
elsewhere something can always happen (an observation, a tick, a failure).

*Fairness.* Weak fairness only, of what the code bounds: drains have a timeout, readiness has a timeout, a
stop goes from a signal to a kill, the proxy's client has an idle timeout (so an admitted request ends), the
API's drain has 600 seconds, SlimServe's check, load and stop have 3600, 1800 and 30; a download and the
constructor of an in-process engine end (`VllmLifetime`). For `WorkerEvidence` it is assumed of each rank that
as long as one of its entrypoints can be called and complete, during a load or with a model there, one
eventually is: that requests keep coming, and that kernels complete. Nothing is assumed of children's exits,
of abandonment, of cancellations, or of new calls. Beside these calls of kernels, three assumptions go beyond
the code: the engine answers a quiesce or a resume or exits (the call has no deadline), it finishes the
responses it admitted, and vLLM's constructor returns or raises (the shutdown waits for it without a deadline,
as the code means it to). asyncio's locks and semaphores are FIFO, but the properties only need that whoever
waits for a lock that is free gets on, or another does who is one of finitely many.

## 5. Findings

1. *`abandoned`.* `forget_deployment` looks at `transition.abandoned` for the last time right after its
   drain. A DELETE whose request goes away while its child is stopped still drops the record, though the
   `Transition` docstring promises that an abandoned replacement *or removal* changes nothing or rolls back.
2. *`appliance_published`.* When the engine fails, the monitor closes the gate and publishes that, and then
   waits for the lock. A resume that holds the lock may be acknowledged meanwhile, and publishes an open gate.
   The monitor's stop closes it again, and nothing publishes that, though the README has the manifest updated
   at gate closure. `DiskIsCurrent` is checked with this exception (`reclosed`), beside a manifest that could
   not be written (`unwritten`) and the roles of a watched engine, which may have been observed since.

Two observations that are not runs: the proxy answers 503 to a configured deployment without a process as "one
being replaced or removed", and a record whose start failed at boot is so without any transition; and the lost
check of section 3, SlimServe.

## 6. Proofs

TLAPS proves 50 theorems, for every value of the constants that satisfies the named assumptions of the
modules. These exclude no instance that the code could meet:

| Assumption | Says |
|---|---|
| `NoneIsNothing`, `FiniteRequests` (`Deployments`) | `None` is nothing else, `Boot` is no worker; requests are finite |
| `SomeTime`, `FiniteTickets` (`Queueing`) | an hour is kept and has a length; requests are finite, places are numbers |
| `GateAssumption` (`GenerationGate`) | the roles share no request, requests are finite, each role has a slot |
| `SlimServeAssumption` (`SlimServe`) | `None` and the monitor are no call, `None` is no group, the operations offered are the backend's |
| `RolesAssumption`, `LaunchAssumption` (`VllmLifetime`) | a role comes once; configurations and parsers consist of options and flags |
| `ApplianceAssumption` (`Appliance`) | the configurations are of their type, and a watched one serves generation alone, as `load_config` has it |
| `EvidenceAssumption` (`WorkerEvidence`) | there is a rank, each rank is placed and bound, the plan is a configuration, markers are no values |
| `ScenariosAssumption`, `RefusedAssumption` (`LaunchPlan`) | a document has its sections and null only where its field admits it; a refusal is no plan |

The bounds of the runs (ticks, restarts, loads, changes) are constants too, and the theorems hold whatever they
are; so does the number of ids, workers, calls, groups, ranks, entrypoints and configurations.

| Theorem | Says |
|---|---|
| *`DeploymentsProofs`* | |
| `TypeCorrect`, `InvariantHolds` | `TypeOK`; the invariant of locks, records, children, ports and gates |
| `PortsAreExclusive` | two running children never share a port |
| `ChildrenStayRegistered` | a running child is the registered one |
| `DiskIsWhatIsCommitted` | `agent.yaml` is what is committed |
| `LocksAndPortsReturn` | no lock or reservation leaks |
| `NoStartAfterStop` | nothing starts once the agent is stopping (a step property) |
| `GatesCount` | a gate counts the requests sent through it |
| `OpenGatesServeTheRecord`, `ClosedGatesHaveAReason` | what stands behind an open gate, and why one is closed |
| `RecordsArePromised` | `Deployments` implements `DeploymentRecords` |
| `DrainedBeforeStopped` | a transition stops no child that answers a request, unless a drain ran out of time |
| `QueueingsCountTheirProcess` | what a `Queueing` counts is in flight at its process |
| `HealthyReportsAreTrue` | a deployment reported healthy has a child that answered and serves the record shown (`DeploymentsObserved`) |
| *`QueueingProofs`* | |
| `InvariantHolds` | count, line and hours are what the tickets amount to |
| `PlacesAreFair` | `Queueing` implements `FairPlaces` |
| `LastDayHolds` | the sum over the kept hours is exact |
| `LongestHolds` | the longest wait covers all that ended in a kept hour or go on |
| *`GenerationGateProofs`* | |
| `GateInvariant`, `GateTypeCorrect` | the whole invariant of the gate, and its types |
| `GateCountsExactly` | waiting and active are the requests that wait and that are admitted |
| `GateConservesSlots` | slots are neither lost nor doubled, and no wake-up is lost |
| `GateStaysIdle`, `GateOpensOnRunningEngine` | what an acknowledged quiesce and an open gate mean |
| `GateImplementsIngress` | `GenerationGate` implements `Ingress` |
| *`SlimServeProofs`* | |
| `SlimServeInvariant`, `SlimServeTypeCorrect` | the whole invariant of the SlimServe backend, and its types |
| `QuiesceHolds` | an acknowledged quiesce keeps the gate closed until a resume is acknowledged |
| `OpenGateServes` | behind an open gate a healthy engine is watched, and one that runs was told to run |
| `GroupsAreRemembered` | no group that lives is forgotten, unless a check's handle was lost (section 3) |
| `EnginesStayApart` | nothing is spawned while a group of an earlier engine or check lives, with the same exception |
| *`VllmLifetimeProofs`* | |
| `VllmInvariant`, `VllmTypeCorrect` | the whole invariant of the vLLM backend, and its types |
| `NoEngineIsLost` | after a shutdown no constructor runs and no engine is lost |
| `AbsenceStays` | a quiesce acknowledged for want of an engine stays true |
| `OpenGateLeavesNothing` | what an open gate leaves out |
| `HealthyRunsSelected` | a healthy role runs what was selected |
| *`ApplianceProofs`* | |
| `ApplianceInvariant`, `ApplianceTypeCorrect` | the whole invariant of the appliance, and its types |
| `FailureIsNeverReady` | no role is ready once the watched engine or a smoke test failed |
| `EveryStateIsExplained` | a bad state has a record and a healthy one none; once `start` returned, so has each role that is not healthy |
| `DiskStaysCurrent` | the manifest on disk is the runtime's, with the named exceptions |
| *`WorkerEvidenceProofs`* | |
| `EvidenceInvariant`, `EvidenceTypeCorrect` | the whole invariant of the evidence, and its types |
| `AcceptedObservationsAreTrue` | an accepted observation is true of every rank |
| `InstrumentIsRemovable` | a wrapper that is left is the current invocation's, and has seen nothing yet |
| *`LaunchPlanProofs`* | |
| `InvariantHolds` | what was read of a member is what is there, unless it changed since the launch; an engine has the plan of what was handed on, complete and pinned as it was read |
| `HandsOnUnchanged` | the child reads what the appliance meant |
| `ReplaysAgree` | an observation resolves the plan of the launch, or a member changed since the launch read it |
| `EnginesReadWhatIsPinned` | what an engine finds is configured and its weights are registered, but for what changed after the launch had read it |

Together they state every invariant, action property and refinement that a passing run checks. `TypeCorrect`,
`GatesCount`, `DiskIsWhatIsCommitted`, `LocksAndPortsReturn`, `GateOpensOnRunningEngine` and the theorems of types
and of whole invariants state what the proofs need and no run lists; TLC checked them on the instances of the
runs while they were being found.

*The argument of the agent.* None of the safety properties is inductive. `IInv` is the invariant behind them,
in three layers, each closed under every action given the ones before.

- `Typed`: the types, that a request under way holds a gate, a child and a record (`CallsKnow`), and that gates
  count their requests. Cardinalities change by one because a request is sent once and released once.
- `PortInv`: a worker past its lock holds it, and whoever is the lock's holder is past it (`LocksAgree`); what a
  worker found is still in force, because only the lock's holder changes an id's record (`Knows`); which child
  is registered at each point of a worker, none where it is about to start one (`ChildAt`); a port belongs to
  one id, by its record, its child or the worker that reserved it, and reserved ports are in the agent's set
  (`PortsApart`). `PortsApart` is the heart of it: `free_port` avoids exactly these three, so a candidate's
  port is nobody's, and it stays so through commit, rollback and failure.
- `GateInv`: gates belong to one id and unmade ones are unseen (`GatesApart`); where a worker keeps its gate
  closed, has opened it, or found it closed by an earlier failure (`GateAt`).

*The agent's drains.* `DrainInv` stands on these layers; its exception is a drain of the deployment that ran out
of time (`CutShort`).

- `StartInv`: a drain is late only once it is over, a child is its starter's, and an id without a record has no
  open gate.
- `CallInv`: a request under way holds a gate of its own deployment. While it reads its body, that gate is
  either closed or still the one there is, which is why the check after the body decides (`CallGate`). Its child
  was reached through a gate that the child's starter had opened (`CallChild`).
- `SentInv`: what is at the present child went through the present gate, and nothing is at a child whose drain is
  over. A drain ends when its gate counts zero, and gates count exactly (`Typed`), so the two carry each other.
- `CountInv`: a replacement's queueing counts nobody until its gate opens.

Since every step of a worker does one of seven things to gates and children (`DrainEffect`), the invariant is
proved once for each of these rather than for each action.

*The observation.* A probe asks a port, and a later child may listen there. `ReadyInv` says that a child a worker
started is behind an open gate only once it was found ready, whoever was probed; `ProbeInv` that of a
deployment whose child the agent started with no observation has asked another child, as there was none before. The
report shows the record, and `OpenGatesServeTheRecord` ties it to the child.

*The agent's refinement* uses the second layer of `IInv`: at the moment of a commit or removal the record is still the one the
worker found, disk and memory change together, and `Applied` flips.

*The argument of the queueing.* The code keeps a number, a deque and a list of sums, the properties speak of
tickets. The invariant says what the former amount to.

- `TicketInv`: what a ticket says of itself: when it was counted, and that its times have passed.
- `LineInv`: the line holds those that wait, once each, in the order they came. Times are only weakly ordered,
  and the order of the line is what makes the first one's wait the longest.
- `PlaceInv`: the count is the holders and the line together, and nobody waits beside a free place. This is the
  mapping to `FairPlaces`, whose places and line are sets and sequences of requests.
- `HoursInv`: the hours are in order, every one counts the requests queued in it, and every hour to be kept that
  saw anything is there. `WithHour` drops the hours up to the first kept one, which by the order is all that
  have passed and no other (`Renewed`).

The sum over the kept hours is the size of a set, by a bijection; that a finite set of numbers has a least and a
greatest member comes from the well-foundedness of their order, without induction.

*The argument of the gate.* `IInv` of `GenerationGate` adds two parts to the properties.

- `LinesAgree`: a role's line holds exactly its requests that wait, each once. Only with it does `Wake` find a
  sleeper when there is one (`WakeEffect`), and does leaving the line, by an acquisition or a cancellation, take
  out that request alone (`WithoutEffect`). A request's step then changes each count by what it does to its own
  phase (`MoveCounts`), and whoever it wakes changes only the slots, which `Wake` pays for (`WakeCounts`). That
  no slot stays free beside a sleeper survives a newcomer because one queues beside a free slot only when
  somebody in line is woken already.
- `ControlsAgree`: a call past its beginning is the holder of `generation_control` and the gate is closed; once
  its quiesce is past the drain nobody is at the engine. A closed gate keeps `Forward` from sending anybody, and
  the drain ends on `active = 0`, which by the exact counts is an empty engine: this is what carries the
  acknowledgement.

The refinement maps a forward to an entrance, a departure to an exit, a closing to a closing, and the
acknowledgements to themselves; everything else stutters.

*The argument of the SlimServe backend.* Three parts, each proved of every step of a call, the monitor and the
groups.

- `ControlInv`: a control call that has begun is the only one, and closed the gate. So no other call's end can
  open the gate a quiesce has just been acknowledged for.
- `ServedInv`: an open gate means a scheduler last told to run, and a healthy engine is watched.
- `LifetimeInv`: which handles are kept at each await of a call (`HandlesAt`); a handle that is kept fences the
  lifetime (`withdrawn` is no); and unless a check's handle was lost, whoever lives is one of the two kept
  (`AllKnown`). A call about to spawn has found nobody kept, so with `AllKnown` nobody lives. Only a call past
  the lock has anything at stake, and there is one (`OthersWait`).

*The argument of the vLLM backend.* `IInv` of `VllmLifetimeProofs` adds to the properties:

- `StartAt`: where the start is determines which role is loading and whether a thread runs, so once the start is
  over nothing is being loaded. This is why a shutdown that awaited it finds everything settled.
- `EngineAt`: engines are built in the order of the roles, and a role's thread runs only while the role has none.
  Hence an engine that runs is a known one, and one that is cleaned up is not yet healthy.
- `RoleAt`: until a shutdown ends, an engine that runs serves its application, is loading, or is to be cleaned
  up. With `GateAt`, by which an open gate excludes a cleanup and a shutdown, that is `OpenGateIsResolved`.
- `GateAt`: a control call waits only where nothing is unsettled, so that its answer cannot meet a failure of the
  start; and an absence is only acknowledged once the start is over, after which no thread begins.
- `SettingsAt`: a thread enters native code only if the parser knows every required flag, and a role that is
  healthy has an engine, so that no later construction changes its settings.

The proof has one lemma for each part, with a step for each action.

*The argument of the appliance.* `StageInv` says how far each stage has come: no monitor and no failed test before
`start` returns, one test for a watched engine, and a healthy state at the end only. `FailureInv` says what a
failure leaves: a watched engine serves generation alone and stays unhealthy, and a role whose test failed
stays so until the lifecycle ends, in a state that is not healthy. A watched engine's failure therefore meets
no second role that an observation could call healthy, and an unwatched one has no observation. `ErrorInv` adds
that nothing is recorded before `start` ended, that a record made before the last smoke test is of a role that is
still not healthy then (so that no healthy state is reached with it), and that from the return of `start` each role
that is not healthy has a record of its own.

*The argument of the evidence.* It follows what a worker goes by when it answers.

- `FilesInv`: a stamp that a process remembers and still finds is of files that were as reviewed.
- `ServedInv`: an execution that is remembered did happen since the load began (`ran`), and the model that is
  vouched for was built from the snapshot that is kept (`born`).
- `AnswersInv`: an answer is its worker's, and if it names the plan and the placement, it is true. The API's
  process accepts when each rank has answered so.

What a load, a call or a disturbance does is first proved of a single worker (`WorkerBecomes`).

*The argument of the launch plan.* Most of it is about operators. A field that is null reads as its default
(`KeptReadsTheSame`), so a dump leaves each role what it was (`DumpKeepsRoles`) and dumping once more changes
nothing (`DumpedOnce`). What is complete with digests is complete without them, and
two sets of directories that are both complete for one document have one shape (`CompleteShape`).

What makes the walk sound is that it never relies on a directory as a whole. `WalkInv`: of a directory that was
opened, each name either is still listed, or changed since the launch read it, or names what was read; opening and
reading by a launch start this anew for what they read. So when a launch has read everything, what it read is what
is there but for late changes, and it is pinned (`CompleteIsPinned`): this becomes `LaunchInv`, and no later change
can disturb it without the member becoming stale. An observation that finds a member gone, or ends in a refusal,
has `WalkInv` and `LaunchInv` for the same names: were nothing stale, it would have read what the launch did,
which was complete (`SameMembers`). `ReplayInv` keeps that.

*Without a property.* `Commit` asks once more whether the child that was found ready still runs. The child may as
well exit right after it was recorded, so no state tells whether it was asked, and a property of the step would
only repeat the guard.

*Only model-checked.* Liveness: `TransitionsEnd`, `ShutdownEnds`, `QueuedAreServed`, `ControlsEnd`,
`FailedEngineIsStopped`, `CallsEnd`, `StopEnds` and `EvidenceComes`. Liveness under fairness and ENABLED are out of
the prover's reach. So is induction over data, as the induction theorems of the library take operators; no
proof here needs it: no module declares a recursive operator, and the one fold (the number of loads in
`WorkerEvidence`) is in a bound.

## 7. Not modelled

- *Data without order*: the agent's configuration and memory accounting (parsing and sums of what the host
  tells), videos (arithmetic on frames and sizes), the log level and the MLX server's arguments, MPS (numerical
  code of a vLLM platform), the build script, and the attribution. What could be wrong in these is what unit
  tests reach.
- *Formats*: HTTP, YAML, JSON, telemetry, logging; the wording of errors. The manifest's static parts.
- *Verdicts*: the check of a local CUDA bundle, the parsing of the provenance document, the tests of a module's
  origin, the verification of a deployment's files: either outcome, at the point where the code asks.
- *The agent's requests*: the validation of a record and the command of its engine. A request that makes no
  record is refused (`PutRefused`).
- *Faults left out*: a crash of the agent itself, which orphans its children; a crash between the writing of
  `agent.yaml.tmp` and its rename, which leaves the old records (a save is whole or not at all here); a host
  clock that is set back; another program that takes a port between its probe and the start of the child, which
  the model has as a child that fails; a control handler in the engine's process that outlives the
  appliance's timeout.
- *Others' code*: the upstream engines and registry, the fake backend, which has no engine behind its gate.
