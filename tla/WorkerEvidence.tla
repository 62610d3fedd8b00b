--------------------------- MODULE WorkerEvidence ---------------------------
(***************************************************************************)
(* How the appliance comes to believe what a SlimServe engine reports of   *)
(* itself: the instrument that each worker puts around its native kernels  *)
(* while a model is loaded (lazarus/appliance/slimserve_worker.py), the    *)
(* installed files it is checked against (slimserve_provenance.py), the    *)
(* observation that the engine's API process collects from all workers     *)
(* (slimserve_observation.py), and the validation of its answer            *)
(* (backends/slimserve.py).                                                *)
(*                                                                         *)
(* Each worker is a process of its own.  Other code in it may replace an   *)
(* entrypoint, the model or the applied configuration, and files may       *)
(* change, at any time; the observation must not take the one for another. *)
(***************************************************************************)
EXTENDS Naturals, FiniteSetsExt

CONSTANTS
  Count,        \* tensor_parallel_size
  Placement,    \* accelerator_device_ids, by rank
  Bindings,     \* the devices that the workers may be bound to, by rank
  Entrypoints,  \* KERNEL_ENTRYPOINTS
  Configs, Planned,  \* what a configuration can be, and what was resolved
  MaxLoads,     \* bound: the models that are loaded
  MaxChanges,   \* bound: the times anything is changed from outside
  None, Foreign, Api

Ranks == 0..(Count - 1)
Processes == Ranks \cup {Api}

ASSUME EvidenceAssumption ==
  /\ Count \in Nat \ {0} /\ {MaxLoads, MaxChanges} \subseteq Nat
  /\ Planned \in Configs /\ None \notin Configs \cup Entrypoints
  /\ \A f \in Bindings \cup {Placement} : DOMAIN f = Ranks
  /\ {Foreign, Api} \cap Nat = {}

VARIABLES
  worker,   \* the state of each worker
  bound,    \* the physical device each one is bound to
  changes,  \* what was changed from outside so far
  disk,     \* the installed files: their content, and what stat tells of them
  cache,    \* the stamp of which each process verified the content, or 0
  applied,  \* the configuration of the API process
  facts,    \* what the collection read of it
  answers,  \* what the workers have answered to it
  verdict   \* what became of the last observation

vars == <<worker, bound, changes, disk, cache, applied, facts, answers, verdict>>

\* The callables of the extension module: 0 is the native one, a number the
\* wrapper of that KernelInvocation, Foreign anything else.
Callables == Nat \cup {Foreign}

NewWorker == [
  config   |-> Planned,  \* of vllm_config
  snapshot |-> None,     \* _sovereign_loaded_config
  model    |-> 0,        \* what get_model returns: the number of its load
  observed |-> 0,        \* _sovereign_loaded_model
  kernel   |-> 0,        \* _sovereign_kernel
  executed |-> None,     \* its executed
  genuine  |-> TRUE,     \* sys.modules has the compiled extension, as it was loaded
  entry    |-> [n \in Entrypoints |-> 0],
  loading  |-> None,     \* loaded_config, while load_model runs
  ran      |-> FALSE,    \* a native kernel completed since that load began
  born     |-> None]     \* the configuration the model was built from

Init ==
  /\ worker = [w \in Ranks |-> NewWorker] /\ changes = 0
  /\ bound \in Bindings
  /\ disk = [good |-> TRUE, stamp |-> 1] /\ cache = [p \in Processes |-> 0]
  /\ applied = Planned /\ facts = None
  /\ answers = [w \in Ranks |-> None] /\ verdict = "none"

observing == <<bound, applied, facts, answers, verdict>>

\* A step of a worker's process changes that worker's state.
Becomes(w, self) == worker' = [worker EXCEPT ![w] = self]

-----------------------------------------------------------------------------
(* The installed files. *)

\* The digest is computed again only when stat tells of a change.
Verified(p) == cache[p] = disk.stamp \/ disk.good

\* verify_extension: the module in sys.modules is the native extension that was
\* reviewed, and its artifacts are as installed.
Extension(w) == worker[w].genuine /\ Verified(w)

Remember(p) == cache' = [cache EXCEPT ![p] = disk.stamp]

Changed == changes < MaxChanges /\ changes' = changes + 1

FileChanges ==
  /\ Changed
  /\ \E good \in BOOLEAN : disk' = [good |-> good, stamp |-> disk.stamp + 1]
  /\ UNCHANGED <<worker, cache, observing>>

-----------------------------------------------------------------------------
(* The load of a model, with the kernels instrumented. *)

\* Each entrypoint that still is that invocation's wrapper is native again.
Restored(w) ==
  [n \in Entrypoints |->
     IF worker[w].kernel # 0 /\ worker[w].entry[n] = worker[w].kernel
     THEN 0 ELSE worker[w].entry[n]]

Native(entry) == \A n \in Entrypoints : entry[n] = 0

Loads == MapThenSumSet(LAMBDA w : worker[w].kernel, Ranks)

\* The invocation of an earlier load is removed, and a new one installed.
LoadBegins(w) ==
  /\ worker[w].loading = None /\ Loads < MaxLoads
  /\ Extension(w) /\ Native(Restored(w))
  /\ Becomes(w, [worker[w] EXCEPT
       !.observed = 0, !.kernel = @ + 1, !.executed = None,
       !.entry = [n \in Entrypoints |-> worker[w].kernel + 1],
       !.loading = worker[w].config, !.ran = FALSE])
  /\ Remember(w) /\ UNCHANGED <<changes, disk, observing>>

\* Something is not as it was installed: nothing is loaded, and whatever was
\* is not vouched for any more.
LoadRefused(w) ==
  /\ worker[w].loading = None
  /\ ~Extension(w) \/ ~Native(Restored(w))
  /\ Becomes(w, [worker[w] EXCEPT !.observed = 0, !.entry = Restored(w)])
  /\ UNCHANGED <<changes, disk, cache, observing>>

\* The upstream loader fails, or leaves no model.
LoadFails(w) ==
  /\ worker[w].loading # None
  /\ \E model \in {0, worker[w].model} :
       Becomes(w, [worker[w] EXCEPT !.loading = None, !.model = model, !.entry = Restored(w)])
  /\ UNCHANGED <<changes, disk, cache, observing>>

\* Mutant of LoadEnds: the instrument goes with the load.
LoadEndsRestored(w) ==
  /\ worker[w].loading # None
  /\ LET sound == Verified(w) /\ worker[w].config = worker[w].loading
     IN  Becomes(w, [worker[w] EXCEPT
           !.loading = None, !.entry = Restored(w),
           !.model = worker[w].kernel, !.born = worker[w].loading,
           !.snapshot = IF sound THEN worker[w].loading ELSE @,
           !.observed = IF sound THEN worker[w].kernel ELSE @])
  /\ UNCHANGED <<changes, disk, cache, observing>>

\* The model is there.  Unless its class or the configuration is not what it
\* was, it is the one that is vouched for; the wrappers stay either way.
LoadEnds(w) ==
  /\ worker[w].loading # None
  /\ LET sound == Verified(w) /\ worker[w].config = worker[w].loading
     IN  Becomes(w, [worker[w] EXCEPT
           !.loading = None, !.model = worker[w].kernel, !.born = worker[w].loading,
           !.snapshot = IF sound THEN worker[w].loading ELSE @,
           !.observed = IF sound THEN worker[w].kernel ELSE @])
  /\ UNCHANGED <<changes, disk, cache, observing>>

-----------------------------------------------------------------------------
(* A kernel is called.  "elsewhere" has no tensor on the accelerator, and   *)
(* "captured" is recorded into a graph: neither has run there.              *)

Instrumented(w, n) ==
  worker[w].kernel # 0 /\ worker[w].entry[n] = worker[w].kernel

\* Mutant of Called: only the entrypoint that was called is given back.
CalledGivesOneBack(w, n, how) ==
  /\ Instrumented(w, n) /\ how = "completed" /\ Extension(w)
  /\ Becomes(w, [worker[w] EXCEPT !.ran = TRUE, !.executed = n, !.entry[n] = 0])
  /\ Remember(w) /\ UNCHANGED <<changes, disk, observing>>

\* The first that completed on the accelerator is the evidence, and all
\* entrypoints are native again; if the extension is not what was installed,
\* the call raises and the wrappers stay.
Called(w, n, how) ==
  /\ Instrumented(w, n) /\ how = "completed" /\ Extension(w)
  /\ Becomes(w, [worker[w] EXCEPT !.ran = TRUE, !.executed = n, !.entry = Restored(w)])
  /\ Remember(w) /\ UNCHANGED <<changes, disk, observing>>

\* Some other code of the worker's process changes what the instrument or
\* the observation goes by.
Disturbed(w) ==
  /\ Changed
  /\ \/ \E n \in Entrypoints : Becomes(w, [worker[w] EXCEPT !.entry[n] = Foreign])
     \/ \E c \in Configs \ {worker[w].config} : Becomes(w, [worker[w] EXCEPT !.config = c])
     \/ Becomes(w, [worker[w] EXCEPT !.model = 0, !.born = None])
     \/ Becomes(w, [worker[w] EXCEPT !.genuine = FALSE])
  /\ UNCHANGED <<disk, cache, observing>>

-----------------------------------------------------------------------------
(* The observation. *)

\* A native kernel was executed, and is still the one that would be.
Evidence(w) ==
  /\ worker[w].executed # None /\ worker[w].entry[worker[w].executed] = 0
  /\ Extension(w)

\* What a worker answers "ready" for.
Vouches(w) ==
  LET self == worker[w]
  IN  /\ self.model # 0 /\ self.model = self.observed
      /\ Verified(w) /\ self.config = self.snapshot
      /\ Evidence(w)

\* The configuration of the API process is the plan's (_verify_applied).
Ask ==
  /\ facts = None /\ Verified(Api) /\ applied = Planned
  /\ facts' = applied /\ answers' = [w \in Ranks |-> None]
  /\ verdict' = "none" /\ Remember(Api)
  /\ UNCHANGED <<worker, bound, changes, disk, applied>>

\* What a worker's answer is true of, when it answers.
Truth(w) ==
  /\ worker[w].ran /\ worker[w].born = Planned
  /\ disk.good /\ bound[w] = Placement[w]

Answer(w) ==
  /\ facts # None /\ answers[w] = None
  /\ answers' = [answers EXCEPT ![w] =
       [ready |-> Vouches(w), rank |-> w, device |-> bound[w],
        config |-> worker[w].config, truth |-> Truth(w)]]
  /\ cache' = IF Vouches(w) THEN [cache EXCEPT ![w] = disk.stamp] ELSE cache
  /\ UNCHANGED <<worker, bound, changes, disk, applied, facts, verdict>>

\* Mutant of Corroborated: the configurations of the workers are not compared.
CorroboratedAnyConfig(rows) ==
  /\ \A i \in Ranks :
       /\ rows[i].ready /\ rows[i].rank = i /\ rows[i].device = Placement[i]
  /\ Cardinality({rows[i].device : i \in Ranks}) = Count

\* One row of each rank, in order, each on the device placed there (_workers).
Corroborated(rows) ==
  /\ \A i \in Ranks :
       /\ rows[i].ready /\ rows[i].rank = i /\ rows[i].config = facts
       /\ rows[i].device = Placement[i]
  /\ Cardinality({rows[i].device : i \in Ranks}) = Count

\* The appliance takes the devices by their rank, and compares them and what is
\* applied with its own configuration (validate_observation).
Validated(rows) ==
  /\ facts = Planned /\ {rows[i].rank : i \in Ranks} = Ranks
  /\ \A i \in Ranks : rows[i].device = Placement[rows[i].rank]

\* The answers are in, in whatever order they were gathered.
Conclude ==
  /\ facts # None /\ \A w \in Ranks : answers[w] # None
  /\ \E gathered \in [Ranks -> Ranks] :
       LET rows == [i \in Ranks |-> answers[gathered[i]]]
       IN  verdict' = IF Corroborated(rows) /\ Verified(Api) /\ Validated(rows)
                      THEN "accepted" ELSE "refused"
  /\ facts' = None /\ UNCHANGED <<worker, bound, changes, disk, cache, applied, answers>>

\* An answer does not come within the 6 seconds, or the plan is not applied.
Unavailable ==
  /\ facts # None \/ ~Verified(Api) \/ applied # Planned
  /\ facts' = None /\ verdict' = "refused"
  /\ UNCHANGED <<worker, bound, changes, disk, cache, applied, answers>>

ConfigurationChanges ==
  /\ Changed /\ \E c \in Configs \ {applied} : applied' = c
  /\ UNCHANGED <<worker, bound, disk, cache, facts, answers, verdict>>

-----------------------------------------------------------------------------
Kinds == {"elsewhere", "captured", "completed"}

Completes(w) == \E n \in Entrypoints : Called(w, n, "completed")

WorkerStep(w) ==
  \/ LoadBegins(w) \/ LoadRefused(w) \/ LoadFails(w) \/ LoadEnds(w)
  \/ \E n \in Entrypoints, how \in Kinds : Called(w, n, how)
  \/ Disturbed(w) \/ Answer(w)

Next ==
  \/ \E w \in Ranks : WorkerStep(w)
  \/ FileChanges \/ ConfigurationChanges
  \/ Ask \/ Conclude \/ Unavailable

Spec == Init /\ [][Next]_vars

(* The engine serves requests, so its kernels run.                          *)
FairSpec == Spec /\ \A w \in Ranks : WF_vars(Completes(w))

-----------------------------------------------------------------------------
(* The types of the evidence.                                               *)
TypeOK ==
  /\ worker \in [Ranks -> [
       config : Configs, snapshot : Configs \cup {None}, model : Nat, observed : Nat,
       kernel : Nat, executed : Entrypoints \cup {None}, genuine : BOOLEAN,
       entry : [Entrypoints -> Callables], loading : Configs \cup {None},
       ran : BOOLEAN, born : Configs \cup {None}]]
  /\ bound \in Bindings /\ changes \in 0..MaxChanges
  /\ disk \in [good : BOOLEAN, stamp : 1..(changes + 1)]
  /\ cache \in [Processes -> 0..disk.stamp]
  /\ applied \in Configs /\ facts \in {None, Planned}
  /\ answers \in [Ranks -> {None} \cup [
       ready : BOOLEAN, rank : Ranks, device : {bound[w] : w \in Ranks},
       config : Configs, truth : BOOLEAN]]
  /\ verdict \in {"none", "accepted", "refused"}

(* An observation is accepted only if every rank, when it answered, served  *)
(* a model built from the planned configuration, on the device placed for   *)
(* it, with installed files that were as reviewed, and had run a native     *)
(* kernel to its end since that model's load began: no earlier load, failed *)
(* load, graph capture or answer of another rank stands in for it.          *)
AcceptedIsTrue ==
  verdict = "accepted" => \A w \in Ranks : answers[w] # None /\ answers[w].truth

(* A wrapper that is left belongs to the current invocation, which has no   *)
(* evidence yet: the next load can always remove it, and once there is      *)
(* evidence the engine runs on its native kernels alone.                    *)
WrappersAreRemovable ==
  \A w \in Ranks, n \in Entrypoints :
    worker[w].entry[n] \notin {0, Foreign} =>
      worker[w].entry[n] = worker[w].kernel /\ worker[w].executed = None

(* A model that is vouched for gets its evidence, unless the kernels or the *)
(* files are tampered with: the instrument survives its load.               *)
EvidenceComes ==
  \A w \in Ranks :
    worker[w].observed # 0 ~>
      \/ worker[w].executed # None \/ worker[w].observed = 0
      \/ ~disk.good \/ ~worker[w].genuine \/ \E n \in Entrypoints : worker[w].entry[n] = Foreign
=============================================================================
