----------------------------- MODULE LaunchPlan -----------------------------
(***************************************************************************)
(* What the isolated interpreter of SlimServe launches                     *)
(* (lazarus/appliance/slimserve_launch.py): a configuration, the profile   *)
(* that the upstream registry resolves for it, the prepared directories    *)
(* and the machine are put together to a plan or refused.  The same is     *)
(* done to check a configuration, to launch it, and by the running engine  *)
(* each time it is observed.                                               *)
(*                                                                         *)
(* The directories are walked one after another, and their members read    *)
(* one by one, and any of them may change at any moment: before it is      *)
(* read, after it was read, and while the engine, which reads the weights  *)
(* once it was executed, runs.  The registry is upstream's: its profiles   *)
(* are taken as they come.                                                 *)
(***************************************************************************)
EXTENDS RuntimeConfig

CONSTANTS
  Scenarios,   \* the configurations, profiles, directories and machines
  Tampered(_), \* what may become of the directories
  Prepared,    \* the paths whose last part is "model"
  Refused      \* what an observation resolves when it is refused

VARIABLES
  config,    \* the configuration as it was given to the appliance
  profile,   \* what the registry resolves
  machine,   \* the devices and the memory
  tree,      \* the members found in the directory of each artifact's role
  free,      \* the free bytes of the NVMe tier
  checked,   \* the configuration passed --check
  launched,  \* the plan of the engine, or None
  at,        \* the members that were read for it
  replayed,  \* what the last observation resolved: a plan, None or Refused
  why,       \* what the directories are being walked for, or "no"
  dir,       \* the directory that is open
  listed,    \* its members that are still to be read
  seen,      \* the members that were read in each directory opened
  stale,     \* the members that changed since the launch read or listed them
  changes    \* bound: how often the directories may still change

\* A document has been parsed: its sections are there, and null is given only
\* where the type of the field admits it.
ScenariosAreRead ==
  \A s \in Scenarios :
    /\ DOMAIN s.config = {"schema_version", "runtime", "roles"}
    /\ "generation" \in DOMAIN s.config.roles
    /\ \A name \in DOMAIN s.config.roles : \A f \in DOMAIN s.config.roles[name] :
         s.config.roles[name][f] = None => f \in Optional

ASSUME ScenariosAssumption == ScenariosAreRead

fixed == <<config, profile, machine>>
walk == <<why, dir, listed, seen>>
vars == <<fixed, tree, free, checked, launched, at, replayed, walk, stale, changes>>

Init ==
  /\ \E s \in Scenarios :
       /\ config = s.config /\ profile = s.profile /\ machine = s.machine
       /\ tree = s.tree /\ free = s.free /\ changes = s.changes
  /\ checked = FALSE /\ launched = None /\ at = None /\ replayed = None
  /\ why = "no" /\ dir = None /\ listed = {} /\ seen = <<>> /\ stale = {}

Files(members) == {m.file : m \in members}
Named(members, name) == {m \in members : m.file = name}

-----------------------------------------------------------------------------
(* The names of the members that may appear. *)

Support == {"config.json", "tokenizer.json", "tokenizer_config.json", "index.json"}
Required == {"config.json", "tokenizer.json", "tokenizer_config.json"}
Safetensors == {"a.safetensors", "b.safetensors"}
Ggufs == {"q.gguf", "q.gguf.part-01-of-02"}
ReferenceOnly == {"README.md"}

-----------------------------------------------------------------------------
\* The platform and the devices are those of the configuration, all alike.
Hardware(role) ==
  IF role.slimserve.variant = "metal"
  THEN machine.platform = "metal" /\ machine.memory > 0
  ELSE LET ids == role.accelerator_device_ids
       IN  /\ machine.platform = "cuda"
           /\ machine.visible = ids /\ Len(machine.devices) = Len(ids)
           /\ \A i \in DOMAIN ids :
                machine.devices[i] = [uuid |-> ids[i], class |-> role.slimserve.variant]

\* The engine settings are reviewed ones, and a drafter comes with its own.
Settings ==
  /\ profile.reviewed
  /\ profile.speculative # "none" => profile.speculator # None
  /\ profile.overrides => profile.speculative # "none"

\* Mutant of Capacity: an observation asks for the tier's space once more.
CapacityAgain(verify) ==
  /\ machine.host_ram >= profile.min_host_ram
  /\ profile.nvme > 0 => free >= profile.nvme * profile.gpus

\* Host memory, and the space of the NVMe tier until it is allocated.
Capacity(verify) ==
  /\ profile.min_host_ram > 0 => machine.host_ram >= profile.min_host_ram
  /\ profile.nvme > 0 /\ verify => free >= profile.nvme * profile.gpus

\* The directory holds exactly the members of the artifact, each of its size,
\* and with its digest where that is verified; an index names the weights.
Closure(artifact, members, verify) ==
  LET weights == Files(artifact.files) \cap Safetensors
  IN  /\ Files(artifact.files) \subseteq Support \cup Safetensors \cup Ggufs
      /\ Files(members) = Files(artifact.files)
      /\ \A m \in members, f \in artifact.files :
           m.file = f.file => m.size = f.size /\ (verify => m.sha = f.sha)
      /\ \A m \in members :
           m.file = "index.json" => m.names = weights /\ weights # {}

\* The registered entries are all supplied, as registered (_match).
Match(artifact, entries) ==
  \A e \in entries : \E f \in artifact.files :
    f.file = e.file /\ f.size = e.size /\ e.sha \in {None, f.sha}

Checkpoint(artifact, required) ==
  LET names == Files(artifact.files)
  IN  /\ required \subseteq names /\ names \cap Safetensors # {}
      /\ names \subseteq Support \cup Safetensors
      /\ Cardinality(names \cap Safetensors) = 1 \/ "index.json" \in names

-----------------------------------------------------------------------------
(* _resolve_local, over its parts. *)

Artifact(role, name) == CHOOSE a \in role.slimserve.artifacts : a.role = name
HasArtifact(role, name) == \E a \in role.slimserve.artifacts : a.role = name

ModelFrom(model, revision) ==
  /\ model.repository = profile.repository /\ model.revision = revision
  /\ profile.revision \in {None, revision}

\* What the registry knows of the model's members: those of the quantization
\* or, once those are assembled, the output and any part that was retained.
Registered(model) ==
  IF profile.assembly = None
  THEN profile.shared \cup {e \in profile.files : e.file \notin ReferenceOnly}
  ELSE profile.shared \cup {profile.assembly}
         \cup {e \in profile.files : e.file \in Files(model.files)}

ModelMembers(model) ==
  /\ profile.assembly # None => profile.assembly.sha # None
  /\ Match(model, Registered(model))
  /\ Files(model.files) \subseteq Files(Registered(model)) \cup Support

IsCheckpoint == profile.format = "safetensors"

\* A checkpoint brings its tokenizer; anything else needs one of its own.
Tokenizer(role, model) ==
  IF IsCheckpoint THEN Checkpoint(model, Required)
  ELSE /\ HasArtifact(role, "tokenizer")
       /\ LET names == Files(Artifact(role, "tokenizer").files)
          IN  Required \subseteq names /\ names \subseteq Support

\* The drafter is the checkpoint itself, or one that upstream pins.
Drafter(role) ==
  CASE profile.speculative = "none" -> TRUE
    [] profile.speculative = "mtp"  -> IsCheckpoint
    [] profile.speculative = "separate" ->
         /\ HasArtifact(role, "drafter") /\ profile.speculator.revision # None
         /\ LET draft == Artifact(role, "drafter")
            IN  /\ draft.repository = profile.speculator.repository
                /\ draft.revision = profile.speculator.revision
                /\ IF profile.speculator.file = None THEN Checkpoint(draft, {"config.json"})
                   ELSE /\ Match(draft, {profile.speculator.file})
                        /\ Files(draft.files) = {profile.speculator.file.file}

\* Every artifact is used.
Used ==
  {"model"} \cup (IF IsCheckpoint THEN {} ELSE {"tokenizer"})
            \cup (IF profile.speculative = "separate" THEN {"drafter"} ELSE {})

\* The ceiling of the profile or, without one, of the model's own config.
Ceiling(t) ==
  IF profile.max_model_len # None THEN profile.max_model_len
  ELSE LET root == IF IsCheckpoint THEN "model" ELSE "tokenizer"
           found == {m.context : m \in {m \in t[root] : m.file = "config.json"}}
       IN  IF found = {} THEN 0 ELSE CHOOSE c \in found : TRUE

\* What _resolve_local asks before it opens a directory of an artifact, of a
\* document: the limits on its metadata are left out.
Selected(c, verify) ==
  LET role == Role(c.roles["generation"])
  IN  /\ Valid(c) /\ role.engine = "slimserve" /\ ~profile.blocked
      /\ Hardware(role) /\ profile.gpus = role.tensor_parallel_size
      /\ Settings /\ Capacity(verify)
      /\ ModelFrom(Artifact(role, "model"), role.revision) /\ role.model \in Prepared
      /\ DOMAIN tree = {a.role : a \in role.slimserve.artifacts}

\* And of what it read there, t: what one architecture asks of its metadata
\* (_qwen_qsa_inputs), inputs shared across sources, and the parsers, which are
\* the profile's or none, are left out.
Complete(c, t, verify) ==
  LET role == Role(c.roles["generation"])
      model == Artifact(role, "model")
  IN  /\ \A a \in role.slimserve.artifacts : Closure(a, t[a.role], verify)
      /\ ModelMembers(model) /\ Tokenizer(role, model) /\ Drafter(role)
      /\ {a.role : a \in role.slimserve.artifacts} = Used
      /\ role.max_model_len <= Ceiling(t)
      /\ role.max_concurrent_requests <= profile.max_num_seqs

\* The engine's arguments, as far as they depend on anything.
Plan(c) ==
  LET role == Role(c.roles["generation"])
  IN  [tokenizer |-> IF IsCheckpoint THEN "model" ELSE "tokenizer",
       draft     |-> CASE profile.speculative = "none" -> "none"
                       [] profile.speculative = "mtp" -> "model"
                       [] OTHER -> "drafter",
       context   |-> role.max_model_len, sequences |-> role.max_concurrent_requests,
       devices   |-> role.accelerator_device_ids,
       worker    |-> IF role.slimserve.variant = "metal" THEN "MetalWorker" ELSE "CudaWorker"]

\* What a document may be planned to, whatever the registry resolves.
PlansOf(c) ==
  LET role == Role(c.roles["generation"])
  IN  [tokenizer : {"model", "tokenizer"}, draft : {"none", "model", "drafter"},
       context : {role.max_model_len}, sequences : {role.max_concurrent_requests},
       devices : {role.accelerator_device_ids}, worker : {"MetalWorker", "CudaWorker"}]

ASSUME RefusedAssumption ==
  /\ Refused # None
  /\ \A s \in Scenarios : Refused \notin PlansOf(Dumped(s.config))

-----------------------------------------------------------------------------
\* What is resolved: what was handed on, and by an observation what the engine
\* was given, which was dumped once more.
Document(w) == IF w = "replay" THEN Dumped(Dumped(config)) ELSE Dumped(config)

\* Mutant of Verifies: a start trusts the digests of the check.
VerifiesOnce(w) == w = "check"

\* verify_files: an observation reads no weights, and reserves no space.
Verifies(w) == w # "replay"

\* The resolution ends.  --check passes or not; a launch executes the engine, on
\* what it read, or needs a check again; an observation has its plan or is refused.
Ends(w, accepted) ==
  LET plan == Plan(Document(w))
  IN  /\ why' = "no" /\ listed' = {} /\ UNCHANGED <<dir, seen>>
      /\ checked' = IF w = "replay" THEN checked ELSE accepted
      /\ launched' = IF w = "launch" /\ accepted THEN plan ELSE launched
      /\ at' = IF w = "launch" /\ accepted THEN seen ELSE at
      /\ replayed' = IF w # "replay" THEN replayed ELSE IF accepted THEN plan ELSE Refused

\* The appliance loads the configuration, and the child checks what it is given.
\* A start resolves everything once more before it executes the engine, and so
\* does the engine for each observation.
Begins(w) ==
  /\ why = "no"
  /\ CASE w = "check"  -> launched = None
       [] w = "launch" -> checked /\ launched = None
       [] w = "replay" -> launched # None
  /\ IF (w = "check" => Loads(config)) /\ Selected(Document(w), Verifies(w))
     THEN /\ why' = w /\ dir' = None /\ listed' = {} /\ seen' = <<>>
          /\ replayed' = None /\ checked' = (w # "check" /\ checked)
          /\ UNCHANGED <<launched, at>>
     ELSE Ends(w, FALSE)
  /\ UNCHANGED <<fixed, tree, free, stale, changes>>

\* The next directory is opened (_closure).
Opens ==
  /\ why # "no" /\ listed = {}
  /\ \E r \in DOMAIN tree \ DOMAIN seen :
       /\ dir' = r /\ listed' = Files(tree[r])
       /\ seen' = [q \in DOMAIN seen \cup {r} |-> IF q = r THEN {} ELSE seen[q]]
       /\ stale' = IF why = "launch" THEN {p \in stale : p[1] # r} ELSE stale
  /\ UNCHANGED <<fixed, tree, free, checked, launched, at, replayed, why, changes>>

\* A member is read (_read_member), one that came late too.
Reads ==
  /\ why # "no" /\ dir # None
  /\ \E name \in Files(tree[dir]) \ Files(seen[dir]) :
       /\ seen' = [seen EXCEPT ![dir] = @ \cup Named(tree[dir], name)]
       /\ listed' = listed \ {name}
       /\ stale' = IF why = "launch" THEN stale \ {<<dir, name>>} ELSE stale
  /\ UNCHANGED <<fixed, tree, free, checked, launched, at, replayed, why, dir, changes>>

\* A member that was listed is gone.
Misses ==
  /\ why # "no" /\ \E name \in listed : name \notin Files(tree[dir])
  /\ Ends(why, FALSE)
  /\ UNCHANGED <<fixed, tree, free, stale, changes>>

\* Every directory was read.
Resolves ==
  /\ why # "no" /\ listed = {} /\ DOMAIN seen = DOMAIN tree
  /\ Ends(why, Complete(Document(why), seen, Verifies(why)))
  /\ UNCHANGED <<fixed, tree, free, stale, changes>>

\* The engine allocates its tier.
Allocates ==
  /\ launched # None /\ profile.nvme > 0 /\ free >= profile.nvme * profile.gpus
  /\ free' = free - profile.nvme * profile.gpus
  /\ UNCHANGED <<fixed, tree, checked, launched, at, replayed, walk, stale, changes>>

\* The members that differ.
Differing(t, u) ==
  {p \in UNION {{<<r, name>> : name \in Files(t[r]) \cup Files(u[r])} : r \in DOMAIN t} :
     Named(t[p[1]], p[2]) # Named(u[p[1]], p[2])}

\* Members change.  The walk notices it of one that it is just reading.
Tamper ==
  /\ changes > 0 /\ changes' = changes - 1
  /\ \E t \in Tampered(tree) :
       /\ DOMAIN t = DOMAIN tree /\ tree' = t /\ stale' = stale \cup Differing(tree, t)
       /\ \/ UNCHANGED <<checked, launched, at, replayed, walk>>
          \/ /\ why # "no" /\ \E name \in listed : <<dir, name>> \in Differing(tree, t)
             /\ Ends(why, FALSE)
  /\ UNCHANGED <<fixed, free>>

Next ==
  \/ \E w \in {"check", "launch", "replay"} : Begins(w)
  \/ Opens \/ Reads \/ Misses \/ Resolves \/ Allocates \/ Tamper

Spec == Init /\ [][Next]_vars

-----------------------------------------------------------------------------
(* A configuration that the appliance loads is read by its child as what it *)
(* is: handing it on neither loses nor adds anything that is validated.     *)
HandedOnUnchanged ==
  Loads(config) => Valid(Dumped(config)) /\ Meaning(Dumped(config)) = Meaning(config)

Shape(t) == [root \in DOMAIN t |-> {[file |-> m.file, size |-> m.size] : m \in t[root]}]

(* An observation of a running engine resolves the plan that it was         *)
(* launched with.  It is refused only if a member has changed since the     *)
(* launch read it, and not because the engine uses what was reserved for    *)
(* it; and one that is not refused has read the members that were launched, *)
(* each with the size that it had.                                          *)
ReplayAgrees ==
  /\ replayed = Refused => stale # {}
  /\ replayed \notin {None, Refused} => replayed = launched /\ Shape(seen) = Shape(at)

(* Whatever an engine finds in the directories when it loads, and later, is *)
(* what the configuration names, with its size and digest, and a weight of  *)
(* the model is registered upstream: all but what changed after the launch  *)
(* had read it.  A change after the check is no exception, nor one while    *)
(* the launch was reading other members.                                    *)
EngineReadsWhatIsPinned ==
  launched # None =>
    LET role == Role(config.roles["generation"])
    IN  \A r \in DOMAIN tree : \A m \in tree[r] : <<r, m.file>> \notin stale =>
          /\ \E f \in Artifact(role, r).files :
               f.file = m.file /\ f.size = m.size /\ f.sha = m.sha
          /\ r = "model" /\ m.file \in Safetensors \cup Ggufs =>
               \E e \in Registered(Artifact(role, "model")) :
                 e.file = m.file /\ e.size = m.size /\ e.sha \in {None, m.sha}
=============================================================================
