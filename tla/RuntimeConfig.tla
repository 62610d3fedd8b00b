--------------------------- MODULE RuntimeConfig ----------------------------
(***************************************************************************)
(* The configuration of the appliance (lazarus/appliance/config.py): what  *)
(* of a runtime.yaml is accepted, and the document that the appliance      *)
(* hands to the isolated interpreter of SlimServe, which validates it once *)
(* more.                                                                   *)
(*                                                                         *)
(* What is written is a function from the fields that were given, since    *)
(* some rules ask which fields were given and not what they hold.          *)
(***************************************************************************)
EXTENDS Naturals, Sequences, FiniteSets

CONSTANTS
  Canonical,  \* the device identities that are canonical NVIDIA UUIDs
  Absolute,   \* the paths that are absolute
  None

RoleNames == {"generation", "embedding", "vision", "audio", "rerank"}
SlimServeProfiles == {"metal-arm64", "cuda-x86_64"}
CudaProfiles == {"cuda-x86_64", "cuda-arm64-dgx-spark"}
LongestContext == 1048576

\* RoleConfig's defaults; "enabled" has none.
Defaults == [
  engine |-> "vllm", engine_profile_id |-> None, slimserve |-> None,
  source |-> None, model |-> None, revision |-> None, served_model_name |-> None,
  max_model_len |-> None, max_concurrent_requests |-> 8,
  accelerator_device_ids |-> <<>>, tensor_parallel_size |-> 1]

\* The fields that may be given as null, which is the default of each.
Optional == {"engine_profile_id", "slimserve", "source", "model", "revision",
             "served_model_name", "max_model_len"}

\* A role as it is read: what was given, and the defaults.
Role(given) ==
  [f \in DOMAIN given \cup DOMAIN Defaults |->
     IF f \in DOMAIN given THEN given[f] ELSE Defaults[f]]

\* Only what was given is validated, never a default.
FieldsValid(given) ==
  LET role == Role(given)
      Given(field) == field \in DOMAIN given
  IN  /\ Given("enabled")
      /\ role.max_model_len # None => role.max_model_len >= 1
      /\ role.max_concurrent_requests >= 1
      /\ Given("accelerator_device_ids") => Len(role.accelerator_device_ids) \in 1..4
      /\ role.tensor_parallel_size \in 1..4

-----------------------------------------------------------------------------
\* No two members of an artifact have one name.
ArtifactValid(artifact) ==
  artifact.files # {} /\ \A f, g \in artifact.files : f.file = g.file => f = g

\* No two artifacts have one role.
SealedValid(sealed) ==
  /\ \A a \in sealed.artifacts : ArtifactValid(a)
  /\ \A a, b \in sealed.artifacts : a.role = b.role => a = b
  /\ \E a \in sealed.artifacts : a.role = "model"

EngineContract(role) ==
  IF role.engine # "slimserve" THEN role.slimserve = None
  ELSE /\ role.slimserve # None /\ role.engine_profile_id # None
       /\ SealedValid(role.slimserve)
       /\ role.source = "local" /\ role.model \in Absolute
       /\ role.revision = "immutable"
       /\ role.max_model_len # None /\ role.max_model_len <= LongestContext
       /\ role.max_concurrent_requests <= 256
       /\ role.served_model_name \notin {None, ""}

MissingLoadFields(role) ==
  IF role.enabled
  THEN {f \in {"source", "model", "served_model_name"} : role[f] \in {None, ""}}
  ELSE {}

\* Managed deployments give both identities, and schema 1.3.
ManagedIdentity(runtime) ==
  /\ (runtime.runtime_instance_id = None) <=> (runtime.deployment_id = None)
  /\ runtime.runtime_instance_id # None => runtime.runtime_instance_id # runtime.deployment_id

IsUnique(ids) == Cardinality({ids[i] : i \in DOMAIN ids}) = Len(ids)
IsCanonical(ids) == \A i \in DOMAIN ids : ids[i] \in Canonical

\* Which roles, devices and profile SlimServe may be given (slimserve_placement).
Placed(config, generation) ==
  LET role == Role(generation)
      ids == role.accelerator_device_ids
  IN  /\ role.enabled
      /\ \A name \in DOMAIN config.roles \ {"generation"} : ~config.roles[name].enabled
      /\ IF role.slimserve.variant = "metal"
         THEN /\ config.runtime.profile = "metal-arm64"
              /\ role.tensor_parallel_size = 1 /\ ids = <<>>
         ELSE /\ config.runtime.profile = "cuda-x86_64"
              /\ role.tensor_parallel_size \in {1, 2, 4}
              /\ Len(ids) = role.tensor_parallel_size
              /\ {"accelerator_device_ids", "tensor_parallel_size"} \subseteq DOMAIN generation
              /\ IsUnique(ids) /\ IsCanonical(ids)

\* RuntimeConfig.model_validate.
Valid(config) ==
  LET generation == config.roles["generation"]
  IN  /\ \A name \in DOMAIN config.roles :
           FieldsValid(config.roles[name]) /\ EngineContract(Role(config.roles[name]))
      /\ ManagedIdentity(config.runtime)
      /\ config.schema_version = "1.3" <=> config.runtime.runtime_instance_id # None
      /\ \A name \in DOMAIN config.roles \ {"generation"} :
           DOMAIN config.roles[name] \cap {"engine", "engine_profile_id", "slimserve"} = {}
      /\ Role(generation).engine = "slimserve" => Placed(config, generation)

\* load_config: what is required of a runtime.yaml beyond that.
Loads(config) ==
  LET generation == config.roles["generation"]
      role == Role(generation)
      ids == role.accelerator_device_ids
      placement == {"accelerator_device_ids", "tensor_parallel_size"}
  IN  /\ Valid(config)
      /\ \A name \in DOMAIN config.roles : MissingLoadFields(Role(config.roles[name])) = {}
      /\ \A name \in DOMAIN config.roles \ {"generation"} :
           DOMAIN config.roles[name] \cap placement = {}
      /\ placement \cap DOMAIN generation \in {{}, placement}
      /\ placement \cap DOMAIN generation # {} => config.runtime.profile \in CudaProfiles
      /\ role.tensor_parallel_size \in {1, 2, 4}
      /\ ids # <<>> => /\ Len(ids) = role.tensor_parallel_size
                       /\ IsUnique(ids) /\ IsCanonical(ids)

-----------------------------------------------------------------------------
Without(given, fields) == [f \in DOMAIN given \ fields |-> given[f]]

\* Mutant of Dumped: the fields that were not given are written with the rest.
DumpedWhole(config) ==
  [config EXCEPT !.roles = [name \in DOMAIN config.roles |->
     LET role == Role(config.roles[name])
     IN  Without(role, {f \in DOMAIN role : role[f] = None})]]

\* model_dump(exclude_none, exclude_unset): what the child is given to read.
Dumped(config) ==
  [config EXCEPT !.roles = [name \in DOMAIN config.roles |->
     LET given == config.roles[name]
     IN  Without(given, {f \in DOMAIN given : given[f] = None})]]

\* What the roles amount to, whichever of their fields were given.
Meaning(config) == [name \in DOMAIN config.roles |-> Role(config.roles[name])]
=============================================================================
