---------------------------- MODULE LaunchPlanMC ----------------------------
(* Instances of LaunchPlan for TLC: four sound scenarios, and whatever is   *)
(* got from them by changing what was configured, in up to two fields, what *)
(* the registry resolves, the artifacts, or the machine.  The directories   *)
(* of the sound ones may change, once or twice, at any moment.              *)
EXTENDS LaunchPlan, TLC

F(file, size, sha) == [file |-> file, size |-> size, sha |-> sha]
Metadata == {F(f, 1, "meta") : f \in Required}

\* What the prepared directory of an artifact holds.
Held(artifact) ==
  {[file |-> f.file, size |-> f.size, sha |-> f.sha, context |-> 4096,
    names |-> Files(artifact.files) \cap Safetensors] : f \in artifact.files}

Tree(artifacts) ==
  [root \in {a.role : a \in artifacts} |->
     UNION {Held(a) : a \in {a \in artifacts : a.role = root}}]

A(role, revision, files) ==
  [role |-> role, repository |-> role, revision |-> revision, files |-> files]

Shards == {F("a.safetensors", 2, "A"), F("b.safetensors", 2, "B")}
Whole == A("model", "immutable", Metadata \cup Shards \cup {F("index.json", 1, "meta")})
Quantized == A("model", "immutable", {F("q.gguf", 3, "Q")})
Draft == A("drafter", "pinned", {F("config.json", 1, "meta"), F("a.safetensors", 2, "D")})
DraftFile == A("drafter", "pinned", {F("q.gguf", 2, "D")})

Generation(sealed) == [
  enabled |-> TRUE, engine |-> "slimserve", engine_profile_id |-> "p", slimserve |-> sealed,
  source |-> "local", model |-> "/models/model", revision |-> "immutable",
  served_model_name |-> "alias", max_model_len |-> 1024, max_concurrent_requests |-> 4]

OnDevices(given, ids) ==
  given @@ [accelerator_device_ids |-> ids, tensor_parallel_size |-> Len(ids)]

Managed(p) == [profile |-> p, runtime_instance_id |-> "r", deployment_id |-> "d"]
Embedding == [enabled |-> FALSE, served_model_name |-> "e"]

Configured(p, given) ==
  [schema_version |-> "1.3", runtime |-> Managed(p),
   roles |-> [generation |-> given, embedding |-> Embedding]]

Profile(gpus, format, files) ==
  [gpus |-> gpus, format |-> format, files |-> files, shared |-> {}, assembly |-> None,
   repository |-> "model", revision |-> None, reviewed |-> TRUE, blocked |-> FALSE,
   overrides |-> FALSE, speculative |-> "none", speculator |-> None, min_host_ram |-> 0,
   nvme |-> 0, max_model_len |-> 2048, max_num_seqs |-> 8]

Separately(file) == [repository |-> "drafter", revision |-> "pinned", file |-> file]

Cuda(ids) ==
  [platform |-> "cuda", memory |-> 0, host_ram |-> 4, visible |-> ids,
   devices |-> [i \in DOMAIN ids |-> [uuid |-> ids[i], class |-> "a100"]]]
Metal == [platform |-> "metal", memory |-> 4, host_ram |-> 4, visible |-> <<>>, devices |-> <<>>]

Sealed(variant, artifacts) == [variant |-> variant, artifacts |-> artifacts]

Scenario(c, p, m) ==
  [config |-> c, profile |-> p, machine |-> m, free |-> 4, changes |-> 0,
   tree |-> Tree(Role(c.roles["generation"]).slimserve.artifacts)]

Tokens == A("tokenizer", "immutable", Metadata)

\* A sharded checkpoint that drafts for itself, on one device.
Sharded == Scenario(
  Configured("cuda-x86_64", OnDevices(Generation(Sealed("a100", {Whole})), <<"u1">>)),
  [Profile(1, "safetensors", Shards \cup {F("README.md", 1, "r")}) EXCEPT
     !.speculative = "mtp", !.speculator = Separately(None), !.max_model_len = None],
  Cuda(<<"u1">>))

\* A quantized model with a drafter's file and an NVMe tier, on two.
Tiered == Scenario(
  Configured("cuda-x86_64",
    OnDevices(Generation(Sealed("a100", {Quantized, Tokens, DraftFile})), <<"u1", "u2">>)),
  [Profile(2, "gguf", {F("q.gguf", 3, None)}) EXCEPT
     !.speculative = "separate", !.speculator = Separately(F("q.gguf", 2, "D")),
     !.nvme = 2, !.min_host_ram = 2],
  Cuda(<<"u1", "u2">>))

\* An assembled model and a drafter's checkpoint, on Metal.
Assembled == Scenario(
  Configured("metal-arm64", Generation(Sealed("metal", {Quantized, Tokens, Draft}))),
  [Profile(1, "gguf", {F("q.gguf.part-01-of-02", 1, "P")}) EXCEPT
     !.assembly = F("q.gguf", 3, "Q"), !.speculative = "separate",
     !.speculator = Separately(None)],
  Metal)

\* The other engine, with an embedding role and no placement.
Other == [Sharded EXCEPT !.config = [
  schema_version |-> "1.2",
  runtime |-> [profile |-> "cuda-arm64-dgx-spark", runtime_instance_id |-> None, deployment_id |-> None],
  roles |-> [generation |-> [enabled |-> TRUE, source |-> "local", model |-> "/models/model",
                             served_model_name |-> "alias"],
             embedding |-> [enabled |-> TRUE, source |-> "local", model |-> "/models/model",
                            served_model_name |-> "e"]]]]

Sound == {Sharded, Tiered, Assembled, Other}

-----------------------------------------------------------------------------
\* What each field of a role may be given instead.
Alternatives == [
  enabled |-> {TRUE, FALSE}, engine |-> {"vllm", "slimserve"}, engine_profile_id |-> {None},
  slimserve |-> {None}, source |-> {"huggingface", None}, model |-> {"", "model", "/models/other", None},
  revision |-> {"main", None}, served_model_name |-> {"", None},
  max_model_len |-> {0, 4096, LongestContext + 1, None}, max_concurrent_requests |-> {0, 9, 257},
  accelerator_device_ids |-> {<<>>, <<"u1">>, <<"u1", "u1">>, <<"u2", "u1">>, <<"cuda:0">>},
  tensor_parallel_size |-> {1, 2, 3, 5}]

Give(given, f, v) == [g \in DOMAIN given \cup {f} |-> IF g = f THEN v ELSE given[g]]

VariedRole(given) ==
  {given} \cup {Without(given, {f}) : f \in DOMAIN given}
    \cup UNION {{Give(given, f, v) : v \in Alternatives[f]} : f \in DOMAIN Alternatives}

\* The generation role in two fields, the embedding role in one.
VariedRoles(roles) ==
  UNION {{[roles EXCEPT !["generation"] = g] : g \in VariedRole(given)}
           : given \in VariedRole(roles["generation"])}
    \cup {[roles EXCEPT !["embedding"] = e] : e \in VariedRole(roles["embedding"])}

VariedRuntime(runtime) ==
  {[runtime EXCEPT !.profile = p] : p \in {"cpu-x86_64"} \cup CudaProfiles \cup SlimServeProfiles}
    \cup {[runtime EXCEPT !.runtime_instance_id = i] : i \in {"d", None}}
    \cup {[runtime EXCEPT !.runtime_instance_id = None, !.deployment_id = None]}

VariedConfigs(s) ==
  {[s EXCEPT !.config.roles = r] : r \in VariedRoles(s.config.roles)}
    \cup {[s EXCEPT !.config.runtime = r] : r \in VariedRuntime(s.config.runtime)}
    \cup {[s EXCEPT !.config.schema_version = v] : v \in {"1.2", "1.3"}}

VariedProfile(p) ==
  {[p EXCEPT !.gpus = 4], [p EXCEPT !.reviewed = FALSE], [p EXCEPT !.blocked = TRUE],
   [p EXCEPT !.revision = "other"], [p EXCEPT !.nvme = 3], [p EXCEPT !.min_host_ram = 5],
   [p EXCEPT !.files = {}], [p EXCEPT !.overrides = TRUE], [p EXCEPT !.assembly = F("q.gguf", 3, None)],
   [p EXCEPT !.shared = {F("index.json", 1, None)}], [p EXCEPT !.shared = Shards]}
    \cup {[p EXCEPT !.format = f] : f \in {"safetensors", "gguf"}}
    \cup {[p EXCEPT !.speculative = f] : f \in {"none", "mtp"}}
    \cup {[p EXCEPT !.files = {[e EXCEPT !.sha = d] : e \in p.files}] : d \in {None, "other"}}

VariedMachine(m) ==
  {[m EXCEPT !.host_ram = 1], [m EXCEPT !.memory = 0], [m EXCEPT !.visible = <<"u2">>],
   [m EXCEPT !.devices = [i \in DOMAIN @ |-> [uuid |-> "u1", class |-> "rtx3090"]]]}

\* An artifact with a member less, or another one more, and the directories
\* prepared for it.
VariedArtifacts(s) ==
  LET role == Role(s.config.roles["generation"])
      Changed(a) ==
        {[a EXCEPT !.files = @ \ {f}] : f \in a.files}
          \cup {[a EXCEPT !.files = @ \cup {f}] : f \in
                 {F("index.json", 1, "meta"), F("b.safetensors", 2, "X"), F("run.py", 1, "X")}}
          \cup {[a EXCEPT !.revision = "other"], [a EXCEPT !.role = "tokenizer"]}
      all == role.slimserve.artifacts
      sets == UNION {{(all \ {a}) \cup {b} : b \in Changed(a)} : a \in all}
                \cup {all \ {a} : a \in all} \cup {all \cup {Tokens}}
  IN  IF role.slimserve = None THEN {}
      ELSE {[s EXCEPT !.config.roles["generation"].slimserve.artifacts = as,
                      !.tree = Tree(as)] : as \in sets}

\* The directories change while a sound scenario is resolved, twice where they
\* hold few members.
Changing ==
  {[Sharded EXCEPT !.changes = 1]} \cup {[s EXCEPT !.changes = 2] : s \in {Tiered, Assembled}}

ManyScenarios ==
  Changing \cup UNION {VariedConfigs(s) \cup VariedArtifacts(s) : s \in Sound}
    \cup UNION {{[s EXCEPT !.profile = p] : p \in VariedProfile(s.profile)} : s \in Sound}
    \cup UNION {{[s EXCEPT !.machine = m] : m \in VariedMachine(s.machine)} : s \in Sound}

\* A directory with a member gone, changed or added.
OneChange(t) ==
  UNION {{[t EXCEPT ![root] = ms] : ms \in
            {t[root] \ {m} : m \in t[root]}
              \cup {(t[root] \ {m}) \cup {[m EXCEPT !.sha = "other"]} : m \in t[root]}
              \cup {(t[root] \ {m}) \cup {[m EXCEPT !.size = 9]} : m \in t[root]}
              \cup {(t[root] \ {m}) \cup {[m EXCEPT !.names = {}, !.context = 1]} : m \in t[root]}
              \cup {t[root] \cup {[file |-> f, size |-> 1, sha |-> "other", names |-> {}, context |-> 1]}
                      : f \in {"b.safetensors", "run.py"} \ Files(t[root])}} : root \in DOMAIN t}
=============================================================================
