-------------------------- MODULE LaunchPlanProofs --------------------------
(***************************************************************************)
(* Proofs about the launch plan of SlimServe, for every set of             *)
(* configurations, profiles, directories and machines, and whatever        *)
(* becomes of the directories:                                             *)
(*                                                                         *)
(*   - what the appliance hands to the isolated interpreter is read there  *)
(*     as what it was (HandedOnUnchanged);                                 *)
(*   - what an engine finds when it loads is pinned, all but what changed  *)
(*     after the launch had read it (EngineReadsWhatIsPinned);             *)
(*   - an observation resolves the plan of the launch, or a member has     *)
(*     changed since the launch read it (ReplayAgrees).                    *)
(*                                                                         *)
(* The proofs rest on the lemmas about a document and its dump: a field    *)
(* that is null reads as its default, so that a dump leaves every role     *)
(* what it was (DumpKeepsRoles), and to dump a document once more changes  *)
(* nothing (DumpedOnce).  The directories are walked while they change:    *)
(* what was read of a member is what is there, unless the member changed   *)
(* since the launch read it, so that an engine and an observation find the *)
(* same (WalkInv, LaunchInv).                                              *)
(***************************************************************************)
EXTENDS LaunchPlan, TLAPS

-----------------------------------------------------------------------------
(* A document as it is read (ScenariosAreRead, of one of them).             *)
Read(c) ==
  /\ DOMAIN c = {"schema_version", "runtime", "roles"}
  /\ "generation" \in DOMAIN c.roles
  /\ \A name \in DOMAIN c.roles : \A f \in DOMAIN c.roles[name] :
       c.roles[name][f] = None => f \in Optional

Kept(given) == Without(given, {f \in DOMAIN given : given[f] = None})

NullsAreOptional(given) == \A f \in DOMAIN given : given[f] = None => f \in Optional

(* The default of each field that may be null is null.                      *)
LEMMA OptionalDefaults ==
  ASSUME NEW f \in Optional
  PROVE  f \in DOMAIN Defaults /\ Defaults[f] = None
BY DEF Optional, Defaults

(* What is kept of a role: the fields that are not null, as they were.      *)
LEMMA KeptFields ==
  ASSUME NEW given
  PROVE  /\ DOMAIN Kept(given) = {f \in DOMAIN given : given[f] # None}
         /\ \A f \in DOMAIN Kept(given) : Kept(given)[f] = given[f]
BY DEF Kept, Without

(* A role reads the same without the fields that are null in it.            *)
LEMMA KeptReadsTheSame ==
  ASSUME NEW given, NullsAreOptional(given)
  PROVE  Role(Kept(given)) = Role(given)
<1> DEFINE k == Kept(given)
<1>1. /\ DOMAIN k = {f \in DOMAIN given : given[f] # None}
      /\ \A f \in DOMAIN k : k[f] = given[f]
  BY KeptFields
<1>2. \A f \in DOMAIN given \ DOMAIN k :
        given[f] = None /\ f \in DOMAIN Defaults /\ Defaults[f] = None
  BY <1>1, OptionalDefaults DEF NullsAreOptional
<1> HIDE DEF k
<1>3. DOMAIN k \cup DOMAIN Defaults = DOMAIN given \cup DOMAIN Defaults
  BY <1>1, <1>2
<1>4. ASSUME NEW f \in DOMAIN given \cup DOMAIN Defaults
      PROVE  (IF f \in DOMAIN k THEN k[f] ELSE Defaults[f])
               = (IF f \in DOMAIN given THEN given[f] ELSE Defaults[f])
  BY <1>1, <1>2
<1>5. Role(k) = Role(given)
  BY <1>3, <1>4 DEF Role
<1> QED
  BY <1>5 DEF k

(* What a dump consists of.                                                 *)
LEMMA DumpedFields ==
  ASSUME NEW c, Read(c)
  PROVE  /\ Dumped(c) = [section \in DOMAIN c |->
                           IF section = "roles"
                           THEN [name \in DOMAIN c.roles |-> Kept(c.roles[name])]
                           ELSE c[section]]
         /\ Dumped(c).schema_version = c.schema_version
         /\ Dumped(c).runtime = c.runtime
         /\ Dumped(c).roles = [name \in DOMAIN c.roles |-> Kept(c.roles[name])]
BY DEF Dumped, Kept, Read

LEMMA DumpedIsRead ==
  ASSUME NEW c, Read(c)
  PROVE  Read(Dumped(c))
<1>1. DOMAIN Dumped(c) = DOMAIN c
  BY DumpedFields
<1>2. Dumped(c).roles = [name \in DOMAIN c.roles |-> Kept(c.roles[name])]
  BY DumpedFields
<1>3. ASSUME NEW name \in DOMAIN c.roles, NEW f \in DOMAIN Kept(c.roles[name]),
             Kept(c.roles[name])[f] = None
      PROVE  f \in Optional
  BY <1>3, KeptFields
<1> QED
  BY <1>1, <1>2, <1>3 DEF Read

(* A dump leaves every role what it was.                                    *)
LEMMA DumpKeepsRoles ==
  ASSUME NEW c, Read(c)
  PROVE  /\ DOMAIN Dumped(c).roles = DOMAIN c.roles
         /\ \A name \in DOMAIN c.roles :
              /\ Dumped(c).roles[name] = Kept(c.roles[name])
              /\ Role(Dumped(c).roles[name]) = Role(c.roles[name])
<1>1. Dumped(c).roles = [name \in DOMAIN c.roles |-> Kept(c.roles[name])]
  BY DumpedFields
<1>2. ASSUME NEW name \in DOMAIN c.roles
      PROVE  Role(Kept(c.roles[name])) = Role(c.roles[name])
  <2>1. NullsAreOptional(c.roles[name])
    BY DEF Read, NullsAreOptional
  <2> QED
    BY <2>1, KeptReadsTheSame
<1> QED
  BY <1>1, <1>2

(* To dump a document once more changes nothing: none of its fields is null.*)
LEMMA DumpedOnce ==
  ASSUME NEW c, Read(c)
  PROVE  Dumped(Dumped(c)) = Dumped(c)
<1> DEFINE d == Dumped(c)
<1>1. Read(d)
  BY DumpedIsRead
<1>2. /\ d = [section \in DOMAIN d |-> d[section]]
      /\ d.roles = [name \in DOMAIN c.roles |-> Kept(c.roles[name])]
  BY DumpedFields
<1>3. ASSUME NEW given
      PROVE  Kept(Kept(given)) = Kept(given)
  <2>1. {f \in DOMAIN Kept(given) : Kept(given)[f] = None} = {}
    BY KeptFields
  <2>2. Kept(Kept(given)) = [f \in DOMAIN Kept(given) |-> Kept(given)[f]]
    BY <2>1 DEF Kept, Without
  <2>3. Kept(given) = [f \in DOMAIN Kept(given) |-> Kept(given)[f]]
    BY DEF Kept, Without
  <2> QED
    BY <2>2, <2>3
<1> HIDE DEF d
<1>4. /\ Dumped(d) = [section \in DOMAIN d |->
                        IF section = "roles"
                        THEN [name \in DOMAIN d.roles |-> Kept(d.roles[name])]
                        ELSE d[section]]
  BY <1>1, DumpedFields
<1>5. [name \in DOMAIN d.roles |-> Kept(d.roles[name])] = d.roles
  BY <1>2, <1>3
<1>6. \A section \in DOMAIN d :
        (IF section = "roles" THEN d.roles ELSE d[section]) = d[section]
  OBVIOUS
<1>7. Dumped(d) = [section \in DOMAIN d |-> d[section]]
  BY <1>4, <1>5, <1>6
<1>8. Dumped(d) = d
  BY <1>2, <1>7
<1> QED
  BY <1>8 DEF d

-----------------------------------------------------------------------------
(* What is validated of a role is validated of its dump.                    *)
LEMMA KeptIsValid ==
  ASSUME NEW given, NullsAreOptional(given), FieldsValid(given)
  PROVE  FieldsValid(Kept(given))
<1>1. Role(Kept(given)) = Role(given)
  BY KeptReadsTheSame
<1>2. DOMAIN Kept(given) = {f \in DOMAIN given : given[f] # None}
  BY KeptFields
<1>3. "enabled" \in DOMAIN given /\ given["enabled"] # None
  BY DEF FieldsValid, NullsAreOptional, Optional
<1> QED
  BY <1>1, <1>2, <1>3 DEF FieldsValid

(* The child accepts every document that the appliance accepts.             *)
LEMMA DumpedIsValid ==
  ASSUME NEW c, Read(c), Valid(c)
  PROVE  Valid(Dumped(c))
<1> DEFINE d == Dumped(c)
<1>1. /\ d.schema_version = c.schema_version
      /\ d.runtime = c.runtime
  BY DumpedFields
<1>2. /\ DOMAIN d.roles = DOMAIN c.roles
      /\ \A name \in DOMAIN c.roles :
           /\ d.roles[name] = Kept(c.roles[name])
           /\ Role(d.roles[name]) = Role(c.roles[name])
  BY DumpKeepsRoles
<1> HIDE DEF d
<1>3. ASSUME NEW name \in DOMAIN c.roles
      PROVE  FieldsValid(d.roles[name]) /\ EngineContract(Role(d.roles[name]))
  <2>1. NullsAreOptional(c.roles[name])
    BY DEF Read, NullsAreOptional
  <2>2. FieldsValid(c.roles[name]) /\ EngineContract(Role(c.roles[name]))
    BY DEF Valid
  <2>3. FieldsValid(Kept(c.roles[name]))
    BY <2>1, <2>2, KeptIsValid
  <2> QED
    BY <1>2, <2>2, <2>3
<1>4. ASSUME NEW name \in DOMAIN c.roles
      PROVE  /\ DOMAIN d.roles[name] \subseteq DOMAIN c.roles[name]
             /\ \A f \in DOMAIN c.roles[name] : f \notin Optional =>
                  f \in DOMAIN d.roles[name] /\ d.roles[name][f] = c.roles[name][f]
  <2>1. NullsAreOptional(c.roles[name])
    BY DEF Read, NullsAreOptional
  <2> QED
    BY <1>2, <2>1, KeptFields DEF NullsAreOptional
<1>5. "generation" \in DOMAIN c.roles
  BY DEF Read
<1>6. ASSUME NEW name \in DOMAIN c.roles
      PROVE  /\ "enabled" \in DOMAIN c.roles[name]
             /\ d.roles[name].enabled = c.roles[name].enabled
  <2>1. "enabled" \in DOMAIN c.roles[name]
    BY DEF Valid, FieldsValid
  <2>2. "enabled" \notin Optional
    BY DEF Optional
  <2> QED
    BY <1>4, <2>1, <2>2
<1>7. ASSUME Role(d.roles["generation"]).engine = "slimserve"
      PROVE  Placed(d, d.roles["generation"])
  <2> DEFINE placement == {"accelerator_device_ids", "tensor_parallel_size"}
  <2>1. Placed(c, c.roles["generation"])
    BY <1>2, <1>5, <1>7 DEF Valid
  <2>2. \A f \in placement : f \notin Optional
    BY DEF Optional
  <2>3. placement \subseteq DOMAIN c.roles["generation"]
          => placement \subseteq DOMAIN d.roles["generation"]
    BY <1>4, <1>5, <2>2
  <2>4. \A name \in DOMAIN d.roles \ {"generation"} :
          ~c.roles[name].enabled => ~d.roles[name].enabled
    BY <1>2, <1>6
  <2>5. Role(d.roles["generation"]) = Role(c.roles["generation"])
    BY <1>2, <1>5
  <2> QED
    BY <1>1, <1>2, <2>1, <2>3, <2>4, <2>5 DEF Placed
<1>8. ASSUME NEW name \in DOMAIN d.roles \ {"generation"}
      PROVE  DOMAIN d.roles[name] \cap {"engine", "engine_profile_id", "slimserve"} = {}
  BY <1>2, <1>4 DEF Valid
<1>9. ManagedIdentity(d.runtime) /\ (d.schema_version = "1.3" <=> d.runtime.runtime_instance_id # None)
  BY <1>1 DEF Valid
<1>10. Valid(d)
  BY <1>2, <1>3, <1>7, <1>8, <1>9 DEF Valid
<1> QED
  BY <1>10 DEF d

(* A dump means what the document means.                                    *)
LEMMA DumpedMeansTheSame ==
  ASSUME NEW c, Read(c)
  PROVE  Meaning(Dumped(c)) = Meaning(c)
BY DumpKeepsRoles DEF Meaning

-----------------------------------------------------------------------------
(* What is selected, or complete, with digests is so without them, and      *)
(* whatever space the tier has left.                                        *)
LEMMA WithoutDigests ==
  ASSUME NEW c
  PROVE  /\ Selected(c, TRUE) => Selected(c, FALSE)
         /\ \A t : Complete(c, t, TRUE) => Complete(c, t, FALSE)
<1> DEFINE role == Role(c.roles["generation"])
<1>1. Capacity(TRUE) => Capacity(FALSE)
  BY DEF Capacity
<1>2. Selected(c, TRUE) => Selected(c, FALSE)
  BY <1>1 DEF Selected
<1>3. ASSUME NEW t, NEW a \in role.slimserve.artifacts, Closure(a, t[a.role], TRUE)
      PROVE  Closure(a, t[a.role], FALSE)
  BY <1>3 DEF Closure
<1>4. ASSUME NEW t, Complete(c, t, TRUE)
      PROVE  Complete(c, t, FALSE)
  BY <1>3, <1>4 DEF Complete
<1> QED
  BY <1>2, <1>4

(* A directory with the closure of an artifact has its members, no others,  *)
(* each of its size.                                                        *)
LEMMA ClosureHasTheShape ==
  ASSUME NEW artifact, NEW members, Closure(artifact, members, FALSE)
  PROVE  {[file |-> m.file, size |-> m.size] : m \in members}
           = {[file |-> f.file, size |-> f.size] : f \in artifact.files}
<1>1. Files(members) = Files(artifact.files)
  BY DEF Closure
<1>2. \A m \in members, f \in artifact.files : m.file = f.file => m.size = f.size
  BY DEF Closure
<1>3. ASSUME NEW m \in members
      PROVE  \E f \in artifact.files :
               [file |-> m.file, size |-> m.size] = [file |-> f.file, size |-> f.size]
  BY <1>1, <1>2 DEF Files
<1>4. ASSUME NEW f \in artifact.files
      PROVE  \E m \in members :
               [file |-> f.file, size |-> f.size] = [file |-> m.file, size |-> m.size]
  BY <1>1, <1>2 DEF Files
<1> QED
  BY <1>3, <1>4

Roots(c) == {a.role : a \in Role(c.roles["generation"]).slimserve.artifacts}

(* Two trees that are complete for one document are of one shape.           *)
LEMMA CompleteShape ==
  ASSUME NEW c, NEW t, NEW u, Complete(c, t, FALSE), Complete(c, u, FALSE),
         DOMAIN t = Roots(c), DOMAIN u = Roots(c)
  PROVE  Shape(t) = Shape(u)
<1> DEFINE artifacts == Role(c.roles["generation"]).slimserve.artifacts
<1>1. \A a \in artifacts : Closure(a, t[a.role], FALSE) /\ Closure(a, u[a.role], FALSE)
  BY DEF Complete
<1>2. ASSUME NEW root \in DOMAIN t
      PROVE  {[file |-> m.file, size |-> m.size] : m \in t[root]}
               = {[file |-> m.file, size |-> m.size] : m \in u[root]}
  <2>1. PICK a \in artifacts : a.role = root
    BY DEF Roots
  <2>2. Closure(a, t[root], FALSE) /\ Closure(a, u[root], FALSE)
    BY <1>1, <2>1
  <2> QED
    BY <2>2, ClosureHasTheShape
<1> QED
  BY <1>2 DEF Shape

(* A tree with the members of one that is complete is complete.             *)
LEMMA SameMembers ==
  ASSUME NEW c, NEW t, NEW u, Complete(c, t, FALSE),
         \A root \in Roots(c) : t[root] = u[root]
  PROVE  Complete(c, u, FALSE)
<1> DEFINE artifacts == Role(c.roles["generation"]).slimserve.artifacts
<1>1. \A a \in artifacts : Closure(a, u[a.role], FALSE)
  BY DEF Complete, Roots
<1>2. Ceiling(u) = Ceiling(t)
  <2>1. Roots(c) = Used
    BY DEF Complete, Roots
  <2>2. t[IF IsCheckpoint THEN "model" ELSE "tokenizer"]
          = u[IF IsCheckpoint THEN "model" ELSE "tokenizer"]
    BY <2>1 DEF Used
  <2> QED
    BY <2>2 DEF Ceiling
<1> QED
  BY <1>1, <1>2 DEF Complete

(* A member of an artifact's closure, and a registered weight of the model. *)
PinnedMember(c, r, m) ==
  LET role == Role(c.roles["generation"])
  IN  /\ \E f \in Artifact(role, r).files :
           f.file = m.file /\ f.size = m.size /\ f.sha = m.sha
      /\ r = "model" /\ m.file \in Safetensors \cup Ggufs =>
           \E e \in Registered(Artifact(role, "model")) :
             e.file = m.file /\ e.size = m.size /\ e.sha \in {None, m.sha}

Pinned(c, t) == \A r \in DOMAIN t : \A m \in t[r] : PinnedMember(c, r, m)

(* The members of a tree that is complete with digests are all pinned.      *)
LEMMA CompleteIsPinned ==
  ASSUME NEW c, NEW t, Complete(c, t, TRUE), DOMAIN t = Roots(c)
  PROVE  Pinned(c, t)
<1> DEFINE role == Role(c.roles["generation"])
<1> SUFFICES ASSUME NEW root \in DOMAIN t, NEW m \in t[root]
             PROVE  /\ \E f \in Artifact(role, root).files :
                         f.file = m.file /\ f.size = m.size /\ f.sha = m.sha
                    /\ root = "model" /\ m.file \in Safetensors \cup Ggufs =>
                         \E e \in Registered(Artifact(role, "model")) :
                           e.file = m.file /\ e.size = m.size /\ e.sha \in {None, m.sha}
  BY DEF Pinned, PinnedMember
<1>1. /\ DOMAIN t = {a.role : a \in role.slimserve.artifacts}
      /\ \A a \in role.slimserve.artifacts : Closure(a, t[a.role], TRUE)
  BY DEF Complete, Roots
<1> DEFINE artifact == Artifact(role, root)
<1>2. artifact \in role.slimserve.artifacts /\ artifact.role = root
  BY <1>1 DEF Artifact
<1>3. Closure(artifact, t[root], TRUE)
  BY <1>1, <1>2
<1> HIDE DEF artifact
<1>4. \A f \in artifact.files : m.file = f.file => m.size = f.size /\ m.sha = f.sha
  BY <1>3 DEF Closure
<1>5. m.file \in Files(artifact.files)
  BY <1>3 DEF Closure, Files
<1>6. \E f \in artifact.files : f.file = m.file /\ f.size = m.size /\ f.sha = m.sha
  BY <1>4, <1>5 DEF Files
<1>7. ASSUME root = "model", m.file \in Safetensors \cup Ggufs
      PROVE  \E e \in Registered(artifact) :
               e.file = m.file /\ e.size = m.size /\ e.sha \in {None, m.sha}
  <2>1. ModelMembers(artifact)
    BY <1>7 DEF Complete, artifact
  <2>2. m.file \notin Support
    BY <1>7 DEF Safetensors, Ggufs, Support
  <2>3. m.file \in Files(Registered(artifact))
    BY <1>5, <2>1, <2>2 DEF ModelMembers
  <2>4. PICK e \in Registered(artifact) : e.file = m.file
    BY <2>3 DEF Files
  <2>5. PICK f \in artifact.files : f.file = e.file /\ f.size = e.size /\ e.sha \in {None, f.sha}
    BY <2>1 DEF ModelMembers, Match
  <2>6. m.size = f.size /\ m.sha = f.sha
    BY <1>4, <2>4, <2>5
  <2> QED
    BY <2>4, <2>5, <2>6
<1> QED
  BY <1>6, <1>7 DEF artifact

(* A plan is none of what an observation resolves when it is refused.       *)
LEMMA PlansAreNotRefusals ==
  ASSUME NEW s \in Scenarios
  PROVE  Plan(Dumped(s.config)) # Refused
<1>1. Plan(Dumped(s.config)) \in PlansOf(Dumped(s.config))
  BY DEF Plan, PlansOf
<1> QED
  BY <1>1, RefusedAssumption

-----------------------------------------------------------------------------
-----------------------------------------------------------------------------
(* The members of a name are all there is to know of a directory.           *)
LEMMA SameNames ==
  ASSUME NEW X, NEW Y, \A name : Named(X, name) = Named(Y, name)
  PROVE  X = Y
<1>1. ASSUME NEW m \in X
      PROVE  m \in Y
  BY DEF Named
<1>2. ASSUME NEW m \in Y
      PROVE  m \in X
  BY DEF Named
<1> QED
  BY <1>1, <1>2

(* A name that is not found names nothing.                                  *)
LEMMA NamesNothing ==
  ASSUME NEW X, NEW name, name \notin Files(X)
  PROVE  Named(X, name) = {}
BY DEF Files, Named

(* What does not differ is the same.                                        *)
LEMMA DifferingNamed ==
  ASSUME NEW t, NEW u, NEW r \in DOMAIN t, NEW name, <<r, name>> \notin Differing(t, u)
  PROVE  Named(t[r], name) = Named(u[r], name)
<1>1. CASE name \in Files(t[r]) \cup Files(u[r])
  <2>1. <<r, name>> \in UNION {{<<q, n>> : n \in Files(t[q]) \cup Files(u[q])} : q \in DOMAIN t}
    BY <1>1
  <2> QED
    BY <2>1 DEF Differing
<1>2. CASE name \notin Files(t[r]) \cup Files(u[r])
  BY <1>2, NamesNothing
<1> QED
  BY <1>1, <1>2

-----------------------------------------------------------------------------
(* The inductive invariant: the configuration is one of the scenarios'; of  *)
(* each directory that was opened, every name that is not listed any more   *)
(* names what was read, unless it changed since the launch read it; an      *)
(* engine has the plan of what was handed on, which was complete as it was  *)
(* read and pinned, and its directories are the same but for what changed   *)
(* since; and an observation is refused only after such a change.           *)
ConfigInv == \E s \in Scenarios : config = s.config

Fresh(t, r, name) ==
  <<r, name>> \in stale \/ Named(t[r], name) = Named(tree[r], name)

WalkInv ==
  /\ why \in {"no", "check", "launch", "replay"}
  /\ why = "no" => listed = {}
  /\ why # "no" =>
       /\ Selected(Dumped(config), FALSE) /\ replayed = None
       /\ (why = "replay" <=> launched # None)
       /\ DOMAIN seen \subseteq DOMAIN tree
       /\ dir # None \/ listed # {} => dir \in DOMAIN seen
       /\ \A name \in listed : <<dir, name>> \in stale \/ name \in Files(tree[dir])
       /\ \A r \in DOMAIN seen : \A name :
            (r = dir /\ name \in listed) \/ Fresh(seen, r, name)

LaunchInv ==
  launched # None =>
    /\ launched = Plan(Dumped(config))
    /\ Selected(Dumped(config), FALSE) /\ Complete(Dumped(config), at, FALSE)
    /\ DOMAIN at = DOMAIN tree /\ Pinned(Dumped(config), at)
    /\ \A r \in DOMAIN tree : \A name : Fresh(at, r, name)

ReplayInv ==
  /\ launched = None => replayed = None
  /\ replayed = Refused => stale # {}
  /\ replayed \notin {None, Refused} =>
       /\ why = "no" /\ replayed = Plan(Dumped(config)) /\ DOMAIN seen = DOMAIN tree
       /\ Complete(Dumped(config), seen, FALSE)

IInv == ConfigInv /\ WalkInv /\ LaunchInv /\ ReplayInv

LEMMA ConfigIsRead == ConfigInv => Read(config)
BY ScenariosAssumption DEF ConfigInv, ScenariosAreRead, Read

THEOREM InitEstablishes == Init => IInv
BY RefusedAssumption DEF Init, IInv, ConfigInv, WalkInv, LaunchInv, ReplayInv

(* What is resolved is what was handed on, by an observation too.           *)
LEMMA DocumentIsDumped ==
  ASSUME ConfigInv, NEW w
  PROVE  Document(w) = Dumped(config)
BY ConfigIsRead, DumpedOnce DEF Document

(* Whatever is resolved is so without digests.                              *)
LEMMA ResolvedWithoutDigests ==
  ASSUME NEW c, NEW w
  PROVE  /\ Selected(c, Verifies(w)) => Selected(c, FALSE)
         /\ \A t : Complete(c, t, Verifies(w)) => Complete(c, t, FALSE)
<1>1. CASE w = "replay"
  BY <1>1, Verifies(w) = FALSE DEF Verifies
<1>2. CASE w # "replay"
  BY <1>2, Verifies(w) = TRUE, WithoutDigests DEF Verifies
<1> QED
  BY <1>1, <1>2

-----------------------------------------------------------------------------
(* What is the same for as long as the scenario is, and the directories are *)
(* those of the same roles.                                                 *)
LEMMA StillSelected ==
  ASSUME UNCHANGED fixed, DOMAIN tree' = DOMAIN tree
  PROVE  /\ Selected(Dumped(config), FALSE)' <=> Selected(Dumped(config), FALSE)
         /\ Plan(Dumped(config))' = Plan(Dumped(config))
         /\ ConfigInv' <=> ConfigInv
<1>1. Capacity(FALSE)' <=> Capacity(FALSE)
  BY DEF Capacity, fixed
<1>2. Selected(Dumped(config), FALSE)' <=> Selected(Dumped(config), FALSE)
  BY <1>1 DEF Selected, Hardware, Settings, ModelFrom, fixed
<1>3. Plan(Dumped(config))' = Plan(Dumped(config))
  BY DEF Plan, IsCheckpoint, fixed
<1> QED
  BY <1>2, <1>3 DEF ConfigInv, fixed

LEMMA StillComplete ==
  ASSUME UNCHANGED fixed, UNCHANGED at
  PROVE  /\ Complete(Dumped(config), at, FALSE)' <=> Complete(Dumped(config), at, FALSE)
         /\ Pinned(Dumped(config), at)' <=> Pinned(Dumped(config), at)
<1>1. Complete(Dumped(config), at, FALSE)' <=> Complete(Dumped(config), at, FALSE)
  BY DEF Complete, Registered, ModelMembers, IsCheckpoint, Tokenizer, Drafter, Used, Ceiling, fixed
<1>2. Pinned(Dumped(config), at)' <=> Pinned(Dumped(config), at)
  BY DEF Pinned, PinnedMember, Registered, fixed
<1> QED
  BY <1>1, <1>2

LEMMA StillSeen ==
  ASSUME UNCHANGED fixed, UNCHANGED seen
  PROVE  Complete(Dumped(config), seen, FALSE)' <=> Complete(Dumped(config), seen, FALSE)
BY DEF Complete, Registered, ModelMembers, IsCheckpoint, Tokenizer, Drafter, Used, Ceiling, fixed

(* The launch is remembered as it was.                                      *)
LEMMA StillLaunched ==
  ASSUME LaunchInv, UNCHANGED fixed, UNCHANGED <<launched, at>>, DOMAIN tree' = DOMAIN tree,
         launched # None => (\A r \in DOMAIN tree : \A name : Fresh(at, r, name))'
  PROVE  LaunchInv'
BY StillSelected, StillComplete DEF LaunchInv

(* A resolution that is refused changes what is remembered only of itself.  *)
LEMMA RefusalPreserves ==
  ASSUME IInv, NEW w \in {"check", "launch", "replay"}, Ends(w, FALSE), UNCHANGED fixed,
         DOMAIN tree' = DOMAIN tree, w = "replay" <=> launched # None,
         w = "replay" => stale' # {},
         launched # None => (\A r \in DOMAIN tree : \A name : Fresh(at, r, name))'
  PROVE  IInv'
<1>1. /\ why' = "no" /\ listed' = {} /\ UNCHANGED <<dir, seen, launched, at>>
      /\ replayed' = IF w # "replay" THEN replayed ELSE Refused
  BY DEF Ends
<1>2. ConfigInv'
  BY StillSelected DEF IInv
<1>3. WalkInv'
  BY <1>1 DEF WalkInv
<1>4. LaunchInv'
  BY <1>1, StillLaunched DEF IInv
<1>5. ReplayInv'
  BY <1>1, RefusedAssumption DEF IInv, ReplayInv
<1> QED
  BY <1>2, <1>3, <1>4, <1>5 DEF IInv

-----------------------------------------------------------------------------
LEMMA BeginsPreserves ==
  ASSUME IInv, NEW w \in {"check", "launch", "replay"}, Begins(w)
  PROVE  IInv'
<1> DEFINE begun == (w = "check" => Loads(config)) /\ Selected(Document(w), Verifies(w))
<1>1. /\ why = "no" /\ (w = "replay" <=> launched # None)
      /\ UNCHANGED <<fixed, tree, stale>>
      /\ begun => /\ why' = w /\ dir' = None /\ listed' = {} /\ seen' = <<>>
                  /\ replayed' = None /\ UNCHANGED <<launched, at>>
      /\ ~begun => Ends(w, FALSE)
  BY DEF Begins
<1>2. Document(w) = Dumped(config)
  BY DocumentIsDumped DEF IInv
<1>3. launched # None /\ UNCHANGED at
        => (\A r \in DOMAIN tree : \A name : Fresh(at, r, name))'
  BY <1>1 DEF IInv, LaunchInv, Fresh
<1>4. CASE begun
  <2>1. Selected(Dumped(config), FALSE)'
    BY <1>1, <1>2, <1>4, ResolvedWithoutDigests, StillSelected
  <2>2. WalkInv'
    <3>1. DOMAIN seen' = {}
      BY <1>1, <1>4
    <3> QED
      BY <1>1, <1>4, <2>1, <3>1 DEF WalkInv
  <2>3. LaunchInv'
    BY <1>1, <1>3, <1>4, StillLaunched DEF IInv
  <2>4. ReplayInv' /\ ConfigInv'
    BY <1>1, <1>4, StillSelected, RefusedAssumption DEF IInv, ReplayInv
  <2> QED
    BY <2>2, <2>3, <2>4 DEF IInv
<1>5. CASE ~begun
  <2>1. w # "replay"
    <3>1. ASSUME w = "replay"
          PROVE  Selected(Document(w), Verifies(w))
      BY <1>1, <1>2, <3>1 DEF IInv, LaunchInv, Verifies
    <3> QED
      BY <1>5, <3>1
  <2> QED
    BY <1>1, <1>5, <2>1, RefusalPreserves
<1> HIDE DEF begun
<1> QED
  BY <1>4, <1>5

LEMMA OpensPreserves ==
  ASSUME IInv, Opens
  PROVE  IInv'
<1>1. PICK r \in DOMAIN tree \ DOMAIN seen :
        /\ why # "no" /\ listed = {} /\ dir' = r /\ listed' = Files(tree[r])
        /\ seen' = [q \in DOMAIN seen \cup {r} |-> IF q = r THEN {} ELSE seen[q]]
        /\ stale' = IF why = "launch" THEN {p \in stale : p[1] # r} ELSE stale
        /\ UNCHANGED <<fixed, tree, launched, at, replayed, why>>
  BY DEF Opens
<1>2. /\ Selected(Dumped(config), FALSE) /\ replayed = None
      /\ (why = "replay" <=> launched # None)
      /\ DOMAIN seen \subseteq DOMAIN tree
      /\ \A q \in DOMAIN seen : \A name : Fresh(seen, q, name)
  BY <1>1 DEF IInv, WalkInv
<1>3. WalkInv'
  <2>1. Selected(Dumped(config), FALSE)'
    BY <1>1, <1>2, StillSelected
  <2>2. \A q \in DOMAIN seen : \A name : Fresh(seen, q, name)'
    BY <1>1, <1>2 DEF Fresh
  <2>3. \A name : name \in listed' \/ Fresh(seen, r, name)'
    BY <1>1, NamesNothing DEF Fresh, Named
  <2>4. \A q \in DOMAIN seen' : \A name :
          (q = dir' /\ name \in listed') \/ Fresh(seen, q, name)'
    BY <1>1, <2>2, <2>3
  <2> QED
    BY <1>1, <1>2, <2>1, <2>4 DEF IInv, WalkInv
<1>4. LaunchInv'
  <2>1. launched # None => stale' = stale
    BY <1>1, <1>2
  <2>2. launched # None => (\A q \in DOMAIN tree : \A name : Fresh(at, q, name))'
    BY <1>1, <2>1 DEF IInv, LaunchInv, Fresh
  <2> QED
    BY <1>1, <2>2, StillLaunched DEF IInv
<1>5. ReplayInv' /\ ConfigInv'
  BY <1>1, <1>2, StillSelected, RefusedAssumption DEF IInv, ReplayInv
<1> QED
  BY <1>3, <1>4, <1>5 DEF IInv

LEMMA ReadsPreserves ==
  ASSUME IInv, Reads
  PROVE  IInv'
<1>1. PICK name \in Files(tree[dir]) \ Files(seen[dir]) :
        /\ why # "no" /\ dir # None
        /\ seen' = [seen EXCEPT ![dir] = @ \cup Named(tree[dir], name)]
        /\ listed' = listed \ {name}
        /\ stale' = IF why = "launch" THEN stale \ {<<dir, name>>} ELSE stale
        /\ UNCHANGED <<fixed, tree, launched, at, replayed, why, dir>>
  BY DEF Reads
<1>2. /\ Selected(Dumped(config), FALSE) /\ replayed = None
      /\ (why = "replay" <=> launched # None)
      /\ DOMAIN seen \subseteq DOMAIN tree /\ dir \in DOMAIN seen
      /\ \A n \in listed : <<dir, n>> \in stale \/ n \in Files(tree[dir])
      /\ \A r \in DOMAIN seen : \A n : (r = dir /\ n \in listed) \/ Fresh(seen, r, n)
  BY <1>1 DEF IInv, WalkInv
<1>3. WalkInv'
  <2>1. Selected(Dumped(config), FALSE)'
    BY <1>1, <1>2, StillSelected
  <2>2. \A r \in DOMAIN seen : \A n : <<r, n>> # <<dir, name>> =>
          /\ Named(seen'[r], n) = Named(seen[r], n)
          /\ <<r, n>> \in stale => <<r, n>> \in stale'
    BY <1>1 DEF Named
  <2>3. Named(seen'[dir], name) = Named(tree[dir], name)
    BY <1>1, <1>2 DEF Named, Files
  <2>4. ASSUME NEW r \in DOMAIN seen, NEW n
        PROVE  (r = dir /\ n \in listed') \/ Fresh(seen, r, n)'
    <3>1. CASE r = dir /\ n = name
      BY <1>1, <2>3, <3>1 DEF Fresh
    <3>2. CASE ~(r = dir /\ n = name)
      BY <1>1, <1>2, <2>2, <3>2 DEF Fresh
    <3> QED
      BY <3>1, <3>2
  <2>5. \A n \in listed' : <<dir, n>> \in stale' \/ n \in Files(tree[dir])
    BY <1>1, <1>2
  <2>6. DOMAIN seen' = DOMAIN seen
    BY <1>1
  <2> QED
    BY <1>1, <1>2, <2>1, <2>4, <2>5, <2>6 DEF IInv, WalkInv
<1>4. LaunchInv'
  <2>1. launched # None => stale' = stale
    BY <1>1, <1>2
  <2>2. launched # None => (\A q \in DOMAIN tree : \A n : Fresh(at, q, n))'
    BY <1>1, <2>1 DEF IInv, LaunchInv, Fresh
  <2> QED
    BY <1>1, <2>2, StillLaunched DEF IInv
<1>5. ReplayInv' /\ ConfigInv'
  BY <1>1, <1>2, StillSelected, RefusedAssumption DEF IInv, ReplayInv
<1> QED
  BY <1>3, <1>4, <1>5 DEF IInv

LEMMA MissesPreserves ==
  ASSUME IInv, Misses
  PROVE  IInv'
<1>1. /\ why # "no" /\ (\E name \in listed : name \notin Files(tree[dir])) /\ Ends(why, FALSE)
      /\ UNCHANGED <<fixed, tree, stale>>
  BY DEF Misses
<1>2. /\ why \in {"check", "launch", "replay"} /\ (why = "replay" <=> launched # None)
      /\ stale # {}
  BY <1>1 DEF IInv, WalkInv
<1>3. UNCHANGED at \/ launched = None
  BY <1>1, <1>2 DEF Ends
<1>4. launched # None => (\A r \in DOMAIN tree : \A name : Fresh(at, r, name))'
  BY <1>1, <1>3 DEF IInv, LaunchInv, Fresh
<1> QED
  BY <1>1, <1>2, <1>4, RefusalPreserves

LEMMA ResolvesPreserves ==
  ASSUME IInv, Resolves
  PROVE  IInv'
<1> DEFINE c == Dumped(config)
<1> DEFINE complete == Complete(c, seen, Verifies(why))
<1>1. /\ why # "no" /\ listed = {} /\ DOMAIN seen = DOMAIN tree
      /\ Ends(why, complete) /\ UNCHANGED <<fixed, tree, stale>>
  BY DocumentIsDumped DEF Resolves, IInv
<1>2. /\ why \in {"check", "launch", "replay"} /\ (why = "replay" <=> launched # None)
      /\ replayed = None /\ Selected(c, FALSE) /\ DOMAIN tree = Roots(c)
      /\ \A r \in DOMAIN tree : \A name : Fresh(seen, r, name)
  BY <1>1 DEF IInv, WalkInv, Selected, Roots
<1>3. UNCHANGED at => (launched # None => (\A r \in DOMAIN tree : \A name : Fresh(at, r, name))')
  BY <1>1 DEF IInv, LaunchInv, Fresh
<1>4. CASE ~complete
  <2>1. ASSUME why = "replay", stale = {}
        PROVE  FALSE
    <3>1. /\ Complete(c, at, FALSE)
          /\ \A r \in DOMAIN tree : \A name : Fresh(at, r, name)
      BY <1>2, <2>1 DEF IInv, LaunchInv
    <3>2. ASSUME NEW r \in DOMAIN tree
          PROVE  at[r] = tree[r] /\ seen[r] = tree[r]
      <4>1. \A name : Named(at[r], name) = Named(tree[r], name)
        BY <2>1, <3>1 DEF Fresh
      <4>2. \A name : Named(seen[r], name) = Named(tree[r], name)
        BY <1>2, <2>1 DEF Fresh
      <4> QED
        BY <4>1, <4>2, SameNames
    <3>3. Complete(c, seen, FALSE)
      BY <1>2, <3>1, <3>2, SameMembers
    <3> QED
      BY <1>4, <2>1, <3>3 DEF Verifies
  <2>2. complete = FALSE
    BY <1>4 DEF Complete
  <2>3. Ends(why, FALSE)
    BY <1>1, <2>2
  <2>4. UNCHANGED at
    BY <2>3 DEF Ends
  <2> QED
    BY <1>1, <1>2, <1>3, <2>1, <2>3, <2>4, RefusalPreserves
<1>5. CASE complete
  <2>1. /\ why' = "no" /\ listed' = {} /\ UNCHANGED <<dir, seen>>
        /\ launched' = IF why = "launch" THEN Plan(c) ELSE launched
        /\ at' = IF why = "launch" THEN seen ELSE at
        /\ replayed' = IF why # "replay" THEN replayed ELSE Plan(c)
    BY <1>1, <1>5, DocumentIsDumped DEF Ends, IInv
  <2>2. Complete(c, seen, FALSE)
    BY <1>5, ResolvedWithoutDigests
  <2>3. WalkInv' /\ ConfigInv'
    BY <1>1, <2>1, StillSelected DEF WalkInv, IInv
  <2>4. LaunchInv'
    <3>1. CASE why = "launch"
      <4>1. Pinned(c, seen)
        BY <1>1, <1>2, <1>5, <3>1, CompleteIsPinned, Verifies(why) = TRUE DEF Verifies
      <4>2. at' = seen /\ launched' = Plan(c)
        BY <2>1, <3>1
      <4>3. Complete(Dumped(config), at, FALSE)'
        BY <1>1, <2>2, <4>2 DEF Complete, Registered, ModelMembers, IsCheckpoint, Tokenizer,
           Drafter, Used, Ceiling, fixed
      <4>4. Pinned(Dumped(config), at)'
        BY <1>1, <4>1, <4>2 DEF Pinned, PinnedMember, Registered, fixed
      <4>5. (\A r \in DOMAIN tree : \A name : Fresh(at, r, name))'
        BY <1>1, <1>2, <4>2 DEF Fresh
      <4>6. Selected(Dumped(config), FALSE)' /\ Plan(Dumped(config))' = Plan(c)
        BY <1>1, <1>2, StillSelected
      <4> QED
        BY <1>1, <4>2, <4>3, <4>4, <4>5, <4>6 DEF LaunchInv
    <3>2. CASE why # "launch"
      BY <1>1, <1>3, <2>1, <3>2, StillLaunched DEF IInv
    <3> QED
      BY <3>1, <3>2
  <2>5. ReplayInv'
    <3>1. CASE why # "replay"
      BY <1>2, <2>1, <3>1, RefusedAssumption DEF ReplayInv
    <3>2. CASE why = "replay"
      <4>1. launched' # None
        BY <1>2, <2>1, <3>2
      <4>2. Plan(c) # Refused
        BY PlansAreNotRefusals DEF IInv, ConfigInv
      <4>3. Complete(Dumped(config), seen, FALSE)'
        BY <1>1, <2>1, <2>2, StillSeen
      <4>4. replayed' = Plan(Dumped(config))'
        BY <1>1, <2>1, <3>2, StillSelected
      <4> QED
        BY <1>1, <2>1, <3>2, <4>1, <4>2, <4>3, <4>4 DEF ReplayInv
    <3> QED
      BY <3>1, <3>2
  <2> QED
    BY <2>3, <2>4, <2>5 DEF IInv
<1> HIDE DEF complete
<1> QED
  BY <1>4, <1>5

(* Neither the tier's space nor a step of no consequence matters.           *)
LEMMA SpacePreserves ==
  ASSUME IInv, UNCHANGED <<fixed, tree, launched, at, replayed, walk, stale>>
  PROVE  IInv'
<1>1. ConfigInv' /\ WalkInv'
  BY StillSelected DEF IInv, WalkInv, Fresh, walk
<1>2. LaunchInv'
  <2>1. launched # None => (\A r \in DOMAIN tree : \A name : Fresh(at, r, name))'
    BY DEF IInv, LaunchInv, Fresh
  <2> QED
    BY <2>1, StillLaunched DEF IInv
<1>3. ReplayInv'
  BY StillSelected, StillSeen DEF IInv, ReplayInv, walk
<1> QED
  BY <1>1, <1>2, <1>3 DEF IInv

LEMMA TamperPreserves ==
  ASSUME IInv, Tamper
  PROVE  IInv'
<1>1. PICK t : /\ DOMAIN t = DOMAIN tree /\ tree' = t
               /\ stale' = stale \cup Differing(tree, t) /\ UNCHANGED fixed
               /\ \/ UNCHANGED <<checked, launched, at, replayed, walk>>
                  \/ /\ why # "no" /\ \E name \in listed : <<dir, name>> \in Differing(tree, t)
                     /\ Ends(why, FALSE)
  BY DEF Tamper
<1>2. ASSUME NEW r \in DOMAIN tree, NEW name
      PROVE  <<r, name>> \in stale' \/ Named(tree'[r], name) = Named(tree[r], name)
  BY <1>1, DifferingNamed
<1>3. UNCHANGED at => (launched # None => (\A r \in DOMAIN tree : \A name : Fresh(at, r, name))')
  BY <1>1, <1>2 DEF IInv, LaunchInv, Fresh
<1>4. CASE UNCHANGED <<checked, launched, at, replayed, walk>>
  <2>1. WalkInv'
    <3> SUFFICES ASSUME why # "no"
                 PROVE  WalkInv'
      BY <1>4 DEF IInv, WalkInv, walk
    <3>1. /\ DOMAIN seen \subseteq DOMAIN tree
          /\ dir # None \/ listed # {} => dir \in DOMAIN seen
          /\ \A name \in listed : <<dir, name>> \in stale \/ name \in Files(tree[dir])
          /\ \A r \in DOMAIN seen : \A name :
               (r = dir /\ name \in listed) \/ Fresh(seen, r, name)
      BY DEF IInv, WalkInv
    <3>2. ASSUME NEW name \in listed
          PROVE  <<dir, name>> \in stale' \/ name \in Files(tree'[dir])
      <4>1. <<dir, name>> \in stale' \/ Named(tree'[dir], name) = Named(tree[dir], name)
        BY <1>2, <3>1
      <4>2. name \in Files(tree[dir]) /\ Named(tree'[dir], name) = Named(tree[dir], name)
              => name \in Files(tree'[dir])
        BY DEF Files, Named
      <4> QED
        BY <1>1, <3>1, <4>1, <4>2
    <3>3. ASSUME NEW r \in DOMAIN seen, NEW name
          PROVE  (r = dir /\ name \in listed) \/ Fresh(seen, r, name)'
      BY <1>1, <1>2, <1>4, <3>1 DEF Fresh, walk
    <3>4. Selected(Dumped(config), FALSE)'
      BY <1>1, StillSelected DEF IInv, WalkInv
    <3> QED
      BY <1>1, <1>4, <3>1, <3>2, <3>3, <3>4 DEF IInv, WalkInv, walk
  <2>2. LaunchInv'
    BY <1>1, <1>3, <1>4, StillLaunched DEF IInv
  <2>3. ReplayInv' /\ ConfigInv'
    BY <1>1, <1>4, StillSelected, StillSeen DEF IInv, ReplayInv, walk
  <2> QED
    BY <2>1, <2>2, <2>3 DEF IInv
<1>5. CASE /\ why # "no" /\ \E name \in listed : <<dir, name>> \in Differing(tree, t)
           /\ Ends(why, FALSE)
  <2>1. stale' # {} /\ UNCHANGED at
    BY <1>1, <1>5 DEF Ends
  <2>2. why \in {"check", "launch", "replay"} /\ (why = "replay" <=> launched # None)
    BY <1>5 DEF IInv, WalkInv
  <2> QED
    BY <1>1, <1>3, <1>5, <2>1, <2>2, RefusalPreserves
<1> QED
  BY <1>1, <1>4, <1>5

(* Every state of the launcher satisfies the inductive invariant.           *)
THEOREM InvariantHolds == Spec => []IInv
<1>1. IInv /\ [Next]_vars => IInv'
  <2> SUFFICES ASSUME IInv, [Next]_vars
               PROVE  IInv'
    OBVIOUS
  <2>1. CASE \E w \in {"check", "launch", "replay"} : Begins(w)
    BY <2>1, BeginsPreserves
  <2>2. CASE Allocates
    BY <2>2, SpacePreserves DEF Allocates
  <2>3. CASE UNCHANGED vars
    BY <2>3, SpacePreserves DEF vars
  <2> QED
    BY <2>1, <2>2, <2>3, OpensPreserves, ReadsPreserves, MissesPreserves, ResolvesPreserves,
       TamperPreserves DEF Next
<1> QED
  BY InitEstablishes, <1>1, PTL DEF Spec

-----------------------------------------------------------------------------
LEMMA InvHandsOnUnchanged == IInv => HandedOnUnchanged
BY ConfigIsRead, DumpedIsValid, DumpedMeansTheSame DEF IInv, HandedOnUnchanged, Loads

LEMMA InvReplayAgrees == IInv => ReplayAgrees
<1> SUFFICES ASSUME IInv, replayed \notin {None, Refused}
             PROVE  replayed = launched /\ Shape(seen) = Shape(at)
  BY DEF IInv, ReplayInv, ReplayAgrees
<1> DEFINE c == Dumped(config)
<1>1. /\ launched # None /\ replayed = Plan(c) /\ DOMAIN seen = DOMAIN tree
      /\ Complete(c, seen, FALSE)
  BY DEF IInv, ReplayInv
<1>2. /\ launched = Plan(c) /\ Selected(c, FALSE) /\ Complete(c, at, FALSE)
      /\ DOMAIN at = DOMAIN tree
  BY <1>1 DEF IInv, LaunchInv
<1>3. DOMAIN tree = Roots(c)
  BY <1>2 DEF Selected, Roots
<1> QED
  BY <1>1, <1>2, <1>3, CompleteShape

LEMMA InvReadsWhatIsPinned == IInv => EngineReadsWhatIsPinned
<1> SUFFICES ASSUME IInv, launched # None, NEW r \in DOMAIN tree, NEW m \in tree[r],
                    <<r, m.file>> \notin stale
             PROVE  PinnedMember(config, r, m)
  BY DEF EngineReadsWhatIsPinned, PinnedMember
<1>1. /\ DOMAIN at = DOMAIN tree /\ Pinned(Dumped(config), at)
      /\ Named(at[r], m.file) = Named(tree[r], m.file)
  BY DEF IInv, LaunchInv, Fresh
<1>2. m \in at[r]
  BY <1>1 DEF Named
<1>3. PinnedMember(Dumped(config), r, m)
  BY <1>1, <1>2 DEF Pinned
<1>4. Role(Dumped(config).roles["generation"]) = Role(config.roles["generation"])
  BY ConfigIsRead, DumpKeepsRoles DEF IInv, Read
<1> QED
  BY <1>3, <1>4 DEF PinnedMember

(* For every configuration that the appliance loads: the document that is   *)
(* handed to the isolated interpreter is valid there and means the same.    *)
THEOREM HandsOnUnchanged == Spec => []HandedOnUnchanged
BY InvariantHolds, InvHandsOnUnchanged, PTL

(* Whenever members change, while they are read too, and whatever space the *)
(* tier has left: an observation is refused only if one has changed since   *)
(* the launch read it; and one that is not refused resolves the plan of the *)
(* launch, of members with the same names and sizes.                        *)
THEOREM ReplaysAgree == Spec => []ReplayAgrees
BY InvariantHolds, InvReplayAgrees, PTL

(* Every member that an engine finds has the size and the digest that the   *)
(* configuration names, and the weights of the model are registered         *)
(* upstream, unless the member changed after the launch had read it: no     *)
(* change before that, as after the check, reaches an engine.               *)
THEOREM EnginesReadWhatIsPinned == Spec => []EngineReadsWhatIsPinned
BY InvariantHolds, InvReadsWhatIsPinned, PTL
=============================================================================
