--------------------------- MODULE VllmArguments ---------------------------
(***************************************************************************)
(* The arguments an engine of the vLLM backend is constructed with, those  *)
(* of them that the installed version takes, and the comparison of the     *)
(* engine that was loaded with the one that was selected                   *)
(* (lazarus/appliance/backends/vllm_engine.py).                            *)
(*                                                                         *)
(* An argument stands for its flag and the configured value; the settings  *)
(* of an engine are the arguments whose values it runs with.               *)
(***************************************************************************)

\* What a role's configuration may leave out: a pinned revision, a window,
\* eager execution, parsers of tool calls and of reasoning, a pooler's options;
\* "memory" is a backend with an accelerator, "profile" an engine_profile_id.
Options == {"revision", "window", "eager", "tools", "reasoning", "pooler", "memory",
            "profile"}

\* Those are the flags too, but for the profile's, which bounds the concurrency.
Flags == {"model", "alias", "defaults", "parallel", "concurrency", "runner"}
           \cup (Options \ {"profile"})

\* APPLIANCE_DEFAULT_FLAGS are "defaults"; a parser is configured or is inferred
\* from the name of the model, or there is none.
RoleArgv(role, given) ==
  {"model", "alias", "defaults"} \cup (given \cap {"revision", "window", "memory", "eager"})
    \cup CASE role = "generation" ->
                {"parallel"} \cup (given \cap {"tools", "reasoning"})
                  \cup IF "profile" \in given THEN {"concurrency"} ELSE {}
           [] role = "embedding" -> {"runner"} \cup (given \cap {"pooler"})
           [] OTHER -> {}

\* Mutant of Required: a revision that the installed version does not take is
\* dropped like any other default.
RequiredButRevision == {"model", "alias", "parallel", "concurrency", "eager"}

\* A flag the installed version does not know is dropped, but never one of these.
Required == {"model", "alias", "revision", "parallel", "concurrency", "eager"}

Refused(argv, known) == ~(Required \cap argv \subseteq known)

Taken(argv, known) == argv \cap known

\* _applied_generation_info, of a role with a profile: the revision is not
\* among what the loaded engine tells.
Matches(role, given, settings) ==
  role = "generation" =>
    /\ "parallel" \in settings
    /\ "profile" \in given => {"model", "alias", "window", "concurrency"} \subseteq settings
=============================================================================
