--------------------------- MODULE VllmLifetimeMC ---------------------------
(* An instance of VllmLifetime for TLC: both supported roles, and one that   *)
(* this backend refuses; a plain configuration, a pinned one and a profile;  *)
(* and parsers that know every flag, or all but one.                         *)
EXTENDS VllmLifetime

AllRoles == <<"generation", "embedding", "vision">>
SomeGiven == {{"tools"}, {"revision", "eager"},
              {"profile", "window", "revision", "memory", "pooler"}}
MostFlags == {Flags} \cup {Flags \ {f} : f \in Flags}
=============================================================================
