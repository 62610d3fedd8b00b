----------------------------- MODULE SlimServeMC ----------------------------
(* An instance of SlimServe for TLC: the calls and the groups are numbers,  *)
(* and since they are interchangeable they come in that order.              *)
EXTENDS SlimServe

CONSTANTS CallCount, GroupCount

\* bounds: the calls made, and the process groups spawned
CallNumbers == 1..CallCount
GroupNumbers == 1..GroupCount

InOrder ==
  /\ \A c, d \in Callers : c < d /\ call[c].at = "new" => call'[d].at = "new"
  /\ \A g, h \in Groups : g < h /\ group[g] = "unborn" => group'[h] = "unborn"
=============================================================================
