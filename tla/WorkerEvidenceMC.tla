-------------------------- MODULE WorkerEvidenceMC --------------------------
(* An instance of WorkerEvidence for TLC: two devices, and the workers on   *)
(* them as they should be or the other way round.                           *)
EXTENDS WorkerEvidence

InOrder == [w \in Ranks |-> w]
Orders == {InOrder, [w \in Ranks |-> Count - 1 - w]}
=============================================================================
