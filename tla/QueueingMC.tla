----------------------------- MODULE QueueingMC -----------------------------
(* An instance of Queueing for TLC.  Requests are interchangeable.          *)
EXTENDS Queueing, TLC

Symmetry == Permutations(Tickets)
=============================================================================
