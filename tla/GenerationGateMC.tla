-------------------------- MODULE GenerationGateMC --------------------------
(* An instance of GenerationGate for TLC: the requests of a role and the    *)
(* control calls are numbers, and since they are interchangeable they       *)
(* arrive in the order of their numbers.                                    *)
EXTENDS GenerationGate

CONSTANTS GenerationCount, EmbeddingCount, ControlCount

\* bounds: the requests of each role and the control calls, each made once
GenerationRequests == 1..GenerationCount
EmbeddingRequests == 11..(10 + EmbeddingCount)
ControlCalls == 21..(20 + ControlCount)

\* Whoever is new stays so until those before it have arrived.
InOrder ==
  /\ \A set \in {Generations, Embeddings} : \A r, s \in set :
       r < s /\ phase[r] = "new" => phase'[s] = "new"
  /\ \A c, d \in Controls :
       c < d /\ control[c].step = "new" => control'[d].step = "new"
=============================================================================
