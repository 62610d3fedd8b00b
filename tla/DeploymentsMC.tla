--------------------------- MODULE DeploymentsMC ---------------------------
(* Instances of Deployments for TLC.  Workers, requests, ids and ports are  *)
(* interchangeable in the specification, so the safety runs use symmetry.   *)
EXTENDS DeploymentsProperties, TLC

Symmetry ==
  Permutations(Ids) \cup Permutations(Workers)
    \cup Permutations(Requests) \cup Permutations(Ports)
=============================================================================
