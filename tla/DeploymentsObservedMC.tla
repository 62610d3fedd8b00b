------------------------ MODULE DeploymentsObservedMC ------------------------
(* The instance of DeploymentsObserved that TLC checks. *)
EXTENDS DeploymentsObserved, DeploymentsMC
==============================================================================
