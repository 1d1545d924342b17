-------------------------- MODULE MCDeploymentPage --------------------------
(***************************************************************************)
(* DeploymentPage for TLC: a buffer that one piece does not fill, a stream *)
(* that reads two rows at a time, two status requests that may overtake     *)
(* each other.                                                             *)
(***************************************************************************)
EXTENDS DeploymentPage
=============================================================================
