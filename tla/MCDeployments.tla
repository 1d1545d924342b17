--------------------------- MODULE MCDeployments ---------------------------
(***************************************************************************)
(* Deployments for TLC.  The fault sets name what each run lets the        *)
(* environment do; deployments are interchangeable, so the safety runs     *)
(* may use their permutations as a symmetry set.                           *)
(***************************************************************************)
EXTENDS Deployments, TLC

Symmetry == Permutations(Deployments)

NoFaults == {}
WorkerFaults == {"crash", "shutdown", "timeout", "reboot"}
=============================================================================
