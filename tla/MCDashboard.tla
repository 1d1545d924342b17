---------------------------- MODULE MCDashboard ----------------------------
(***************************************************************************)
(* The dashboard with two of everything that is told apart.                *)
(***************************************************************************)
EXTENDS Dashboard, TLC

CONSTANTS s1, s2

MCStores == {s1, s2}
MCKindOf == (s1 :> "postgres") @@ (s2 :> "kv")
=============================================================================
