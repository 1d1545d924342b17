---------------------------- MODULE MCAdminJobs ----------------------------
(***************************************************************************)
(* AdminJobs for TLC: one job of each type.                                *)
(***************************************************************************)
EXTENDS AdminJobs, TLC

CONSTANTS j1, j2

TwoJobs == {j1, j2}
ApplyAndUpdate == (j1 :> "apply_settings") @@ (j2 :> "self_update")
=============================================================================
