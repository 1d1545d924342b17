------------------------------ MODULE MCOrgs ------------------------------
(***************************************************************************)
(* Orgs for TLC: the founder and another user, the organization of the     *)
(* setup and another, one repository both may import.                      *)
(***************************************************************************)
EXTENDS Orgs, TLC

CONSTANTS founder, guest, first, second

TwoPeople == {founder, guest}
TwoOrgs == {first, second}
Symmetry == Permutations(Requests)
=============================================================================
