---------------------------- MODULE MCAccounts ----------------------------
(***************************************************************************)
(* Accounts for TLC: two people at the setup form, one of whom the         *)
(* bootstrap variables may name, and a GitHub account that may change its  *)
(* login once.  Accounts meet only where one takes the login another had,  *)
(* or where both are linked to one user, and there nothing is promised.    *)
(***************************************************************************)
EXTENDS Accounts, TLC

CONSTANTS alice, bob, g1, l1, l2

TwoEmails == {alice, bob}
OneBootstrap == {alice}
OneAccount == {g1}
TwoLogins == {l1, l2}
AtFirst == g1 :> l1
Symmetry == Permutations(Requests)
=============================================================================
