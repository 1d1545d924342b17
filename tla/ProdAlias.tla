----------------------------- MODULE ProdAlias -----------------------------
(***************************************************************************)
(* What production routing should be: an alias per project that a promote  *)
(* switches, in one step and touching no other project, to a deployment of *)
(* that project that has been published.  ProdRouting.tla is the code.     *)
(***************************************************************************)
CONSTANTS Deployments, Projects,
          ProjectOf,   \* the project of each deployment
          None         \* no deployment

VARIABLES route,       \* the deployment each project's production host reaches
          recorded     \* the deployments with a container name

aliasVars == <<route, recorded>>

AliasInit ==
  /\ route = [p \in Projects |-> None]
  /\ recorded = {}

\* The worker publishes a deployment: no traffic moves.
Record(d) ==
  /\ recorded' = recorded \cup {d}
  /\ UNCHANGED route

Switch(d) ==
  /\ d \in recorded
  /\ route' = [route EXCEPT ![ProjectOf[d]] = d]
  /\ UNCHANGED recorded

AliasNext == \E d \in Deployments : Record(d) \/ Switch(d)

AliasSpec == AliasInit /\ [][AliasNext]_aliasVars
=============================================================================
