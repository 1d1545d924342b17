---------------------------- MODULE ProjectPage ----------------------------
(***************************************************************************)
(* The deployments tab of a project's page                                 *)
(* (app/(authed)/projects/[id]/page.tsx).  The page asks for the project   *)
(* and, once that is answered, for its deployments: when it opens and      *)
(* after each promote.  Nothing stops two promotes from overlapping, and   *)
(* nothing orders the answers.  The API lists the newest deployments only, *)
(* and the banner of the one in production is looked up among them.  What  *)
(* a promote does to the route is in ProdRouting; here it moves the        *)
(* pointer or fails.                                                       *)
(***************************************************************************)
EXTENDS Naturals

CONSTANTS None,
          MaxBuilds,   \* bound: deployments, numbered as they are created
          Limit,       \* deployments the API lists, 50 in the code
          MaxPromotes, \* bound: promotes under way at a time
          MaxForeign   \* bound: promotes by somebody else

VARIABLES prod,        \* the API: projects.production_deployment_id
          built,       \* deployments created so far
          ready,       \* those that are READY, the others are BUILDING
          promotes,    \* the promotes under way
          refreshes,   \* the refreshes under way, by their number
          count,       \* of the refreshes since the page was quiet
          project, deployments,   \* the page: production_deployment_id and the list,
                       \* or Unloaded
          newest,      \* the newest refresh whose project has arrived
          behind,      \* the page may show an older pointer: see Behind
          foreign      \* promotes by somebody else so far

vars == <<prod, built, ready, promotes, refreshes, count, project, deployments, newest,
          behind, foreign>>

\* Deployments, numbered as they are created.
Numbers == 1..MaxBuilds
Unloaded == [d \in Numbers |-> "absent"]

\* ListDeploymentsByProject: the newest.
Newest == {d \in 1..built : built < d + Limit}
Listing ==
  [d \in Numbers |->
     IF d \notin Newest THEN "absent" ELSE IF d \in ready THEN "READY" ELSE "BUILDING"]

\* A refresh: its number, the request it waits for, and the answer once the API
\* has made it.
Refreshes ==
  [n : 1..(MaxPromotes + 1), of : {"project", "deployments"}, made : BOOLEAN,
   prod : Numbers \cup {None},
   list : [Numbers -> {"absent", "READY", "BUILDING"}]]
Asking(n, of) ==
  [n |-> n, of |-> of, made |-> FALSE, prod |-> None, list |-> Unloaded]

TypeOK ==
  /\ prod \in Numbers \cup {None} /\ built \in 0..MaxBuilds /\ ready \subseteq 1..built
  /\ promotes \subseteq [d : Numbers, done : BOOLEAN]
  /\ refreshes \subseteq Refreshes /\ count \in 0..(MaxPromotes + 1)
  /\ project \in Numbers \cup {None}
  /\ deployments \in [Numbers -> {"absent", "READY", "BUILDING"}]
  /\ newest \in 0..(MaxPromotes + 1)
  /\ behind \in BOOLEAN /\ foreign \in 0..MaxForeign

\* The page has just opened, and its effect has called refresh.
Init ==
  /\ prod = None /\ built = 1 /\ ready = {} /\ promotes = {} /\ foreign = 0
  /\ refreshes = {Asking(1, "project")} /\ count = 1
  /\ project = None /\ deployments = Unloaded /\ newest = 0
  /\ behind = FALSE

Quiet == promotes = {} /\ refreshes = {}

\* Numbers start again when nothing is under way.
Renumber ==
  /\ count' = IF Quiet' THEN 0 ELSE count
  /\ newest' = IF Quiet' THEN 0 ELSE newest

(***************************************************************************)
(* What the page shows.                                                    *)
(***************************************************************************)

\* productionDeployment: the one the project points to, if the list has it.
ProductionDeployment ==
  IF project # None /\ deployments[project] # "absent" THEN project ELSE None

\* The banner, and in the header the link to visit it.
Banner == {ProductionDeployment} \ {None}

\* The rows with a Promote button: READY, and not the one in production.
Promotable == {d \in Numbers : deployments[d] = "READY" /\ d # project}

(***************************************************************************)
(* The API.                                                                *)
(***************************************************************************)
Answers(r) ==
  /\ r \in refreshes /\ ~r.made
  /\ refreshes' = (refreshes \ {r}) \cup
       {[r EXCEPT !.made = TRUE,
                  !.prod = IF r.of = "project" THEN prod ELSE None,
                  !.list = IF r.of = "deployments" THEN Listing ELSE Unloaded]}
  /\ UNCHANGED <<prod, built, ready, promotes, count, project, deployments, newest, behind,
                 foreign>>

\* A push creates a deployment.
BuildStarts ==
  /\ built < MaxBuilds /\ built' = built + 1
  /\ UNCHANGED <<prod, ready, promotes, refreshes, count, project, deployments, newest,
                 behind, foreign>>

BuildEnds(d) ==
  /\ d \in 1..built /\ d \notin ready /\ ready' = ready \cup {d}
  /\ UNCHANGED <<prod, built, promotes, refreshes, count, project, deployments, newest,
                 behind, foreign>>

Promotes(p) ==
  /\ p \in promotes /\ ~p.done
  /\ prod' = p.d
  /\ promotes' = (promotes \ {p}) \cup {[p EXCEPT !.done = TRUE]}
  /\ UNCHANGED <<built, ready, refreshes, count, project, deployments, newest, behind, foreign>>

\* Somebody else promotes: the page is not told.
ForeignPromote(d) ==
  /\ d \in ready /\ d # prod /\ foreign < MaxForeign
  /\ prod' = d /\ foreign' = foreign + 1 /\ behind' = TRUE
  /\ UNCHANGED <<built, ready, promotes, refreshes, count, project, deployments, newest>>

(***************************************************************************)
(* The page.                                                               *)
(***************************************************************************)

\* promote: the button stays while a promote is under way.
Promote(d) ==
  /\ d \in Promotable
  /\ [d |-> d, done |-> FALSE] \notin promotes /\ count <= MaxPromotes
  /\ promotes' = promotes \cup {[d |-> d, done |-> FALSE]}
  /\ UNCHANGED <<prod, built, ready, refreshes, count, project, deployments, newest, behind,
                 foreign>>

\* A faulty PromoteAnswered: the page is not refreshed.
PromoteNotRefreshed(p) ==
  /\ p \in promotes /\ p.done
  /\ promotes' = promotes \ {p}
  /\ UNCHANGED <<prod, built, ready, refreshes, count, project, deployments, newest, behind,
                 foreign>>

\* It was answered: refresh.
PromoteAnswered(p) ==
  /\ p \in promotes /\ p.done /\ count <= MaxPromotes
  /\ promotes' = promotes \ {p}
  /\ count' = count + 1
  /\ refreshes' = refreshes \cup {Asking(count + 1, "project")}
  /\ behind' = (behind /\ (promotes # {p} \/ refreshes # {}))
  /\ UNCHANGED <<prod, built, ready, project, deployments, newest, foreign>>

\* It failed, whether the pointer was moved or not: a message, and no refresh.
PromoteFails(p) ==
  /\ p \in promotes
  /\ promotes' = promotes \ {p} /\ UNCHANGED refreshes
  /\ Renumber
  /\ behind' = (behind \/ p.done)
  /\ UNCHANGED <<prod, built, ready, project, deployments, foreign>>

\* The project has arrived: it is shown, and the deployments are asked for.  A
\* refresh that a newer one has overtaken puts the older pointer back.
ProjectArrives(r) ==
  /\ r \in refreshes /\ r.made /\ r.of = "project"
  /\ project' = r.prod
  /\ refreshes' = (refreshes \ {r}) \cup {Asking(r.n, "deployments")}
  /\ newest' = IF r.n > newest THEN r.n ELSE newest
  /\ behind' = (behind \/ r.n < newest)
  /\ UNCHANGED <<prod, built, ready, promotes, count, deployments, foreign>>

\* The deployments have: those of an older refresh may lack the one in production.
DeploymentsArrive(r) ==
  /\ r \in refreshes /\ r.made /\ r.of = "deployments"
  /\ deployments' = r.list
  /\ refreshes' = refreshes \ {r} /\ UNCHANGED promotes
  /\ Renumber
  /\ behind' = (behind \/ r.n < newest)
  /\ UNCHANGED <<prod, built, ready, project, foreign>>

\* Either request fails: a message, and what is shown stays.
RefreshFails(r) ==
  /\ r \in refreshes
  /\ refreshes' = refreshes \ {r} /\ UNCHANGED promotes
  /\ Renumber
  /\ behind' = TRUE
  /\ UNCHANGED <<prod, built, ready, project, deployments, foreign>>

\* The page is loaded again when nothing is under way.
Reload ==
  /\ Quiet
  /\ refreshes' = {Asking(1, "project")} /\ count' = 1 /\ newest' = 0
  /\ project' = None /\ deployments' = Unloaded /\ behind' = FALSE
  /\ UNCHANGED <<prod, built, ready, promotes, foreign>>

Next ==
  \/ \E r \in refreshes :
       Answers(r) \/ ProjectArrives(r) \/ DeploymentsArrive(r) \/ RefreshFails(r)
  \/ \E p \in promotes : Promotes(p) \/ PromoteAnswered(p) \/ PromoteFails(p)
  \/ \E d \in Numbers : BuildEnds(d) \/ Promote(d) \/ ForeignPromote(d)
  \/ BuildStarts \/ Reload

Spec == Init /\ [][Next]_vars

(***************************************************************************)
(* Properties.                                                             *)
(***************************************************************************)

\* When nothing is under way, there is no banner but that of the deployment in
\* production, and there is one unless that is older than all the API lists - however
\* promotes and refreshes overlapped, but not if a newer refresh overtook an older one,
\* a request failed, or somebody else promoted.
BannerIsProduction ==
  Quiet /\ ~behind =>
    /\ Banner \subseteq {prod}
    /\ prod \in Newest => Banner = {prod}
=============================================================================
