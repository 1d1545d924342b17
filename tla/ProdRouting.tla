---------------------------- MODULE ProdRouting ----------------------------
(***************************************************************************)
(* Promotion to production (handlePromoteDeployment in                     *)
(* internal/api/deployments.go and writeTraefikProdRoute in                *)
(* internal/api/traefik.go).  A promote writes the project's pointer in    *)
(* Postgres, then rewrites Traefik's file for all projects from what it    *)
(* reads: first the list of projects, then the deployment of each, then    *)
(* one rename.  Nothing orders two promotes, and the installer overwrites  *)
(* the same file with an empty one.                                        *)
(*                                                                         *)
(* The file is a map by host, and a host is made of the slugs of           *)
(* organization and project with a hyphen between them.  Slugs may contain *)
(* hyphens, so two projects can have one host (acme/web-api and            *)
(* acme-web/api); of those, the one listed last, which is the one created  *)
(* first, is what the file keeps.                                          *)
(*                                                                         *)
(* Of a deployment only two facts reach this code: that its row exists,    *)
(* and that its container name is recorded.  Both are for ever (module     *)
(* DeploymentLifecycle), whatever its status does.                         *)
(***************************************************************************)
EXTENDS Naturals

CONSTANTS Deployments, Projects, ProjectOf, None,
          Hosts,
          HostOf,           \* the host a project's slugs make
          CreatedAt,        \* when a project was created: the order of the list
          Handlers,         \* promote requests the API may be serving at once
          PromoteUnready,   \* may a client promote a deployment not published yet?
                            \* (the dashboard offers the button for READY ones only)
          MaxFaults         \* bound: faults in a behaviour

ASSUME RoutingAssumption ==
  /\ ProjectOf \in [Deployments -> Projects]
  /\ HostOf \in [Projects -> Hosts]
  /\ CreatedAt \in [Projects -> Nat]
  /\ None \notin Deployments
  /\ PromoteUnready \in BOOLEAN
  /\ MaxFaults \in Nat

VARIABLES created,    \* deployments whose row exists
          recorded,   \* deployments whose row names a container
          pointer,    \* projects.production_deployment_id
          route,      \* Traefik's file: the deployment each production host reaches
          pc,         \* where each promote request is
          target,     \* the deployment it promotes
          snap,       \* the pointers ListProjects returned to it
          todo,       \* the projects of that list it has yet to look up
          out,        \* the file it is putting together
          missed,     \* history: the projects of the list it left out
          promoted,   \* history: deployments a promote has pointed at
          early,      \* history: did a promote point at one not published yet?
          faults      \* faults so far

dbVars == <<created, recorded, pointer, promoted, early>>
handlerVars == <<pc, target, snap, todo, out, missed>>
vars == <<created, recorded, pointer, route, pc, target, snap, todo, out, missed,
          promoted, early, faults>>

MaybeDeployment == Deployments \cup {None}
NoPointers == [p \in Projects |-> None]
NoRoutes == [k \in Hosts |-> None]

TypeOK ==
  /\ created \subseteq Deployments
  /\ recorded \subseteq created
  /\ promoted \subseteq created
  /\ early \in BOOLEAN
  /\ pointer \in [Projects -> MaybeDeployment]
  /\ route \in [Hosts -> MaybeDeployment]
  /\ pc \in [Handlers -> {"idle", "loaded", "pointed", "reading"}]
  /\ target \in [Handlers -> MaybeDeployment]
  /\ snap \in [Handlers -> [Projects -> MaybeDeployment]]
  /\ todo \in [Handlers -> SUBSET Projects]
  /\ out \in [Handlers -> [Hosts -> MaybeDeployment]]
  /\ missed \in [Handlers -> SUBSET Projects]
  /\ faults \in 0..MaxFaults

Init ==
  /\ created = {} /\ recorded = {} /\ promoted = {}
  /\ early = FALSE
  /\ pointer = NoPointers
  /\ route = NoRoutes
  /\ pc = [h \in Handlers |-> "idle"]
  /\ target = [h \in Handlers |-> None]
  /\ snap = [h \in Handlers |-> NoPointers]
  /\ todo = [h \in Handlers |-> {}]
  /\ out = [h \in Handlers |-> NoRoutes]
  /\ missed = [h \in Handlers |-> {}]
  /\ faults = 0

\* What the code does not do is left to these two: a push creates a row, the
\* worker publishes it.
CreateRow(d) ==
  /\ d \notin created
  /\ created' = created \cup {d}
  /\ UNCHANGED <<recorded, pointer, promoted, early, route, handlerVars, faults>>

Publish(d) ==
  /\ d \in created \ recorded
  /\ recorded' = recorded \cup {d}
  /\ UNCHANGED <<created, pointer, promoted, early, route, handlerVars, faults>>

(***************************************************************************)
(* One promote request.                                                    *)
(***************************************************************************)

\* The deployment and its project are found, the caller is an admin of the
\* organization.  The status of the deployment is not looked at.
BeginPromote(h, d) ==
  /\ pc[h] = "idle"
  /\ d \in IF PromoteUnready THEN created ELSE recorded
  /\ pc' = [pc EXCEPT ![h] = "loaded"]
  /\ target' = [target EXCEPT ![h] = d]
  /\ UNCHANGED <<dbVars, route, snap, todo, out, missed, faults>>

\* SetProjectProductionDeployment.
SetPointer(h) ==
  /\ pc[h] = "loaded"
  /\ pointer' = [pointer EXCEPT ![ProjectOf[target[h]]] = target[h]]
  /\ promoted' = promoted \cup {target[h]}
  /\ early' = (early \/ target[h] \notin recorded)
  /\ pc' = [pc EXCEPT ![h] = "pointed"]
  /\ UNCHANGED <<created, recorded, route, target, snap, todo, out, missed, faults>>

\* A faulty ListProjects: only the project being promoted is listed.
ListOwnProject(h) ==
  /\ pc[h] = "pointed"
  /\ pc' = [pc EXCEPT ![h] = "reading"]
  /\ snap' = [snap EXCEPT ![h] = pointer]
  /\ todo' = [todo EXCEPT ![h] = {ProjectOf[target[h]]}]
  /\ UNCHANGED <<dbVars, route, target, out, missed, faults>>

\* ListProjects; projects without a pointer are skipped.
ListProjects(h) ==
  /\ pc[h] = "pointed"
  /\ pc' = [pc EXCEPT ![h] = "reading"]
  /\ snap' = [snap EXCEPT ![h] = pointer]
  /\ todo' = [todo EXCEPT ![h] = {p \in Projects : pointer[p] # None}]
  /\ UNCHANGED <<dbVars, route, target, out, missed, faults>>

\* The next of the list, newest first (ORDER BY created_at DESC).
Listed(h, p) == p \in todo[h] /\ \A q \in todo[h] : CreatedAt[q] <= CreatedAt[p]

\* A faulty LookUp: the container name is not checked.
LookUpUnchecked(h, p) ==
  /\ pc[h] = "reading"
  /\ Listed(h, p)
  /\ todo' = [todo EXCEPT ![h] = @ \ {p}]
  /\ out' = [out EXCEPT ![h][HostOf[p]] = snap[h][p]]
  /\ UNCHANGED <<dbVars, route, pc, target, snap, missed, faults>>

\* GetDeployment for the next project of the list.  A deployment without a
\* container name gets no router; another replaces what an earlier project with
\* the same host has put there.
LookUp(h, p) ==
  /\ pc[h] = "reading"
  /\ Listed(h, p)
  /\ todo' = [todo EXCEPT ![h] = @ \ {p}]
  /\ \/ /\ snap[h][p] \in recorded
        /\ out' = [out EXCEPT ![h][HostOf[p]] = snap[h][p]]
        /\ UNCHANGED missed
     \/ /\ snap[h][p] \notin recorded
        /\ missed' = [missed EXCEPT ![h] = @ \cup {p}]
        /\ UNCHANGED out
  /\ UNCHANGED <<dbVars, route, pc, target, snap, faults>>

\* The request is answered; its locals go away.
Forget(h) ==
  /\ pc' = [pc EXCEPT ![h] = "idle"]
  /\ target' = [target EXCEPT ![h] = None]
  /\ snap' = [snap EXCEPT ![h] = NoPointers]
  /\ todo' = [todo EXCEPT ![h] = {}]
  /\ out' = [out EXCEPT ![h] = NoRoutes]
  /\ missed' = [missed EXCEPT ![h] = {}]

\* A faulty WriteFile: the routers are merged into those of the file.
MergeFile(h) ==
  /\ pc[h] = "reading"
  /\ todo[h] = {}
  /\ route' = [k \in Hosts |-> IF route[k] = None THEN out[h][k] ELSE route[k]]
  /\ Forget(h)
  /\ UNCHANGED <<dbVars, faults>>

\* The temporary file is renamed over the old one, and the handler answers 200.
WriteFile(h) ==
  /\ pc[h] = "reading"
  /\ todo[h] = {}
  /\ route' = out[h]
  /\ Forget(h)
  /\ UNCHANGED <<dbVars, faults>>

(***************************************************************************)
(* Faults.                                                                 *)
(***************************************************************************)
Fault == faults < MaxFaults /\ faults' = faults + 1

\* A database or file system error ends the request with 500; after SetPointer
\* the pointer has moved and the file has not.  The API dying in the middle of
\* the request leaves the same.
RequestFails(h) ==
  /\ Fault
  /\ pc[h] # "idle"
  /\ Forget(h)
  /\ UNCHANGED <<dbVars, route>>

\* GetOrganization or GetDeployment fails for one project: the loop goes on
\* without it and its router is missing from the new file.
LookUpFails(h, p) ==
  /\ Fault
  /\ pc[h] = "reading"
  /\ Listed(h, p)
  /\ todo' = [todo EXCEPT ![h] = @ \ {p}]
  /\ missed' = [missed EXCEPT ![h] = @ \cup {p}]
  /\ UNCHANGED <<dbVars, route, pc, target, snap, out>>

\* opencel install runs (by hand, or as an apply_settings or self_update job)
\* and seeds the file with no routers.  The API does not write it on startup.
InstallerSeedsFile ==
  /\ Fault
  /\ route' = NoRoutes
  /\ UNCHANGED <<dbVars, handlerVars>>

HandlerStep(h) ==
  \/ SetPointer(h) \/ ListProjects(h) \/ WriteFile(h)
  \/ \E p \in Projects : LookUp(h, p)

Next ==
  \/ \E d \in Deployments : CreateRow(d) \/ Publish(d)
  \/ \E h \in Handlers :
       \/ \E d \in Deployments : BeginPromote(h, d)
       \/ HandlerStep(h)
       \/ RequestFails(h)
       \/ \E p \in Projects : LookUpFails(h, p)
  \/ InstallerSeedsFile

Spec == Init /\ [][Next]_vars

\* A request that is being served goes on; nobody is obliged to promote.
FairSpec == Spec /\ \A h \in Handlers : WF_vars(HandlerStep(h))

(***************************************************************************)
(* Properties.                                                             *)
(***************************************************************************)

\* Whatever promotes race and whatever fails, a production host reaches only a
\* deployment that somebody promoted, that has a container to name, and whose
\* project has that host.
RouteBacked ==
  \A k \in Hosts : route[k] # None =>
    /\ route[k] \in recorded \cap promoted
    /\ HostOf[ProjectOf[route[k]]] = k

Idle == \A h \in Handlers : pc[h] = "idle"

\* So far nothing has failed and nothing was promoted before it was published.
Regular == faults = 0 /\ ~early

\* The hosts of the projects S reach what the pointers say: where several
\* promoted projects have one host, the one created first has it.
Oldest(S) == {p \in S : \A q \in S : CreatedAt[p] <= CreatedAt[q]}
Claiming(ptr, S, k) == {p \in S : HostOf[p] = k /\ ptr[p] # None}
Serves(file, ptr, S) ==
  \A k \in Hosts :
    \/ Claiming(ptr, S, k) = {} /\ file[k] = None
    \/ \E p \in Oldest(Claiming(ptr, S, k)) : file[k] = ptr[p]

\* Served one at a time, regular promotes leave a file that says what the
\* database says whenever no request is being served.
RouteFollowsPointer == Regular /\ Idle => Serves(route, pointer, Projects)

\* For projects that share their host with no other, they make of the file an
\* alias per project: no promote touches the traffic of another project although
\* it rewrites everybody's, publishing moves none, and the host switches in one
\* step.
OwnHost == {p \in Projects : \A q \in Projects : HostOf[q] = HostOf[p] => q = p}
OwnHosted == {d \in Deployments : ProjectOf[d] \in OwnHost}
Alias == INSTANCE ProdAlias
           WITH Projects <- OwnHost, Deployments <- OwnHosted,
                route <- [p \in OwnHost |-> route[HostOf[p]]],
                recorded <- recorded \cap OwnHosted
ImplementsAlias == Alias!AliasInit /\ [][Regular' => Alias!AliasNext]_(Alias!aliasVars)

\* A file written from a complete reading - no failed look-up, nothing pointed
\* at that was not published - agrees with the database, whatever earlier
\* failures and seedings had left in it: the next promote of any project heals
\* all of them.  (One request at a time.)
NextPromoteHeals ==
  [][\A h \in Handlers :
       WriteFile(h) /\ missed[h] = {} => Serves(route', pointer, Projects)]_vars

GoesLive(d) ==
  \/ route[HostOf[ProjectOf[d]]] = d
  \/ pointer[ProjectOf[d]] # d
  \/ ~Regular

\* README.md:10, "Promote a deployment to production": when the pointer says
\* so, the production host comes to reach the deployment, unless the pointer
\* moves on first or something fails.
PromotedGoesLive ==
  \A d \in Deployments : pointer[ProjectOf[d]] = d ~> GoesLive(d)

\* The host of a project is taken by another that is no newer and was promoted.
HostTaken(p) == \E q \in Projects \ {p} : /\ HostOf[q] = HostOf[p]
                                          /\ pointer[q] # None
                                          /\ CreatedAt[q] <= CreatedAt[p]

\* What the code keeps of it, one request at a time: what is promoted goes live
\* unless an older project has its host.
UntakenGoesLive ==
  \A d \in Deployments :
    pointer[ProjectOf[d]] = d ~> GoesLive(d) \/ HostTaken(ProjectOf[d])
=============================================================================
