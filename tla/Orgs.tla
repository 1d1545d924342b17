------------------------------- MODULE Orgs -------------------------------
(***************************************************************************)
(* Organizations, their members and their projects (internal/api/orgs.go,  *)
(* org_auth.go, projects.go, import_project.go).  Every handler checks the *)
(* caller's role with one statement and acts with another; creating an     *)
(* organization takes two inserts and no transaction.                      *)
(*                                                                         *)
(* The setup form creates the first organization and its owner in one      *)
(* transaction (module Accounts).  Organizations and projects are never    *)
(* deleted; an organization is named by its slug, a project by its         *)
(* repository, which are unique in their tables.                           *)
(***************************************************************************)
EXTENDS ApiRequests, Naturals, Sequences, SequencesExt

CONSTANTS People,      \* users
          Orgs,        \* slugs somebody may choose
          Repos,       \* repository names
          Founder, FirstOrg    \* what setup created

ASSUME OrgsAssumption ==
  /\ Founder \in People
  /\ FirstOrg \in Orgs
  /\ None \notin People \cup Orgs \cup Repos
  /\ MaxFaults \in Nat

VARIABLES orgs,        \* organizations, oldest first
          role,        \* organization_memberships; None: no row
          project,     \* the organization each repository's project is in
          actor, org, subject, grant   \* the locals of each request

lookedUp == <<pc, actor, org, subject, grant>>
orgsVars == <<orgs, role, project, lookedUp, faults>>

Roles == {"owner", "admin", "member"}

\* requireOrgRole(.., "admin").
MayAdminister(u, o) == role[o][u] \in {"owner", "admin"}

OrgsTypeOK ==
  /\ orgs \in Seq(Orgs) /\ IsInjective(orgs)
  /\ role \in [Orgs -> [People -> Roles \cup {None}]]
  /\ \A o \in Orgs \ ToSet(orgs) : \A u \in People : role[o][u] = None
  /\ project \in [Repos -> ToSet(orgs) \cup {None}]
  /\ pc \in [Requests -> {"idle", "creating", "enrolling", "adding", "removing",
                          "choosing", "importing"}]
  /\ actor \in [Requests -> People \cup {None}]
  /\ org \in [Requests -> Orgs \cup {None}]
  /\ subject \in [Requests -> People \cup Repos \cup {None}]
  /\ grant \in [Requests -> Roles \cup {None}]
  /\ faults \in 0..MaxFaults

NoRow == [u \in People |-> None]

OrgsInit ==
  /\ orgs = <<FirstOrg>>
  /\ role = [o \in Orgs |->
               IF o = FirstOrg THEN [NoRow EXCEPT ![Founder] = "owner"] ELSE NoRow]
  /\ project = [x \in Repos |-> None]
  /\ pc = [r \in Requests |-> "idle"]
  /\ actor = [r \in Requests |-> None]
  /\ org = [r \in Requests |-> None]
  /\ subject = [r \in Requests |-> None]
  /\ grant = [r \in Requests |-> None]
  /\ faults = 0

Respond(r) ==
  /\ pc' = [pc EXCEPT ![r] = "idle"]
  /\ actor' = [actor EXCEPT ![r] = None]
  /\ org' = [org EXCEPT ![r] = None]
  /\ subject' = [subject EXCEPT ![r] = None]
  /\ grant' = [grant EXCEPT ![r] = None]

\* Request r goes on at step next with these locals; the caller, u, is kept as
\* long as it is asked for.
Serve(r, next, u, o, s, g) ==
  /\ pc' = [pc EXCEPT ![r] = next]
  /\ actor' = [actor EXCEPT ![r] = u]
  /\ org' = [org EXCEPT ![r] = o]
  /\ subject' = [subject EXCEPT ![r] = s]
  /\ grant' = [grant EXCEPT ![r] = g]

(***************************************************************************)
(* POST /orgs: anyone who is signed in.                                    *)
(***************************************************************************)
BeginCreateOrg(r, u, o) ==
  /\ pc[r] = "idle"
  /\ Serve(r, "creating", u, o, None, None)
  /\ UNCHANGED <<orgs, role, project, faults>>

\* The first insert; a slug that is taken is an error.
CreateOrganization(r) ==
  /\ pc[r] = "creating"
  /\ IF org[r] \in ToSet(orgs)
     THEN Respond(r) /\ UNCHANGED orgs
     ELSE /\ orgs' = Append(orgs, org[r])
          /\ Serve(r, "enrolling", actor[r], org[r], None, None)
  /\ UNCHANGED <<role, project, faults>>

\* The second: its creator becomes the owner.
EnrolOwner(r) ==
  /\ pc[r] = "enrolling"
  /\ role' = [role EXCEPT ![org[r]][actor[r]] = "owner"]
  /\ Respond(r)
  /\ UNCHANGED <<orgs, project, faults>>

(***************************************************************************)
(* Members.                                                                *)
(***************************************************************************)

\* A faulty BeginAddMember: members may add members.
BeginAddByMember(r, u, o, v, g) ==
  /\ pc[r] = "idle"
  /\ role[o][u] # None
  /\ Serve(r, "adding", None, o, v, g)
  /\ UNCHANGED <<orgs, role, project, faults>>

\* handleAddOrgMember: u is an admin of o, and v is a user.
BeginAddMember(r, u, o, v, g) ==
  /\ pc[r] = "idle"
  /\ MayAdminister(u, o)
  /\ Serve(r, "adding", None, o, v, g)
  /\ UNCHANGED <<orgs, role, project, faults>>

\* AddOrgMember: a member's role is replaced, an owner's too.  What the caller is
\* by now is not looked at again.
AddOrgMember(r) ==
  /\ pc[r] = "adding"
  /\ role' = [role EXCEPT ![org[r]][subject[r]] = grant[r]]
  /\ Respond(r)
  /\ UNCHANGED <<orgs, project, faults>>

\* handleRemoveOrgMember: oneself and the last owner too.
BeginRemoveMember(r, u, o, v) ==
  /\ pc[r] = "idle"
  /\ MayAdminister(u, o)
  /\ Serve(r, "removing", None, o, v, None)
  /\ UNCHANGED <<orgs, role, project, faults>>

RemoveOrgMember(r) ==
  /\ pc[r] = "removing"
  /\ role' = [role EXCEPT ![org[r]][subject[r]] = None]
  /\ Respond(r)
  /\ UNCHANGED <<orgs, project, faults>>

(***************************************************************************)
(* Projects.                                                               *)
(***************************************************************************)

\* handleCreateProjectInOrg and handleImportProjectInOrg: u is an admin of o.
BeginImport(r, u, o, x) ==
  /\ pc[r] = "idle"
  /\ MayAdminister(u, o)
  /\ Serve(r, "importing", None, o, x, None)
  /\ UNCHANGED <<orgs, role, project, faults>>

\* handleCreateProject without an organization takes the oldest one the caller
\* is a member of; someone who is in none is refused.
BeginCompatCreate(r, u, x) ==
  /\ pc[r] = "idle"
  /\ \E i \in DOMAIN orgs :
       /\ role[orgs[i]][u] # None
       /\ \A j \in 1..(i - 1) : role[orgs[j]][u] = None
       /\ Serve(r, "choosing", u, orgs[i], x, None)
  /\ UNCHANGED <<orgs, role, project, faults>>

\* It then needs the caller to be an admin there.
CheckChosen(r) ==
  /\ pc[r] = "choosing"
  /\ IF MayAdminister(actor[r], org[r])
     THEN Serve(r, "importing", None, org[r], subject[r], None)
     ELSE Respond(r)
  /\ UNCHANGED <<orgs, role, project, faults>>

\* GitHub has been asked; the insert fails if some organization has the
\* repository already.
CreateProject(r) ==
  /\ pc[r] = "importing"
  /\ project' = IF project[subject[r]] = None
                THEN [project EXCEPT ![subject[r]] = org[r]] ELSE project
  /\ Respond(r)
  /\ UNCHANGED <<orgs, role, faults>>

(***************************************************************************)
(* Faults.                                                                 *)
(***************************************************************************)

\* A statement or GitHub fails, the browser cancels, or the API dies.
OrgRequestFails(r) ==
  /\ faults < MaxFaults /\ faults' = faults + 1
  /\ pc[r] # "idle"
  /\ Respond(r)
  /\ UNCHANGED <<orgs, role, project>>

OrgsNext ==
  \E r \in Requests :
    \/ \E u \in People, o \in Orgs : BeginCreateOrg(r, u, o)
    \/ CreateOrganization(r) \/ EnrolOwner(r)
    \/ \E u, v \in People, o \in ToSet(orgs) :
         \/ \E g \in Roles : BeginAddMember(r, u, o, v, g)
         \/ BeginRemoveMember(r, u, o, v)
    \/ AddOrgMember(r) \/ RemoveOrgMember(r)
    \/ \E u \in People, x \in Repos :
         \/ \E o \in ToSet(orgs) : BeginImport(r, u, o, x)
         \/ BeginCompatCreate(r, u, x)
    \/ CheckChosen(r) \/ CreateProject(r)
    \/ OrgRequestFails(r)

OrgsSpec == OrgsInit /\ [][OrgsNext]_orgsVars

(***************************************************************************)
(* Properties.                                                             *)
(***************************************************************************)

\* Nobody administers o and no request that may is on its way.
Abandoned(o) ==
  /\ o \in ToSet(orgs)
  /\ \A u \in People : ~MayAdminister(u, o)
  /\ \A r \in Requests :
       org[r] = o => pc[r] \notin {"enrolling", "adding", "removing", "importing"}

\* An organization that lost its last administrator, or never got one because
\* the second insert failed, stays as it is: nobody comes to administer it, and
\* nobody can take its slug.
AbandonedForever == [][\A o \in Orgs : Abandoned(o) => Abandoned(o)']_orgsVars
=============================================================================
