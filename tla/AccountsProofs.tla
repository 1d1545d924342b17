-------------------------- MODULE AccountsProofs ---------------------------
(***************************************************************************)
(* Proofs about Accounts, for any number of emails, GitHub accounts,       *)
(* concurrent requests, renamings and faults: at most one instance admin,  *)
(* the first user is one, and an account keeps the user it first had.  And *)
(* about Orgs, for any number of users, organizations and repositories: a  *)
(* repository stays where it was imported, and an organization nobody      *)
(* administers is lost.                                                    *)
(***************************************************************************)
EXTENDS Accounts, Orgs, FiniteSetTheorems, TLAPS

Callback == {"fetched", "creating", "linking", "storing"}

\* What a request holds at the step it is at.  The OAuth app is configured by an
\* instance admin, so no callback is under way before there is one.
LocalsOK(r) ==
  /\ pc[r] \in {"counting", "counted"} => who[r] \in Emails
  /\ pc[r] \in Callback =>
       admins # {} /\ gh[r] \in GitHubAccounts /\ name[r] \in Logins
  /\ pc[r] \in {"linking", "storing"} => who[r] \in users

AdminsOK ==
  /\ \A a, b \in admins : a = b
  /\ oauthOn => admins # {}
  /\ FirstIsAdmin

AccountsInv == TypeOK /\ AdminsOK /\ \A r \in Requests : LocalsOK(r)

\* An account that was neither renamed nor linked by somebody signed in has the
\* login it started with, and no user but the one of that login.
AccountOK(g) ==
  /\ g \notin renamed => login[g] = FirstLogin[g]
  /\ Plain(g) => identity[g] \in {None, FirstLogin[g]}

\* So has a callback for it.
CallbackOK(r) ==
  /\ pc[r] \in Callback /\ gh[r] \notin renamed => name[r] = FirstLogin[gh[r]]
  /\ pc[r] = "linking" /\ Plain(gh[r]) /\ session[r] = None =>
       who[r] = FirstLogin[gh[r]]

IdentityInv ==
  /\ \A g \in GitHubAccounts : AccountOK(g)
  /\ \A r \in Requests : CallbackOK(r)

\* The initial state satisfies both invariants.
LEMMA InitInv ==
  Init => AccountsInv /\ IdentityInv
  <1> SUFFICES ASSUME Init PROVE AccountsInv /\ IdentityInv
    OBVIOUS
  <1> USE AccountsAssumption DEF Init
  <1>1. Cardinality(renamed) <= MaxRenames
    BY FS_EmptySet
  <1>2. {oauthOn, bootstrapped} \subseteq BOOLEAN
    BY Zenon
  <1>3. TypeOK
    BY <1>1, <1>2 DEF TypeOK, Phases, Users
  <1>4. AdminsOK /\ \A r \in Requests : LocalsOK(r)
    BY DEF AdminsOK, FirstIsAdmin, LocalsOK, Callback
  <1>5. IdentityInv
    BY DEF IdentityInv, AccountOK, CallbackOK, Callback
  <1> QED BY <1>3, <1>4, <1>5 DEF AccountsInv

\* A request that is answered has no locals any more.
LEMMA Answered ==
  ASSUME NEW r \in Requests, AccountsInv, Answer(r),
         UNCHANGED <<userVars, identity, githubVars, claimed, oauthOn, api>>,
         token' \in [Users -> GitHubAccounts \cup {None}],
         cookies' \subseteq users \cap Logins, faults' \in 0..MaxFaults
  PROVE  AccountsInv'
  BY DEF AccountsInv, TypeOK, AdminsOK, FirstIsAdmin, LocalsOK, Answer, Callback, Phases,
         userVars, githubVars

\* Every step, a faulty one too, keeps what requests hold and who is an admin.
LEMMA StepInv ==
  AccountsInv /\ [Next]_vars => AccountsInv'
  <1> SUFFICES ASSUME AccountsInv, [Next]_vars PROVE AccountsInv'
    OBVIOUS
  <1> USE AccountsAssumption
          DEF AccountsInv, TypeOK, AdminsOK, FirstIsAdmin, LocalsOK, Callback, Phases,
              Users,
              userVars, linkVars, githubVars, localVars
  <1>1. ASSUME NEW e \in Bootstraps \cup {None}, Start(e) PROVE AccountsInv'
    <2>1. CASE e # None /\ users = {}
      <3>1. /\ users' = {e} /\ bootstrapped' = TRUE /\ api' = "up" /\ e \in Emails
            /\ UNCHANGED <<admins, linkVars, githubVars, localVars, oauthOn, cookies, faults>>
        BY <1>1, <2>1, Zenon DEF Start
      <3>2. {oauthOn, bootstrapped}' \subseteq BOOLEAN
        BY <3>1
      <3> QED BY <3>1, <3>2, <2>1
    <2>2. CASE ~(e # None /\ users = {})
      <3>1. /\ api' = "up" /\ UNCHANGED <<users, bootstrapped>>
            /\ UNCHANGED <<admins, linkVars, githubVars, localVars, oauthOn, cookies, faults>>
        BY <1>1, <2>2, Zenon DEF Start
      <3> QED BY <3>1
    <2> QED BY <2>1, <2>2
  <1>2. ASSUME NEW r \in Requests, NEW e \in Emails, BeginSetup(r, e) PROVE AccountsInv'
    BY <1>2 DEF BeginSetup
  <1>3. ASSUME NEW r \in Requests, CountUsers(r) PROVE AccountsInv'
    <2>1. CASE users = {}
      BY <1>3, <2>1 DEF CountUsers
    <2>2. CASE users # {}
      BY <1>3, <2>2, Answered DEF CountUsers
    <2> QED BY <2>1, <2>2
  <1>4. ASSUME NEW r \in Requests, CommitSetup(r) PROVE AccountsInv'
    <2>1. CASE users = {}
      <3>1. /\ users' = {who[r]} /\ admins' = {who[r]} /\ who[r] \in Emails
            /\ UNCHANGED <<bootstrapped, linkVars, githubVars, oauthOn, cookies, api, faults>>
        BY <1>4, <2>1, Zenon DEF CommitSetup
      <3>2. Answer(r)
        BY <1>4 DEF CommitSetup
      <3> QED BY <3>1, <3>2, <2>1 DEF Answer
    <2>2. CASE users # {}
      BY <1>4, <2>2, Answered DEF CommitSetup
    <2> QED BY <2>1, <2>2
  <1>5. ASSUME NEW r \in Requests, NEW g \in GitHubAccounts,
               NEW s \in CanBeSignedIn \cup {None}, BeginCallback(r, g, s)
        PROVE  AccountsInv'
    BY <1>5 DEF BeginCallback, CanBeSignedIn
  <1>6. ASSUME NEW r \in Requests, LookUp(r) PROVE AccountsInv'
    BY <1>6 DEF LookUp
  <1>7. ASSUME NEW r \in Requests, CreateUser(r) PROVE AccountsInv'
    <2>1. CASE name[r] \in users
      BY <1>7, <2>1, Answered DEF CreateUser
    <2>2. CASE name[r] \notin users
      BY <1>7, <2>2 DEF CreateUser
    <2> QED BY <2>1, <2>2
  <1>8. ASSUME NEW r \in Requests, Link(r) PROVE AccountsInv'
    BY <1>8 DEF Link
  <1>9. ASSUME NEW r \in Requests, StoreToken(r) PROVE AccountsInv'
    BY <1>9, Answered DEF StoreToken, SignIn
  <1>10. ASSUME NEW r \in Requests, RequestFails(r) PROVE AccountsInv'
    BY <1>10, Answered DEF RequestFails, Fault
  <1>11. ASSUME NEW r \in Requests, TokenFails(r) PROVE AccountsInv'
    BY <1>11, Answered DEF TokenFails, Fault, SignIn
  <1>12. ASSUME NEW u \in CanBeSignedIn, SessionEnds(u) PROVE AccountsInv'
    BY <1>12 DEF SessionEnds
  <1>13. ASSUME NEW u \in CanBeSignedIn, Disconnect(u) PROVE AccountsInv'
    BY <1>13 DEF Disconnect
  <1>14. CASE ConfigureOAuth
    <2>1. {oauthOn, bootstrapped}' \subseteq BOOLEAN
      BY <1>14, Zenon DEF ConfigureOAuth
    <2> QED BY <1>14, <2>1 DEF ConfigureOAuth
  <1>15. ASSUME NEW g \in GitHubAccounts, NEW l \in Logins, Rename(g, l)
         PROVE  AccountsInv'
    BY <1>15 DEF Rename
  <1>16. CASE ApiStops
    BY <1>16 DEF ApiStops, Fault
  <1>17. CASE UNCHANGED vars
    BY <1>17 DEF vars
  <1> QED BY <1>1, <1>2, <1>3, <1>4, <1>5, <1>6, <1>7, <1>8, <1>9, <1>10, <1>11, <1>12,
             <1>13, <1>14, <1>15, <1>16, <1>17 DEF Next

\* Every step keeps an account's login and user together, given the first invariant.
LEMMA IdentityStep ==
  AccountsInv /\ IdentityInv /\ [Next]_vars => IdentityInv'
  <1> SUFFICES ASSUME AccountsInv, IdentityInv, [Next]_vars PROVE IdentityInv'
    OBVIOUS
  <1> USE AccountsAssumption
          DEF AccountsInv, TypeOK, LocalsOK, IdentityInv, AccountOK, CallbackOK, Plain,
              Callback, Phases, Users, userVars, linkVars, githubVars, localVars
  <1>1. ASSUME NEW e \in Bootstraps \cup {None}, Start(e) PROVE IdentityInv'
    BY <1>1 DEF Start
  <1>2. ASSUME NEW r \in Requests, NEW e \in Emails, BeginSetup(r, e) PROVE IdentityInv'
    BY <1>2 DEF BeginSetup
  <1>3. ASSUME NEW r \in Requests, CountUsers(r) PROVE IdentityInv'
    BY <1>3 DEF CountUsers, Answer
  <1>4. ASSUME NEW r \in Requests, CommitSetup(r) PROVE IdentityInv'
    BY <1>4 DEF CommitSetup, Answer
  <1>5. ASSUME NEW r \in Requests, NEW g \in GitHubAccounts,
               NEW s \in CanBeSignedIn \cup {None}, BeginCallback(r, g, s)
        PROVE  IdentityInv'
    BY <1>5 DEF BeginCallback
  <1>6. ASSUME NEW r \in Requests, LookUp(r) PROVE IdentityInv'
    BY <1>6 DEF LookUp
  <1>7. ASSUME NEW r \in Requests, CreateUser(r) PROVE IdentityInv'
    BY <1>7 DEF CreateUser, Answer
  <1>8. ASSUME NEW r \in Requests, Link(r) PROVE IdentityInv'
    BY <1>8 DEF Link
  <1>9. ASSUME NEW r \in Requests, StoreToken(r) PROVE IdentityInv'
    BY <1>9 DEF StoreToken, Answer
  <1>10. ASSUME NEW r \in Requests, RequestFails(r) PROVE IdentityInv'
    BY <1>10 DEF RequestFails, Answer
  <1>11. ASSUME NEW r \in Requests, TokenFails(r) PROVE IdentityInv'
    BY <1>11 DEF TokenFails, Answer
  <1>12. ASSUME NEW u \in CanBeSignedIn, SessionEnds(u) PROVE IdentityInv'
    BY <1>12 DEF SessionEnds
  <1>13. ASSUME NEW u \in CanBeSignedIn, Disconnect(u) PROVE IdentityInv'
    BY <1>13 DEF Disconnect
  <1>14. CASE ConfigureOAuth
    BY <1>14 DEF ConfigureOAuth
  <1>15. ASSUME NEW g \in GitHubAccounts, NEW l \in Logins, Rename(g, l)
        PROVE  IdentityInv'
    BY <1>15 DEF Rename
  <1>16. CASE ApiStops
    BY <1>16 DEF ApiStops
  <1>17. CASE UNCHANGED vars
    BY <1>17 DEF vars
  <1> QED BY <1>1, <1>2, <1>3, <1>4, <1>5, <1>6, <1>7, <1>8, <1>9, <1>10, <1>11, <1>12,
             <1>13, <1>14, <1>15, <1>16, <1>17 DEF Next

\* So both invariants hold in every state.
LEMMA Invariance ==
  Spec => [](AccountsInv /\ IdentityInv)
  BY InitInv, StepInv, IdentityStep, PTL DEF Spec

\* No sequence of setups, logins, renamings and faults leaves the tables in a shape
\* the handlers do not expect.
THEOREM AccountsTypeCorrect ==
  Spec => []TypeOK
  BY Invariance, PTL DEF AccountsInv

\* Only the first setup makes an instance admin: a serializable transaction that
\* counted no users commits only if there still are none.
THEOREM OnlyFirstSetupWins ==
  Spec => []FirstSetupWins
  <1>1. AccountsInv => FirstSetupWins
    <2>1. SUFFICES ASSUME AccountsInv PROVE Cardinality(admins) <= 1
      BY DEF FirstSetupWins
    <2>2. CASE admins = {}
      BY <2>2, FS_EmptySet
    <2>3. CASE admins # {}
      <3>1. PICK a : a \in admins
        BY <2>3
      <3>2. admins = {a}
        BY <2>1, <3>1 DEF AccountsInv, AdminsOK
      <3> QED BY <3>2, FS_Singleton
    <2> QED BY <2>2, <2>3
  <1> QED BY <1>1, Invariance, PTL

\* An instance whose first user was not bootstrapped has an admin: logging in through
\* GitHub needs the OAuth app, which an admin configures.
THEOREM FirstUserIsAdmin ==
  Spec => []FirstIsAdmin
  BY Invariance, PTL DEF AccountsInv, AdminsOK

\* A login keeps its user: two first callbacks that race make one user, since the email
\* of both is the noreply address of the same login.
THEOREM LoginsKeepTheirUser ==
  Spec => LoginKeepsUser
  <1>1. (AccountsInv /\ IdentityInv) /\ (AccountsInv /\ IdentityInv)' /\ [Next]_vars =>
          [\A g \in GitHubAccounts :
             identity[g] # None /\ Plain(g)' => identity'[g] = identity[g]]_vars
    <2> SUFFICES ASSUME AccountsInv, IdentityInv, [Next]_vars, NEW g \in GitHubAccounts,
                        identity[g] # None, Plain(g)'
                 PROVE  identity'[g] = identity[g]
      BY DEF vars
    <2>1. ASSUME NEW r \in Requests, Link(r) PROVE identity'[g] = identity[g]
      <3>1. CASE gh[r] # g
        BY <2>1, <3>1 DEF Link, AccountsInv, TypeOK
      <3>2. CASE gh[r] = g
        <4>1. session[r] = None /\ Plain(g)
          BY <2>1, <3>2 DEF Link, Plain, githubVars
        <4>2. who[r] = FirstLogin[g] /\ identity[g] = FirstLogin[g]
          BY <2>1, <3>2, <4>1 DEF Link, IdentityInv, AccountOK, CallbackOK, Callback
        <4> QED BY <2>1, <3>2, <4>2 DEF Link, AccountsInv, TypeOK
      <3> QED BY <3>1, <3>2
    <2>2. CASE \A r \in Requests : ~Link(r)
      <3>1. UNCHANGED identity
        BY <2>2 DEF Next, vars, linkVars, userVars, localVars, githubVars, Start,
           BeginSetup,
               CountUsers, CommitSetup, BeginCallback, LookUp, CreateUser, StoreToken,
               RequestFails, TokenFails, SessionEnds, Disconnect, ConfigureOAuth, Rename,
               ApiStops
      <3> QED BY <3>1
    <2> QED BY <2>1, <2>2
  <1> QED BY <1>1, Invariance, PTL DEF LoginKeepsUser, Spec

\* A user nobody can sign in as is what a fault leaves, or an account that changed its
\* login or its user: the two inserts of a callback are both made.
THEOREM OrphansNeedFaults ==
  Spec => []OrphanUserNeedsFault
  <1>1. Init => OrphanUserNeedsFault
    BY DEF Init, OrphanUserNeedsFault
  <1>2. AccountsInv /\ IdentityInv /\ OrphanUserNeedsFault /\ [Next]_vars
          => OrphanUserNeedsFault'
    <2> SUFFICES ASSUME AccountsInv, IdentityInv, OrphanUserNeedsFault, [Next]_vars
                 PROVE  OrphanUserNeedsFault'
      OBVIOUS
    <2> USE AccountsAssumption
            DEF AccountsInv, TypeOK, LocalsOK, IdentityInv, AccountOK, CallbackOK, Plain,
                Callback, Phases, Users, userVars, linkVars, githubVars, localVars,
                OrphanUserNeedsFault
    <2>1. ASSUME NEW e \in Bootstraps \cup {None}, Start(e) PROVE OrphanUserNeedsFault'
      BY <2>1 DEF Start
    <2>2. ASSUME NEW r \in Requests, NEW e \in Emails, BeginSetup(r, e)
          PROVE  OrphanUserNeedsFault'
      BY <2>2 DEF BeginSetup
    <2>3. ASSUME NEW r \in Requests, CountUsers(r) PROVE OrphanUserNeedsFault'
      BY <2>3 DEF CountUsers, Answer
    <2>4. ASSUME NEW r \in Requests, CommitSetup(r) PROVE OrphanUserNeedsFault'
      BY <2>4 DEF CommitSetup, Answer
    <2>5. ASSUME NEW r \in Requests, NEW g \in GitHubAccounts,
                 NEW s \in CanBeSignedIn \cup {None}, BeginCallback(r, g, s)
          PROVE  OrphanUserNeedsFault'
      BY <2>5 DEF BeginCallback
    <2>6. ASSUME NEW r \in Requests, LookUp(r) PROVE OrphanUserNeedsFault'
      BY <2>6 DEF LookUp
    <2>7. ASSUME NEW r \in Requests, CreateUser(r) PROVE OrphanUserNeedsFault'
      BY <2>7 DEF CreateUser, Answer
    <2>8. ASSUME NEW r \in Requests, Link(r) PROVE OrphanUserNeedsFault'
      BY <2>8 DEF Link
    <2>9. ASSUME NEW r \in Requests, StoreToken(r) PROVE OrphanUserNeedsFault'
      BY <2>9 DEF StoreToken, Answer
    <2>10. ASSUME NEW r \in Requests, RequestFails(r) PROVE OrphanUserNeedsFault'
      BY <2>10 DEF RequestFails, Answer, Fault
    <2>11. ASSUME NEW r \in Requests, TokenFails(r) PROVE OrphanUserNeedsFault'
      BY <2>11 DEF TokenFails, Answer, Fault
    <2>12. ASSUME NEW u \in CanBeSignedIn, SessionEnds(u) PROVE OrphanUserNeedsFault'
      BY <2>12 DEF SessionEnds
    <2>13. ASSUME NEW u \in CanBeSignedIn, Disconnect(u) PROVE OrphanUserNeedsFault'
      BY <2>13 DEF Disconnect
    <2>14. CASE ConfigureOAuth
      BY <2>14 DEF ConfigureOAuth
    <2>15. ASSUME NEW g \in GitHubAccounts, NEW l \in Logins, Rename(g, l)
          PROVE  OrphanUserNeedsFault'
      BY <2>15 DEF Rename
    <2>16. CASE ApiStops
      BY <2>16 DEF ApiStops, Fault
    <2>17. CASE UNCHANGED vars
      BY <2>17 DEF vars
    <2> QED BY <2>1, <2>2, <2>3, <2>4, <2>5, <2>6, <2>7, <2>8, <2>9, <2>10, <2>11, <2>12,
               <2>13, <2>14, <2>15, <2>16, <2>17 DEF Next
  <1> QED BY <1>1, <1>2, Invariance, PTL DEF Spec

(***************************************************************************)
(* Organizations.                                                          *)
(***************************************************************************)

\* What a request has looked up by the step it is at: its organization exists unless
\* it is the one to create it, and its subject is a user or a repository.
LookedUpOK(r) ==
  /\ pc[r] \in {"creating", "enrolling"} => actor[r] \in People /\ org[r] \in Orgs
  /\ pc[r] \in {"enrolling", "adding", "removing", "choosing", "importing"} =>
       org[r] \in ToSet(orgs)
  /\ pc[r] \in {"adding", "removing"} => subject[r] \in People
  /\ pc[r] = "adding" => grant[r] \in Roles
  /\ pc[r] = "choosing" => actor[r] \in People
  /\ pc[r] \in {"choosing", "importing"} => subject[r] \in Repos

OrgsInv == OrgsTypeOK /\ \A r \in Requests : LookedUpOK(r)

\* What an organization more does to the list of them.
LEMMA AppendOrg ==
  ASSUME NEW s \in Seq(Orgs), NEW o \in Orgs, IsInjective(s), o \notin ToSet(s)
  PROVE  /\ Append(s, o) \in Seq(Orgs)
         /\ IsInjective(Append(s, o))
         /\ ToSet(Append(s, o)) = ToSet(s) \cup {o}
  <1> DEFINE t == Append(s, o)
  <1>1. /\ t \in Seq(Orgs) /\ Len(s) \in Nat /\ Len(t) = Len(s) + 1
        /\ DOMAIN s = 1..Len(s) /\ DOMAIN t = 1..Len(t)
        /\ t[Len(s) + 1] = o /\ \A i \in 1..Len(s) : t[i] = s[i]
    OBVIOUS
  <1>2. \A i \in DOMAIN s : s[i] \in ToSet(s)
    BY DEF ToSet
  <1>3. \A i \in DOMAIN t : i = Len(s) + 1 \/ i \in DOMAIN s
    BY <1>1
  <1>4. IsInjective(t)
    <2>1. SUFFICES ASSUME NEW i \in DOMAIN t, NEW j \in DOMAIN t, t[i] = t[j] PROVE i = j
      BY Zenon DEF IsInjective
    <2>2. \A a, b \in DOMAIN s : s[a] = s[b] => a = b
      BY Zenon DEF IsInjective
    <2> QED BY <1>1, <1>2, <1>3, <2>1, <2>2
  <1>5. ToSet(t) = ToSet(s) \cup {o}
    <2>1. ASSUME NEW i \in DOMAIN t PROVE t[i] \in ToSet(s) \cup {o}
      BY <1>1, <1>2, <1>3
    <2>2. ASSUME NEW i \in DOMAIN s PROVE i \in DOMAIN t /\ s[i] = t[i]
      BY <1>1
    <2>3. Len(s) + 1 \in DOMAIN t /\ t[Len(s) + 1] = o
      BY <1>1
    <2> QED BY <2>1, <2>2, <2>3, Zenon DEF ToSet
  <1> QED BY <1>1, <1>4, <1>5

\* What is listed is an organization, and is in the set of the listed ones.
LEMMA ListedOrg ==
  ASSUME NEW s \in Seq(Orgs)
  PROVE  ToSet(s) \subseteq Orgs /\ \A i \in DOMAIN s : s[i] \in ToSet(s)
  BY DEF ToSet

\* The instance setup left behind satisfies the invariant.
LEMMA OrgsInitInv ==
  OrgsInit => OrgsInv
  <1> SUFFICES ASSUME OrgsInit PROVE OrgsInv
    OBVIOUS
  <1> USE OrgsAssumption
  <1>1. /\ orgs \in Seq(Orgs) /\ Len(orgs) = 1 /\ DOMAIN orgs = {1} /\ orgs[1] = FirstOrg
    BY DEF OrgsInit
  <1>2. IsInjective(orgs)
    BY <1>1 DEF IsInjective
  <1>3. ToSet(orgs) = {FirstOrg}
    BY <1>1 DEF ToSet
  <1>4. /\ NoRow \in [People -> Roles \cup {None}]
        /\ [NoRow EXCEPT ![Founder] = "owner"] \in [People -> Roles \cup {None}]
    BY DEF NoRow, Roles
  <1>5. role \in [Orgs -> [People -> Roles \cup {None}]]
    BY <1>4 DEF OrgsInit
  <1>6. \A o \in Orgs \ ToSet(orgs) : \A u \in People : role[o][u] = None
    BY <1>3 DEF OrgsInit, NoRow
  <1>7. \A r \in Requests : LookedUpOK(r)
    BY DEF OrgsInit, LookedUpOK
  <1>8. /\ project \in [Repos -> ToSet(orgs) \cup {None}] /\ faults \in 0..MaxFaults
        /\ pc \in [Requests -> {"idle", "creating", "enrolling", "adding", "removing",
                                "choosing", "importing"}]
        /\ actor \in [Requests -> People \cup {None}]
        /\ org \in [Requests -> Orgs \cup {None}]
        /\ subject \in [Requests -> People \cup Repos \cup {None}]
        /\ grant \in [Requests -> Roles \cup {None}]
    BY DEF OrgsInit
  <1> QED BY <1>1, <1>2, <1>5, <1>6, <1>7, <1>8 DEF OrgsInv, OrgsTypeOK

\* A request that is answered has no locals any more.
LEMMA Responded ==
  ASSUME NEW r \in Requests, OrgsInv, Respond(r), UNCHANGED <<orgs, role, project>>,
         faults' \in 0..MaxFaults
  PROVE  OrgsInv'
  BY DEF OrgsInv, OrgsTypeOK, Respond, LookedUpOK

\* Every step of a request, or its failure, keeps it.
LEMMA OrgsStepInv ==
  OrgsInv /\ [OrgsNext]_orgsVars => OrgsInv'
  <1> SUFFICES ASSUME OrgsInv, [OrgsNext]_orgsVars PROVE OrgsInv'
    OBVIOUS
  <1> USE OrgsAssumption DEF OrgsInv, OrgsTypeOK
  <1>0. ToSet(orgs) \subseteq Orgs /\ \A i \in DOMAIN orgs : orgs[i] \in ToSet(orgs)
    BY ListedOrg
  <1>1. ASSUME NEW r \in Requests, NEW u \in People, NEW o \in Orgs,
               BeginCreateOrg(r, u, o) PROVE OrgsInv'
    BY <1>0, <1>1 DEF BeginCreateOrg, Serve, LookedUpOK
  <1>2. ASSUME NEW r \in Requests, CreateOrganization(r) PROVE OrgsInv'
    <2>1. CASE org[r] \in ToSet(orgs)
      <3>1. Respond(r) /\ UNCHANGED <<orgs, role, project, faults>>
        BY <1>2, <2>1 DEF CreateOrganization
      <3> QED BY <1>0, <3>1, Responded
    <2>2. CASE org[r] \notin ToSet(orgs)
      <3>1. org[r] \in Orgs /\ actor[r] \in People
        BY <1>2 DEF CreateOrganization, LookedUpOK
      <3>2. /\ orgs' = Append(orgs, org[r]) /\ UNCHANGED <<role, project, faults>>
            /\ Serve(r, "enrolling", actor[r], org[r], None, None)
        BY <1>2, <2>2 DEF CreateOrganization
      <3>3. orgs \in Seq(Orgs) /\ IsInjective(orgs)
        OBVIOUS
      <3>4. /\ orgs' \in Seq(Orgs) /\ IsInjective(orgs')
            /\ ToSet(orgs') = ToSet(orgs) \cup {org[r]}
        BY <2>2, <3>1, <3>2, <3>3, AppendOrg, Zenon
      <3>5. OrgsTypeOK'
        BY <3>1, <3>2, <3>4 DEF Serve
      <3>6. \A q \in Requests : LookedUpOK(q)'
        BY <3>1, <3>2, <3>4 DEF Serve, LookedUpOK
      <3> QED BY <3>5, <3>6
    <2> QED BY <2>1, <2>2
  <1>3. ASSUME NEW r \in Requests, EnrolOwner(r) PROVE OrgsInv'
    BY <1>0, <1>3 DEF EnrolOwner, Respond, LookedUpOK, Roles
  <1>4. ASSUME NEW r \in Requests, NEW u \in People, NEW v \in People,
               NEW o \in ToSet(orgs), NEW g \in Roles, BeginAddMember(r, u, o, v, g)
        PROVE OrgsInv'
    BY <1>0, <1>4 DEF BeginAddMember, Serve, LookedUpOK
  <1>5. ASSUME NEW r \in Requests, NEW u \in People, NEW v \in People,
               NEW o \in ToSet(orgs), BeginRemoveMember(r, u, o, v) PROVE OrgsInv'
    BY <1>0, <1>5 DEF BeginRemoveMember, Serve, LookedUpOK
  <1>6. ASSUME NEW r \in Requests, AddOrgMember(r) PROVE OrgsInv'
    BY <1>0, <1>6 DEF AddOrgMember, Respond, LookedUpOK
  <1>7. ASSUME NEW r \in Requests, RemoveOrgMember(r) PROVE OrgsInv'
    BY <1>0, <1>7 DEF RemoveOrgMember, Respond, LookedUpOK
  <1>8. ASSUME NEW r \in Requests, NEW u \in People, NEW x \in Repos,
               NEW o \in ToSet(orgs), BeginImport(r, u, o, x) PROVE OrgsInv'
    BY <1>0, <1>8 DEF BeginImport, Serve, LookedUpOK
  <1>9. ASSUME NEW r \in Requests, NEW u \in People, NEW x \in Repos,
               BeginCompatCreate(r, u, x) PROVE OrgsInv'
    <2>1. PICK i \in DOMAIN orgs : Serve(r, "choosing", u, orgs[i], x, None)
      BY <1>9 DEF BeginCompatCreate
    <2>2. orgs[i] \in ToSet(orgs)
      BY <1>0
    <2> QED BY <1>0, <1>9, <2>1, <2>2 DEF BeginCompatCreate, Serve, LookedUpOK
  <1>10. ASSUME NEW r \in Requests, CheckChosen(r) PROVE OrgsInv'
    <2>1. CASE MayAdminister(actor[r], org[r])
      <3>1. /\ Serve(r, "importing", None, org[r], subject[r], None)
            /\ UNCHANGED <<orgs, role, project, faults>>
        BY <1>10, <2>1 DEF CheckChosen
      <3>2. org[r] \in ToSet(orgs) /\ subject[r] \in Repos
        BY <1>10 DEF CheckChosen, LookedUpOK
      <3> QED BY <1>0, <3>1, <3>2 DEF Serve, LookedUpOK
    <2>2. CASE ~MayAdminister(actor[r], org[r])
      BY <1>10, <2>2, Responded DEF CheckChosen
    <2> QED BY <2>1, <2>2
  <1>11. ASSUME NEW r \in Requests, CreateProject(r) PROVE OrgsInv'
    BY <1>0, <1>11 DEF CreateProject, Respond, LookedUpOK
  <1>12. ASSUME NEW r \in Requests, OrgRequestFails(r) PROVE OrgsInv'
    BY <1>0, <1>12 DEF OrgRequestFails, Respond, LookedUpOK
  <1>13. CASE UNCHANGED orgsVars
    BY <1>13 DEF orgsVars, lookedUp, LookedUpOK
  <1> QED BY <1>1, <1>2, <1>3, <1>4, <1>5, <1>6, <1>7, <1>8, <1>9, <1>10, <1>11, <1>12,
             <1>13 DEF OrgsNext

\* So it holds in every state.
LEMMA OrgsInvariance ==
  OrgsSpec => []OrgsInv
  BY OrgsInitInv, OrgsStepInv, PTL DEF OrgsSpec

\* However many requests are served at once, what they have looked up is of its type,
\* slugs are unique, and an organization that is not there has no members.
THEOREM OrgsTypeCorrect ==
  OrgsSpec => []OrgsTypeOK
  <1>1. OrgsInv => OrgsTypeOK
    BY DEF OrgsInv
  <1> QED BY <1>1, OrgsInvariance, PTL

\* Nobody comes to administer an abandoned organization, and its slug stays taken:
\* every grant was let through by somebody who administered the organization then.
THEOREM AbandonedIsForever ==
  OrgsSpec => AbandonedForever
  <1>1. OrgsInv /\ [OrgsNext]_orgsVars => \A o \in Orgs : Abandoned(o) => Abandoned(o)'
    <2> SUFFICES ASSUME OrgsInv, [OrgsNext]_orgsVars, NEW o \in Orgs, Abandoned(o)
                 PROVE  Abandoned(o)'
      OBVIOUS
    <2> USE DEF Abandoned, MayAdminister, OrgsInv, OrgsTypeOK, LookedUpOK
    <2>0. ToSet(orgs) \subseteq Orgs
      BY ListedOrg
    <2>1. ASSUME NEW r \in Requests, NEW u \in People, NEW p \in Orgs,
                 BeginCreateOrg(r, u, p) PROVE Abandoned(o)'
      BY <2>1 DEF BeginCreateOrg, Serve
    <2>2. ASSUME NEW r \in Requests, CreateOrganization(r) PROVE Abandoned(o)'
      <3>1. CASE org[r] \in ToSet(orgs)
        BY <2>2, <3>1 DEF CreateOrganization, Respond
      <3>2. CASE org[r] \notin ToSet(orgs)
        <4>1. ToSet(orgs') = ToSet(orgs) \cup {org[r]}
          BY <2>2, <3>2, AppendOrg DEF CreateOrganization
        <4> QED BY <2>2, <3>2, <4>1 DEF CreateOrganization, Serve
      <3> QED BY <3>1, <3>2
    <2>3. ASSUME NEW r \in Requests, EnrolOwner(r) PROVE Abandoned(o)'
      BY <2>3 DEF EnrolOwner, Respond
    <2>4. ASSUME NEW r \in Requests, NEW u \in People, NEW v \in People,
                 NEW p \in ToSet(orgs), NEW g \in Roles, BeginAddMember(r, u, p, v, g)
          PROVE Abandoned(o)'
      BY <2>4 DEF BeginAddMember, Serve
    <2>5. ASSUME NEW r \in Requests, NEW u \in People, NEW v \in People,
                 NEW p \in ToSet(orgs), BeginRemoveMember(r, u, p, v)
          PROVE Abandoned(o)'
      BY <2>5 DEF BeginRemoveMember, Serve
    <2>6. ASSUME NEW r \in Requests, AddOrgMember(r) PROVE Abandoned(o)'
      BY <2>6 DEF AddOrgMember, Respond
    <2>7. ASSUME NEW r \in Requests, RemoveOrgMember(r) PROVE Abandoned(o)'
      BY <2>7 DEF RemoveOrgMember, Respond
    <2>8. ASSUME NEW r \in Requests, NEW u \in People, NEW x \in Repos,
                 NEW p \in ToSet(orgs), BeginImport(r, u, p, x) PROVE Abandoned(o)'
      BY <2>8 DEF BeginImport, Serve
    <2>9. ASSUME NEW r \in Requests, NEW u \in People, NEW x \in Repos,
                 BeginCompatCreate(r, u, x) PROVE Abandoned(o)'
      <3>1. PICK i \in DOMAIN orgs : Serve(r, "choosing", u, orgs[i], x, None)
        BY <2>9 DEF BeginCompatCreate
      <3> QED BY <2>9, <3>1 DEF BeginCompatCreate, Serve
    <2>10. ASSUME NEW r \in Requests, CheckChosen(r) PROVE Abandoned(o)'
      BY <2>10 DEF CheckChosen, Serve, Respond
    <2>11. ASSUME NEW r \in Requests, CreateProject(r) PROVE Abandoned(o)'
      BY <2>11 DEF CreateProject, Respond
    <2>12. ASSUME NEW r \in Requests, OrgRequestFails(r) PROVE Abandoned(o)'
      BY <2>12 DEF OrgRequestFails, Respond
    <2>13. CASE UNCHANGED orgsVars
      BY <2>13 DEF orgsVars, lookedUp
    <2> QED BY <2>1, <2>2, <2>3, <2>4, <2>5, <2>6, <2>7, <2>8, <2>9, <2>10, <2>11, <2>12,
               <2>13 DEF OrgsNext
  <1> QED BY <1>1, OrgsInvariance, PTL DEF AbandonedForever, OrgsSpec
=============================================================================
