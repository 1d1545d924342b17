----------------------------- MODULE Accounts -----------------------------
(***************************************************************************)
(* Where users come from: the setup form (handleSetup in                   *)
(* internal/api/setup.go), the bootstrap variables read at the start of    *)
(* the API (BootstrapAdmin in internal/api/auth.go) and a login through    *)
(* GitHub (handleGitHubOAuthCallback in internal/api/oauth_github.go).     *)
(*                                                                         *)
(* Users are never deleted and their emails never change, so a user is     *)
(* named by the email: one somebody typed, or the noreply address of a     *)
(* GitHub login, for which the login itself stands.                        *)
(***************************************************************************)
EXTENDS ApiRequests, Naturals, FiniteSets

CONSTANTS Emails,           \* emails typed into the setup form
          Bootstraps,       \* those the variables of the API may name
          GitHubAccounts,   \* provider_user_id
          Logins,           \* GitHub login names, and the users made for them
          FirstLogin,       \* the login each account starts with
          MaxRenames        \* bound: renamings of GitHub accounts

Users == Emails \cup Logins

ASSUME AccountsAssumption ==
  /\ Bootstraps \subseteq Emails
  /\ Emails \cap Logins = {}
  /\ FirstLogin \in [GitHubAccounts -> Logins]
  /\ \A g, h \in GitHubAccounts : FirstLogin[g] = FirstLogin[h] => g = h
  /\ None \notin Users \cup GitHubAccounts
  /\ MaxRenames \in Nat
  /\ MaxFaults \in Nat

VARIABLES users,         \* the table users: email is UNIQUE
          admins,        \* those with is_instance_admin
          identity,      \* user_identities: the user of each GitHub account
          token,         \* github_oauth_tokens: whose token each user has
          oauthOn,       \* is the OAuth app configured in instance_settings?
          cookies,       \* GitHub users somebody holds a valid session of
          login,         \* at GitHub: the present login of each account
          api,           \* "up" or "down"
          who, gh, name, session,   \* the locals of each request
          bootstrapped,  \* history: did a bootstrap make a user?
          claimed,       \* history: accounts linked by somebody signed in
          renamed        \* history: accounts whose login has changed

userVars == <<users, admins, bootstrapped>>
linkVars == <<identity, token, claimed>>
githubVars == <<login, renamed>>
localVars == <<pc, who, gh, name, session>>
vars == <<userVars, linkVars, githubVars, localVars, oauthOn, cookies, api, faults>>

Phases == {"idle", "counting", "counted", "fetched", "creating", "linking", "storing"}

TypeOK ==
  /\ users \subseteq Users
  /\ admins \subseteq users /\ cookies \subseteq users \cap Logins
  /\ identity \in [GitHubAccounts -> users \cup {None}]
  /\ token \in [Users -> GitHubAccounts \cup {None}]
  /\ login \in [GitHubAccounts -> Logins]
  /\ claimed \subseteq GitHubAccounts /\ renamed \subseteq GitHubAccounts
  /\ {oauthOn, bootstrapped} \subseteq BOOLEAN
  /\ api \in {"up", "down"}
  /\ pc \in [Requests -> Phases]
  /\ who \in [Requests -> Users \cup {None}]
  /\ gh \in [Requests -> GitHubAccounts \cup {None}]
  /\ name \in [Requests -> Logins \cup {None}]
  /\ session \in [Requests -> users \cup {None}]
  /\ Cardinality(renamed) <= MaxRenames
  /\ faults \in 0..MaxFaults

Init ==
  /\ users = {} /\ admins = {} /\ cookies = {}
  /\ identity = [g \in GitHubAccounts |-> None]
  /\ token = [u \in Users |-> None]
  /\ oauthOn = FALSE /\ bootstrapped = FALSE
  /\ login = FirstLogin
  /\ api = "down"
  /\ pc = [r \in Requests |-> "idle"]
  /\ who = [r \in Requests |-> None]
  /\ gh = [r \in Requests |-> None]
  /\ name = [r \in Requests |-> None]
  /\ session = [r \in Requests |-> None]
  /\ claimed = {} /\ renamed = {}
  /\ faults = 0

\* The answer is sent; the locals go away.
Answer(r) ==
  /\ pc' = [pc EXCEPT ![r] = "idle"]
  /\ who' = [who EXCEPT ![r] = None]
  /\ gh' = [gh EXCEPT ![r] = None]
  /\ name' = [name EXCEPT ![r] = None]
  /\ session' = [session EXCEPT ![r] = None]

(***************************************************************************)
(* The start of the API.                                                   *)
(***************************************************************************)

\* main: BootstrapAdmin runs before the server listens.  e is the email in the
\* environment, None when the variables are empty.  The user it creates has the
\* column's default, is_instance_admin = false.
Start(e) ==
  /\ api = "down"
  /\ api' = "up"
  /\ IF e # None /\ users = {}
     THEN users' = {e} /\ bootstrapped' = TRUE
     ELSE UNCHANGED <<users, bootstrapped>>
  /\ UNCHANGED <<admins, linkVars, githubVars, localVars, oauthOn, cookies, faults>>

(***************************************************************************)
(* POST /api/setup.                                                        *)
(***************************************************************************)

\* The form is validated and a serializable transaction begins.
BeginSetup(r, e) ==
  /\ api = "up" /\ pc[r] = "idle"
  /\ pc' = [pc EXCEPT ![r] = "counting"]
  /\ who' = [who EXCEPT ![r] = e]
  /\ UNCHANGED <<userVars, linkVars, githubVars, gh, name, session, oauthOn,
                 cookies, api, faults>>

\* SELECT COUNT( * ) FROM users.
CountUsers(r) ==
  /\ pc[r] = "counting"
  /\ IF users = {}
     THEN /\ pc' = [pc EXCEPT ![r] = "counted"]
          /\ UNCHANGED <<who, gh, name, session>>
     ELSE Answer(r)
  /\ UNCHANGED <<userVars, linkVars, githubVars, oauthOn, cookies, api, faults>>

\* A faulty CommitSetup: the transaction runs at the default isolation level, and
\* only the same email twice is a conflict.
CommitReadCommitted(r) ==
  /\ pc[r] = "counted"
  /\ IF who[r] \notin users
     THEN users' = users \cup {who[r]} /\ admins' = admins \cup {who[r]}
     ELSE UNCHANGED <<users, admins>>
  /\ Answer(r)
  /\ UNCHANGED <<bootstrapped, linkVars, githubVars, oauthOn, cookies, api, faults>>

\* The inserts and the commit.  Postgres lets one of two serializable
\* transactions commit that both counted no users and then inserted one; the
\* other gets an error, at the latest here, and leaves nothing.
CommitSetup(r) ==
  /\ pc[r] = "counted"
  /\ IF users = {}
     THEN users' = {who[r]} /\ admins' = {who[r]}
     ELSE UNCHANGED <<users, admins>>
  /\ Answer(r)
  /\ UNCHANGED <<bootstrapped, linkVars, githubVars, oauthOn, cookies, api, faults>>

(***************************************************************************)
(* Sessions and settings.                                                  *)
(***************************************************************************)

\* Who typed an email knows the password and can sign in at any time
\* (handleLogin); nobody knows the password of a GitHub user, who is signed in
\* while a cookie of the last callback is valid.
CanBeSignedIn == (users \cap Emails) \cup cookies

SignIn(u) == cookies' = cookies \cup ({u} \cap Logins)

\* Logout, or seven days.
SessionEnds(u) ==
  /\ u \in cookies
  /\ cookies' = cookies \ {u}
  /\ UNCHANGED <<userVars, linkVars, githubVars, localVars, oauthOn, api, faults>>

\* A faulty ConfigureOAuth: no instance admin is needed.
ConfigureUnchecked ==
  /\ api = "up"
  /\ oauthOn' = ~oauthOn
  /\ UNCHANGED <<userVars, linkVars, githubVars, localVars, cookies, api, faults>>

\* An instance admin saves the OAuth app's id and secret, or empties them.
ConfigureOAuth ==
  /\ api = "up"
  /\ admins # {}
  /\ oauthOn' = ~oauthOn
  /\ UNCHANGED <<userVars, linkVars, githubVars, localVars, cookies, api, faults>>

\* handleGitHubDisconnect deletes the token; the identity stays.
Disconnect(u) ==
  /\ api = "up"
  /\ u \in CanBeSignedIn /\ token[u] # None
  /\ token' = [token EXCEPT ![u] = None]
  /\ UNCHANGED <<userVars, identity, claimed, githubVars, localVars, oauthOn,
                 cookies, api, faults>>

(***************************************************************************)
(* GET /api/auth/github/callback.                                          *)
(***************************************************************************)

\* The code is exchanged and GitHub names the account and its login.  The
\* browser may carry the session of a user, s.
BeginCallback(r, g, s) ==
  /\ api = "up" /\ pc[r] = "idle"
  /\ oauthOn
  /\ pc' = [pc EXCEPT ![r] = "fetched"]
  /\ gh' = [gh EXCEPT ![r] = g]
  /\ name' = [name EXCEPT ![r] = login[g]]
  /\ session' = [session EXCEPT ![r] = s]
  /\ UNCHANGED <<userVars, linkVars, githubVars, who, oauthOn, cookies, api, faults>>

\* GetUserIdentity.  The session decides, then the identity.
LookUp(r) ==
  /\ pc[r] = "fetched"
  /\ LET u == IF session[r] # None THEN session[r] ELSE identity[gh[r]] IN
       /\ who' = [who EXCEPT ![r] = u]
       /\ pc' = [pc EXCEPT ![r] = IF u = None THEN "creating" ELSE "linking"]
  /\ UNCHANGED <<userVars, linkVars, githubVars, gh, name, session, oauthOn,
                 cookies, api, faults>>

\* A faulty CreateUser: a name that is taken is replaced by another.
CreateUserAnyName(r) ==
  /\ pc[r] = "creating"
  /\ \E l \in Logins \ users :
       /\ name[r] \in users \/ l = name[r]
       /\ users' = users \cup {l}
       /\ who' = [who EXCEPT ![r] = l]
  /\ pc' = [pc EXCEPT ![r] = "linking"]
  /\ UNCHANGED <<admins, bootstrapped, linkVars, githubVars, gh, name, session,
                 oauthOn, cookies, api, faults>>

\* A user for the login's noreply address, with a password nobody knows.  When
\* the address is taken the request fails.
CreateUser(r) ==
  /\ pc[r] = "creating"
  /\ IF name[r] \in users
     THEN Answer(r) /\ UNCHANGED users
     ELSE /\ users' = users \cup {name[r]}
          /\ who' = [who EXCEPT ![r] = name[r]]
          /\ pc' = [pc EXCEPT ![r] = "linking"]
          /\ UNCHANGED <<gh, name, session>>
  /\ UNCHANGED <<admins, bootstrapped, linkVars, githubVars, oauthOn, cookies,
                 api, faults>>

\* UpsertUserIdentity: the last one to link an account has it.
Link(r) ==
  /\ pc[r] = "linking"
  /\ identity' = [identity EXCEPT ![gh[r]] = who[r]]
  /\ claimed' = IF session[r] # None THEN claimed \cup {gh[r]} ELSE claimed
  /\ pc' = [pc EXCEPT ![r] = "storing"]
  /\ UNCHANGED <<userVars, token, githubVars, who, gh, name, session, oauthOn,
                 cookies, api, faults>>

\* UpsertGitHubOAuthToken, whose error is ignored, and the session cookie.
StoreToken(r) ==
  /\ pc[r] = "storing"
  /\ token' = [token EXCEPT ![who[r]] = gh[r]]
  /\ SignIn(who[r])
  /\ Answer(r)
  /\ UNCHANGED <<userVars, identity, claimed, githubVars, oauthOn, api, faults>>

(***************************************************************************)
(* The environment and faults.                                             *)
(***************************************************************************)

\* Somebody changes a login at GitHub; the old name is free for others.
Rename(g, l) ==
  /\ Cardinality(renamed \cup {g}) <= MaxRenames
  /\ \A h \in GitHubAccounts : login[h] # l
  /\ login' = [login EXCEPT ![g] = l]
  /\ renamed' = renamed \cup {g}
  /\ UNCHANGED <<userVars, linkVars, localVars, oauthOn, cookies, api, faults>>

Fault == faults < MaxFaults /\ faults' = faults + 1

\* A statement fails, or the browser gives up and cancels the request.  A setup
\* is rolled back; a callback leaves what it has written.
RequestFails(r) ==
  /\ Fault
  /\ pc[r] # "idle"
  /\ Answer(r)
  /\ UNCHANGED <<userVars, linkVars, githubVars, oauthOn, cookies, api>>

\* Only the token could not be stored: the login goes on without.
TokenFails(r) ==
  /\ Fault
  /\ pc[r] = "storing"
  /\ SignIn(who[r])
  /\ Answer(r)
  /\ UNCHANGED <<userVars, linkVars, githubVars, oauthOn, api>>

\* The API dies, or is replaced by an update; Postgres rolls back what is open.
ApiStops ==
  /\ Fault
  /\ api = "up"
  /\ api' = "down"
  /\ pc' = [r \in Requests |-> "idle"]
  /\ who' = [r \in Requests |-> None]
  /\ gh' = [r \in Requests |-> None]
  /\ name' = [r \in Requests |-> None]
  /\ session' = [r \in Requests |-> None]
  /\ UNCHANGED <<userVars, linkVars, githubVars, oauthOn, cookies>>

Next ==
  \/ \E e \in Bootstraps \cup {None} : Start(e)
  \/ \E r \in Requests :
       \/ \E e \in Emails : BeginSetup(r, e)
       \/ CountUsers(r) \/ CommitSetup(r)
       \/ \E g \in GitHubAccounts, s \in CanBeSignedIn \cup {None} :
            BeginCallback(r, g, s)
       \/ LookUp(r) \/ CreateUser(r) \/ Link(r) \/ StoreToken(r)
       \/ RequestFails(r) \/ TokenFails(r)
  \/ \E u \in CanBeSignedIn : SessionEnds(u) \/ Disconnect(u)
  \/ ConfigureOAuth
  \/ \E g \in GitHubAccounts, l \in Logins : Rename(g, l)
  \/ ApiStops

Spec == Init /\ [][Next]_vars

(***************************************************************************)
(* Properties.                                                             *)
(***************************************************************************)

\* "Ensure only first setup wins" (setup.go:96): however many setups race, and
\* whatever fails, there is never a second instance admin.
FirstSetupWins == Cardinality(admins) <= 1

\* Whoever is first can administer the instance: no login through GitHub slips
\* in before the setup and closes it.  (A bootstrapped user does just that.)
FirstIsAdmin == users # {} /\ ~bootstrapped => admins # {}

\* Nobody has changed a login or linked an account to another user.
Plain(g) == g \notin claimed \cup renamed

\* Two inserts make a GitHub user.  Without faults both happen, however
\* callbacks race: no user is left that nobody can sign in as.
OrphanUserNeedsFault ==
  \A l \in users \cap Logins :
    \/ \E g \in GitHubAccounts : identity[g] = l
    \/ \E r \in Requests : pc[r] = "linking" /\ who[r] = l
    \/ faults > 0
    \/ \E g \in GitHubAccounts : ~Plain(g)

\* An account that only ever signs in reaches the same user every time, also
\* when its first logins race or were cut short.
LoginKeepsUser ==
  [][\A g \in GitHubAccounts :
       identity[g] # None /\ Plain(g)' => identity'[g] = identity[g]]_vars
=============================================================================
