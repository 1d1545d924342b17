--------------------------- MODULE DashboardProofs ---------------------------
(***************************************************************************)
(* The safety properties of the dashboard, for any organizations, people,  *)
(* projects, deployments, stores, jobs and bounds.                         *)
(*                                                                         *)
(* Each page has an inductive invariant of its own, proved from its Init   *)
(* and one step per handler, and a lemma (...Shown) that it implies what   *)
(* the runs check.  The pages come in the order of Dashboard; at the end   *)
(* their invariants are put together.                                      *)
(***************************************************************************)
EXTENDS Dashboard, Sequences, FiniteSetTheorems, TLAPS

\* What the pages' bounds are.
LEMMA Bounds ==
  /\ MaxAnswers \in Nat /\ MaxChanges \in Nat /\ MaxLatest \in Nat /\ MaxForeign \in Nat
  /\ MaxOutput \in Nat /\ MaxLines \in Nat /\ MaxChunks \in Nat /\ LogLimit \in Nat
  /\ MaxWrites \in Nat /\ MaxCreates \in Nat
  /\ MaxBuilds \in Nat \ {0} /\ Limit \in Nat \ {0}
  /\ Fixed \in Nat /\ MaxProjects \in Nat
  /\ MaxImports \in Nat \ {0} /\ MaxPromotes \in Nat \ {0} /\ MaxJobs \in Nat \ {0}
  /\ MaxRows \in Nat \ {0} /\ MaxRuns \in Nat \ {0} /\ MaxPolls \in Nat \ {0}
  /\ MaxLoads \in Nat \ {0} /\ MaxRequests \in Nat \ {0, 1}
  BY DashboardAssumption

(***************************************************************************)
(* Entry.  A page that is reached by a second redirect redirects no more.  *)
(***************************************************************************)

\* The page that is open redirects no more, whatever it asks.
Stays ==
  \/ entryGate \in {"github", "orgs", "open"}
  \/ at = "login" /\ ~session /\ (entryGate = "setup" => ~needsSetup)
  \/ at = "setup" /\ needsSetup
  \/ at = "shell" /\ ~needsSetup /\ (session \/ entryGate = "setup")

\* It does so once at most.
OnceMore ==
  \/ Stays
  \/ at \in {"login", "index"} /\ (entryGate = "setup" \/ ~needsSetup)
  \/ at = "shell" /\ (session \/ ~needsSetup \/ entryGate = "setup")
  \/ at = "setup" /\ ~session

EntrySwitches == {needsSetup, session, github, submitting, button} \subseteq BOOLEAN
EntryPlaces ==
  at \in Entering!Pages /\ entryGate \in {"setup", "me", "github", "orgs", "open"}
EntryChain ==
  hops \in 0..2 /\ (hops = 1 => OnceMore) /\ (hops = 2 => Stays)
EntryInv ==
  EntrySwitches /\ EntryPlaces /\ EntryChain /\ entryChanges \in 0..MaxAnswers

\* The invariant of the redirects holds when the browser opens.
LEMMA EntryInit == Entering!Init => EntryInv
  <1> SUFFICES ASSUME Entering!Init PROVE EntryInv
    OBVIOUS
  <1>1. hops = 0 /\ entryChanges = 0 /\ at = "index" /\ entryGate = "setup"
    BY DEF Entering!Init
  <1>2. EntrySwitches
    BY Zenon DEF Entering!Init, EntrySwitches
  <1> QED BY <1>1, <1>2, Bounds DEF EntryInv, EntryPlaces, EntryChain, Entering!Pages

\* Every step of the redirects keeps it.
LEMMA EntryStep == EntryInv /\ [Entering!Next]_entryVars => EntryInv'
  <1> SUFFICES ASSUME EntryInv, [Entering!Next]_entryVars PROVE EntryInv'
    OBVIOUS
  <1> USE DEF EntryInv, Entering!Pages, Entering!MaxHops, Entering!Open,
          Entering!Redirect, Entering!Stay, Entering!Acted, Entering!First
  <1>1. EntrySwitches' /\ EntryPlaces'
    <2> USE DEF Entering!Next, Entering!Index, Entering!Login, Entering!SubmitLogin,
            Entering!LoginAnswered, Entering!LoginWithGitHub, Entering!Setup,
            Entering!SubmitSetup, Entering!SetupAnswered, Entering!Shell,
            Entering!Logout, Entering!QuestionFails, Entering!Elsewhere,
            Entering!Enter, entryVars
    <2>1. EntrySwitches'
      BY DEF EntrySwitches
    <2>2. EntryPlaces'
      BY DEF EntryPlaces
    <2> QED BY <2>1, <2>2
  <1>2. ASSUME Entering!Acted PROVE EntryChain' /\ entryChanges' \in 0..MaxAnswers
    BY <1>2, Bounds DEF EntryChain
  <1>3. ASSUME UNCHANGED <<needsSetup, session, at, entryGate, hops, entryChanges>>
        PROVE  EntryChain' /\ entryChanges' \in 0..MaxAnswers
    BY <1>3 DEF EntryChain, OnceMore, Stays
  <1>4. ASSUME Entering!Index PROVE EntryChain'
    BY <1>4 DEF Entering!Index, EntryChain, EntryPlaces, OnceMore, Stays
  <1>5. ASSUME Entering!Login PROVE EntryChain'
    BY <1>5 DEF Entering!Login, EntryChain, EntryPlaces, OnceMore, Stays
  <1>6. ASSUME Entering!Setup PROVE EntryChain'
    BY <1>6 DEF Entering!Setup, EntryChain, EntryPlaces, OnceMore, Stays
  <1>7. ASSUME Entering!Shell PROVE EntryChain'
    BY <1>7 DEF Entering!Shell, EntryChain, EntryPlaces, OnceMore, Stays
  <1>8. \/ Entering!Index \/ Entering!Login \/ Entering!Setup \/ Entering!Shell
        \/ Entering!Acted
        \/ UNCHANGED <<needsSetup, session, at, entryGate, hops, entryChanges>>
    BY Zenon DEF Entering!Next, Entering!SubmitLogin, Entering!LoginAnswered,
          Entering!LoginWithGitHub, Entering!SubmitSetup, Entering!SetupAnswered,
          Entering!Logout, Entering!QuestionFails, Entering!Elsewhere, Entering!Enter,
          entryVars
  <1>9. ASSUME \/ Entering!Index \/ Entering!Login \/ Entering!Setup \/ Entering!Shell
        PROVE  entryChanges' = entryChanges
    BY <1>9 DEF Entering!Index, Entering!Login, Entering!Setup, Entering!Shell
  <1> QED BY <1>1, <1>2, <1>3, <1>4, <1>5, <1>6, <1>7, <1>8, <1>9


\* It gives the types of the redirects, and LandsSoon.
LEMMA EntryShown == EntryInv => Entering!TypeOK /\ Entering!LandsSoon
  BY DEF EntryInv, EntrySwitches, EntryPlaces, EntryChain, Entering!TypeOK,
         Entering!LandsSoon, Entering!MaxHops

(***************************************************************************)
(* TeamPages.                                                              *)
(***************************************************************************)
TeamsPlaces ==
  /\ mine \subseteq Orgs /\ mine # {}
  /\ teamsStored \in Orgs \cup {None} /\ header \in Orgs \cup {None}
  /\ teamsOrgs \subseteq Orgs /\ teamsPage \in Orgs \cup {None}
TeamsMembers ==
  /\ members \in [Orgs -> SUBSET People] /\ teamsShown \subseteq People
  /\ teamsLists \subseteq [made : BOOLEAN, rows : SUBSET People, fresh : BOOLEAN]
  /\ teamsStale \in BOOLEAN /\ teamsChanges \in 0..MaxChanges
Request == Teams!RequestsOf(Teams!Whats)

\* A write is for the page's organization if its page is still open, and only then
\* anybody waits for the answer.
TeamsRequests ==
  /\ requests \subseteq Request
  /\ \A q \in requests : q.what \in Teams!Writes =>
       /\ q.at = "open" => q.org = teamsPage
       /\ q.done => q.at = "open"

\* A list that was made and is not old has the page's members, and they are shown
\* once no list is asked for and none will be, unless they changed behind it.
WillList ==
  \/ teamsLists # {}
  \/ \E q \in requests : q.at = "open" /\ q.what \in Teams!Writes /\ q.done
ListsAreOfPage ==
  teamsPage # None =>
    /\ \A l \in teamsLists : l.fresh => l.rows = members[teamsPage]
    /\ ~teamsStale /\ ~WillList => teamsShown = members[teamsPage]

TeamsInv == TeamsPlaces /\ TeamsMembers /\ TeamsRequests /\ ListsAreOfPage

\* There is a second organization.
LEMMA TwoOrgs ==
  /\ (CHOOSE o \in Orgs : TRUE) \in Orgs
  /\ \A o \in Orgs : (CHOOSE x \in Orgs : x # o) \in Orgs
  <1>1. ASSUME NEW o \in Orgs PROVE \E x \in Orgs : x # o
    <2>1. SUFFICES ASSUME Orgs = {o} PROVE FALSE
      OBVIOUS
    <2>2. Cardinality(Orgs) = 1
      BY <2>1, FS_Singleton, Zenon
    <2>3. Cardinality(Orgs) > 1
      BY DashboardAssumption
    <2> QED BY <2>2, <2>3
  <1>2. Orgs # {}
    <2>1. SUFFICES ASSUME Orgs = {} PROVE FALSE
      OBVIOUS
    <2>2. Cardinality(Orgs) = 0
      BY <2>1, FS_EmptySet, Zenon
    <2>3. Cardinality(Orgs) > 1
      BY DashboardAssumption
    <2> QED BY <2>2, <2>3
  <1> QED BY <1>1, <1>2

\* The invariant of the teams pages holds when the browser opens.
LEMMA TeamsInit == Teams!Init => TeamsInv
  <1> SUFFICES ASSUME Teams!Init PROVE TeamsInv
    OBVIOUS
  <1> USE Bounds DEF Teams!Init
  <1>1. TeamsPlaces
    <2> DEFINE o == CHOOSE o \in Orgs : TRUE
    <2> DEFINE p == CHOOSE x \in Orgs : x # o
    <2>1. o \in Orgs /\ p \in Orgs
      <3> HIDE DEF Teams!Init
      <3>1. o \in Orgs
        BY TwoOrgs, Zenon
      <3> HIDE DEF o
      <3> QED BY <3>1, TwoOrgs, Zenon
    <2>2. mine = {o} /\ teamsStored \in {None, p}
      BY Zenon
    <2>3. header = None /\ teamsOrgs = {} /\ teamsPage = None
      OBVIOUS
    <2> HIDE DEF o, p, Teams!Init
    <2> QED BY <2>1, <2>2, <2>3 DEF TeamsPlaces
  <1>2. teamsStale \in BOOLEAN
    BY Zenon
  <1>3. TeamsMembers
    BY <1>2 DEF TeamsMembers
  <1>4. TeamsRequests /\ ListsAreOfPage
    BY DEF TeamsRequests, ListsAreOfPage
  <1> QED BY <1>1, <1>3, <1>4 DEF TeamsInv

\* What becomes of a request.
LEMMA TeamsRequest ==
  ASSUME NEW q \in Request
  PROVE  /\ \A how \in {"left", "gone"} :
              /\ [q EXCEPT !.at = how] \in Request
              /\ [q EXCEPT !.at = how].what = q.what
              /\ [q EXCEPT !.at = how].at = how
              /\ [q EXCEPT !.at = how].done = q.done
         /\ [q EXCEPT !.done = TRUE] \in Request
         /\ [q EXCEPT !.done = TRUE].what = q.what
         /\ [q EXCEPT !.done = TRUE].at = q.at
         /\ [q EXCEPT !.done = TRUE].org = q.org
         /\ [q EXCEPT !.done = TRUE].done = TRUE
         /\ \A o \in Orgs : /\ [q EXCEPT !.org = o, !.done = TRUE] \in Request
                            /\ [q EXCEPT !.org = o, !.done = TRUE].what = q.what
  BY DEF Request, Teams!RequestsOf

\* A page that was left, or gone: its requests belong to no open page.
LEMMA TeamsWithout ==
  ASSUME TeamsRequests, NEW how \in {"left", "gone"}, requests' = Teams!Without(how)
  PROVE  TeamsRequests' /\ \A q \in requests' : q.at # "open"
  <1> DEFINE Left(q) ==
        [q EXCEPT !.at = IF Teams!Heard(q, how) THEN "left" ELSE "gone"]
  <1>1. ASSUME NEW r \in requests'
        PROVE  /\ r \in Request /\ r.at # "open"
               /\ r.what \in Teams!Writes => ~r.done
    <2>1. PICK q \in requests : r = Left(q) /\ (Teams!Heard(q, how) \/ ~q.done)
      BY Zenon DEF Teams!Without
    <2>2. q \in Request
      BY DEF TeamsRequests
    <2>3. PICK at2 \in {"left", "gone"} : r = [q EXCEPT !.at = at2]
      BY <2>1
    <2>4. r \in Request /\ r.what = q.what /\ r.at = at2 /\ r.done = q.done
      BY <2>2, <2>3, TeamsRequest
    <2>5. q.what \in Teams!Writes => ~Teams!Heard(q, how)
      BY DEF Teams!Heard, Teams!Writes
    <2> QED BY <2>1, <2>3, <2>4, <2>5
  <1> QED BY <1>1 DEF TeamsRequests

\* A page that has just opened.
LEMMA TeamsOpened ==
  ASSUME TeamsInv, NEW o, NEW how \in {"left", "gone"}, Teams!OpenPage(o, how),
         members' = members, teamsChanges' \in 0..MaxChanges
  PROVE  TeamsMembers' /\ TeamsRequests' /\ ListsAreOfPage'
  <1> USE DEF Teams!OpenPage, Teams!NoList
  <1>1. /\ teamsShown' = {} /\ teamsStale' = FALSE /\ teamsPage' = o
        /\ teamsLists' \subseteq {[made |-> FALSE, rows |-> {}, fresh |-> FALSE]}
        /\ o # None => teamsLists' = {[made |-> FALSE, rows |-> {}, fresh |-> FALSE]}
        /\ requests' = Teams!Without(how)
    OBVIOUS
  <1>2. [made |-> FALSE, rows |-> {}, fresh |-> FALSE] \in
          [made : BOOLEAN, rows : SUBSET People, fresh : BOOLEAN]
    OBVIOUS
  <1>3. TeamsMembers'
    BY <1>1, <1>2 DEF TeamsInv, TeamsMembers
  <1>4. TeamsRequests'
    BY <1>1, TeamsWithout DEF TeamsInv
  <1>5. ListsAreOfPage'
    <2>1. \A l \in teamsLists' : ~l.fresh
      BY <1>1
    <2>2. o # None => teamsLists' # {}
      BY <1>1
    <2> QED BY <1>1, <2>1, <2>2 DEF ListsAreOfPage, WillList
  <1> QED BY <1>3, <1>4, <1>5

\* A request is sent; if it is a write, it is for the page's organization.
LEMMA TeamsSent ==
  ASSUME TeamsInv, NEW what \in Teams!Whats, NEW who \in SUBSET People,
         NEW o \in Orgs \cup {None}, Teams!Send(what, who, o),
         what \in Teams!Writes => o = teamsPage
  PROVE  TeamsMembers' /\ TeamsRequests' /\ ListsAreOfPage'
  <1> DEFINE q == [what |-> what, who |-> who, org |-> o, done |-> FALSE, at |-> "open"]
  <1>1. /\ requests' = requests \cup {q}
        /\ UNCHANGED <<members, teamsPage, teamsShown, teamsLists, teamsStale,
                       teamsChanges>>
    BY DEF Teams!Send
  <1>2. q \in Request /\ q.what = what /\ q.org = o /\ ~q.done
    BY DEF Request, Teams!RequestsOf
  <1> HIDE DEF q
  <1>3. TeamsMembers'
    BY <1>1 DEF TeamsInv, TeamsMembers
  <1>4. TeamsRequests'
    BY <1>1, <1>2 DEF TeamsInv, TeamsRequests
  <1>5. ListsAreOfPage'
    BY <1>1, <1>2 DEF TeamsInv, ListsAreOfPage, WillList
  <1> QED BY <1>3, <1>4, <1>5

\* A step of the shell or another tab that leaves the page as it is.
LEMMA TeamsApart ==
  ASSUME TeamsInv, teamsChanges' \in 0..MaxChanges,
         UNCHANGED <<members, teamsPage, teamsShown, requests, teamsLists, teamsStale>>
  PROVE  TeamsMembers' /\ TeamsRequests' /\ ListsAreOfPage'
  BY DEF TeamsInv, TeamsMembers, TeamsRequests, ListsAreOfPage, WillList

\* Where the user is, and what is asked for next, is always an organization.
LEMMA TeamsPlaced == TeamsInv /\ Teams!Next => TeamsPlaces'
  <1> SUFFICES ASSUME TeamsInv, Teams!Next PROVE TeamsPlaces'
    OBVIOUS
  <1>1. \A q \in requests : q.org \in Orgs \cup {None}
    BY DEF TeamsInv, TeamsRequests, Request, Teams!RequestsOf
  <1> QED
    BY <1>1, Zenon DEF Teams!Next, Teams!LoadShell, Teams!LoadShellFails,
       Teams!VisitPage, Teams!CreateOrg, Teams!Send, Teams!CreateOrgDone,
       Teams!WriteDone, Teams!WriteAnswered, Teams!RequestFails, Teams!ListMembers,
       Teams!MembersFail, Teams!SwitchOrg, Teams!ChooseOrg, Teams!CreateOrgAnswered,
       Teams!OtherTab, Teams!Write, Teams!MembersArrive, Teams!OtherAdmin,
       Teams!OpenPage, TeamsInv, TeamsPlaces

\* Every step of the teams pages keeps it.
LEMMA TeamsStep == TeamsInv /\ [Teams!Next]_teamsVars => TeamsInv'
  <1> SUFFICES ASSUME TeamsInv, [Teams!Next]_teamsVars PROVE TeamsInv'
    OBVIOUS
  <1> DEFINE Rest == TeamsMembers' /\ TeamsRequests' /\ ListsAreOfPage'
  <1> USE Bounds DEF TeamsInv
  <1>0. None \notin Orgs
    BY DashboardAssumption
  <1>1. ASSUME Teams!LoadShell \/ Teams!LoadShellFails \/ Teams!VisitPage PROVE Rest
    <2>1. members' = members /\ teamsChanges' \in 0..MaxChanges
      BY <1>1 DEF Teams!LoadShell, Teams!LoadShellFails, Teams!VisitPage, Teams!Change,
                  TeamsMembers
    <2>2. \E o, how : how \in {"left", "gone"} /\ Teams!OpenPage(o, how)
      <3>1. CASE Teams!LoadShell
        BY <3>1, Zenon DEF Teams!LoadShell
      <3>2. CASE Teams!LoadShellFails
        BY <3>2, Zenon DEF Teams!LoadShellFails
      <3>3. CASE Teams!VisitPage
        BY <3>3, Zenon DEF Teams!VisitPage
      <3> QED BY <1>1, <3>1, <3>2, <3>3
    <2> QED BY <2>1, <2>2, TeamsOpened
  <1>2. ASSUME NEW o \in Orgs, Teams!ChooseOrg(o) PROVE Rest
    <2>1. /\ teamsPage' = None /\ teamsLists' = {} /\ teamsShown' = {}
          /\ teamsStale' = FALSE /\ requests' = Teams!Without("gone")
          /\ UNCHANGED <<members, teamsChanges>>
      BY <1>2 DEF Teams!ChooseOrg
    <2>2. TeamsRequests'
      BY <2>1, TeamsWithout
    <2>3. TeamsMembers' /\ ListsAreOfPage'
      BY <2>1 DEF TeamsMembers, ListsAreOfPage
    <2> QED BY <2>2, <2>3
  <1>3. ASSUME Teams!CreateOrg PROVE Rest
    <2>1. Teams!Send("create", {}, None)
      BY <1>3 DEF Teams!CreateOrg
    <2>2. "create" \in Teams!Whats /\ "create" \notin Teams!Writes
      BY DEF Teams!Whats, Teams!Writes
    <2> QED BY <2>1, <2>2, TeamsSent
  <1>4. ASSUME NEW q \in requests, NEW o \in Orgs, Teams!CreateOrgDone(q, o) PROVE Rest
    <2> DEFINE d == [q EXCEPT !.org = o, !.done = TRUE]
    <2>1. /\ requests' \subseteq (requests \ {q}) \cup {d} /\ q.what = "create"
          /\ requests \ {q} \subseteq requests'
          /\ UNCHANGED <<members, teamsPage, teamsShown, teamsLists, teamsStale,
                         teamsChanges>>
      BY <1>4 DEF Teams!CreateOrgDone
    <2>2. d \in Request /\ d.what \notin Teams!Writes
      <3>1. q \in Request
        BY DEF TeamsRequests
      <3>2. d \in Request /\ d.what = q.what
        BY <3>1 DEF Request, Teams!RequestsOf
      <3> QED BY <2>1, <3>2 DEF Teams!Writes
    <2> HIDE DEF d
    <2>3. TeamsMembers' /\ TeamsRequests'
      BY <2>1, <2>2 DEF TeamsMembers, TeamsRequests
    <2>4. q.what \notin Teams!Writes
      BY <2>1 DEF Teams!Writes
    <2>5. WillList' <=> WillList
      BY <2>1, <2>2, <2>4 DEF WillList
    <2> QED BY <2>1, <2>3, <2>5 DEF ListsAreOfPage
  <1>5. ASSUME NEW q \in requests, Teams!CreateOrgAnswered(q) PROVE Rest
    <2>1. /\ requests' = requests \ {q} /\ q.what \notin Teams!Writes
          /\ UNCHANGED <<members, teamsPage, teamsShown, teamsLists, teamsStale,
                         teamsChanges>>
      BY <1>5 DEF Teams!CreateOrgAnswered, Teams!Writes
    <2>2. TeamsMembers' /\ TeamsRequests'
      BY <2>1 DEF TeamsMembers, TeamsRequests
    <2>3. WillList' <=> WillList
      BY <2>1 DEF WillList
    <2> QED BY <2>1, <2>2, <2>3 DEF ListsAreOfPage
  <1>6. ASSUME NEW what \in Teams!Writes, NEW p \in People, Teams!Write(what, p)
        PROVE  Rest
    <2>1. Teams!Send(what, {p}, teamsPage) /\ teamsPage \in Orgs \cup {None}
      BY <1>6 DEF Teams!Write, TeamsPlaces
    <2>2. what \in Teams!Whats
      BY DEF Teams!Whats
    <2> QED BY <2>1, <2>2, TeamsSent
  <1>7. ASSUME NEW q \in requests, Teams!WriteDone(q) PROVE Rest
    <2> DEFINE d == [q EXCEPT !.done = TRUE]
    <2>1. /\ q \in Request /\ q.what \in Teams!Writes /\ q.org \in Orgs /\ ~q.done
          /\ q.who \subseteq People /\ (q.at = "open" => q.org = teamsPage)
      BY <1>7 DEF Teams!WriteDone, TeamsRequests, TeamsPlaces, Request,
                  Teams!RequestsOf
    <2>2. /\ d \in Request /\ d.what = q.what /\ d.at = q.at /\ d.org = q.org
          /\ d.done = TRUE
      BY <2>1, TeamsRequest
    <2>3. /\ members' = [members EXCEPT ![q.org] =
                           IF q.what = "invite" THEN @ \cup q.who ELSE @ \ q.who]
          /\ Teams!Ages(q.org)
          /\ UNCHANGED <<teamsPage, teamsShown, teamsChanges>>
          /\ q.at = "open" =>
               requests' = (requests \ {q}) \cup {d} /\ teamsStale' = teamsStale
          /\ q.at # "open" =>
               /\ requests' = requests \ {q}
               /\ teamsStale' = (teamsStale \/ q.org = teamsPage)
      BY <1>7 DEF Teams!WriteDone
    <2> HIDE DEF d
    <2>4. members' \in [Orgs -> SUBSET People]
          /\ \A x \in Orgs \ {q.org} : members'[x] = members[x]
      BY <2>1, <2>3 DEF TeamsMembers
    <2>5. TeamsRequests'
      BY <2>1, <2>2, <2>3 DEF TeamsRequests
    <2>6. CASE q.org = teamsPage
      <3>1. /\ teamsLists' \subseteq
                 [made : BOOLEAN, rows : SUBSET People, fresh : BOOLEAN]
            /\ \A l \in teamsLists' : ~l.fresh
        <4>1. teamsLists' = {[l EXCEPT !.fresh = FALSE] : l \in teamsLists}
          BY <2>3, <2>6, Zenon DEF Teams!Ages
        <4>2. ASSUME NEW l \in [made : BOOLEAN, rows : SUBSET People, fresh : BOOLEAN]
              PROVE  /\ [l EXCEPT !.fresh = FALSE] \in
                          [made : BOOLEAN, rows : SUBSET People, fresh : BOOLEAN]
                     /\ ~[l EXCEPT !.fresh = FALSE].fresh
          OBVIOUS
        <4>3. teamsLists \subseteq
                [made : BOOLEAN, rows : SUBSET People, fresh : BOOLEAN]
          BY DEF TeamsMembers
        <4>4. ASSUME NEW m \in teamsLists'
              PROVE  /\ m \in [made : BOOLEAN, rows : SUBSET People, fresh : BOOLEAN]
                     /\ ~m.fresh
          <5>1. PICK l \in teamsLists : m = [l EXCEPT !.fresh = FALSE]
            BY <4>1, Zenon
          <5> QED BY <5>1, <4>2, <4>3
        <4> QED BY <4>4, Zenon
      <3>2. TeamsMembers'
        BY <2>1, <2>3, <2>4, <3>1 DEF TeamsMembers
      <3>3. q.at = "open" => WillList'
        BY <2>1, <2>2, <2>3 DEF WillList
      <3>4. q.at # "open" => teamsStale'
        BY <2>3, <2>6
      <3>5. ListsAreOfPage'
        BY <3>1, <3>3, <3>4 DEF ListsAreOfPage
      <3> QED BY <2>5, <3>2, <3>5
    <2>7. CASE q.org # teamsPage
      <3>1. /\ teamsLists' = teamsLists /\ teamsStale' = teamsStale
            /\ requests' = requests \ {q} /\ q.at # "open"
        BY <2>1, <2>3, <2>7 DEF Teams!Ages, TeamsMembers
      <3>2. TeamsMembers'
        BY <2>3, <2>4, <3>1 DEF TeamsMembers
      <3>3. WillList' <=> WillList
        BY <3>1 DEF WillList
      <3>4. teamsPage # None => members'[teamsPage] = members[teamsPage]
        BY <2>4, <2>7 DEF TeamsPlaces
      <3>5. ListsAreOfPage'
        BY <2>3, <3>1, <3>3, <3>4 DEF ListsAreOfPage
      <3> QED BY <2>5, <3>2, <3>5
    <2> QED BY <2>6, <2>7
  <1>8. ASSUME NEW q \in requests, Teams!WriteAnswered(q) PROVE Rest
    <2> DEFINE n == [made |-> FALSE, rows |-> {}, fresh |-> FALSE]
    <2>1. /\ requests' = requests \ {q} /\ teamsLists' = teamsLists \cup {n}
          /\ UNCHANGED <<members, teamsPage, teamsShown, teamsStale, teamsChanges>>
      BY <1>8 DEF Teams!WriteAnswered, Teams!NoList
    <2>2. n \in [made : BOOLEAN, rows : SUBSET People, fresh : BOOLEAN] /\ ~n.fresh
      OBVIOUS
    <2> HIDE DEF n
    <2> QED BY <2>1, <2>2 DEF TeamsMembers, TeamsRequests, ListsAreOfPage, WillList
  <1>9. ASSUME NEW q \in requests, Teams!RequestFails(q) PROVE Rest
    <2>1. /\ requests' = requests \ {q} /\ teamsStale' = (teamsStale \/ q.done)
          /\ teamsChanges' \in 0..MaxChanges
          /\ UNCHANGED <<members, teamsPage, teamsShown, teamsLists>>
      BY <1>9 DEF Teams!RequestFails, Teams!Change, TeamsMembers
    <2>2. q.done \in BOOLEAN
      BY DEF TeamsRequests, Request, Teams!RequestsOf
    <2>3. TeamsMembers' /\ TeamsRequests'
      BY <2>1, <2>2 DEF TeamsMembers, TeamsRequests
    <2>4. ~q.done => (WillList' <=> WillList)
      BY <2>1 DEF WillList
    <2> QED BY <2>1, <2>2, <2>3, <2>4 DEF ListsAreOfPage
  <1>10. ASSUME Teams!ListMembers PROVE Rest
    <2> DEFINE l == [made |-> TRUE, rows |-> members[teamsPage], fresh |-> TRUE]
    <2>1. /\ teamsLists' = (teamsLists \ {Teams!NoList}) \cup {l}
          /\ teamsPage \in Orgs
          /\ UNCHANGED <<members, teamsPage, teamsShown, requests, teamsStale,
                         teamsChanges>>
      BY <1>10 DEF Teams!ListMembers, TeamsPlaces
    <2>2. /\ l \in [made : BOOLEAN, rows : SUBSET People, fresh : BOOLEAN]
          /\ l.rows = members[teamsPage]
      BY <2>1 DEF TeamsMembers
    <2> HIDE DEF l
    <2>3. TeamsMembers' /\ TeamsRequests'
      BY <2>1, <2>2 DEF TeamsMembers, TeamsRequests
    <2>4. ListsAreOfPage'
      BY <2>1, <2>2 DEF ListsAreOfPage, WillList
    <2> QED BY <2>3, <2>4
  <1>11. ASSUME NEW l \in teamsLists, Teams!MembersArrive(l) PROVE Rest
    <2>1. /\ teamsShown' = l.rows /\ teamsLists' = teamsLists \ {l}
          /\ teamsStale' = ~l.fresh
          /\ UNCHANGED <<members, teamsPage, requests, teamsChanges>>
      BY <1>11 DEF Teams!MembersArrive
    <2>2. l.fresh \in BOOLEAN /\ l.rows \subseteq People
      BY DEF TeamsMembers
    <2>3. TeamsMembers' /\ TeamsRequests'
      BY <2>1, <2>2 DEF TeamsMembers, TeamsRequests
    <2> QED BY <2>1, <2>2, <2>3 DEF ListsAreOfPage
  <1>12. ASSUME Teams!MembersFail PROVE Rest
    <2>1. /\ teamsLists' \subseteq teamsLists /\ teamsShown' = {} /\ teamsStale' = TRUE
          /\ teamsChanges' \in 0..MaxChanges
          /\ UNCHANGED <<members, teamsPage, requests>>
      BY <1>12 DEF Teams!MembersFail, Teams!Change, TeamsMembers
    <2> QED BY <2>1 DEF TeamsMembers, TeamsRequests, ListsAreOfPage
  <1>13. ASSUME NEW o \in Orgs, Teams!SwitchOrg(o) \/ Teams!OtherTab(o) PROVE Rest
    <2>1. /\ teamsChanges' \in 0..MaxChanges
          /\ UNCHANGED <<members, teamsPage, teamsShown, requests, teamsLists,
                         teamsStale>>
      BY <1>13 DEF Teams!SwitchOrg, Teams!OtherTab, Teams!Change, TeamsMembers
    <2> QED BY <2>1, TeamsApart
  <1>14. ASSUME NEW o \in Orgs, NEW p \in People, Teams!OtherAdmin(o, p) PROVE Rest
    <2>1. /\ members' = [members EXCEPT ![o] = IF p \in @ THEN @ \ {p} ELSE @ \cup {p}]
          /\ teamsStale' = (teamsStale \/ o = teamsPage) /\ Teams!Ages(o)
          /\ teamsChanges' \in 0..MaxChanges
          /\ UNCHANGED <<teamsPage, teamsShown, requests>>
      BY <1>14 DEF Teams!OtherAdmin, Teams!Change, TeamsMembers
    <2>2. /\ members' \in [Orgs -> SUBSET People]
          /\ \A x \in Orgs \ {o} : members'[x] = members[x]
      BY <2>1 DEF TeamsMembers
    <2>3. /\ teamsLists' \subseteq
               [made : BOOLEAN, rows : SUBSET People, fresh : BOOLEAN]
          /\ o = teamsPage => \A l \in teamsLists' : ~l.fresh
          /\ o # teamsPage => teamsLists' = teamsLists
      BY <2>1 DEF Teams!Ages, TeamsMembers
    <2>4. TeamsMembers' /\ TeamsRequests'
      BY <2>1, <2>2, <2>3 DEF TeamsMembers, TeamsRequests
    <2>5. ListsAreOfPage'
      <3>1. CASE o = teamsPage
        BY <2>1, <2>3, <3>1 DEF ListsAreOfPage
      <3>2. CASE o # teamsPage
        <4>1. teamsPage # None => members'[teamsPage] = members[teamsPage]
          BY <2>2, <3>2 DEF TeamsPlaces
        <4>2. WillList' <=> WillList
          BY <2>1, <2>3, <3>2 DEF WillList
        <4> QED BY <2>1, <2>3, <3>2, <4>1, <4>2 DEF ListsAreOfPage
      <3> QED BY <3>1, <3>2
    <2> QED BY <2>4, <2>5
  <1>15. ASSUME UNCHANGED teamsVars PROVE Rest
    BY <1>15, TeamsApart DEF teamsVars, TeamsMembers
  <1>16. Rest
    <2> HIDE DEF Rest
    <2> QED
      BY <1>1, <1>2, <1>3, <1>4, <1>5, <1>6, <1>7, <1>8, <1>9, <1>10, <1>11, <1>12,
         <1>13, <1>14, <1>15 DEF Teams!Next
  <1>17. TeamsPlaces'
    <2>1. CASE UNCHANGED teamsVars
      BY <2>1 DEF teamsVars, TeamsPlaces
    <2> QED BY <2>1, TeamsPlaced
  <1> QED BY <1>16, <1>17

\* It gives the types of the teams pages, and WritesGoWhereListed and MembersAreShown.
LEMMA TeamsShown ==
  TeamsInv => /\ Teams!TypeOK /\ Teams!WritesGoWhereListed /\ Teams!MembersAreShown
  <1> SUFFICES ASSUME TeamsInv
               PROVE  /\ Teams!TypeOK /\ Teams!WritesGoWhereListed
                      /\ Teams!MembersAreShown
    OBVIOUS
  <1>1. Teams!TypeOK
    BY DEF TeamsInv, TeamsPlaces, TeamsMembers, TeamsRequests, Request, Teams!TypeOK
  <1>2. Teams!WritesGoWhereListed
    BY DEF TeamsInv, TeamsRequests, Teams!WritesGoWhereListed
  <1>3. Teams!MembersAreShown
    BY DEF TeamsInv, ListsAreOfPage, WillList, Teams!MembersAreShown
  <1> QED BY <1>1, <1>2, <1>3

(***************************************************************************)
(* ProjectsPage.                                                           *)
(***************************************************************************)
Create == [p : Projects, done : BOOLEAN, open : BOOLEAN]
ListTypes ==
  /\ exist \subseteq Projects /\ deployed \subseteq exist /\ favorites \subseteq Projects
  /\ answer \subseteq Projects /\ listed \subseteq Projects /\ latest \subseteq Projects
  /\ hearts \subseteq Projects /\ creates \subseteq Create
  /\ listStale \subseteq Projects /\ listChanges \in 0..MaxForeign
ListSwitches ==
  /\ listStep \in {"projects", "answered", "deployments", "done"}
  /\ {createOpen, filled} \subseteq BOOLEAN

\* What the load has got so far: all that was there when it was answered, and what
\* was created since and answered is in the list at least until the load arrives.
LoadIsComplete ==
  /\ listStep = "answered" => exist \ ProjectList!Unseen \subseteq answer \cup listed
  /\ listStep = "deployments" =>
       exist \ ProjectList!Unseen \subseteq listed /\ answer \subseteq listed
  /\ listStep # "done" => latest = {}
  /\ ProjectList!ExistingIsListed
ListInv == ListTypes /\ ListSwitches /\ LoadIsComplete

\* The invariant of the list of projects holds when the browser opens.
LEMMA ListInit == ProjectList!Init => ListInv
  <1> SUFFICES ASSUME ProjectList!Init PROVE ListInv
    OBVIOUS
  <1>1. ListSwitches
    BY Zenon DEF ProjectList!Init, ListSwitches
  <1>2. ListTypes
    BY Bounds DEF ProjectList!Init, ListTypes
  <1>3. LoadIsComplete
    BY DEF ProjectList!Init, LoadIsComplete, ProjectList!ExistingIsListed
  <1> QED BY <1>1, <1>2, <1>3 DEF ListInv

\* What becomes of a project that is being created.
LEMMA ListCreate ==
  ASSUME NEW c \in Create
  PROVE  /\ [c EXCEPT !.open = FALSE] \in Create
         /\ [c EXCEPT !.done = TRUE] \in Create
         /\ [c EXCEPT !.done = TRUE].p = c.p
         /\ [c EXCEPT !.done = TRUE].done = TRUE
  BY DEF Create

\* The page opens: nothing of its load is there yet.
LEMMA ListReopened == ListInv /\ ProjectList!Reopen => ListInv'
  <1> SUFFICES ASSUME ListInv, ProjectList!Reopen PROVE ListInv'
    OBVIOUS
  <1> USE DEF ListInv, ProjectList!Reopen, ProjectList!Open
  <1>1. creates' \subseteq Create
    <2>1. ASSUME NEW d \in creates' PROVE d \in Create
      <3>1. PICK c \in creates : d = [c EXCEPT !.open = FALSE]
        BY Zenon
      <3>2. c \in Create
        BY DEF ListTypes
      <3> QED BY <3>1, <3>2, ListCreate
    <2> QED BY <2>1
  <1>2. ListTypes'
    BY <1>1 DEF ListTypes
  <1>3. ListSwitches'
    BY Zenon DEF ListSwitches
  <1>4. LoadIsComplete'
    BY DEF LoadIsComplete, ProjectList!ExistingIsListed
  <1> QED BY <1>2, <1>3, <1>4

\* Every step of the list of projects keeps it.
LEMMA ListStep == ListInv /\ [ProjectList!Next]_listVars => ListInv'
  <1> SUFFICES ASSUME ListInv, [ProjectList!Next]_listVars PROVE ListInv'
    OBVIOUS
  <1> USE Bounds DEF ProjectList!pageVars
  <1>a. ListTypes /\ ListSwitches /\ LoadIsComplete
    BY DEF ListInv
  <1>b. \A c \in creates : c.p \in Projects /\ c.done \in BOOLEAN
    BY <1>a DEF ListTypes, Create
  <1>1. CASE ProjectList!Reopen
    BY <1>1, ListReopened
  <1>2. CASE ProjectList!ProjectsAnswered
    <2>1. ListTypes' /\ ListSwitches'
      BY <1>2, <1>a DEF ProjectList!ProjectsAnswered, ListTypes, ListSwitches
    <2>2. LoadIsComplete'
      BY <1>2, <1>a DEF ProjectList!ProjectsAnswered, LoadIsComplete,
         ProjectList!ExistingIsListed
    <2> QED BY <2>1, <2>2 DEF ListInv
  <1>3. CASE ProjectList!ProjectsArrive
    <2>1. ListTypes' /\ ListSwitches'
      BY <1>3, <1>a DEF ProjectList!ProjectsArrive, ListTypes, ListSwitches
    <2>2. LoadIsComplete'
      BY <1>3, <1>a DEF ProjectList!ProjectsArrive, LoadIsComplete,
         ProjectList!ExistingIsListed, ProjectList!Unseen
    <2> QED BY <2>1, <2>2 DEF ListInv
  <1>4. CASE ProjectList!DeploymentsArrive
    <2>1. ListTypes' /\ ListSwitches'
      BY <1>4, <1>a DEF ProjectList!DeploymentsArrive, ListTypes, ListSwitches
    <2>2. LoadIsComplete'
      BY <1>4, <1>a DEF ProjectList!DeploymentsArrive, LoadIsComplete,
         ProjectList!ExistingIsListed, ProjectList!Unseen
    <2> QED BY <2>1, <2>2 DEF ListInv
  <1>5. CASE ProjectList!LoadFails
    <2>1. ListTypes' /\ ListSwitches'
      BY <1>5, <1>a DEF ProjectList!LoadFails, ListTypes, ListSwitches
    <2>2. LoadIsComplete'
      BY <1>5, <1>a DEF ProjectList!LoadFails, LoadIsComplete, ListTypes,
         ProjectList!ExistingIsListed, ProjectList!Unseen
    <2> QED BY <2>1, <2>2 DEF ListInv
  <1>6. CASE ProjectList!EditDialog
    <2>1. ListTypes'
      BY <1>6, <1>a DEF ProjectList!EditDialog, ListTypes
    <2>2. ListSwitches'
      BY <1>6, <1>a DEF ProjectList!EditDialog, ListSwitches
    <2>3. LoadIsComplete'
      BY <1>6, <1>a DEF ProjectList!EditDialog, LoadIsComplete,
         ProjectList!ExistingIsListed, ProjectList!Unseen
    <2> QED BY <2>1, <2>2, <2>3 DEF ListInv
  <1>7. ASSUME NEW p \in Projects, ProjectList!OnCreate(p) PROVE ListInv'
    <2> DEFINE c == [p |-> p, done |-> FALSE, open |-> TRUE]
    <2>1. /\ creates' = creates \cup {c}
          /\ UNCHANGED <<exist, deployed, favorites, listStep, answer, listed, latest,
                         hearts, createOpen, filled, listStale, listChanges>>
      BY <1>7 DEF ProjectList!OnCreate
    <2>2. c \in Create /\ ~c.done
      BY DEF Create
    <2> HIDE DEF c
    <2>3. ListTypes' /\ ListSwitches'
      BY <2>1, <2>2, <1>a DEF ListTypes, ListSwitches
    <2>4. ProjectList!Unseen' = ProjectList!Unseen
      BY <2>1, <2>2 DEF ProjectList!Unseen
    <2>5. LoadIsComplete'
      BY <2>1, <2>4, <1>a DEF LoadIsComplete, ProjectList!ExistingIsListed
    <2> QED BY <2>3, <2>5 DEF ListInv
  <1>8. ASSUME NEW c \in creates, ProjectList!CreateDone(c) PROVE ListInv'
    <2> DEFINE d == [c EXCEPT !.done = TRUE]
    <2>1. /\ exist' = exist \cup {c.p} /\ ~c.done
          /\ creates \ {c} \subseteq creates'
          /\ creates' \subseteq (creates \ {c}) \cup {d}
          /\ listStale \subseteq listStale'
          /\ listStale' \subseteq listStale \cup {c.p}
          /\ d \in creates' \/ c.p \in listStale'
          /\ UNCHANGED <<deployed, favorites, listStep, answer, listed, latest,
                         hearts, createOpen, filled, listChanges>>
      BY <1>8 DEF ProjectList!CreateDone
    <2>2. d \in Create /\ d.p = c.p /\ d.done = TRUE
      BY <1>a, ListCreate DEF ListTypes
    <2> HIDE DEF d
    <2>3. ListTypes' /\ ListSwitches'
      BY <2>1, <2>2, <1>a, <1>b DEF ListTypes, ListSwitches
    <2>4. ProjectList!Unseen' = ProjectList!Unseen \cup {c.p}
      BY <2>1, <2>2 DEF ProjectList!Unseen
    <2>5. LoadIsComplete'
      BY <2>1, <2>4, <1>a DEF LoadIsComplete, ProjectList!ExistingIsListed
    <2> QED BY <2>3, <2>5 DEF ListInv
  <1>9. ASSUME NEW c \in creates, ProjectList!Created(c) PROVE ListInv'
    <2>1. /\ listed' = listed \cup {c.p} /\ creates' = creates \ {c}
          /\ createOpen' = FALSE /\ filled' = FALSE
          /\ UNCHANGED <<exist, deployed, favorites, listStep, answer, latest,
                         hearts, listStale, listChanges>>
      BY <1>9 DEF ProjectList!Created
    <2>2. ListTypes'
      BY <2>1, <1>a, <1>b DEF ListTypes
    <2>3. ListSwitches'
      BY <2>1, <1>a DEF ListSwitches
    <2>4. ProjectList!Unseen \subseteq ProjectList!Unseen' \cup {c.p}
      BY <2>1 DEF ProjectList!Unseen
    <2>5. LoadIsComplete'
      BY <2>1, <2>4, <1>a DEF LoadIsComplete, ProjectList!ExistingIsListed
    <2> QED BY <2>2, <2>3, <2>5 DEF ListInv
  <1>10. ASSUME NEW c \in creates, ProjectList!CreateFails(c) PROVE ListInv'
    <2>1. /\ creates' = creates \ {c}
          /\ listStale' = IF c.done THEN listStale \cup {c.p} ELSE listStale
          /\ UNCHANGED <<exist, deployed, favorites, listStep, answer, listed, latest,
                         hearts, createOpen, filled, listChanges>>
      BY <1>10 DEF ProjectList!CreateFails
    <2>2. ListTypes' /\ ListSwitches'
      BY <2>1, <1>a, <1>b DEF ListTypes, ListSwitches
    <2>3. ProjectList!Unseen' = ProjectList!Unseen
      BY <2>1 DEF ProjectList!Unseen
    <2>4. LoadIsComplete'
      BY <2>1, <2>3, <1>a DEF LoadIsComplete, ProjectList!ExistingIsListed
    <2> QED BY <2>2, <2>4 DEF ListInv
  <1>11. ASSUME NEW p \in Projects, ProjectList!ToggleFavorite(p) PROVE ListInv'
    <2>1. ListTypes' /\ ListSwitches'
      BY <1>11, <1>a DEF ProjectList!ToggleFavorite, ListTypes, ListSwitches
    <2>2. LoadIsComplete'
      BY <1>11, <1>a DEF ProjectList!ToggleFavorite, LoadIsComplete,
         ProjectList!ExistingIsListed, ProjectList!Unseen
    <2> QED BY <2>1, <2>2 DEF ListInv
  <1>12. ASSUME NEW p \in Projects, ProjectList!Others(p) PROVE ListInv'
    <2>1. ListTypes' /\ ListSwitches'
      BY <1>12, <1>a DEF ProjectList!Others, ListTypes, ListSwitches
    <2>2. LoadIsComplete'
      BY <1>12, <1>a DEF ProjectList!Others, LoadIsComplete,
         ProjectList!ExistingIsListed, ProjectList!Unseen
    <2> QED BY <2>1, <2>2 DEF ListInv
  <1>13. CASE UNCHANGED listVars
    <2>1. ListTypes' /\ ListSwitches'
      BY <1>13, <1>a DEF listVars, ListTypes, ListSwitches
    <2>2. LoadIsComplete'
      BY <1>13, <1>a DEF listVars, LoadIsComplete, ProjectList!ExistingIsListed,
         ProjectList!Unseen
    <2> QED BY <2>1, <2>2 DEF ListInv
  <1> QED BY <1>1, <1>2, <1>3, <1>4, <1>5, <1>6, <1>7, <1>8, <1>9, <1>10, <1>11,
             <1>12, <1>13 DEF ProjectList!Next

\* It gives the types of the list of projects, and ExistingIsListed.
LEMMA ListShown == ListInv => ProjectList!TypeOK /\ ProjectList!ExistingIsListed
  BY DEF ListInv, ListTypes, ListSwitches, LoadIsComplete, ProjectList!TypeOK,
         ProjectList!Sets, Create

(***************************************************************************)
(* ImportPage.                                                             *)
(***************************************************************************)
ImportOrgs ==
  /\ importStored \in Orgs \cup {None} /\ importOrgs \subseteq Orgs
  /\ orgID \in Orgs \cup {None}
ImportSwitches ==
  /\ importGate \in {"orgs", "github", "done"} /\ connected \in {"unknown", "yes", "no"}
  /\ {importLoading, importLeft} \subseteq BOOLEAN
ImportForm ==
  /\ repo \in {Blank, Typed, Chosen} \cup Templates /\ slug \in {Blank, Typed, Chosen}
  /\ preset \in {Blank, Typed} \cup Templates /\ template \in Templates
ImportNumbers == imports \in 0..asks /\ asks \in 0..MaxImports

\* There is one search at most, the last one, and none before GitHub is connected.
OneSearch ==
  /\ importQuery \in Queries /\ repos \in Queries \cup {None}
  /\ importAsked \in Queries \cup {None}
  /\ searches # {} => searches = {importAsked} /\ importAsked \in Queries /\ importLoading
  /\ searches = {} => ~importLoading /\ repos \in {importAsked, None}
  /\ importGate # "done" => searches = {} /\ connected = "unknown"
ImportInv == ImportOrgs /\ ImportSwitches /\ ImportForm /\ ImportNumbers /\ OneSearch

\* The invariant of the import page holds when the browser opens.
LEMMA ImportInit == Importing!Init => ImportInv
  <1> SUFFICES ASSUME Importing!Init PROVE ImportInv
    OBVIOUS
  <1> USE DEF Importing!Init
  <1>1. (CHOOSE q \in Queries : TRUE) \in Queries
    BY DashboardAssumption
  <1>2. (CHOOSE t \in Templates : TRUE) \in Templates
    BY DashboardAssumption
  <1>3. ImportSwitches
    BY Zenon DEF ImportSwitches
  <1>4. ImportForm /\ ImportOrgs
    BY <1>2 DEF ImportForm, ImportOrgs
  <1>5. ImportNumbers
    BY Bounds DEF ImportNumbers
  <1>6. OneSearch
    BY <1>1 DEF OneSearch
  <1> QED BY <1>3, <1>4, <1>5, <1>6 DEF ImportInv

\* Every step of the import page keeps it.
LEMMA ImportStep == ImportInv /\ [Importing!Next]_importVars => ImportInv'
  <1> SUFFICES ASSUME ImportInv, [Importing!Next]_importVars PROVE ImportInv'
    OBVIOUS
  <1> USE DEF ImportInv, Importing!formVars, Importing!LoadRepos
  <1>1. ImportSwitches' /\ ImportForm' /\ ImportOrgs'
    <2> USE DEF Importing!Next, Importing!LoadOrgs, Importing!LoadGitHub,
            Importing!Search, Importing!OnSelectRepo, Importing!EditForm,
            Importing!ImportProject, Importing!ImportAnswered, Importing!ReposArrive,
            Importing!TypeQuery, Importing!SelectOrg, Importing!ApplyTemplate,
               importVars
    <2>1. ImportSwitches'
      BY DEF ImportSwitches
    <2>2. ImportForm'
      BY DEF ImportForm
    <2>3. ImportOrgs'
      BY TwoOrgs DEF ImportOrgs
    <2> QED BY <2>1, <2>2, <2>3
  <1> USE DEF ImportNumbers, OneSearch
  <1>2. ASSUME Importing!LoadOrgs PROVE ImportNumbers' /\ OneSearch'
    BY <1>2 DEF Importing!LoadOrgs
  <1>3. ASSUME Importing!LoadGitHub PROVE ImportNumbers' /\ OneSearch'
    BY <1>3 DEF Importing!LoadGitHub
  <1>4. ASSUME Importing!Search PROVE ImportNumbers' /\ OneSearch'
    BY <1>4, DashboardAssumption DEF Importing!Search, ImportSwitches
  <1>5. ASSUME Importing!OnSelectRepo \/ Importing!EditForm
        PROVE  ImportNumbers' /\ OneSearch'
    BY <1>5 DEF Importing!OnSelectRepo, Importing!EditForm
  <1>6. ASSUME Importing!ImportProject PROVE ImportNumbers' /\ OneSearch'
    BY <1>6, Bounds DEF Importing!ImportProject
  <1>7. ASSUME Importing!ImportAnswered PROVE ImportNumbers' /\ OneSearch'
    BY <1>7, Bounds DEF Importing!ImportAnswered
  <1>8. ASSUME NEW q \in Queries, Importing!ReposArrive(q)
        PROVE  ImportNumbers' /\ OneSearch'
    BY <1>8 DEF Importing!ReposArrive
  <1>9. ASSUME NEW q \in Queries, Importing!TypeQuery(q)
        PROVE  ImportNumbers' /\ OneSearch'
    BY <1>9 DEF Importing!TypeQuery
  <1>10. ASSUME NEW o \in Orgs, Importing!SelectOrg(o)
         PROVE  ImportNumbers' /\ OneSearch'
    BY <1>10 DEF Importing!SelectOrg
  <1>11. ASSUME NEW t \in Templates, Importing!ApplyTemplate(t)
         PROVE  ImportNumbers' /\ OneSearch'
    BY <1>11 DEF Importing!ApplyTemplate
  <1>12. ASSUME UNCHANGED importVars PROVE ImportNumbers' /\ OneSearch'
    BY <1>12 DEF importVars
  <1> QED BY <1>1, <1>2, <1>3, <1>4, <1>5, <1>6, <1>7, <1>8, <1>9, <1>10, <1>11, <1>12
          DEF Importing!Next

\* It gives the types of the import page, and ReposAreOfAsked.
LEMMA ImportShown == ImportInv => Importing!TypeOK /\ Importing!ReposAreOfAsked
  BY Bounds DEF ImportInv, ImportOrgs, ImportSwitches, ImportForm, ImportNumbers,
     OneSearch,
                Importing!TypeOK, Importing!ReposAreOfAsked

(***************************************************************************)
(* ProjectPage.  The newest refresh brings the pointer, and it is the last *)
(* one to do so unless an answer was overtaken.  Its list reaches as far   *)
(* as whatever was shown or promoted before.                               *)
(***************************************************************************)
Builds == Project!Numbers
Lists == [Builds -> {"absent", "READY", "BUILDING"}]

ProjectTypes ==
  /\ prod \in Builds \cup {None} /\ built \in 1..MaxBuilds /\ ready \subseteq 1..built
  /\ promotes \subseteq [d : Builds, done : BOOLEAN]
  /\ refreshes \subseteq Project!Refreshes /\ count \in 0..(MaxPromotes + 1)
  /\ loaded \in Builds \cup {None} /\ deployments \in Lists
  /\ projectNewest \in 0..(MaxPromotes + 1) /\ projectForeign \in 0..MaxForeign

\* A refresh is known by its number; the project of the newest one to arrive is no
\* longer waited for.
Numbered ==
  /\ projectNewest <= count
  /\ \A r \in refreshes :
       /\ r.n <= count
       /\ r.of = "project" => r.n # projectNewest
       /\ r.of = "deployments" => r.n <= projectNewest
  /\ \A r, s \in refreshes : r.n = s.n => r = s

\* A list has no deployment that was not created, and none of the newest is left out
\* that is older than one it has.
Reaches(list, d) == \E e \in Builds : list[e] # "absent" /\ d <= e
FarAsItReaches(list) ==
  /\ \A e \in Builds : list[e] # "absent" => e <= built
  /\ \A d \in Project!Newest : Reaches(list, d) => list[d] # "absent"
ListsAreFull ==
  FarAsItReaches(deployments) /\ \A r \in refreshes : FarAsItReaches(r.list)

\* What is in production, promoted or shown is known to be created.  The list that is
\* to be shown reaches it, and so does the one that is shown when no other will come.
Known ==
  {d \in Builds : \/ d = prod \/ deployments[d] # "absent"
                  \/ \E p \in promotes : p.d = d}
KnownIsReached ==
  /\ \A d \in Known : d <= built
  /\ ~behind =>
       /\ \A r \in refreshes :
            r.of = "deployments" /\ r.made /\ r.n = projectNewest =>
              \A d \in Known : Reaches(r.list, d)
       /\ refreshes = {} => \A d \in Known : Reaches(deployments, d)

\* A promote that was done and not answered is still to be followed by a refresh.
\* Without one the newest refresh has brought the pointer, or it is going to.
PointerComes ==
  ~behind /\ (\A p \in promotes : ~p.done) =>
    \/ projectNewest = count /\ loaded = prod
    \/ \E r \in refreshes :
         r.n = count /\ r.of = "project" /\ (r.made => r.prod = prod)

ProjectInv ==
  /\ ProjectTypes /\ behind \in BOOLEAN /\ Numbered
  /\ ListsAreFull /\ KnownIsReached /\ PointerComes

\* Before anything is loaded no list is, and that one reaches nothing.
LEMMA NothingLoaded ==
  /\ Project!Unloaded \in Lists /\ FarAsItReaches(Project!Unloaded)
  /\ \A d \in Builds : Project!Unloaded[d] = "absent"
  BY DEF Project!Unloaded, Lists, Builds, FarAsItReaches, Reaches, Project!Newest

\* A refresh that is asked for, one whose answer was made, and the list in it.
LEMMA Asked ==
  ASSUME NEW n \in 1..(MaxPromotes + 1), NEW of \in {"project", "deployments"}
  PROVE  /\ Project!Asking(n, of) \in Project!Refreshes
         /\ Project!Asking(n, of).n = n /\ Project!Asking(n, of).of = of
         /\ Project!Asking(n, of).made = FALSE
         /\ FarAsItReaches(Project!Asking(n, of).list)
  <1>1. /\ Project!Asking(n, of).list = Project!Unloaded
        /\ Project!Asking(n, of).n = n /\ Project!Asking(n, of).of = of
        /\ Project!Asking(n, of).made = FALSE
    BY DEF Project!Asking
  <1>2. Project!Asking(n, of) \in Project!Refreshes
    BY NothingLoaded DEF Project!Asking, Project!Refreshes, Lists, Builds
  <1> QED BY <1>1, <1>2, NothingLoaded

\* The list the API makes is of the newest, up to the one created last.
LEMMA ListMade ==
  ASSUME ProjectTypes
  PROVE  /\ Project!Listing \in Lists /\ FarAsItReaches(Project!Listing)
         /\ \A d \in Builds : d <= built => Reaches(Project!Listing, d)
  <1> USE Bounds DEF ProjectTypes, Builds, Project!Numbers
  <1>1. Project!Listing \in Lists
    BY DEF Project!Listing, Lists
  <1>2. \A d \in Builds : Project!Listing[d] # "absent" <=> d \in Project!Newest
    BY DEF Project!Listing
  <1>3. Project!Newest \subseteq 1..built /\ built \in Project!Newest
    BY DEF Project!Newest
  <1> QED BY <1>1, <1>2, <1>3 DEF FarAsItReaches, Reaches

Made(r) ==
  [r EXCEPT !.made = TRUE,
            !.prod = IF r.of = "project" THEN prod ELSE None,
            !.list = IF r.of = "deployments" THEN Project!Listing ELSE Project!Unloaded]

\* Such an answer is a refresh still; the one of the project holds the pointer of now,
\* the other one the list of now.
LEMMA AnswerMade ==
  ASSUME ProjectTypes, NEW r \in refreshes
  PROVE  /\ Made(r) \in Project!Refreshes
         /\ Made(r).n = r.n /\ Made(r).of = r.of
         /\ r.of = "project" => Made(r).prod = prod
         /\ FarAsItReaches(Made(r).list)
         /\ r.of = "deployments" =>
              \A d \in Builds : d <= built => Reaches(Made(r).list, d)
  <1>1. r \in Project!Refreshes
    BY DEF ProjectTypes
  <1>2. Project!Listing \in Lists /\ Project!Unloaded \in Lists
    BY ListMade, NothingLoaded
  <1>3. /\ Made(r) \in Project!Refreshes
        /\ Made(r).n = r.n /\ Made(r).of = r.of
        /\ r.of = "project" => Made(r).prod = prod
        /\ r.of = "deployments" => Made(r).list = Project!Listing
        /\ r.of # "deployments" => Made(r).list = Project!Unloaded
    BY <1>1, <1>2 DEF Made, Project!Refreshes, ProjectTypes, Lists, Builds
  <1> QED BY <1>3, ListMade, NothingLoaded

\* A refresh has the fields of one.
LEMMA RefreshTypes ==
  ASSUME ProjectTypes, NEW r \in refreshes
  PROVE  /\ r.n \in 1..(MaxPromotes + 1) /\ r.of \in {"project", "deployments"}
         /\ r.made \in BOOLEAN /\ r.prod \in Builds \cup {None} /\ r.list \in Lists
  BY DEF ProjectTypes, Project!Refreshes, Builds, Lists

\* The invariant of the project page holds when the browser opens.
LEMMA ProjectInit == Project!Init => ProjectInv
  <1> SUFFICES ASSUME Project!Init PROVE ProjectInv
    OBVIOUS
  <1> DEFINE a == Project!Asking(1, "project")
  <1>1. 1 \in 1..(MaxPromotes + 1) /\ 1 \in 1..MaxBuilds
    BY Bounds
  <1>2. /\ a \in Project!Refreshes /\ a.n = 1 /\ a.of = "project" /\ a.made = FALSE
        /\ FarAsItReaches(a.list)
    BY <1>1, Asked
  <1>3. /\ prod = None /\ built = 1 /\ ready = {} /\ promotes = {} /\ projectForeign = 0
        /\ refreshes = {a} /\ count = 1 /\ loaded = None /\ projectNewest = 0
        /\ deployments = Project!Unloaded
    BY DEF Project!Init
  <1>4. behind = FALSE
    BY Zenon DEF Project!Init
  <1> HIDE DEF a
  <1>5. ProjectTypes
    BY <1>1, <1>2, <1>3, NothingLoaded, Bounds DEF ProjectTypes
  <1>6. Numbered /\ PointerComes
    BY <1>2, <1>3 DEF Numbered, PointerComes
  <1>7. ListsAreFull
    BY <1>2, <1>3, NothingLoaded DEF ListsAreFull
  <1>8. None \notin Builds
    BY DashboardAssumption, Bounds DEF Builds, Project!Numbers
  <1>9. KnownIsReached
    BY <1>2, <1>3, <1>8, NothingLoaded DEF KnownIsReached, Known
  <1> QED BY <1>4, <1>5, <1>6, <1>7, <1>9 DEF ProjectInv

\* A list that reaches as far as it should does so when one more is created.
LEMMA FarAfterBuild ==
  ASSUME ProjectTypes, NEW list \in Lists, FarAsItReaches(list),
         built' = built + 1
  PROVE  /\ \A e \in Builds : list[e] # "absent" => e <= built'
         /\ \A d \in Project!Newest' : Reaches(list, d) => list[d] # "absent"
  <1> USE Bounds DEF ProjectTypes, Builds, Project!Numbers
  <1>1. \A e \in Builds : list[e] # "absent" => e <= built
    BY DEF FarAsItReaches
  <1>2. ASSUME NEW d \in Project!Newest', Reaches(list, d) PROVE list[d] # "absent"
    <2>1. d <= built
      BY <1>1, <1>2 DEF Reaches, Project!Newest
    <2>2. d \in Project!Newest
      BY <2>1 DEF Project!Newest
    <2> QED BY <1>2, <2>2 DEF FarAsItReaches
  <1> QED BY <1>1, <1>2

\* Every step of the project page keeps it.
LEMMA ProjectStep == ProjectInv /\ [Project!Next]_projectVars => ProjectInv'
  <1> SUFFICES ASSUME ProjectInv, [Project!Next]_projectVars PROVE ProjectInv'
    OBVIOUS
  <1> USE Bounds DEF ProjectInv
  <1>0. \A r \in refreshes :
          /\ r.n \in 1..(MaxPromotes + 1) /\ r.of \in {"project", "deployments"}
          /\ r.made \in BOOLEAN /\ r.prod \in Builds \cup {None} /\ r.list \in Lists
    BY RefreshTypes
  <1>a. ASSUME UNCHANGED built PROVE \A list : FarAsItReaches(list) => FarAsItReaches(list)'
    BY <1>a DEF FarAsItReaches, Project!Newest, Reaches
  <1>b. \A d \in Known : d \in Builds
    BY DEF Known
  <1>1. ASSUME NEW r \in refreshes, Project!Answers(r) PROVE ProjectInv'
    <2>1. /\ refreshes' = (refreshes \ {r}) \cup {Made(r)} /\ ~r.made
          /\ UNCHANGED <<prod, built, ready, promotes, count, loaded, deployments,
                         projectNewest, behind, projectForeign>>
      BY <1>1 DEF Project!Answers, Made
    <2>2. /\ Made(r) \in Project!Refreshes
          /\ Made(r).n = r.n /\ Made(r).of = r.of
          /\ r.of = "project" => Made(r).prod = prod
          /\ FarAsItReaches(Made(r).list)
          /\ r.of = "deployments" =>
               \A d \in Builds : d <= built => Reaches(Made(r).list, d)
      BY AnswerMade
    <2> DEFINE m == Made(r)
    <2> HIDE DEF m
    <2>3. ProjectTypes'
      BY <2>1, <2>2 DEF ProjectTypes
    <2>4. Numbered'
      BY <2>1, <2>2, <1>0 DEF Numbered
    <2>5. ListsAreFull'
      <3>1. \A s \in refreshes' : FarAsItReaches(s.list)
        BY <2>1, <2>2 DEF ListsAreFull
      <3> QED BY <2>1, <3>1 DEF ListsAreFull, FarAsItReaches, Reaches, Project!Newest
    <2>6. KnownIsReached'
      <3>1. Known' = Known
        BY <2>1 DEF Known
      <3>2. \A d \in Known : d <= built /\ d \in Builds
        BY <1>b DEF KnownIsReached
      <3>3. r.of = "deployments" => \A d \in Known : Reaches(Made(r).list, d)
        BY <2>2, <3>2
      <3> QED BY <2>1, <2>2, <3>1, <3>3 DEF KnownIsReached, Reaches
    <2>7. PointerComes'
      BY <2>1, <2>2, <1>0 DEF PointerComes
    <2> QED BY <2>1, <2>3, <2>4, <2>5, <2>6, <2>7
  <1>2. ASSUME NEW r \in refreshes, Project!ProjectArrives(r) PROVE ProjectInv'
    <2> DEFINE a == Project!Asking(r.n, "deployments")
    <2>1. /\ loaded' = r.prod /\ r.made /\ r.of = "project"
          /\ refreshes' = (refreshes \ {r}) \cup {a}
          /\ projectNewest' = IF r.n > projectNewest THEN r.n ELSE projectNewest
          /\ behind' = (behind \/ r.n < projectNewest)
          /\ UNCHANGED <<prod, built, ready, promotes, count, deployments, projectForeign>>
      BY <1>2 DEF Project!ProjectArrives
    <2>2. /\ a \in Project!Refreshes
          /\ a.n = r.n /\ a.of = "deployments" /\ a.made = FALSE
          /\ FarAsItReaches(a.list)
      BY <1>0, Asked
    <2> HIDE DEF a
    <2>3. ProjectTypes'
      BY <2>1, <2>2, <1>0 DEF ProjectTypes
    <2>4. Numbered'
      BY <2>1, <2>2, <1>0 DEF Numbered, ProjectTypes
    <2>5. ListsAreFull'
      <3>1. \A s \in refreshes' : FarAsItReaches(s.list)
        BY <2>1, <2>2 DEF ListsAreFull
      <3> QED BY <2>1, <3>1 DEF ListsAreFull, FarAsItReaches, Reaches, Project!Newest
    <2>6. KnownIsReached'
      <3>1. Known' = Known /\ refreshes' # {}
        BY <2>1 DEF Known
      <3>2. \A d \in Known : d <= built'
        BY <2>1 DEF KnownIsReached
      <3>3. ASSUME ~behind', NEW s \in refreshes', s.of = "deployments", s.made,
                   s.n = projectNewest'
            PROVE  \A d \in Known : Reaches(s.list, d)
        <4>1. s \in refreshes /\ s # r /\ ~behind
          BY <2>1, <2>2, <3>3
        <4>2. s.n # r.n
          BY <4>1 DEF Numbered
        <4>3. projectNewest' = projectNewest
          BY <2>1, <3>3, <4>2
        <4> QED BY <3>3, <4>1, <4>3 DEF KnownIsReached
      <3> QED BY <3>1, <3>2, <3>3 DEF KnownIsReached, Reaches
    <2>7. PointerComes'
      <3>1. SUFFICES ASSUME ~behind', \A p \in promotes : ~p.done PROVE PointerComes'
        BY <2>1 DEF PointerComes
      <3>2. ~behind /\ r.n >= projectNewest
        BY <2>1, <3>1, <1>0 DEF ProjectTypes
      <3>3. r.n > projectNewest /\ projectNewest' = r.n
        BY <2>1, <3>2, <1>0 DEF Numbered, ProjectTypes
      <3>4. PICK s \in refreshes :
              s.n = count /\ s.of = "project" /\ (s.made => s.prod = prod)
        BY <3>1, <3>2, <3>3, <1>0 DEF PointerComes, Numbered, ProjectTypes
      <3>5. CASE s = r
        BY <2>1, <3>3, <3>4, <3>5 DEF PointerComes
      <3>6. CASE s # r
        BY <2>1, <3>4, <3>6 DEF PointerComes
      <3> QED BY <3>5, <3>6
    <2>8. behind' \in BOOLEAN
      BY <2>1
    <2> QED BY <2>3, <2>4, <2>5, <2>6, <2>7, <2>8
  <1>3. ASSUME NEW r \in refreshes, Project!DeploymentsArrive(r) PROVE ProjectInv'
    <2>1. /\ deployments' = r.list /\ refreshes' = refreshes \ {r}
          /\ r.made /\ r.of = "deployments" /\ behind' = (behind \/ r.n < projectNewest)
          /\ UNCHANGED <<promotes, prod, built, ready, loaded, projectForeign>>
          /\ \/ count' = count /\ projectNewest' = projectNewest
             \/ refreshes' = {} /\ count' = 0 /\ projectNewest' = 0
      BY <1>3 DEF Project!DeploymentsArrive, Project!Renumber, Project!Quiet
    <2>2. ProjectTypes'
      BY <2>1, <1>0 DEF ProjectTypes
    <2>3. Numbered'
      BY <2>1 DEF Numbered
    <2>4. ListsAreFull'
      <3>1. FarAsItReaches(r.list) /\ \A s \in refreshes' : FarAsItReaches(s.list)
        BY <2>1 DEF ListsAreFull
      <3> QED BY <2>1, <3>1 DEF ListsAreFull, FarAsItReaches, Reaches, Project!Newest
    <2>5. KnownIsReached'
      <3>1. \A d \in Known' : d \in Known \/ r.list[d] # "absent"
        BY <2>1 DEF Known
      <3>2. \A d \in Known' : d <= built /\ d \in Builds
        BY <2>1, <3>1 DEF KnownIsReached, ListsAreFull, FarAsItReaches, Known
      <3>3. ASSUME ~behind' PROVE \A d \in Known' : Reaches(r.list, d)
        <4>1. ~behind /\ r.n = projectNewest
          BY <2>1, <3>3, <1>0 DEF Numbered, ProjectTypes
        <4>2. \A d \in Known : Reaches(r.list, d)
          BY <2>1, <4>1 DEF KnownIsReached
        <4>3. \A d \in Builds : r.list[d] # "absent" => Reaches(r.list, d)
          BY DEF Reaches, Builds, Project!Numbers
        <4> QED BY <3>1, <3>2, <4>2, <4>3
      <3>4. ASSUME ~behind', NEW s \in refreshes', s.of = "deployments",
                   s.n = projectNewest'
            PROVE  FALSE
        <4>1. s \in refreshes /\ s # r /\ projectNewest' = projectNewest
          BY <2>1, <3>4
        <4>2. r.n = projectNewest
          BY <2>1, <3>4, <1>0 DEF Numbered, ProjectTypes
        <4> QED BY <3>4, <4>1, <4>2 DEF Numbered
      <3> QED BY <2>1, <3>2, <3>3, <3>4 DEF KnownIsReached, Reaches
    <2>6. PointerComes'
      <3>1. SUFFICES ASSUME ~behind', \A p \in promotes : ~p.done PROVE PointerComes'
        BY <2>1 DEF PointerComes
      <3>2. CASE projectNewest = count /\ loaded = prod
        BY <2>1, <3>2 DEF PointerComes
      <3>3. ASSUME NEW s \in refreshes, s.n = count, s.of = "project",
                   s.made => s.prod = prod
            PROVE  PointerComes'
        <4>1. s \in refreshes'
          BY <2>1, <3>3
        <4> QED BY <2>1, <3>3, <4>1 DEF PointerComes
      <3> QED BY <2>1, <3>1, <3>2, <3>3 DEF PointerComes
    <2>7. behind' \in BOOLEAN
      BY <2>1
    <2> QED BY <2>2, <2>3, <2>4, <2>5, <2>6, <2>7
  <1>4. ASSUME NEW r \in refreshes, Project!RefreshFails(r) PROVE ProjectInv'
    <2>1. /\ refreshes' = refreshes \ {r} /\ behind' = TRUE
          /\ UNCHANGED <<promotes, prod, built, ready, loaded, deployments, projectForeign>>
          /\ \/ count' = count /\ projectNewest' = projectNewest
             \/ refreshes' = {} /\ count' = 0 /\ projectNewest' = 0
      BY <1>4 DEF Project!RefreshFails, Project!Renumber, Project!Quiet
    <2>2. ProjectTypes'
      BY <2>1 DEF ProjectTypes
    <2>3. ListsAreFull'
      BY <2>1 DEF ListsAreFull, FarAsItReaches, Reaches, Project!Newest
    <2>4. KnownIsReached'
      BY <2>1 DEF KnownIsReached, Known
    <2> QED BY <2>1, <2>2, <2>3, <2>4 DEF Numbered, PointerComes
  <1>5. ASSUME NEW p \in promotes, Project!Promotes(p) PROVE ProjectInv'
    <2> DEFINE q == [p EXCEPT !.done = TRUE]
    <2>1. /\ promotes' = (promotes \ {p}) \cup {q} /\ prod' = p.d
          /\ UNCHANGED <<built, ready, refreshes, count, loaded, deployments,
                         projectNewest, behind, projectForeign>>
      BY <1>5 DEF Project!Promotes
    <2>2. q \in [d : Builds, done : BOOLEAN] /\ q.done /\ q.d = p.d /\ p.d \in Builds
      BY DEF ProjectTypes
    <2> HIDE DEF q
    <2>3. ProjectTypes'
      BY <2>1, <2>2 DEF ProjectTypes
    <2>4. ListsAreFull'
      BY <2>1 DEF ListsAreFull, FarAsItReaches, Reaches, Project!Newest
    <2>5. Known' \subseteq Known
      BY <2>1, <2>2 DEF Known
    <2>6. KnownIsReached'
      BY <2>1, <2>5 DEF KnownIsReached, Reaches
    <2> QED BY <2>1, <2>2, <2>3, <2>4, <2>6 DEF Numbered, PointerComes
  <1>6. ASSUME NEW p \in promotes, Project!PromoteAnswered(p) PROVE ProjectInv'
    <2> DEFINE a == Project!Asking(count + 1, "project")
    <2>1. /\ promotes' = promotes \ {p} /\ count' = count + 1 /\ count <= MaxPromotes
          /\ refreshes' = refreshes \cup {a}
          /\ behind' = (behind /\ (promotes # {p} \/ refreshes # {}))
          /\ UNCHANGED <<prod, built, ready, loaded, deployments, projectNewest,
                         projectForeign>>
      BY <1>6 DEF Project!PromoteAnswered
    <2>2. /\ a \in Project!Refreshes
          /\ a.n = count + 1 /\ a.of = "project" /\ a.made = FALSE
          /\ FarAsItReaches(a.list)
      <3>1. count + 1 \in 1..(MaxPromotes + 1)
        BY <2>1 DEF ProjectTypes
      <3> QED BY <3>1, Asked
    <2> HIDE DEF a
    <2>3. ProjectTypes'
      BY <2>1, <2>2 DEF ProjectTypes
    <2>4. Numbered'
      BY <2>1, <2>2, <1>0 DEF Numbered, ProjectTypes
    <2>5. ListsAreFull'
      <3>1. \A s \in refreshes' : FarAsItReaches(s.list)
        BY <2>1, <2>2 DEF ListsAreFull
      <3> QED BY <2>1, <3>1 DEF ListsAreFull, FarAsItReaches, Reaches, Project!Newest
    <2>6. KnownIsReached'
      <3>1. Known' \subseteq Known
        BY <2>1 DEF Known
      <3>2. \A d \in Known' : d <= built'
        BY <2>1, <3>1 DEF KnownIsReached
      <3>3. ASSUME ~behind', NEW s \in refreshes', s.of = "deployments", s.made,
                   s.n = projectNewest'
            PROVE  \A d \in Known' : Reaches(s.list, d)
        <4>1. s \in refreshes
          BY <2>1, <2>2, <3>3
        <4>2. ~behind
          BY <2>1, <3>3, <4>1
        <4> QED BY <2>1, <3>1, <3>3, <4>1, <4>2 DEF KnownIsReached
      <3> QED BY <2>1, <3>2, <3>3 DEF KnownIsReached, Reaches
    <2>7. PointerComes'
      BY <2>1, <2>2 DEF PointerComes
    <2>8. behind' \in BOOLEAN
      BY <2>1
    <2> QED BY <2>3, <2>4, <2>5, <2>6, <2>7, <2>8
  <1>7. ASSUME NEW p \in promotes, Project!PromoteFails(p) PROVE ProjectInv'
    <2>1. /\ promotes' = promotes \ {p} /\ behind' = (behind \/ p.done)
          /\ UNCHANGED <<refreshes, prod, built, ready, loaded, deployments, projectForeign>>
          /\ \/ count' = count /\ projectNewest' = projectNewest
             \/ refreshes' = {} /\ count' = 0 /\ projectNewest' = 0
      BY <1>7 DEF Project!PromoteFails, Project!Renumber, Project!Quiet
    <2>2. p.done \in BOOLEAN
      BY DEF ProjectTypes
    <2>3. ProjectTypes'
      BY <2>1 DEF ProjectTypes
    <2>4. Numbered'
      BY <2>1, <2>2 DEF Numbered
    <2>5. ListsAreFull'
      BY <2>1 DEF ListsAreFull, FarAsItReaches, Reaches, Project!Newest
    <2>6. Known' \subseteq Known
      BY <2>1 DEF Known
    <2>7. KnownIsReached'
      BY <2>1, <2>6 DEF KnownIsReached, Reaches
    <2>8. PointerComes'
      BY <2>1, <2>2 DEF PointerComes
    <2> QED BY <2>1, <2>2, <2>3, <2>4, <2>5, <2>7, <2>8
  <1>8. ASSUME Project!BuildStarts PROVE ProjectInv'
    <2>1. /\ built' = built + 1 /\ built < MaxBuilds
          /\ UNCHANGED <<prod, ready, promotes, refreshes, count, loaded, deployments,
                         projectNewest, behind, projectForeign>>
      BY <1>8 DEF Project!BuildStarts
    <2>2. ProjectTypes'
      BY <2>1 DEF ProjectTypes
    <2>3. ListsAreFull'
      <3>1. deployments \in Lists /\ \A r \in refreshes : r.list \in Lists
        BY <1>0 DEF ProjectTypes
      <3>2. \A list \in Lists : FarAsItReaches(list) =>
              /\ \A e \in Builds : list[e] # "absent" => e <= built'
              /\ \A d \in Project!Newest' : Reaches(list, d) => list[d] # "absent"
        BY <2>1, FarAfterBuild
      <3> QED BY <2>1, <3>1, <3>2 DEF ListsAreFull, FarAsItReaches, Reaches
    <2>4. Known' = Known
      BY <2>1 DEF Known
    <2>5. \A d \in Known : d <= built'
      BY <2>1, <1>b DEF KnownIsReached, ProjectTypes, Builds, Project!Numbers
    <2>6. KnownIsReached'
      BY <2>1, <2>4, <2>5 DEF KnownIsReached, Reaches
    <2> QED BY <2>1, <2>2, <2>3, <2>6 DEF Numbered, PointerComes
  <1>9. ASSUME NEW d \in Builds, Project!BuildEnds(d) PROVE ProjectInv'
    <2>1. /\ UNCHANGED <<prod, built, promotes, refreshes, count, loaded, deployments,
                         projectNewest, behind, projectForeign>>
          /\ ready' \subseteq 1..built
      BY <1>9 DEF Project!BuildEnds, ProjectTypes
    <2>2. ProjectTypes' /\ Numbered' /\ PointerComes'
      BY <2>1 DEF ProjectTypes, Numbered, PointerComes
    <2>3. ListsAreFull'
      BY <2>1 DEF ListsAreFull, FarAsItReaches, Reaches, Project!Newest
    <2>4. KnownIsReached'
      BY <2>1 DEF KnownIsReached, Known, Reaches
    <2> QED BY <2>1, <2>2, <2>3, <2>4
  <1>10. ASSUME NEW d \in Builds, Project!Promote(d) PROVE ProjectInv'
    <2> DEFINE q == [d |-> d, done |-> FALSE]
    <2>1. /\ promotes' = promotes \cup {q} /\ deployments[d] # "absent"
          /\ UNCHANGED <<prod, built, ready, refreshes, count, loaded, deployments,
                         projectNewest, behind, projectForeign>>
      BY <1>10 DEF Project!Promote, Project!Promotable
    <2>2. q \in [d : Builds, done : BOOLEAN] /\ q.d = d /\ q.done = FALSE
      OBVIOUS
    <2> HIDE DEF q
    <2>3. ProjectTypes' /\ Numbered' /\ PointerComes'
      BY <2>1, <2>2 DEF ProjectTypes, Numbered, PointerComes
    <2>4. ListsAreFull'
      BY <2>1 DEF ListsAreFull, FarAsItReaches, Reaches, Project!Newest
    <2>5. Known' \subseteq Known
      BY <2>1, <2>2 DEF Known
    <2>6. KnownIsReached'
      BY <2>1, <2>5 DEF KnownIsReached, Reaches
    <2> QED BY <2>1, <2>3, <2>4, <2>6
  <1>11. ASSUME NEW d \in Builds, Project!ForeignPromote(d) PROVE ProjectInv'
    <2>1. /\ prod' = d /\ d \in ready /\ behind' = TRUE
          /\ projectForeign' \in 0..MaxForeign
          /\ UNCHANGED <<built, ready, promotes, refreshes, count, loaded, deployments,
                         projectNewest>>
      BY <1>11 DEF Project!ForeignPromote, ProjectTypes
    <2>2. ProjectTypes' /\ Numbered' /\ PointerComes'
      BY <2>1 DEF ProjectTypes, Numbered, PointerComes
    <2>3. ListsAreFull'
      BY <2>1 DEF ListsAreFull, FarAsItReaches, Reaches, Project!Newest
    <2>4. \A e \in Known' : e \in Known \/ e = d
      BY <2>1 DEF Known
    <2>5. d <= built
      BY <2>1 DEF ProjectTypes
    <2>6. KnownIsReached'
      BY <2>1, <2>4, <2>5 DEF KnownIsReached
    <2> QED BY <2>1, <2>2, <2>3, <2>6
  <1>12. ASSUME Project!Reload PROVE ProjectInv'
    <2> DEFINE a == Project!Asking(1, "project")
    <2>1. /\ refreshes' = {a} /\ count' = 1 /\ projectNewest' = 0
          /\ loaded' = None /\ deployments' = Project!Unloaded /\ behind' = FALSE
          /\ UNCHANGED <<prod, built, ready, promotes, projectForeign>>
      BY <1>12 DEF Project!Reload
    <2>2. /\ a \in Project!Refreshes /\ a.n = 1 /\ a.of = "project" /\ a.made = FALSE
          /\ FarAsItReaches(a.list)
      <3>1. 1 \in 1..(MaxPromotes + 1)
        OBVIOUS
      <3> QED BY <3>1, Asked
    <2> HIDE DEF a
    <2>3. ProjectTypes'
      BY <2>1, <2>2, NothingLoaded DEF ProjectTypes
    <2>4. Numbered'
      BY <2>1, <2>2 DEF Numbered
    <2>5. ListsAreFull'
      <3>1. FarAsItReaches(Project!Unloaded) /\ \A s \in refreshes' : FarAsItReaches(s.list)
        BY <2>1, <2>2, NothingLoaded
      <3>2. \A list : FarAsItReaches(list) =>
              /\ \A e \in Builds : list[e] # "absent" => e <= built'
              /\ \A d \in Project!Newest' : Reaches(list, d) => list[d] # "absent"
        BY <2>1 DEF FarAsItReaches, Project!Newest
      <3> QED BY <2>1, <3>1, <3>2 DEF ListsAreFull, FarAsItReaches, Reaches
    <2>6. Known' \subseteq Known
      BY <2>1, NothingLoaded DEF Known
    <2>7. KnownIsReached'
      BY <2>1, <2>2, <2>6 DEF KnownIsReached, Reaches
    <2>8. PointerComes'
      BY <2>1, <2>2 DEF PointerComes
    <2>9. behind' \in BOOLEAN
      BY <2>1, Zenon
    <2> QED BY <2>3, <2>4, <2>5, <2>7, <2>8, <2>9
  <1>13. ASSUME UNCHANGED projectVars PROVE ProjectInv'
    <2>1. UNCHANGED <<prod, built, ready, promotes, refreshes, count, loaded, deployments,
                      projectNewest, behind, projectForeign>>
      BY <1>13 DEF projectVars
    <2>2. ProjectTypes' /\ Numbered' /\ PointerComes'
      BY <2>1 DEF ProjectTypes, Numbered, PointerComes
    <2>3. ListsAreFull'
      BY <2>1 DEF ListsAreFull, FarAsItReaches, Reaches, Project!Newest
    <2>4. KnownIsReached'
      BY <2>1 DEF KnownIsReached, Known, Reaches
    <2> QED BY <2>1, <2>2, <2>3, <2>4
  <1> HIDE DEF ProjectInv
  <1> QED BY <1>1, <1>2, <1>3, <1>4, <1>5, <1>6, <1>7, <1>8, <1>9, <1>10, <1>11, <1>12,
             <1>13, Zenon DEF Project!Next, Builds

\* With nothing under way, what the page shows is the pointer, and its row is there if
\* the API lists it.
LEMMA ProjectShown == ProjectInv => Project!TypeOK /\ Project!BannerIsProduction
  <1> SUFFICES ASSUME ProjectInv PROVE Project!TypeOK /\ Project!BannerIsProduction
    OBVIOUS
  <1>1. Project!TypeOK
    BY Bounds DEF ProjectInv, ProjectTypes, Builds, Lists, Project!TypeOK
  <1>2. ASSUME Project!Quiet, ~behind
        PROVE  Project!Banner \subseteq {prod} /\ (prod \in Project!Newest => Project!Banner = {prod})
    <2>1. loaded = prod
      BY <1>2 DEF ProjectInv, PointerComes, Project!Quiet
    <2>2. Project!Banner \subseteq {prod}
      BY <2>1 DEF Project!Banner, Project!ProductionDeployment
    <2>3. ASSUME prod \in Project!Newest PROVE Project!Banner = {prod}
      <3>1. prod \in Builds /\ prod # None
        BY <2>3, Bounds, DashboardAssumption
           DEF ProjectInv, ProjectTypes, Builds, Project!Numbers, Project!Newest
      <3>2. prod \in Known
        BY <3>1 DEF Known
      <3>3. Reaches(deployments, prod)
        BY <1>2, <3>2 DEF ProjectInv, KnownIsReached, Project!Quiet
      <3>4. deployments[prod] # "absent"
        BY <2>3, <3>3 DEF ProjectInv, ListsAreFull, FarAsItReaches
      <3> QED BY <2>1, <3>1, <3>4 DEF Project!Banner, Project!ProductionDeployment
    <2> QED BY <2>2, <2>3
  <1> QED BY <1>1, <1>2 DEF Project!BannerIsProduction

(***************************************************************************)
(* LogTab.  There is one stream at most, of the deployment that was chosen *)
(* last, and it has sent what the pane holds.                              *)
(***************************************************************************)
OutputTypes ==
  /\ written \in [Deployments -> 0..MaxOutput]
  /\ outputTab \in Output!Tabs /\ logsFor \in Deployments \cup {None}
  /\ streams \subseteq [of : Deployments, sent : 0..MaxOutput]

StreamFillsPane ==
  \E k \in 0..MaxOutput :
    /\ logsFor = None => k = 0 /\ streams = {}
    /\ logsFor # None => k <= written[logsFor]
    /\ logs = Output!OutputOf(logsFor, k)
    /\ \A s \in streams : s.of = logsFor /\ s.sent = k

OutputInv == OutputTypes /\ StreamFillsPane

\* The output of a deployment, piece by piece.
LEMMA OutputStarts == ASSUME NEW d PROVE Output!OutputOf(d, 0) = <<>>
  BY DEF Output!OutputOf

\* The next piece of the output makes it the longer output.
LEMMA OutputGrows ==
  ASSUME NEW d, NEW k \in Nat
  PROVE  Append(Output!OutputOf(d, k), <<d, k + 1>>) = Output!OutputOf(d, k + 1)
  BY DEF Output!OutputOf

\* The output up to k has k pieces.
LEMMA OutputPieces ==
  ASSUME NEW d \in Deployments, NEW k \in 0..MaxOutput
  PROVE  /\ Len(Output!OutputOf(d, k)) = k
         /\ \A i \in 1..k : Output!OutputOf(d, k)[i] \in Output!Pieces
  <1>1. k \in Nat
    BY Bounds
  <1>2. Len(Output!OutputOf(d, k)) = k
    BY <1>1 DEF Output!OutputOf
  <1>3. ASSUME NEW i \in 1..k PROVE Output!OutputOf(d, k)[i] \in Output!Pieces
    BY Bounds DEF Output!OutputOf, Output!Pieces
  <1> QED BY <1>2, <1>3

\* The invariant of the logs tab holds when the browser opens.
LEMMA OutputInit == Output!Init => OutputInv
  <1> SUFFICES ASSUME Output!Init PROVE OutputInv
    OBVIOUS
  <1>1. OutputTypes
    BY Bounds DEF Output!Init, OutputTypes, Output!Tabs
  <1>2. StreamFillsPane
    BY Bounds, OutputStarts DEF Output!Init, StreamFillsPane
  <1> QED BY <1>1, <1>2 DEF OutputInv

\* Every step of the logs tab keeps it.
LEMMA OutputStep == OutputInv /\ [Output!Next]_outputVars => OutputInv'
  <1> SUFFICES ASSUME OutputInv, [Output!Next]_outputVars PROVE OutputInv'
    OBVIOUS
  <1> USE Bounds DEF OutputInv
  <1>0. PICK k \in 0..MaxOutput :
          /\ logsFor = None => k = 0 /\ streams = {}
          /\ logsFor # None => k <= written[logsFor]
          /\ logs = Output!OutputOf(logsFor, k)
          /\ \A s \in streams : s.of = logsFor /\ s.sent = k
    BY DEF StreamFillsPane
  <1>a. None \notin Deployments
    BY DashboardAssumption
  <1>1. ASSUME NEW d \in Deployments, Output!BuildWrites(d) PROVE OutputInv'
    <2>1. /\ written' = [written EXCEPT ![d] = @ + 1] /\ written[d] < MaxOutput
          /\ UNCHANGED <<outputTab, logsFor, logs, streams>>
      BY <1>1 DEF Output!BuildWrites
    <2>2. written' \in [Deployments -> 0..MaxOutput]
      BY <2>1 DEF OutputTypes
    <2>3. logsFor # None => k <= written'[logsFor]
      BY <1>0, <2>1 DEF OutputTypes
    <2>4. OutputTypes'
      BY <2>1, <2>2 DEF OutputTypes
    <2>5. StreamFillsPane'
      BY <1>0, <2>1, <2>3 DEF StreamFillsPane
    <2> QED BY <2>4, <2>5
  <1>2. ASSUME NEW d \in Deployments, Output!ChooseLogs(d) PROVE OutputInv'
    <2> DEFINE n == [of |-> d, sent |-> 0]
    <2>1. /\ logsFor' = d /\ logs' = <<>> /\ outputTab' = "logs" /\ streams' = {n}
          /\ written' = written
      BY <1>2 DEF Output!ChooseLogs
    <2>2. n \in [of : Deployments, sent : 0..MaxOutput] /\ n.of = d /\ n.sent = 0
      OBVIOUS
    <2> HIDE DEF n
    <2>3. OutputTypes'
      BY <2>1, <2>2 DEF OutputTypes, Output!Tabs
    <2>4. logs' = Output!OutputOf(d, 0) /\ 0 <= written[d] /\ 0 \in 0..MaxOutput
      BY <2>1, OutputStarts DEF OutputTypes
    <2>5. StreamFillsPane'
      BY <1>a, <2>1, <2>2, <2>4 DEF StreamFillsPane
    <2> QED BY <2>3, <2>5
  <1>3. ASSUME NEW t \in Output!Tabs, Output!SelectTab(t) PROVE OutputInv'
    BY <1>3 DEF Output!SelectTab, OutputTypes, StreamFillsPane
  <1>4. ASSUME NEW s \in streams, Output!LogArrives(s) PROVE OutputInv'
    <2> DEFINE n == [s EXCEPT !.sent = @ + 1]
    <2>1. /\ s.sent < written[s.of] /\ logs' = Append(logs, <<s.of, s.sent + 1>>)
          /\ streams' = (streams \ {s}) \cup {n}
          /\ UNCHANGED <<written, outputTab, logsFor>>
      BY <1>4 DEF Output!LogArrives
    <2>2. s \in [of : Deployments, sent : 0..MaxOutput]
      BY DEF OutputTypes
    <2>3. s.of = logsFor /\ s.sent = k /\ k \in Nat /\ logsFor \in Deployments
      BY <1>0, <1>a, <2>2
    <2>4. k < written[logsFor] /\ k + 1 \in 0..MaxOutput
      <3>1. written[logsFor] \in 0..MaxOutput
        BY <2>3 DEF OutputTypes
      <3>2. k < written[logsFor]
        BY <2>1, <2>3
      <3> QED BY <2>3, <3>1, <3>2
    <2>5. /\ n \in [of : Deployments, sent : 0..MaxOutput] /\ n.of = logsFor
          /\ n.sent = k + 1
      BY <2>2, <2>3, <2>4
    <2>6. \A x \in streams : x = s
      BY <1>0, <2>2, <2>3 DEF OutputTypes
    <2>7. logs' = Output!OutputOf(logsFor, k + 1)
      BY <1>0, <2>1, <2>3, OutputGrows
    <2> HIDE DEF n
    <2>8. OutputTypes'
      BY <2>1, <2>5 DEF OutputTypes
    <2>9. StreamFillsPane'
      <3>1. streams' = {n}
        BY <2>1, <2>6
      <3>2. k + 1 <= written'[logsFor']
        <4>1. written[logsFor] \in 0..MaxOutput
          BY <2>3 DEF OutputTypes
        <4> QED BY <2>1, <2>3, <2>4, <4>1
      <3>3. logsFor' # None /\ logs' = Output!OutputOf(logsFor', k + 1)
        BY <1>a, <2>1, <2>3, <2>7
      <3> QED BY <2>1, <2>4, <2>5, <3>1, <3>2, <3>3 DEF StreamFillsPane
    <2> QED BY <2>8, <2>9
  <1>5. ASSUME NEW s \in streams, Output!StreamBreaks(s) PROVE OutputInv'
    BY <1>5 DEF Output!StreamBreaks, OutputTypes, StreamFillsPane
  <1>6. ASSUME Output!Reopen PROVE OutputInv'
    <2>1. /\ outputTab' = "deployments" /\ logsFor' = None /\ logs' = <<>>
          /\ streams' = {} /\ written' = written
      BY <1>6 DEF Output!Reopen
    <2>2. logs' = Output!OutputOf(None, 0) /\ 0 \in 0..MaxOutput
      BY <2>1, OutputStarts
    <2>3. OutputTypes'
      BY <2>1 DEF OutputTypes, Output!Tabs
    <2>4. StreamFillsPane'
      BY <2>1, <2>2 DEF StreamFillsPane
    <2> QED BY <2>3, <2>4
  <1>7. ASSUME UNCHANGED outputVars PROVE OutputInv'
    BY <1>7 DEF outputVars, OutputTypes, StreamFillsPane
  <1> HIDE DEF OutputInv
  <1> QED BY <1>1, <1>2, <1>3, <1>4, <1>5, <1>6, <1>7, Zenon DEF Output!Next

\* The pane holds the beginning of the output, piece by piece.
LEMMA OutputShown == OutputInv => Output!TypeOK /\ Output!LogsAreOfChosen
  <1> SUFFICES ASSUME OutputInv PROVE Output!TypeOK /\ Output!LogsAreOfChosen
    OBVIOUS
  <1>1. PICK k \in 0..MaxOutput :
          /\ logsFor = None => k = 0 /\ streams = {}
          /\ logsFor # None => k <= written[logsFor]
          /\ logs = Output!OutputOf(logsFor, k)
    BY DEF OutputInv, StreamFillsPane
  <1>2. Output!Pane = Output!OutputOf(logsFor, k)
    BY <1>1, OutputStarts DEF Output!Pane
  <1>3. Len(logs) <= MaxOutput /\ \A i \in 1..Len(logs) : logs[i] \in Output!Pieces
    <2>1. CASE logsFor = None
      BY <1>1, <2>1, Bounds, OutputStarts
    <2>2. CASE logsFor # None
      BY <1>1, <2>2, Bounds, OutputPieces DEF OutputInv, OutputTypes
    <2> QED BY <2>1, <2>2
  <1> QED BY <1>1, <1>2, <1>3
          DEF OutputInv, OutputTypes, Output!TypeOK, Output!LogsAreOfChosen

(***************************************************************************)
(* EnvTab.  The last list asked for is of the scope and will hold what is  *)
(* stored, or the tab already shows what it would bring.                   *)
(***************************************************************************)
ListFields ==
  [n : 1..MaxRequests, scope : Variables!Scopes, made : BOOLEAN,
   rows : SUBSET (Variables!Scopes \X Keys)]
SaveFields == [scope : Variables!Scopes, key : Keys, done : {"no", "ok", "failed"}]

VariablesTypes ==
  /\ env \in [Variables!Scopes -> SUBSET Keys]
  /\ scope \in Variables!Scopes /\ envs \subseteq Variables!Scopes \X Keys
  /\ key \in Keys \cup {NoKey}
  /\ saves \subseteq SaveFields /\ variablesLists \subseteq ListFields
  /\ variablesAsked \in 0..MaxRequests /\ variablesNewest \in 0..MaxRequests
  /\ variablesForeign \in 0..MaxForeign

\* A list is known by its number, and the newest to arrive is no longer waited for.
ListsNumbered ==
  /\ variablesNewest <= variablesAsked
  /\ \A l \in variablesLists : l.n <= variablesAsked /\ l.n # variablesNewest
  /\ \A l, m \in variablesLists : l.n = m.n => l = m

\* The list that follows a save is of the scope that is chosen.
SavesAreOfScope == ~raced => \A v \in saves : v.scope = scope

\* A save that was done and not answered is still to be followed by a list.  Without
\* one the last list has brought what is stored, or it is going to.
ListComes ==
  ~raced /\ (\A v \in saves : v.done # "ok") =>
    \/ variablesNewest = variablesAsked /\ envs = Variables!Listed(scope)
    \/ \E l \in variablesLists :
         /\ l.n = variablesAsked /\ l.scope = scope
         /\ l.made => l.rows = Variables!Listed(scope)

VariablesInv ==
  VariablesTypes /\ raced \in BOOLEAN /\ ListsNumbered /\ SavesAreOfScope /\ ListComes

\* A list that is asked for, and one that was answered.
LEMMA ListAsked ==
  ASSUME NEW n \in 1..MaxRequests, NEW s \in Variables!Scopes
  PROVE  Variables!Asking(n, s) \in ListFields
  BY DEF Variables!Asking, ListFields

Answered(l) == [l EXCEPT !.made = TRUE, !.rows = Variables!Listed(l.scope)]

\* An answered list has the fields of one, and the rows of its scope.
LEMMA ListAnswered ==
  ASSUME VariablesTypes, NEW l \in variablesLists
  PROVE  /\ Answered(l) \in ListFields
         /\ Answered(l).n = l.n /\ Answered(l).scope = l.scope
         /\ Answered(l).rows = Variables!Listed(l.scope)
  <1>1. l \in ListFields
    BY DEF VariablesTypes
  <1>2. Variables!Listed(l.scope) \in SUBSET (Variables!Scopes \X Keys)
    BY <1>1 DEF VariablesTypes, ListFields, Variables!Listed
  <1> QED BY <1>1, <1>2 DEF Answered, ListFields

\* A list has the fields of one, and so has a save.
LEMMA RecordTypes ==
  ASSUME VariablesTypes
  PROVE  /\ \A l \in variablesLists :
              /\ l.n \in 1..MaxRequests /\ l.scope \in Variables!Scopes
              /\ l.made \in BOOLEAN /\ l.rows \subseteq Variables!Scopes \X Keys
         /\ \A v \in saves :
              /\ v.scope \in Variables!Scopes /\ v.key \in Keys
              /\ v.done \in {"no", "ok", "failed"}
  BY DEF VariablesTypes, ListFields, SaveFields

\* The invariant of the variables tab holds when the browser opens.
LEMMA VariablesInit == Variables!Init => VariablesInv
  <1> SUFFICES ASSUME Variables!Init PROVE VariablesInv
    OBVIOUS
  <1>1. 1 \in 1..MaxRequests /\ 2 \in 1..MaxRequests /\ "preview" \in Variables!Scopes
    BY Bounds DEF Variables!Scopes
  <1> DEFINE a == Variables!Asking(1, "preview")
  <1> DEFINE b == Variables!Asking(2, "preview")
  <1>2. a \in ListFields /\ b \in ListFields
    BY <1>1, ListAsked
  <1>3. /\ a.n = 1 /\ a.scope = "preview" /\ a.made = FALSE
        /\ b.n = 2 /\ b.scope = "preview" /\ b.made = FALSE
    BY <1>1 DEF Variables!Asking
  <1>4. /\ variablesLists = {a, b} /\ variablesAsked = 2 /\ variablesNewest = 0
        /\ env = [s \in Variables!Scopes |-> {}] /\ envs = {} /\ saves = {}
        /\ scope = "preview" /\ key = NoKey /\ variablesForeign = 0
    BY DEF Variables!Init
  <1>5. raced \in BOOLEAN
    BY Zenon DEF Variables!Init
  <1> HIDE DEF a, b
  <1>6. VariablesTypes
    BY Bounds, <1>1, <1>2, <1>4 DEF VariablesTypes
  <1>7. ListsNumbered /\ SavesAreOfScope
    BY <1>3, <1>4 DEF ListsNumbered, SavesAreOfScope
  <1>8. ListComes
    BY <1>3, <1>4 DEF ListComes
  <1> QED BY <1>5, <1>6, <1>7, <1>8 DEF VariablesInv

\* Every step of the variables tab keeps it.
LEMMA VariablesStep == VariablesInv /\ [Variables!Next]_variablesVars => VariablesInv'
  <1> SUFFICES ASSUME VariablesInv, [Variables!Next]_variablesVars PROVE VariablesInv'
    OBVIOUS
  <1> USE Bounds DEF VariablesInv
  <1>0. /\ \A l \in variablesLists :
             /\ l.n \in 1..MaxRequests /\ l.scope \in Variables!Scopes
             /\ l.made \in BOOLEAN /\ l.rows \subseteq Variables!Scopes \X Keys
        /\ \A v \in saves :
             /\ v.scope \in Variables!Scopes /\ v.key \in Keys
             /\ v.done \in {"no", "ok", "failed"}
    BY RecordTypes
  <1>1. ASSUME Variables!OtherAdmin PROVE VariablesInv'
    <2>1. /\ raced' = TRUE /\ variablesForeign' \in 0..MaxForeign
          /\ env' \in [Variables!Scopes -> SUBSET Keys]
          /\ UNCHANGED <<scope, envs, key, saves, variablesLists, variablesAsked,
                         variablesNewest>>
      BY <1>1 DEF Variables!OtherAdmin, Variables!Upserted, VariablesTypes
    <2> QED BY <2>1 DEF VariablesTypes, ListsNumbered, SavesAreOfScope, ListComes
  <1>2. ASSUME Variables!SetEnv PROVE VariablesInv'
    <2> DEFINE v == [scope |-> scope, key |-> key, done |-> "no"]
    <2>1. /\ saves' = saves \cup {v} /\ key # NoKey
          /\ UNCHANGED <<env, scope, envs, key, variablesLists, variablesAsked,
                         variablesNewest, raced, variablesForeign>>
      BY <1>2 DEF Variables!SetEnv
    <2>2. v \in SaveFields /\ v.scope = scope /\ v.done = "no"
      BY <2>1 DEF SaveFields, VariablesTypes
    <2> HIDE DEF v
    <2>3. VariablesTypes'
      BY <2>1, <2>2 DEF VariablesTypes
    <2>4. ListComes'
      BY <2>1 DEF ListComes, Variables!Listed
    <2> QED BY <2>1, <2>2, <2>3, <2>4 DEF ListsNumbered, SavesAreOfScope
  <1>3. ASSUME NEW k \in Keys \cup {NoKey}, Variables!TypeKey(k) PROVE VariablesInv'
    BY <1>3 DEF Variables!TypeKey, VariablesTypes, ListsNumbered, SavesAreOfScope,
                ListComes, Variables!Listed
  <1>4. ASSUME NEW s \in Variables!Scopes, Variables!SwitchScope(s) PROVE VariablesInv'
    <2> DEFINE a == Variables!Asking(variablesAsked + 1, s)
    <2>1. /\ scope' = s /\ variablesAsked < MaxRequests
          /\ variablesAsked' = variablesAsked + 1
          /\ variablesLists' = variablesLists \cup {a}
          /\ UNCHANGED <<env, envs, key, saves, variablesNewest, variablesForeign>>
      BY <1>4 DEF Variables!SwitchScope, Variables!RefreshEnv
    <2>2. raced' \in BOOLEAN /\ (~raced' => saves = {})
      BY <1>4 DEF Variables!SwitchScope, Variables!Quiet
    <2>3. /\ a \in ListFields /\ a.n = variablesAsked + 1 /\ a.scope = s
          /\ a.made = FALSE
      <3>1. variablesAsked + 1 \in 1..MaxRequests
        BY <2>1 DEF VariablesTypes
      <3> QED BY <3>1 DEF Variables!Asking, ListFields
    <2> HIDE DEF a
    <2>4. VariablesTypes'
      BY <2>1, <2>3 DEF VariablesTypes
    <2>5. ListsNumbered'
      BY <2>1, <2>3, <1>0 DEF ListsNumbered, VariablesTypes
    <2>6. SavesAreOfScope'
      BY <2>1, <2>2 DEF SavesAreOfScope
    <2>7. ListComes'
      BY <2>1, <2>3 DEF ListComes
    <2> QED BY <2>2, <2>4, <2>5, <2>6, <2>7
  <1>5. ASSUME NEW v \in saves, Variables!HandleSetEnvVar(v) PROVE VariablesInv'
    <2>1. /\ v.done = "no"
          /\ UNCHANGED <<scope, envs, key, variablesLists, variablesAsked,
                         variablesNewest, raced, variablesForeign>>
      BY <1>5 DEF Variables!HandleSetEnvVar
    <2>2. PICK done \in {"ok", "failed"} :
            /\ env' = IF done = "ok" THEN Variables!Upserted(v.scope, v.key) ELSE env
            /\ saves' = (saves \ {v}) \cup {[v EXCEPT !.done = done]}
      BY <1>5 DEF Variables!HandleSetEnvVar
    <2> DEFINE w == [v EXCEPT !.done = done]
    <2>3. w \in SaveFields /\ w.scope = v.scope /\ w.done = done
      BY DEF SaveFields, VariablesTypes
    <2>4. saves' = (saves \ {v}) \cup {w}
      BY <2>2
    <2> HIDE DEF w
    <2>5. env' \in [Variables!Scopes -> SUBSET Keys]
      BY <2>2, <1>0 DEF Variables!Upserted, VariablesTypes
    <2>6. VariablesTypes'
      BY <2>1, <2>3, <2>4, <2>5 DEF VariablesTypes
    <2>7. ListsNumbered' /\ SavesAreOfScope'
      BY <2>1, <2>3, <2>4 DEF ListsNumbered, SavesAreOfScope
    <2>8. ListComes'
      <3>1. CASE done = "ok"
        BY <2>3, <2>4, <3>1 DEF ListComes
      <3>2. CASE done # "ok"
        BY <2>1, <2>2, <2>4, <3>2 DEF ListComes, Variables!Listed
      <3> QED BY <3>1, <3>2
    <2> QED BY <2>1, <2>6, <2>7, <2>8
  <1>6. ASSUME NEW v \in saves, Variables!SetEnvAnswered(v) PROVE VariablesInv'
    <2> DEFINE a == Variables!Asking(variablesAsked + 1, v.scope)
    <2>1. /\ saves' = saves \ {v} /\ key' = NoKey /\ variablesAsked < MaxRequests
          /\ variablesAsked' = variablesAsked + 1
          /\ variablesLists' = variablesLists \cup {a}
          /\ raced' = (raced /\ ~(saves = {v} /\ variablesLists = {} /\ v.scope = scope))
          /\ UNCHANGED <<env, scope, envs, variablesNewest, variablesForeign>>
      BY <1>6 DEF Variables!SetEnvAnswered, Variables!RefreshEnv
    <2>2. /\ a \in ListFields /\ a.n = variablesAsked + 1 /\ a.scope = v.scope
          /\ a.made = FALSE
      <3>1. variablesAsked + 1 \in 1..MaxRequests
        BY <2>1 DEF VariablesTypes
      <3> QED BY <3>1, <1>0 DEF Variables!Asking, ListFields
    <2> HIDE DEF a
    <2>3. VariablesTypes'
      BY <2>1, <2>2 DEF VariablesTypes
    <2>4. ListsNumbered'
      BY <2>1, <2>2, <1>0 DEF ListsNumbered, VariablesTypes
    <2>5. ~raced' => v.scope = scope /\ (saves' = {} \/ ~raced)
      BY <2>1 DEF SavesAreOfScope
    <2>6. SavesAreOfScope'
      BY <2>1, <2>5 DEF SavesAreOfScope
    <2>7. ListComes'
      BY <2>1, <2>2, <2>5 DEF ListComes
    <2>8. raced' \in BOOLEAN
      BY <2>1
    <2> QED BY <2>3, <2>4, <2>6, <2>7, <2>8
  <1>7. ASSUME NEW v \in saves, Variables!SetEnvFails(v) PROVE VariablesInv'
    <2>1. /\ saves' = saves \ {v} /\ raced' = (raced \/ v.done = "ok")
          /\ UNCHANGED <<env, scope, envs, key, variablesLists, variablesForeign>>
          /\ \/ variablesAsked' = variablesAsked /\ variablesNewest' = variablesNewest
             \/ variablesLists = {} /\ variablesAsked' = 0 /\ variablesNewest' = 0
      BY <1>7 DEF Variables!SetEnvFails, Variables!Renumber, Variables!Quiet
    <2>2. VariablesTypes' /\ ListsNumbered' /\ SavesAreOfScope'
      BY <2>1 DEF VariablesTypes, ListsNumbered, SavesAreOfScope
    <2>3. ListComes'
      <3>1. SUFFICES ASSUME ~raced', \A w \in saves' : w.done # "ok" PROVE ListComes'
        BY <2>1 DEF ListComes
      <3>2. ~raced /\ \A w \in saves : w.done # "ok"
        BY <2>1, <3>1
      <3>3. CASE variablesNewest = variablesAsked /\ envs = Variables!Listed(scope)
        BY <2>1, <3>3 DEF ListComes, Variables!Listed
      <3>4. ASSUME NEW l \in variablesLists, l.n = variablesAsked, l.scope = scope,
                   l.made => l.rows = Variables!Listed(scope)
            PROVE  ListComes'
        BY <2>1, <3>4 DEF ListComes, Variables!Listed
      <3> QED BY <3>2, <3>3, <3>4 DEF ListComes
    <2> QED BY <2>1, <2>2, <2>3
  <1>8. ASSUME NEW l \in variablesLists, Variables!HandleListEnvVars(l)
        PROVE  VariablesInv'
    <2>1. /\ variablesLists' = (variablesLists \ {l}) \cup {Answered(l)}
          /\ UNCHANGED <<env, scope, envs, key, saves, variablesAsked, variablesNewest,
                         raced, variablesForeign>>
      BY <1>8 DEF Variables!HandleListEnvVars, Answered
    <2>2. /\ Answered(l) \in ListFields
          /\ Answered(l).n = l.n /\ Answered(l).scope = l.scope
          /\ Answered(l).rows = Variables!Listed(l.scope)
      BY ListAnswered
    <2> DEFINE m == Answered(l)
    <2> HIDE DEF m
    <2>3. VariablesTypes'
      BY <2>1, <2>2 DEF VariablesTypes
    <2>4. ListsNumbered' /\ SavesAreOfScope'
      BY <2>1, <2>2 DEF ListsNumbered, SavesAreOfScope
    <2>5. ListComes'
      BY <2>1, <2>2 DEF ListComes, Variables!Listed
    <2> QED BY <2>1, <2>3, <2>4, <2>5
  <1>9. ASSUME NEW l \in variablesLists, Variables!ListArrives(l) PROVE VariablesInv'
    <2>1. /\ l.made /\ envs' = l.rows /\ variablesLists' = variablesLists \ {l}
          /\ raced' = (raced \/ l.n < variablesNewest)
          /\ UNCHANGED <<env, scope, key, saves, variablesForeign>>
          /\ \/ /\ variablesAsked' = variablesAsked
                /\ variablesNewest' = IF l.n > variablesNewest THEN l.n
                                      ELSE variablesNewest
             \/ variablesLists' = {} /\ variablesAsked' = 0 /\ variablesNewest' = 0
      BY <1>9 DEF Variables!ListArrives, Variables!Quiet
    <2>2. VariablesTypes'
      BY <2>1, <1>0 DEF VariablesTypes
    <2>3. ListsNumbered' /\ SavesAreOfScope'
      BY <2>1, <1>0 DEF ListsNumbered, SavesAreOfScope, VariablesTypes
    <2>4. ListComes'
      <3>1. SUFFICES ASSUME ~raced', \A v \in saves : v.done # "ok" PROVE ListComes'
        BY <2>1 DEF ListComes
      <3>2. ~raced /\ l.n > variablesNewest
        BY <2>1, <3>1, <1>0 DEF ListsNumbered, VariablesTypes
      <3>3. PICK m \in variablesLists :
              /\ m.n = variablesAsked /\ m.scope = scope
              /\ m.made => m.rows = Variables!Listed(scope)
        BY <3>1, <3>2, <1>0 DEF ListComes, ListsNumbered, VariablesTypes
      <3>4. CASE m = l
        BY <2>1, <3>2, <3>3, <3>4 DEF ListComes, Variables!Listed
      <3>5. CASE m # l
        BY <2>1, <3>3, <3>5 DEF ListComes, Variables!Listed
      <3> QED BY <3>4, <3>5
    <2>5. raced' \in BOOLEAN
      BY <2>1, Zenon
    <2> QED BY <2>2, <2>3, <2>4, <2>5
  <1>10. ASSUME NEW l \in variablesLists, Variables!ListFails(l) PROVE VariablesInv'
    <2>1. /\ variablesLists' = variablesLists \ {l} /\ raced' = TRUE
          /\ UNCHANGED <<env, scope, envs, key, saves, variablesForeign>>
          /\ \/ variablesAsked' = variablesAsked /\ variablesNewest' = variablesNewest
             \/ variablesLists' = {} /\ variablesAsked' = 0 /\ variablesNewest' = 0
      BY <1>10 DEF Variables!ListFails, Variables!Renumber, Variables!Quiet
    <2>2. VariablesTypes'
      BY <2>1 DEF VariablesTypes
    <2> QED BY <2>1, <2>2 DEF ListsNumbered, SavesAreOfScope, ListComes
  <1>11. ASSUME UNCHANGED variablesVars PROVE VariablesInv'
    BY <1>11 DEF variablesVars, VariablesTypes, ListsNumbered, SavesAreOfScope,
                 ListComes, Variables!Listed
  <1> HIDE DEF VariablesInv
  <1> QED BY <1>1, <1>2, <1>3, <1>4, <1>5, <1>6, <1>7, <1>8, <1>9, <1>10, <1>11, Zenon
          DEF Variables!Next

\* With nothing under way, the tab shows what is stored for the scope.
LEMMA VariablesShown == VariablesInv => Variables!TypeOK /\ Variables!ListIsOfScope
  BY DEF VariablesInv, VariablesTypes, ListFields, SaveFields, ListComes,
         Variables!TypeOK, Variables!ListIsOfScope, Variables!Quiet

(***************************************************************************)
(* DomainsPage.                                                            *)
(***************************************************************************)
DomainsDialog ==
  {domainsLoading, addOpen, newDomain} \subseteq BOOLEAN /\ early \subseteq Names
DomainsRows ==
  /\ pending \in [Domains!All -> 0..MaxRows] /\ valid \in [Domains!All -> 0..MaxRows]
  /\ \A n \in Domains!All : pending[n] + valid[n] <= MaxRows
  /\ domainsTimers \in [Names -> 0..MaxRows]
\* Before the project has arrived, the rows are of names added since the page opened.
LoadingIsEmpty ==
  domainsLoading => \A n \in Names \ early : pending[n] = 0 /\ valid[n] = 0
DomainsInv ==
  DomainsDialog /\ DomainsRows /\ Domains!PendingHasTimer /\ LoadingIsEmpty

\* The rows of a page that was opened, and the invented one.
LEMMA DomainsStart ==
  /\ Domains!NoRows \in [Domains!All -> 0..MaxRows]
  /\ \A n \in Domains!All : Domains!NoRows[n] = 0
  /\ [Domains!NoRows EXCEPT ![Invented] = 1] \in [Domains!All -> 0..MaxRows]
  /\ Invented \notin Names
  BY DashboardAssumption, Bounds DEF Domains!NoRows, Domains!All

\* The invariant of the domains page holds when the browser opens.
LEMMA DomainsInit == Domains!Init => DomainsInv
  <1> SUFFICES ASSUME Domains!Init PROVE DomainsInv
    OBVIOUS
  <1>1. DomainsDialog
    BY Zenon DEF Domains!Init, DomainsDialog
  <1>2. DomainsRows /\ Domains!PendingHasTimer /\ LoadingIsEmpty
    BY DomainsStart, Bounds
    DEF Domains!Init, DomainsRows, Domains!PendingHasTimer, Domains!All, LoadingIsEmpty
  <1> QED BY <1>1, <1>2 DEF DomainsInv

\* Every step of the domains page keeps it.
LEMMA DomainsStep == DomainsInv /\ [Domains!Next]_domainsVars => DomainsInv'
  <1> SUFFICES ASSUME DomainsInv, [Domains!Next]_domainsVars PROVE DomainsInv'
    OBVIOUS
  <1> USE DEF DomainsInv, Domains!Verified
  <1>1. DomainsDialog'
    BY DEF Domains!Next, Domains!Load, Domains!EditDialog, Domains!Reopen,
       Domains!AddDomain, Domains!TimerFires, Domains!Verify, Domains!RemoveDomain,
       domainsVars, DomainsDialog
  <1> USE Bounds, DomainsStart
      DEF DomainsRows, Domains!PendingHasTimer, Domains!All, LoadingIsEmpty
  <1>2. ASSUME Domains!Load PROVE DomainsInv'
    BY <1>1, <1>2 DEF Domains!Load
  <1>3. ASSUME Domains!EditDialog PROVE DomainsInv'
    BY <1>1, <1>3 DEF Domains!EditDialog
  <1>4. ASSUME Domains!Reopen PROVE DomainsInv'
    BY <1>1, <1>4 DEF Domains!Reopen
  <1>5. ASSUME NEW n \in Names, Domains!AddDomain(n) PROVE DomainsInv'
    BY <1>1, <1>5 DEF Domains!AddDomain
  <1>6. ASSUME NEW n \in Names, Domains!TimerFires(n) PROVE DomainsInv'
    BY <1>1, <1>6 DEF Domains!TimerFires
  <1>7. ASSUME NEW n \in Names, Domains!Verify(n) PROVE DomainsInv'
    BY <1>1, <1>7 DEF Domains!Verify
  <1>8. ASSUME NEW n \in Names, Domains!RemoveDomain(n) PROVE DomainsInv'
    BY <1>1, <1>8 DEF Domains!RemoveDomain
  <1>9. ASSUME UNCHANGED domainsVars PROVE DomainsInv'
    BY <1>1, <1>9 DEF domainsVars
  <1> QED BY <1>2, <1>3, <1>4, <1>5, <1>6, <1>7, <1>8, <1>9 DEF Domains!Next

\* A name whose rows become fewer was removed, or the page was left.
LEMMA DomainsGo ==
  ASSUME DomainsInv, [Domains!Next]_domainsVars, NEW n \in Names \ early,
         pending'[n] + valid'[n] < pending[n] + valid[n]
  PROVE  Domains!RemoveDomain(n) \/ Domains!Reopen
  <1> USE Bounds, DomainsStart
      DEF DomainsInv, DomainsRows, Domains!All, LoadingIsEmpty, Domains!Verified
  <1>1. ~Domains!Load
    BY DEF Domains!Load
  <1>2. ~Domains!EditDialog /\ ~UNCHANGED domainsVars
    BY DEF Domains!EditDialog, domainsVars
  <1>3. ASSUME NEW m \in Names, Domains!AddDomain(m) PROVE FALSE
    BY <1>3 DEF Domains!AddDomain
  <1>4. ASSUME NEW m \in Names, Domains!TimerFires(m) PROVE FALSE
    BY <1>4 DEF Domains!TimerFires
  <1>5. ASSUME NEW m \in Names, Domains!Verify(m) PROVE FALSE
    BY <1>5 DEF Domains!Verify
  <1>6. ASSUME NEW m \in Names, Domains!RemoveDomain(m) PROVE m = n
    BY <1>6 DEF Domains!RemoveDomain
  <1> QED BY <1>1, <1>2, <1>3, <1>4, <1>5, <1>6 DEF Domains!Next

\* It gives the types of the domains page, and PendingHasTimer.
LEMMA DomainsShown == DomainsInv => Domains!TypeOK /\ Domains!PendingHasTimer
  BY DEF DomainsInv, DomainsDialog, DomainsRows, Domains!TypeOK

(***************************************************************************)
(* StoragePages.  A store that is provisioning anywhere - on the page, in  *)
(* the storage or in what a page that was left would still write - has its *)
(* timer or was left.                                                      *)
(***************************************************************************)
storesVars ==
  <<saved, created, timer, snap, storageView, storageShown, outdated, storageLeft>>

StorageSwitches ==
  /\ {storageOpen, named, storageQuery, running, outdated} \subseteq BOOLEAN
  /\ storageView \in {"list", "store", "elsewhere"} /\ storageTab \in Storage!Tabs

StorageForm ==
  /\ type \in Kinds \cup {"none"}
  /\ plan \in IF type = "none" THEN Storage!Plans ELSE Storage!PlansOf(type)
  /\ detail \in Stores \cup {None} /\ answers \in 0..2
  /\ storageForeign \in 0..MaxForeign

StoreTypes ==
  /\ saved \in [Stores -> Storage!Status] /\ storageShown \in [Stores -> Storage!Status]
  /\ created \subseteq Stores /\ storageLeft \subseteq created
  /\ timer \in [Stores -> {"off", "page", "orphan"}]
  /\ snap \in [Stores -> [Stores -> Storage!Status]]
  /\ \A s \in Stores : timer[s] = "page" => s \in created

Excused(stores) ==
  \A s \in Stores : stores[s] = "provisioning" => timer[s] = "page" \/ s \in storageLeft

StoresExcused ==
  /\ Excused(storageShown) /\ Excused(saved)
  /\ \A s, x \in Stores :
       timer[s] = "orphan" /\ snap[s][x] = "provisioning" => x \in storageLeft

\* The timers of the list do not run elsewhere.
TimersOfList == storageView # "list" => \A s \in Stores : timer[s] # "page"

StoresInv == StoreTypes /\ StoresExcused /\ TimersOfList /\ Storage!StoredIsShown

StorageInv == StorageSwitches /\ StorageForm /\ StoresInv

\* No stores, and the stores after a timer.
LEMMA StoresGone ==
  /\ Storage!NoStores \in [Stores -> Storage!Status]
  /\ \A s \in Stores : Storage!NoStores[s] # "provisioning"
  BY DEF Storage!NoStores, Storage!Status

\* A timer that fires leaves the set of stores what it is, with one provisioning less.
LEMMA StoreProvisioned ==
  ASSUME NEW stores \in [Stores -> Storage!Status], NEW s \in Stores
  PROVE  /\ Storage!Provision(stores, s) \in [Stores -> Storage!Status]
         /\ \A x \in Stores :
              Storage!Provision(stores, s)[x] = "provisioning" =>
                x # s /\ stores[x] = "provisioning"
  BY DEF Storage!Provision, Storage!Status

\* The invariant of the storage pages holds when the browser opens.
LEMMA StorageInit == Storage!Init => StorageInv
  <1> SUFFICES ASSUME Storage!Init PROVE StorageInv
    OBVIOUS
  <1>1. StorageSwitches
    BY Zenon DEF Storage!Init, StorageSwitches, Storage!Tabs
  <1>2. StorageForm
    BY Bounds DEF Storage!Init, StorageForm, Storage!Plans
  <1>3. StoreTypes
    BY StoresGone DEF Storage!Init, StoreTypes
  <1>4. StoresExcused /\ TimersOfList
    BY StoresGone DEF Storage!Init, StoresExcused, Excused, TimersOfList
  <1>5. Storage!StoredIsShown
    BY DEF Storage!Init, Storage!StoredIsShown
  <1> QED BY <1>1, <1>2, <1>3, <1>4, <1>5 DEF StorageInv, StoresInv

\* What is kept of a store that was created, deleted or provisioned on the list.
LEMMA StoresKept ==
  ASSUME StoresInv, NEW stores \in [Stores -> Storage!Status], Storage!Keep(stores),
         created \subseteq created', created' \subseteq Stores,
         timer' \in [Stores -> {"off", "page", "orphan"}],
         \A s \in Stores :
           /\ timer'[s] = "page" => s \in created'
           /\ timer'[s] = "orphan" => timer[s] = "orphan"
           /\ stores[s] = "provisioning" => timer'[s] = "page" \/ s \in storageLeft,
         storageView = "list", UNCHANGED <<snap, storageView, storageLeft>>
  PROVE  StoresInv'
  <1> USE DEF StoresInv
  <1>1. storageShown' = stores /\ saved' = stores /\ outdated' = FALSE
    BY DEF Storage!Keep
  <1>2. StoreTypes'
    BY <1>1 DEF StoreTypes
  <1>3. StoresExcused'
    BY <1>1 DEF StoresExcused, Excused
  <1>4. TimersOfList'
    BY DEF TimersOfList
  <1>5. Storage!StoredIsShown'
    BY <1>1 DEF Storage!StoredIsShown
  <1> QED BY <1>2, <1>3, <1>4, <1>5

\* Leaving the list makes its timers orphans of what it showed last.
LEMMA ListLeft ==
  ASSUME StoresInv, Storage!LeaveList, storageView' # "list",
         UNCHANGED <<saved, created>>
  PROVE  StoresInv'
  <1> USE DEF StoresInv
  <1>1. /\ timer' = [s \in Stores |-> IF timer[s] = "page" THEN "orphan" ELSE timer[s]]
        /\ snap' = [s \in Stores |-> IF timer[s] = "page" THEN storageShown ELSE snap[s]]
        /\ storageLeft' = storageLeft \cup Storage!Unready
        /\ storageShown' = Storage!NoStores
    BY DEF Storage!LeaveList, Storage!Unready
  <1>2. \A s \in Stores : s \in storageLeft' <=> s \in storageLeft \/ timer[s] = "page"
    BY <1>1 DEF Storage!Unready
  <1>3. StoreTypes'
    <2>1. storageLeft' \subseteq created
      BY <1>1 DEF Storage!Unready, StoreTypes
    <2> QED BY <1>1, <2>1, StoresGone DEF StoreTypes
  <1>4. StoresExcused'
    <2>1. Excused(storageShown)'
      BY <1>1, StoresGone DEF Excused
    <2>2. Excused(saved)'
      BY <1>2 DEF Excused, StoresExcused
    <2>3. ASSUME NEW s \in Stores, NEW x \in Stores, timer'[s] = "orphan",
                 snap'[s][x] = "provisioning"
          PROVE  x \in storageLeft'
      <3>1. CASE timer[s] = "page"
        BY <1>1, <1>2, <2>3, <3>1 DEF StoresExcused, Excused
      <3>2. CASE timer[s] # "page"
        BY <1>1, <1>2, <2>3, <3>2 DEF StoresExcused
      <3> QED BY <3>1, <3>2
    <2> QED BY <2>1, <2>2, <2>3 DEF StoresExcused
  <1>5. TimersOfList' /\ Storage!StoredIsShown'
    BY <1>1 DEF TimersOfList, Storage!StoredIsShown
  <1> QED BY <1>3, <1>4, <1>5

\* A fresh load of the list ends the timers.
LEMMA ListLoaded ==
  ASSUME StoresInv, NEW stores \in [Stores -> Storage!Status], saved' = stores,
         \A s \in Stores : stores[s] = "provisioning" => saved[s] = "provisioning",
         Storage!LoadList(stores)
  PROVE  StoresInv'
  <1> USE DEF StoresInv
  <1>1. /\ timer' = [s \in Stores |-> "off"]
        /\ snap' = [s \in Stores |-> Storage!NoStores]
        /\ storageLeft' = storageLeft \cup Storage!Unready
        /\ storageShown' = stores /\ storageView' = "list" /\ created' = created
    BY DEF Storage!LoadList, Storage!OpenList
  <1>2. \A s \in Stores : s \in storageLeft' <=> s \in storageLeft \/ timer[s] = "page"
    BY <1>1 DEF Storage!Unready
  <1>3. StoreTypes'
    <2>1. storageLeft' \subseteq created
      BY <1>1 DEF Storage!Unready, StoreTypes
    <2> QED BY <1>1, <2>1, StoresGone DEF StoreTypes
  <1>4. StoresExcused'
    <2>1. \A s \in Stores : stores[s] = "provisioning" => s \in storageLeft'
      BY <1>2 DEF StoresExcused, Excused
    <2> QED BY <1>1, <2>1 DEF StoresExcused, Excused
  <1>5. TimersOfList' /\ Storage!StoredIsShown'
    BY <1>1 DEF TimersOfList, Storage!StoredIsShown
  <1> QED BY <1>3, <1>4, <1>5

\* Every step of the storage pages keeps it.
LEMMA StorageStep == StorageInv /\ [Storage!Next]_storageVars => StorageInv'
  <1> SUFFICES ASSUME StorageInv, [Storage!Next]_storageVars PROVE StorageInv'
    OBVIOUS
  <1> USE Bounds DEF StorageInv
  <1>1. StorageSwitches' /\ StorageForm'
    <2> USE DEF Storage!Next, Storage!SelectType,
            Storage!ToggleDialog, Storage!EditForm, Storage!CancelDialog,
            Storage!OnCreate, Storage!OnDelete, Storage!TimerFires, Storage!OrphanFires,
            Storage!VisitStore, Storage!OtherTabSaves, Storage!GoElsewhere,
            Storage!GoToList, Storage!Reload, Storage!DeleteStore, Storage!EditQuery,
            Storage!RunQuery, Storage!QueryAnswers, Storage!SelectTab,
            Storage!LeaveList, Storage!LoadList, Storage!OpenList, Storage!ResetForm,
            Storage!ResetDetail, Storage!Keep, Storage!formVars, Storage!detailVars,
            storageVars
    <2>1. {storageOpen', named', storageQuery', running', outdated'} \subseteq BOOLEAN
      BY DEF StorageSwitches
    <2>2. storageView' \in {"list", "store", "elsewhere"} /\ storageTab' \in Storage!Tabs
      BY DEF StorageSwitches, Storage!Tabs
    <2>3. /\ type' \in Kinds \cup {"none"}
          /\ detail' \in Stores \cup {None}
      BY DashboardAssumption DEF StorageForm
    <2>4. plan' \in IF type' = "none" THEN Storage!Plans ELSE Storage!PlansOf(type')
      BY DashboardAssumption DEF StorageForm, Storage!Plans, Storage!PlansOf
    <2>5. answers' \in 0..2 /\ storageForeign' \in 0..MaxForeign
      BY DEF StorageForm
    <2> QED BY <2>1, <2>2, <2>3, <2>4, <2>5 DEF StorageSwitches, StorageForm
  <1>3. ASSUME UNCHANGED storesVars PROVE StoresInv'
    BY <1>3 DEF storesVars, StoresInv, StoreTypes, StoresExcused, Excused, TimersOfList,
                Storage!StoredIsShown
  <1> DEFINE Forms ==
             \/ \E k \in Kinds : Storage!SelectType(k)
             \/ Storage!ToggleDialog \/ Storage!EditForm \/ Storage!CancelDialog
             \/ Storage!EditQuery \/ Storage!RunQuery \/ Storage!QueryAnswers
             \/ \E t \in Storage!Tabs : Storage!SelectTab(t)
             \/ UNCHANGED storageVars
  <1>4. ASSUME Forms PROVE UNCHANGED storesVars
    BY <1>4 DEF storesVars, Storage!SelectType,
                Storage!ToggleDialog, Storage!EditForm, Storage!CancelDialog,
                Storage!EditQuery, Storage!RunQuery, Storage!QueryAnswers,
                Storage!SelectTab, storageVars
  <1>a. \A s \in Stores :
          /\ timer[s] = "page" => s \in created
          /\ storageShown[s] = "provisioning" => timer[s] = "page" \/ s \in storageLeft
    BY DEF StoresInv, StoreTypes, StoresExcused, Excused
  <1>5. ASSUME NEW s \in Stores, Storage!OnCreate(s) PROVE StoresInv'
    <2> DEFINE stores == [storageShown EXCEPT ![s] = "provisioning"]
    <2>1. /\ Storage!Keep(stores) /\ timer' = [timer EXCEPT ![s] = "page"]
          /\ created' = created \cup {s} /\ storageView = "list"
          /\ UNCHANGED <<snap, storageView, storageLeft>>
      BY <1>5 DEF Storage!OnCreate
    <2>2. /\ stores \in [Stores -> Storage!Status]
          /\ \A x \in Stores : x # s => stores[x] = storageShown[x]
      BY DEF StoresInv, StoreTypes, Storage!Status
    <2>3. /\ timer' \in [Stores -> {"off", "page", "orphan"}]
          /\ timer'[s] = "page" /\ \A x \in Stores : x # s => timer'[x] = timer[x]
          /\ created \subseteq created' /\ created' \subseteq Stores
      BY <2>1 DEF StoresInv, StoreTypes
    <2> HIDE DEF stores
    <2>4. \A x \in Stores :
            /\ timer'[x] = "page" => x \in created'
            /\ timer'[x] = "orphan" => timer[x] = "orphan"
            /\ stores[x] = "provisioning" => timer'[x] = "page" \/ x \in storageLeft
      BY <1>a, <2>1, <2>2, <2>3
    <2> QED BY <2>1, <2>2, <2>3, <2>4, StoresKept
  <1>6. ASSUME NEW s \in Stores, Storage!OnDelete(s) PROVE StoresInv'
    <2> DEFINE stores == [storageShown EXCEPT ![s] = "absent"]
    <2>1. /\ Storage!Keep(stores) /\ storageView = "list"
          /\ UNCHANGED <<created, timer, snap, storageView, storageLeft>>
      BY <1>6 DEF Storage!OnDelete
    <2>2. /\ stores \in [Stores -> Storage!Status]
          /\ \A x \in Stores : stores[x] = "provisioning" =>
               storageShown[x] = "provisioning"
      BY DEF StoresInv, StoreTypes, Storage!Status
    <2>3. /\ timer' \in [Stores -> {"off", "page", "orphan"}]
          /\ created \subseteq created' /\ created' \subseteq Stores
      BY <2>1 DEF StoresInv, StoreTypes
    <2> HIDE DEF stores
    <2>4. \A x \in Stores :
            /\ timer'[x] = "page" => x \in created'
            /\ timer'[x] = "orphan" => timer[x] = "orphan"
            /\ stores[x] = "provisioning" => timer'[x] = "page" \/ x \in storageLeft
      BY <1>a, <2>1, <2>2
    <2> QED BY <2>1, <2>2, <2>3, <2>4, StoresKept
  <1>7. ASSUME NEW s \in Stores, Storage!TimerFires(s) PROVE StoresInv'
    <2> DEFINE stores == Storage!Provision(storageShown, s)
    <2>1. /\ Storage!Keep(stores) /\ timer' = [timer EXCEPT ![s] = "off"]
          /\ timer[s] = "page" /\ UNCHANGED <<created, snap, storageView, storageLeft>>
      BY <1>7 DEF Storage!TimerFires
    <2>2. storageView = "list"
      BY <2>1 DEF StoresInv, TimersOfList
    <2>3. /\ stores \in [Stores -> Storage!Status]
          /\ \A x \in Stores : stores[x] = "provisioning" =>
               x # s /\ storageShown[x] = "provisioning"
      BY StoreProvisioned DEF StoresInv, StoreTypes
    <2>4. /\ timer' \in [Stores -> {"off", "page", "orphan"}]
          /\ timer'[s] = "off" /\ \A x \in Stores : x # s => timer'[x] = timer[x]
          /\ created \subseteq created' /\ created' \subseteq Stores
      BY <2>1 DEF StoresInv, StoreTypes
    <2> HIDE DEF stores
    <2>5. \A x \in Stores :
            /\ timer'[x] = "page" => x \in created'
            /\ timer'[x] = "orphan" => timer[x] = "orphan"
            /\ stores[x] = "provisioning" => timer'[x] = "page" \/ x \in storageLeft
      BY <1>a, <2>1, <2>3, <2>4
    <2> QED BY <2>1, <2>2, <2>3, <2>4, <2>5, StoresKept
  <1>8. ASSUME NEW s \in Stores, Storage!OrphanFires(s) PROVE StoresInv'
    <2>1. /\ timer[s] = "orphan" /\ timer' = [timer EXCEPT ![s] = "off"]
          /\ snap' = [snap EXCEPT ![s] = Storage!NoStores]
          /\ UNCHANGED <<created, storageView, storageShown, storageLeft>>
          /\ \/ saved' = Storage!Provision(snap[s], s) /\ outdated' = TRUE
             \/ UNCHANGED <<saved, outdated>>
      BY <1>8 DEF Storage!OrphanFires
    <2>2. /\ Storage!Provision(snap[s], s) \in [Stores -> Storage!Status]
          /\ \A x \in Stores : Storage!Provision(snap[s], s)[x] = "provisioning" =>
               snap[s][x] = "provisioning"
      BY StoreProvisioned DEF StoresInv, StoreTypes
    <2>3. /\ timer' \in [Stores -> {"off", "page", "orphan"}]
          /\ timer'[s] = "off" /\ \A x \in Stores : x # s => timer'[x] = timer[x]
      BY <2>1 DEF StoresInv, StoreTypes
    <2>4. /\ snap' \in [Stores -> [Stores -> Storage!Status]]
          /\ \A x \in Stores : x # s => snap'[x] = snap[x]
      BY <2>1, StoresGone DEF StoresInv, StoreTypes
    <2>5. StoreTypes'
      BY <2>1, <2>2, <2>3, <2>4 DEF StoresInv, StoreTypes
    <2>6. StoresExcused'
      <3>1. Excused(storageShown)'
        BY <2>1, <2>3 DEF StoresInv, StoresExcused, Excused
      <3>2. Excused(saved)'
        <4>1. CASE saved' = Storage!Provision(snap[s], s)
          BY <2>1, <2>2, <4>1 DEF StoresInv, StoresExcused, Excused
        <4>2. CASE saved' = saved
          BY <2>1, <2>3, <4>2 DEF StoresInv, StoresExcused, Excused
        <4> QED BY <2>1, <4>1, <4>2
      <3>3. \A t, x \in Stores :
              timer'[t] = "orphan" /\ snap'[t][x] = "provisioning" => x \in storageLeft'
        BY <2>1, <2>3, <2>4 DEF StoresInv, StoresExcused
      <3> QED BY <3>1, <3>2, <3>3 DEF StoresExcused
    <2>7. TimersOfList'
      BY <2>1, <2>3 DEF StoresInv, TimersOfList
    <2>8. Storage!StoredIsShown'
      BY <2>1 DEF StoresInv, Storage!StoredIsShown
    <2> QED BY <2>5, <2>6, <2>7, <2>8 DEF StoresInv
  <1>9. ASSUME NEW s \in Stores, Storage!VisitStore(s) PROVE StoresInv'
    <2>1. /\ Storage!LeaveList /\ storageView' # "list"
          /\ UNCHANGED <<saved, created>>
      BY <1>9 DEF Storage!VisitStore
    <2> QED BY <2>1, ListLeft
  <1>10. ASSUME Storage!GoElsewhere PROVE StoresInv'
    <2>1. /\ Storage!LeaveList /\ storageView' # "list"
          /\ UNCHANGED <<saved, created>>
      BY <1>10 DEF Storage!GoElsewhere
    <2> QED BY <2>1, ListLeft
  <1>11. ASSUME Storage!GoToList PROVE StoresInv'
    <2>1. /\ storageView' = "list" /\ storageShown' = saved
          /\ UNCHANGED <<saved, created, timer, snap, storageLeft>>
      BY <1>11 DEF Storage!GoToList, Storage!OpenList
    <2>2. StoreTypes'
      BY <2>1 DEF StoresInv, StoreTypes
    <2>3. StoresExcused'
      BY <2>1 DEF StoresInv, StoresExcused, Excused
    <2>4. TimersOfList' /\ Storage!StoredIsShown'
      BY <2>1 DEF TimersOfList, Storage!StoredIsShown
    <2> QED BY <2>2, <2>3, <2>4 DEF StoresInv
  <1>12. ASSUME Storage!Reload PROVE StoresInv'
    <2>1. /\ Storage!LoadList(saved) /\ saved' = saved
          /\ saved \in [Stores -> Storage!Status]
      BY <1>12 DEF Storage!Reload, StoresInv, StoreTypes
    <2> QED BY <2>1, ListLoaded
  <1>13. ASSUME Storage!DeleteStore PROVE StoresInv'
    <2> DEFINE stores == [saved EXCEPT ![detail] = "absent"]
    <2>1. saved' = stores /\ Storage!LoadList(stores) /\ detail \in Stores
      BY <1>13 DEF Storage!DeleteStore, StorageForm
    <2>2. /\ stores \in [Stores -> Storage!Status]
          /\ \A x \in Stores : stores[x] = "provisioning" => saved[x] = "provisioning"
      BY <2>1 DEF StoresInv, StoreTypes, Storage!Status
    <2> HIDE DEF stores
    <2> QED BY <2>1, <2>2, ListLoaded
  <1>14. ASSUME Storage!OtherTabSaves PROVE StoresInv'
    <2>1. /\ saved' \in [Stores -> Storage!Status] /\ outdated' = (storageView = "list")
          /\ created' = created \cup {s \in Stores : saved'[s] # "absent"}
          /\ storageLeft' = storageLeft \cup {s \in Stores : saved'[s] = "provisioning"}
          /\ UNCHANGED <<timer, snap, storageView, storageShown>>
      BY <1>14 DEF Storage!OtherTabSaves
    <2>2. storageLeft' \subseteq created'
      BY <2>1 DEF StoresInv, StoreTypes
    <2>3. StoreTypes'
      BY <2>1, <2>2 DEF StoresInv, StoreTypes
    <2>4. StoresExcused'
      BY <2>1 DEF StoresInv, StoresExcused, Excused
    <2>5. TimersOfList' /\ Storage!StoredIsShown'
      BY <2>1 DEF StoresInv, TimersOfList, Storage!StoredIsShown
    <2> QED BY <2>3, <2>4, <2>5 DEF StoresInv
  <1>15. StoresInv'
    <2>1. Forms => StoresInv'
      BY <1>3, <1>4
    <2> QED BY <1>5, <1>6, <1>7, <1>8, <1>9, <1>10, <1>11, <1>12, <1>13, <1>14, <2>1,
               Zenon DEF Storage!Next
  <1> QED BY <1>1, <1>15

\* It gives the types of the storage pages, and StoredIsShown and StuckNeedsLeaving.
LEMMA StorageShown ==
  StorageInv => /\ Storage!TypeOK /\ Storage!StoredIsShown /\ Storage!StuckNeedsLeaving
  BY DEF StorageInv, StorageSwitches, StorageForm, StoresInv, StoreTypes, StoresExcused,
         Excused, Storage!TypeOK, Storage!StuckNeedsLeaving

(***************************************************************************)
(* CronPage.                                                               *)
(***************************************************************************)
CronForm == {cronForm, name, path} \subseteq BOOLEAN
CronTypes ==
  /\ jobs \subseteq Jobs /\ enabled \subseteq Jobs
  /\ last \in [Jobs -> Cron!Outcomes] /\ cronTimers \in [Jobs -> 0..MaxRuns]
  /\ menu \in Jobs \cup {None}
CronInv == CronForm /\ CronTypes /\ Cron!RunningHasTimer

\* No job the page starts with is running.
LEMMA CronStart ==
  /\ Enabled \cup Paused \subseteq Jobs /\ Enabled \subseteq Jobs
  /\ Cron!InitialOutcome \in [Jobs -> Cron!Outcomes]
  /\ \A j \in Jobs : Cron!InitialOutcome[j] # "running"
  BY DashboardAssumption DEF Cron!InitialOutcome, Cron!Outcomes

\* The invariant of the cron page holds when the browser opens.
LEMMA CronInit == Cron!Init => CronInv
  <1> SUFFICES ASSUME Cron!Init PROVE CronInv
    OBVIOUS
  <1>1. CronForm
    BY Zenon DEF Cron!Init, CronForm
  <1>2. CronTypes
    BY CronStart, Bounds DEF Cron!Init, CronTypes
  <1>3. Cron!RunningHasTimer
    BY CronStart DEF Cron!Init, Cron!RunningHasTimer
  <1> QED BY <1>1, <1>2, <1>3 DEF CronInv

\* Every step of the cron page keeps it.
LEMMA CronStep == CronInv /\ [Cron!Next]_cronVars => CronInv'
  <1> SUFFICES ASSUME CronInv, [Cron!Next]_cronVars PROVE CronInv'
    OBVIOUS
  <1> USE DEF CronInv, Cron!formVars
  <1>1. CronForm'
    BY DEF Cron!Next, Cron!OpenForm, Cron!EditForm, Cron!Reopen, Cron!CreateJob,
       Cron!ToggleJob, Cron!ToggleMenu, Cron!DeleteJob, Cron!RunNow, Cron!TimerFires,
       cronVars, CronForm
  <1> USE Bounds DEF CronTypes, Cron!RunningHasTimer, Cron!Outcomes
  <1>2. ASSUME Cron!OpenForm \/ Cron!EditForm \/ UNCHANGED cronVars PROVE CronInv'
    <2>1. UNCHANGED <<jobs, enabled, last, cronTimers, menu>>
      BY <1>2 DEF Cron!OpenForm, Cron!EditForm, cronVars
    <2> QED BY <1>1, <2>1
  <1>3. ASSUME Cron!Reopen PROVE CronInv'
    BY <1>1, <1>3, CronStart DEF Cron!Reopen
  <1>4. ASSUME NEW j \in Jobs, Cron!CreateJob(j) PROVE CronInv'
    BY <1>1, <1>4 DEF Cron!CreateJob
  <1>5. ASSUME NEW j \in Jobs, Cron!ToggleJob(j) PROVE CronInv'
    BY <1>1, <1>5 DEF Cron!ToggleJob
  <1>6. ASSUME NEW j \in Jobs, Cron!ToggleMenu(j) PROVE CronInv'
    BY <1>1, <1>6 DEF Cron!ToggleMenu
  <1>7. ASSUME NEW j \in Jobs, Cron!DeleteJob(j) PROVE CronInv'
    BY <1>1, <1>7 DEF Cron!DeleteJob
  <1>8. ASSUME NEW j \in Jobs, Cron!RunNow(j) PROVE CronInv'
    BY <1>1, <1>8 DEF Cron!RunNow
  <1>9. ASSUME NEW j \in Jobs, Cron!TimerFires(j) PROVE CronInv'
    BY <1>1, <1>9 DEF Cron!TimerFires
  <1> QED BY <1>2, <1>3, <1>4, <1>5, <1>6, <1>7, <1>8, <1>9 DEF Cron!Next

\* It gives the types of the cron page, and RunningHasTimer.
LEMMA CronShown == CronInv => Cron!TypeOK /\ Cron!RunningHasTimer
  BY DEF CronInv, CronForm, CronTypes, Cron!TypeOK

(***************************************************************************)
(* LogsPage.  The list is sorted by the numbers of its lines, whatever the *)
(* filters let through.                                                    *)
(***************************************************************************)
LogsTypes ==
  /\ logsStep \in {"projects", "deployments", "done"} /\ projects \subseteq Projects
  /\ lines \in Seq(Logs!Lines) /\ Len(lines) <= Cap
  /\ logsProject \in Projects \cup {Logs!All} /\ level \in Logs!Levels \cup {Logs!All}
  /\ number \in 0..MaxLines

Live == streaming \in BOOLEAN /\ intervals = IF streaming /\ projects # {} THEN 1 ELSE 0

NewestFirst ==
  /\ \A i \in 1..Len(lines) : lines[i].n <= number
  /\ \A i, j \in 1..Len(lines) :
       i < j => \/ lines[i].n > lines[j].n
                \/ lines[i].n = 0 /\ lines[j].n = 0

LogsInv == LogsTypes /\ Live /\ NewestFirst

\* A line that is put before the others, the oldest of which is dropped at the cap.
LEMMA LinePut ==
  ASSUME NEW l \in Logs!Lines, NEW s \in Seq(Logs!Lines), Len(s) <= Cap,
         NEW m \in Nat, m = IF Len(s) < Cap THEN Len(s) + 1 ELSE Cap
  PROVE  /\ SubSeq(<<l>> \o s, 1, m) \in Seq(Logs!Lines)
         /\ Len(SubSeq(<<l>> \o s, 1, m)) = m
         /\ \A i \in 1..m :
              SubSeq(<<l>> \o s, 1, m)[i] = IF i = 1 THEN l ELSE s[i - 1]
  <1>0. Cap \in Nat /\ Cap >= 1
    BY DashboardAssumption
  <1>1. m \in 1..(Len(s) + 1)
    BY <1>0
  <1>2. <<l>> \o s \in Seq(Logs!Lines) /\ Len(<<l>> \o s) = Len(s) + 1
    OBVIOUS
  <1>3. \A i \in 1..(Len(s) + 1) : (<<l>> \o s)[i] = IF i = 1 THEN l ELSE s[i - 1]
    OBVIOUS
  <1> DEFINE t == <<l>> \o s
  <1>4. t \in Seq(Logs!Lines) /\ Len(t) = Len(s) + 1
    BY <1>2
  <1>5. \A i \in 1..m : t[i] = IF i = 1 THEN l ELSE s[i - 1]
    BY <1>1, <1>3
  <1> HIDE DEF t
  <1>6. /\ SubSeq(t, 1, m) \in Seq(Logs!Lines) /\ Len(SubSeq(t, 1, m)) = m
        /\ \A i \in 1..m : SubSeq(t, 1, m)[i] = t[i]
    BY <1>1, <1>4
  <1> QED BY <1>5, <1>6 DEF t

\* The invariant of the logs page holds when the browser opens.
LEMMA LogsInit == Logs!Init => LogsInv
  <1> SUFFICES ASSUME Logs!Init PROVE LogsInv
    OBVIOUS
  <1>1. LogsTypes
    BY Bounds, DashboardAssumption DEF Logs!Init, LogsTypes
  <1>2. streaming \in BOOLEAN
    BY Zenon DEF Logs!Init
  <1>3. Live
    BY <1>2 DEF Logs!Init, Live
  <1>4. NewestFirst
    BY DEF Logs!Init, NewestFirst
  <1> QED BY <1>1, <1>3, <1>4 DEF LogsInv

\* Every step of the logs page keeps it.
LEMMA LogsStep == LogsInv /\ [Logs!Next]_logsVars => LogsInv'
  <1> SUFFICES ASSUME LogsInv, [Logs!Next]_logsVars PROVE LogsInv'
    OBVIOUS
  <1> USE Bounds DEF LogsInv
  <1>1. ASSUME Logs!LoadFails PROVE LogsInv'
    BY <1>1 DEF Logs!LoadFails, LogsTypes, Live, NewestFirst
  <1>2. ASSUME Logs!ProjectsArrive PROVE LogsInv'
    BY <1>2 DEF Logs!ProjectsArrive, Logs!Interval, LogsTypes, Live, NewestFirst
  <1>3. ASSUME Logs!LogsLoaded PROVE LogsInv'
    <2>1. /\ logsStep' = "done"
          /\ UNCHANGED <<projects, streaming, intervals, logsProject, level, number>>
      BY <1>3 DEF Logs!LogsLoaded
    <2>2. CASE lines' = <<>>
      BY <2>1, <2>2, DashboardAssumption DEF LogsTypes, Live, NewestFirst
    <2>3. ASSUME NEW p \in projects, NEW l \in {"info", "error"},
                 lines' = [i \in 1..Batch |-> [n |-> 0, of |-> p, level |-> l]]
          PROVE  LogsInv'
      <3> DEFINE r == [n |-> 0, of |-> p, level |-> l]
      <3>1. r \in Logs!Lines /\ r.n = 0
        BY DEF Logs!Lines, Logs!Levels, LogsTypes
      <3>2. lines' = [i \in 1..Batch |-> r]
        BY <2>3
      <3> HIDE DEF r
      <3>3. Batch \in Nat /\ Batch <= Cap
        BY DashboardAssumption
      <3>4. /\ lines' \in Seq(Logs!Lines) /\ Len(lines') = Batch
            /\ \A i \in 1..Batch : lines'[i] = r
        BY <3>1, <3>2, <3>3
      <3>5. LogsTypes'
        BY <2>1, <3>3, <3>4 DEF LogsTypes
      <3>6. NewestFirst'
        BY <2>1, <3>1, <3>4 DEF NewestFirst, LogsTypes
      <3> QED BY <2>1, <3>5, <3>6 DEF Live
    <2> QED BY <1>3, <2>2, <2>3 DEF Logs!LogsLoaded, Logs!Synthetic
  <1>4. ASSUME Logs!LineArrives PROVE LogsInv'
    <2>1. /\ number < MaxLines /\ number' = number + 1
          /\ UNCHANGED <<logsStep, projects, streaming, intervals, logsProject, level>>
      BY <1>4 DEF Logs!LineArrives
    <2>2. PICK p \in projects :
            lines' = SubSeq(<<[n |-> number + 1, of |-> p, level |-> "info"]>> \o lines,
                            1, IF Len(lines) < Cap THEN Len(lines) + 1 ELSE Cap)
      BY <1>4 DEF Logs!LineArrives
    <2> DEFINE l == [n |-> number + 1, of |-> p, level |-> "info"]
    <2> DEFINE m == IF Len(lines) < Cap THEN Len(lines) + 1 ELSE Cap
    <2>3. l \in Logs!Lines /\ l.n = number + 1
      BY <2>1 DEF Logs!Lines, Logs!Levels, LogsTypes
    <2>4. m \in Nat /\ m <= Cap /\ m <= Len(lines) + 1
      BY DashboardAssumption DEF LogsTypes
    <2>5. lines' = SubSeq(<<l>> \o lines, 1, m)
      BY <2>2
    <2> HIDE DEF l
    <2>6. /\ lines' \in Seq(Logs!Lines) /\ Len(lines') = m
          /\ \A i \in 1..m : lines'[i] = IF i = 1 THEN l ELSE lines[i - 1]
      BY <2>3, <2>4, <2>5, LinePut DEF LogsTypes
    <2> HIDE DEF m
    <2>7. LogsTypes'
      BY <2>1, <2>4, <2>6 DEF LogsTypes
    <2>8. NewestFirst'
      <3>1. ASSUME NEW i \in 1..Len(lines)
            PROVE  lines[i].n \in Nat /\ lines[i].n <= number
        <4>1. lines[i] \in Logs!Lines
          BY DEF LogsTypes
        <4> QED BY <4>1 DEF NewestFirst, Logs!Lines
      <3>2. ASSUME NEW i \in 1..m, i # 1
            PROVE  /\ i - 1 \in 1..Len(lines) /\ lines'[i] = lines[i - 1]
                   /\ lines'[i].n \in Nat /\ lines'[i].n <= number
        <4>1. i - 1 \in 1..Len(lines) /\ lines'[i] = lines[i - 1]
          BY <2>4, <2>6, <3>2 DEF LogsTypes
        <4> QED BY <3>1, <4>1
      <3>3. 1 \in 1..m => lines'[1].n = number + 1
        BY <2>3, <2>6
      <3>4. \A i \in 1..m : lines'[i].n <= number + 1
        BY <3>2, <3>3 DEF LogsTypes
      <3>5. ASSUME NEW i \in 1..m, NEW j \in 1..m, i < j
            PROVE  \/ lines'[i].n > lines'[j].n
                   \/ lines'[i].n = 0 /\ lines'[j].n = 0
        <4>1. CASE i = 1
          <5>1. lines'[i].n = number + 1 /\ lines'[j].n \in Nat /\ lines'[j].n <= number
            BY <3>2, <3>3, <3>5, <4>1
          <5> QED BY <5>1 DEF LogsTypes
        <4>2. CASE i # 1
          <5>1. /\ i - 1 \in 1..Len(lines) /\ lines'[i] = lines[i - 1]
                /\ j - 1 \in 1..Len(lines) /\ lines'[j] = lines[j - 1]
            BY <3>2, <3>5, <4>2
          <5>2. i - 1 < j - 1
            BY <3>5, <2>4
          <5>3. \/ lines[i - 1].n > lines[j - 1].n
                \/ lines[i - 1].n = 0 /\ lines[j - 1].n = 0
            BY <5>1, <5>2 DEF NewestFirst
          <5> QED BY <5>1, <5>3
        <4> QED BY <4>1, <4>2
      <3> QED BY <2>1, <2>6, <3>4, <3>5 DEF NewestFirst
    <2> QED BY <2>1, <2>7, <2>8 DEF Live
  <1>5. ASSUME Logs!TogglePause PROVE LogsInv'
    <2>1. /\ streaming' = ~streaming /\ UNCHANGED projects
          /\ intervals' = IF ~streaming /\ projects # {} THEN 1 ELSE 0
          /\ UNCHANGED <<logsStep, lines, logsProject, level, number>>
      BY <1>5 DEF Logs!TogglePause, Logs!Interval
    <2>2. Live'
      BY <2>1 DEF Live
    <2> QED BY <2>1, <2>2 DEF LogsTypes, NewestFirst
  <1>6. ASSUME Logs!Clear PROVE LogsInv'
    BY <1>6, DashboardAssumption DEF Logs!Clear, LogsTypes, Live, NewestFirst
  <1>7. ASSUME Logs!SetFilter PROVE LogsInv'
    BY <1>7 DEF Logs!SetFilter, LogsTypes, Live, NewestFirst
  <1>8. ASSUME UNCHANGED logsVars PROVE LogsInv'
    BY <1>8 DEF logsVars, LogsTypes, Live, NewestFirst
  <1> HIDE DEF LogsInv
  <1> QED BY <1>1, <1>2, <1>3, <1>4, <1>5, <1>6, <1>7, <1>8, Zenon DEF Logs!Next

\* It gives the types of the logs page, and OneStream.
LEMMA LogsShown == LogsInv => Logs!TypeOK /\ Logs!OneStream
  BY DEF LogsInv, LogsTypes, Live, NewestFirst, Logs!TypeOK, Logs!OneStream,
     Logs!Filtered

(***************************************************************************)
(* AdminForm.                                                              *)
(***************************************************************************)
Gets == [step : {"none", "asked", "made"}, kept : Settings!Content, old : BOOLEAN]
SettingsTypes ==
  /\ settingsStored \in Settings!Content
  /\ fields \in [Settings!Fields -> Settings!Content]
  /\ put \in [step : {"none", "sent", "done"}, kept : Settings!Content]
  /\ gets \in [1..2 -> Gets]
  /\ unsent \in [Settings!Fields -> Values \cup {Blank, None}]
  /\ touched \subseteq Settings!Fields
  /\ settingsForeign \in 0..MaxForeign
SettingsSwitches == {settingsLoading, astray} \subseteq BOOLEAN

\* Nothing is typed for keeps while a load is under way.
LoadForgets ==
  (\E n \in 1..2 : gets[n] # Settings!NoGet) =>
    \A f \in Settings!Fields : unsent[f] = None

\* An answer that is not old is what is stored, and without a load under way so is a
\* field nobody touched, until a save has changed it.
AnswerIsStored ==
  \A n \in 1..2 :
    gets[n].step = "made" /\ ~gets[n].old => gets[n].kept = settingsStored
FormIsStored ==
  /\ \A n \in 1..2 : gets[n] = Settings!NoGet
  /\ ~astray /\ put.step # "done" /\ "kept" \notin touched
  => fields["kept"] = settingsStored

SettingsInv ==
  /\ SettingsTypes /\ SettingsSwitches
  /\ Settings!TypedIsKept /\ LoadForgets /\ AnswerIsStored /\ FormIsStored

\* The invariant of the admin form holds when the browser opens.
LEMMA SettingsInit == Settings!Init => SettingsInv
  <1> SUFFICES ASSUME Settings!Init PROVE SettingsInv
    OBVIOUS
  <1> USE DEF Settings!Init, Settings!Content, Settings!Fields, Settings!NoPut,
          Settings!NoGet, Settings!Nothing
  <1>1. SettingsSwitches
    BY Zenon DEF SettingsSwitches
  <1>2. SettingsTypes
    <2>1. Settings!NoGet \in Gets /\ [Settings!NoGet EXCEPT !.step = "asked"] \in Gets
      BY DEF Gets
    <2> HIDE DEF Settings!NoGet
    <2>2. gets \in [1..2 -> Gets]
      BY <2>1
    <2> QED BY <2>2, Bounds DEF SettingsTypes
  <1>3. Settings!TypedIsKept /\ LoadForgets
    BY DEF Settings!TypedIsKept, LoadForgets
  <1>4. AnswerIsStored /\ FormIsStored
    BY DEF AnswerIsStored, FormIsStored
  <1> QED BY <1>1, <1>2, <1>3, <1>4 DEF SettingsInv

\* A load that is asked for.
LEMMA LoadAsks ==
  ASSUME SettingsTypes, Settings!Load
  PROVE  /\ gets' \in [1..2 -> Gets]
         /\ \A n \in 1..2 : gets'[n] = gets[n] \/ gets'[n].step = "asked"
         /\ \E n \in 1..2 : gets'[n] # Settings!NoGet
  <1> USE DEF SettingsTypes, Settings!NoGet
  <1>1. PICK n \in 1..2 :
          gets[n] = Settings!NoGet /\ gets' = [gets EXCEPT ![n].step = "asked"]
    BY DEF Settings!Load
  <1>2. /\ gets'[n] = [gets[n] EXCEPT !.step = "asked"]
        /\ \A m \in 1..2 : m # n => gets'[m] = gets[m]
    BY <1>1
  <1>3. gets'[n] \in Gets /\ gets'[n].step = "asked"
    BY <1>2 DEF Gets
  <1>4. gets' \in [1..2 -> Gets]
    BY <1>1, <1>3
  <1> QED BY <1>1, <1>2, <1>3, <1>4

\* A change of the settings makes answers old, and nothing else of them changes.
LEMMA AnswersAge ==
  ASSUME SettingsTypes, Settings!AnswersOld
  PROVE  /\ gets' \in [1..2 -> Gets]
         /\ \A n \in 1..2 : gets'[n] # Settings!NoGet => gets[n] # Settings!NoGet
         /\ \A n \in 1..2 : gets'[n].step = "made" => gets'[n].old
  <1> USE DEF SettingsTypes, Settings!AnswersOld
  <1>1. ASSUME NEW n \in 1..2
        PROVE  /\ gets'[n] \in Gets
               /\ gets[n] = Settings!NoGet => gets'[n] = Settings!NoGet
               /\ gets'[n].step = "made" => gets'[n].old
    <2> DEFINE r == gets[n].old \/ gets[n].step = "made"
    <2>1. /\ gets[n] \in Gets /\ gets[n].old \in BOOLEAN
          /\ gets[n].step \in {"none", "asked", "made"}
      BY DEF Gets
    <2>2. gets'[n] = [gets[n] EXCEPT !.old = r]
      OBVIOUS
    <2>3. r \in BOOLEAN
      OBVIOUS
    <2>4. gets[n] = Settings!NoGet => r = FALSE
      BY DEF Settings!NoGet
    <2>5. gets[n].step = "made" => r = TRUE
      OBVIOUS
    <2> HIDE DEF r
    <2>6. /\ gets'[n] = [step |-> gets[n].step, kept |-> gets[n].kept, old |-> r]
          /\ gets[n] = [step |-> gets[n].step, kept |-> gets[n].kept, old |-> gets[n].old]
      BY <2>1, <2>2 DEF Gets
    <2> QED BY <2>1, <2>3, <2>4, <2>5, <2>6 DEF Gets, Settings!NoGet
  <1>2. gets' \in [1..2 -> Gets]
    BY <1>1
  <1> QED BY <1>1, <1>2

\* Every step of the admin form keeps it.
LEMMA SettingsStep == SettingsInv /\ [Settings!Next]_settingsVars => SettingsInv'
  <1> SUFFICES ASSUME SettingsInv, [Settings!Next]_settingsVars PROVE SettingsInv'
    OBVIOUS
  <1> USE DEF SettingsInv, Settings!Content, Settings!Fields, Settings!NoPut,
          Settings!NoGet, Settings!Nothing, Gets
  <1>0. SettingsSwitches'
    BY DEF Settings!Next, Settings!PutSettings, Settings!OtherAdminSaves,
       Settings!GetSettings, Settings!LoadArrives, Settings!LoadFails,
       Settings!TypeField, Settings!SaveSettings, Settings!SaveAnswered,
       Settings!SaveFails, Settings!Refresh, Settings!Load, settingsVars,
          SettingsSwitches,
       SettingsTypes
  <1> DEFINE KeepsOK ==
        /\ Settings!TypedIsKept' /\ LoadForgets' /\ AnswerIsStored' /\ FormIsStored'
  <1> USE DEF SettingsTypes, SettingsSwitches, Settings!TypedIsKept, LoadForgets,
          AnswerIsStored, FormIsStored, Settings!Quiet, Settings!Saving
  <1>1. ASSUME Settings!PutSettings PROVE SettingsTypes' /\ KeepsOK
    <2>1. SettingsTypes'
      BY <1>1, Bounds, AnswersAge DEF Settings!PutSettings
    <2>2. KeepsOK
      BY <1>1, AnswersAge DEF Settings!PutSettings
    <2> QED BY <2>1, <2>2
  <1>2. ASSUME Settings!OtherAdminSaves PROVE SettingsTypes' /\ KeepsOK
    <2>1. SettingsTypes'
      BY <1>2, Bounds, AnswersAge DEF Settings!OtherAdminSaves
    <2>2. KeepsOK
      BY <1>2, AnswersAge DEF Settings!OtherAdminSaves
    <2> QED BY <2>1, <2>2
  <1>3. ASSUME NEW n \in 1..2, Settings!GetSettings(n) PROVE SettingsTypes' /\ KeepsOK
    <2>1. SettingsTypes'
      BY <1>3, Bounds DEF Settings!GetSettings
    <2>2. KeepsOK
      BY <1>3 DEF Settings!GetSettings
    <2> QED BY <2>1, <2>2
  <1>4. ASSUME NEW n \in 1..2, Settings!LoadArrives(n) PROVE SettingsTypes' /\ KeepsOK
    <2>1. SettingsTypes'
      BY <1>4, Bounds DEF Settings!LoadArrives
    <2>2. KeepsOK
      BY <1>4 DEF Settings!LoadArrives
    <2> QED BY <2>1, <2>2
  <1>5. ASSUME NEW n \in 1..2, Settings!LoadFails(n) PROVE SettingsTypes' /\ KeepsOK
    <2>1. SettingsTypes'
      BY <1>5, Bounds DEF Settings!LoadFails
    <2>2. KeepsOK
      BY <1>5 DEF Settings!LoadFails
    <2> QED BY <2>1, <2>2
  <1>6. ASSUME NEW f \in Settings!Fields, NEW v \in Values \cup {Blank},
               Settings!TypeField(f, v)
        PROVE  SettingsTypes' /\ KeepsOK
    <2>1. SettingsTypes'
      BY <1>6, Bounds DEF Settings!TypeField
    <2>2. KeepsOK
      BY <1>6 DEF Settings!TypeField
    <2> QED BY <2>1, <2>2
  <1>7. ASSUME Settings!SaveSettings PROVE SettingsTypes' /\ KeepsOK
    <2>1. SettingsTypes'
      BY <1>7, Bounds DEF Settings!SaveSettings
    <2>2. KeepsOK
      BY <1>7 DEF Settings!SaveSettings
    <2> QED BY <2>1, <2>2
  <1>8. ASSUME Settings!SaveAnswered PROVE SettingsTypes' /\ KeepsOK
    <2>1. SettingsTypes'
      BY <1>8, Bounds, LoadAsks DEF Settings!SaveAnswered
    <2>2. KeepsOK
      BY <1>8, LoadAsks DEF Settings!SaveAnswered
    <2> QED BY <2>1, <2>2
  <1>9. ASSUME Settings!SaveFails PROVE SettingsTypes' /\ KeepsOK
    <2>1. SettingsTypes'
      BY <1>9, Bounds DEF Settings!SaveFails
    <2>2. KeepsOK
      BY <1>9 DEF Settings!SaveFails
    <2> QED BY <2>1, <2>2
  <1>10. ASSUME Settings!Refresh PROVE SettingsTypes' /\ KeepsOK
    <2>1. SettingsTypes'
      BY <1>10, Bounds, LoadAsks DEF Settings!Refresh
    <2>2. KeepsOK
      BY <1>10, LoadAsks DEF Settings!Refresh
    <2> QED BY <2>1, <2>2
  <1>11. ASSUME UNCHANGED settingsVars PROVE SettingsTypes' /\ KeepsOK
    BY <1>11 DEF settingsVars
  <1> QED BY <1>0, <1>1, <1>2, <1>3, <1>4, <1>5, <1>6, <1>7, <1>8, <1>9, <1>10, <1>11
          DEF Settings!Next

\* It gives the types of the admin form, and TypedIsKept and UntouchedIsStored.
LEMMA SettingsShown ==
  SettingsInv => /\ Settings!TypeOK /\ Settings!TypedIsKept /\ Settings!UntouchedIsStored
  <1> SUFFICES ASSUME SettingsInv
               PROVE  /\ Settings!TypeOK /\ Settings!TypedIsKept
                      /\ Settings!UntouchedIsStored
    OBVIOUS
  <1>1. Settings!TypeOK
    BY DEF SettingsInv, SettingsTypes, SettingsSwitches, Gets, Settings!TypeOK
  <1>2. Settings!UntouchedIsStored
    BY DEF SettingsInv, FormIsStored, Settings!UntouchedIsStored, Settings!Quiet,
           Settings!Saving, Settings!NoPut
  <1> QED BY <1>1, <1>2 DEF SettingsInv

(***************************************************************************)
(* AdminJobPanel.  A poll is of a job there is.                            *)
(***************************************************************************)
PollFields ==
  [id : Panel!JobIDs \cup {None}, of : {"job", "logs"}, made : BOOLEAN,
   status : Panel!Statuses, chunks : 0..MaxChunks]

PollsOK ==
  /\ polls \in [1..MaxPolls -> PollFields]
  /\ \A n \in 1..MaxPolls : polls[n] = Panel!NoPoll \/ polls[n].id \in Panel!JobIDs

RowTypes == status \in Panel!Statuses /\ chunks \in 0..MaxChunks
ShownTypes ==
  /\ jobID \in Panel!JobIDs \cup {None}
  /\ job \in [id : Panel!JobIDs \cup {None}, status : Panel!Statuses]
  /\ jobLogs \in [id : Panel!JobIDs \cup {None}, chunks : 0..MaxChunks]

PanelInv == RowTypes /\ ShownTypes /\ PollsOK

\* A poll of a job, and one of its logs.
LEMMA PollMade ==
  ASSUME NEW j \in Panel!JobIDs, NEW of \in {"job", "logs"}
  PROVE  /\ [Panel!NoPoll EXCEPT !.id = j] \in PollFields
         /\ [Panel!NoPoll EXCEPT !.id = j].id = j
         /\ [Panel!NoPoll EXCEPT !.id = j, !.of = of] \in PollFields
         /\ [Panel!NoPoll EXCEPT !.id = j, !.of = of].id = j
         /\ Panel!NoPoll \in PollFields
  <1>1. Panel!NoPoll \in PollFields
    BY Bounds DEF Panel!NoPoll, PollFields, Panel!Statuses
  <1>2. /\ [Panel!NoPoll EXCEPT !.id = j] \in PollFields
        /\ [Panel!NoPoll EXCEPT !.id = j].id = j
    BY <1>1 DEF PollFields
  <1>3. /\ [Panel!NoPoll EXCEPT !.id = j, !.of = of] \in PollFields
        /\ [Panel!NoPoll EXCEPT !.id = j, !.of = of].id = j
    BY <1>1 DEF PollFields
  <1> QED BY <1>1, <1>2, <1>3

\* Loading a job takes a free poll.
LEMMA PollLoaded ==
  ASSUME PollsOK, NEW j \in Panel!JobIDs, Panel!LoadJob(j)
  PROVE  PollsOK'
  <1>1. PICK n \in 1..MaxPolls :
          polls' = [polls EXCEPT ![n] = [Panel!NoPoll EXCEPT !.id = j]]
    BY DEF Panel!LoadJob
  <1> DEFINE p == [Panel!NoPoll EXCEPT !.id = j]
  <1>2. p \in PollFields /\ p.id = j
    BY PollMade
  <1> HIDE DEF p
  <1>3. polls' = [polls EXCEPT ![n] = p]
    BY <1>1 DEF p
  <1> QED BY <1>2, <1>3 DEF PollsOK

\* A poll that ends leaves the others what they are.
LEMMA PollEnded ==
  ASSUME PollsOK, NEW n \in 1..MaxPolls, polls' = Panel!Without(n)
  PROVE  PollsOK'
  <1>1. Panel!NoPoll \in PollFields
    BY Bounds DEF Panel!NoPoll, PollFields, Panel!Statuses
  <1>2. \A m \in 1..MaxPolls :
          polls'[m] = Panel!NoPoll \/ \E k \in 1..MaxPolls : polls'[m] = polls[k]
    BY Bounds DEF Panel!Without
  <1>3. polls' = [m \in 1..MaxPolls |-> polls'[m]]
    BY DEF Panel!Without
  <1> QED BY <1>1, <1>2, <1>3 DEF PollsOK

\* The invariant of the job panel holds when the browser opens.
LEMMA PanelInit == Panel!Init => PanelInv
  <1> SUFFICES ASSUME Panel!Init PROVE PanelInv
    OBVIOUS
  <1> USE Bounds DEF Panel!Init
  <1>1. Panel!NoPoll \in PollFields
    BY DEF Panel!NoPoll, PollFields, Panel!Statuses
  <1>2. PollsOK
    BY <1>1 DEF PollsOK
  <1>3. RowTypes /\ ShownTypes
    BY DEF RowTypes, ShownTypes, Panel!NoJob, Panel!Statuses
  <1> QED BY <1>2, <1>3 DEF PanelInv

\* Every step of the job panel keeps it.
LEMMA PanelStep == PanelInv /\ [Panel!Next]_panelVars => PanelInv'
  <1> SUFFICES ASSUME PanelInv, [Panel!Next]_panelVars PROVE PanelInv'
    OBVIOUS
  <1> USE Bounds DEF PanelInv
  <1>a. ASSUME UNCHANGED <<jobID, job, jobLogs>> PROVE ShownTypes'
    BY <1>a DEF ShownTypes
  <1>b. ASSUME UNCHANGED <<status, chunks>> PROVE RowTypes'
    BY <1>b DEF RowTypes
  <1>c. ASSUME UNCHANGED polls PROVE PollsOK'
    BY <1>c DEF PollsOK
  <1>1. ASSUME Panel!AgentStarts \/ Panel!AgentLogs \/ Panel!AgentEnds PROVE PanelInv'
    <2>1. UNCHANGED <<jobID, job, jobLogs, polls>>
      BY <1>1 DEF Panel!AgentStarts, Panel!AgentLogs, Panel!AgentEnds
    <2>2. RowTypes'
      BY <1>1 DEF Panel!AgentStarts, Panel!AgentLogs, Panel!AgentEnds, RowTypes,
                  Panel!Statuses, Panel!Final
    <2> QED BY <2>1, <2>2, <1>a, <1>c
  <1>2. ASSUME Panel!Tick PROVE PanelInv'
    <2>1. /\ jobID \in Panel!JobIDs /\ Panel!LoadJob(jobID)
          /\ UNCHANGED <<status, chunks, jobID, job, jobLogs>>
      BY <1>2 DEF Panel!Tick, ShownTypes
    <2>2. PollsOK'
      BY <2>1, PollLoaded
    <2> QED BY <2>1, <2>2, <1>a, <1>b
  <1>3. ASSUME NEW j \in Panel!JobIDs, Panel!ApplyAnswered(j) PROVE PanelInv'
    <2>1. /\ jobID' = j /\ Panel!LoadJob(j) /\ UNCHANGED <<job, jobLogs>>
          /\ status' \in Panel!Statuses
          /\ chunks' \in IF status' = "queued" THEN {0} ELSE 0..MaxChunks
      BY <1>3 DEF Panel!ApplyAnswered
    <2>2. PollsOK'
      BY <2>1, PollLoaded
    <2>3. RowTypes' /\ ShownTypes'
      BY <2>1 DEF RowTypes, ShownTypes
    <2> QED BY <2>2, <2>3
  <1>4. ASSUME NEW n \in 1..MaxPolls, Panel!Answer(n) PROVE PanelInv'
    <2>1. PICK s \in Panel!Statuses \ {"none"}, k \in 0..MaxChunks :
            polls' = [polls EXCEPT
              ![n].made = TRUE,
              ![n].status = IF polls[n].of = "job" THEN s ELSE @,
              ![n].chunks = IF polls[n].of = "logs" THEN Panel!Listed(k) ELSE @]
      BY <1>4 DEF Panel!Answer
    <2> DEFINE p == [polls[n] EXCEPT
          !.made = TRUE,
          !.status = IF polls[n].of = "job" THEN s ELSE @,
          !.chunks = IF polls[n].of = "logs" THEN Panel!Listed(k) ELSE @]
    <2>2. polls[n] # Panel!NoPoll /\ UNCHANGED <<status, chunks, jobID, job, jobLogs>>
      BY <1>4 DEF Panel!Answer
    <2>3. polls[n] \in PollFields /\ polls[n].id \in Panel!JobIDs
      BY <2>2 DEF PollsOK
    <2>4. polls' = [polls EXCEPT ![n] = p]
      BY <2>1, <2>3 DEF PollsOK, PollFields
    <2>5. Panel!Listed(k) \in 0..MaxChunks
      BY DEF Panel!Listed
    <2>6. p \in PollFields /\ p.id \in Panel!JobIDs
      BY <2>3, <2>5 DEF PollFields
    <2> HIDE DEF p
    <2>7. PollsOK'
      BY <2>4, <2>6 DEF PollsOK
    <2> QED BY <2>2, <2>7, <1>a, <1>b
  <1>5. ASSUME NEW n \in 1..MaxPolls, Panel!JobArrives(n) PROVE PanelInv'
    <2> DEFINE p == [Panel!NoPoll EXCEPT !.id = polls[n].id, !.of = "logs"]
    <2>1. /\ polls[n].made /\ polls' = [polls EXCEPT ![n] = p]
          /\ job' = [id |-> polls[n].id, status |-> polls[n].status]
          /\ UNCHANGED <<status, chunks, jobID, jobLogs>>
      BY <1>5 DEF Panel!JobArrives
    <2>2. Panel!NoPoll.made = FALSE
      BY DEF Panel!NoPoll
    <2>3. polls[n].id \in Panel!JobIDs /\ polls[n].status \in Panel!Statuses
      BY <2>1, <2>2 DEF PollsOK, PollFields
    <2>4. p \in PollFields /\ p.id \in Panel!JobIDs
      BY <2>3, PollMade
    <2> HIDE DEF p
    <2>5. PollsOK'
      BY <2>1, <2>4 DEF PollsOK
    <2>6. ShownTypes'
      BY <2>1, <2>3 DEF ShownTypes
    <2> QED BY <2>1, <2>5, <2>6, <1>b
  <1>6. ASSUME NEW n \in 1..MaxPolls, Panel!LogsArrive(n) PROVE PanelInv'
    <2>1. /\ polls' = Panel!Without(n)
          /\ jobLogs' = [id |-> polls[n].id, chunks |-> polls[n].chunks]
          /\ UNCHANGED <<status, chunks, jobID, job>>
      BY <1>6 DEF Panel!LogsArrive
    <2>2. polls[n].id \in Panel!JobIDs \cup {None} /\ polls[n].chunks \in 0..MaxChunks
      BY DEF PollsOK, PollFields
    <2>3. PollsOK'
      BY <2>1, PollEnded
    <2>4. ShownTypes'
      BY <2>1, <2>2 DEF ShownTypes
    <2> QED BY <2>1, <2>3, <2>4, <1>b
  <1>7. ASSUME NEW n \in 1..MaxPolls, Panel!PollFails(n) PROVE PanelInv'
    <2>1. polls' = Panel!Without(n) /\ UNCHANGED <<status, chunks, jobID, job, jobLogs>>
      BY <1>7 DEF Panel!PollFails
    <2>2. PollsOK'
      BY <2>1, PollEnded
    <2> QED BY <2>1, <2>2, <1>a, <1>b
  <1>8. ASSUME UNCHANGED panelVars PROVE PanelInv'
    <2>1. UNCHANGED <<status, chunks, jobID, job, jobLogs, polls>>
      BY <1>8 DEF panelVars
    <2> QED BY <2>1, <1>a, <1>b, <1>c
  <1> HIDE DEF PanelInv
  <1> QED BY <1>1, <1>2, <1>3, <1>4, <1>5, <1>6, <1>7, <1>8, Zenon DEF Panel!Next

\* It gives the types of the job panel.
LEMMA PanelShown == PanelInv => Panel!TypeOK
  BY DEF PanelInv, RowTypes, ShownTypes, PollsOK, PollFields, Panel!TypeOK

(***************************************************************************)
(* CommandPalette.                                                         *)
(***************************************************************************)
PaletteSwitches ==
  {paletteOpen, disturbed} \subseteq BOOLEAN /\ paletteQuery \in Palette!Filters
PaletteNumbers ==
  /\ selected \in (-1)..(Fixed + MaxProjects)
  /\ found \in 0..MaxProjects /\ loads \in 0..MaxLoads
PaletteInv == PaletteSwitches /\ PaletteNumbers /\ Palette!SelectionIsListed

\* The invariant of the palette holds when the browser opens.
LEMMA PaletteInit == Palette!Init => PaletteInv
  <1> SUFFICES ASSUME Palette!Init PROVE PaletteInv
    OBVIOUS
  <1>1. paletteOpen = FALSE /\ PaletteSwitches
    BY Zenon DEF Palette!Init, PaletteSwitches, Palette!Filters
  <1>2. PaletteNumbers
    BY Bounds DEF Palette!Init, PaletteNumbers
  <1> QED BY <1>1, <1>2 DEF PaletteInv, Palette!SelectionIsListed

\* Every step of the palette keeps it.
LEMMA PaletteStep == PaletteInv /\ [Palette!Next]_paletteVars => PaletteInv'
  <1> SUFFICES ASSUME PaletteInv, [Palette!Next]_paletteVars PROVE PaletteInv'
    OBVIOUS
  <1> USE DEF PaletteInv
  <1>1. PaletteSwitches'
    BY Zenon DEF Palette!Next, Palette!Toggle, Palette!Close, Palette!ProjectsArrive,
       Palette!ArrowDown, Palette!ArrowUp, Palette!Enter, Palette!Type,
       Palette!MouseEnter, paletteVars, PaletteSwitches, Palette!Filters
  <1> USE Bounds DEF PaletteNumbers, Palette!SelectionIsListed, Palette!Matches,
          Palette!Filters
  <1>2. paletteQuery \in Palette!Filters
    BY DEF PaletteSwitches
  <1>3. ASSUME Palette!Toggle PROVE PaletteInv'
    BY <1>1, <1>2, <1>3 DEF Palette!Toggle
  <1>4. ASSUME Palette!Close PROVE PaletteInv'
    BY <1>1, <1>2, <1>4 DEF Palette!Close
  <1>5. ASSUME Palette!ProjectsArrive PROVE PaletteInv'
    BY <1>1, <1>2, <1>5 DEF Palette!ProjectsArrive
  <1>6. ASSUME Palette!ArrowDown PROVE PaletteInv'
    BY <1>1, <1>2, <1>6 DEF Palette!ArrowDown
  <1>7. ASSUME Palette!ArrowUp PROVE PaletteInv'
    BY <1>1, <1>2, <1>7 DEF Palette!ArrowUp
  <1>8. ASSUME Palette!Enter PROVE PaletteInv'
    BY <1>1, <1>2, <1>8 DEF Palette!Enter
  <1>9. ASSUME NEW q \in Palette!Filters, Palette!Type(q) PROVE PaletteInv'
    BY <1>1, <1>2, <1>9 DEF Palette!Type
  <1>10. ASSUME NEW n \in 0..(Fixed + MaxProjects - 1), Palette!MouseEnter(n)
         PROVE  PaletteInv'
    BY <1>1, <1>2, <1>10 DEF Palette!MouseEnter
  <1>11. ASSUME UNCHANGED paletteVars PROVE PaletteInv'
    BY <1>1, <1>2, <1>11 DEF paletteVars
  <1> QED BY <1>3, <1>4, <1>5, <1>6, <1>7, <1>8, <1>9, <1>10, <1>11 DEF Palette!Next

\* It gives the types of the palette, and SelectionIsListed.
LEMMA PaletteShown == PaletteInv => Palette!TypeOK /\ Palette!SelectionIsListed
  BY DEF PaletteInv, PaletteSwitches, PaletteNumbers, Palette!TypeOK

(***************************************************************************)
(* ShellWidgets.                                                           *)
(***************************************************************************)
WidgetsSwitches ==
  /\ {panelOpen, draft, sent, gPressed, help, dismissed, bellOpen} \subseteq BOOLEAN
  /\ health \in Widgets!Health
WidgetsNotes == kept \subseteq Notes /\ read \subseteq kept
WidgetsTimers ==
  /\ closers \in 0..1 /\ checks \in 0..2
  /\ Widgets!FeedbackIsKept /\ Widgets!PrefixHasTimer
WidgetsInv == WidgetsSwitches /\ WidgetsNotes /\ WidgetsTimers

\* The invariant of the shell's widgets holds when the browser opens.
LEMMA WidgetsInit == Widgets!Init => WidgetsInv
  <1> SUFFICES ASSUME Widgets!Init PROVE WidgetsInv
    OBVIOUS
  <1>1. WidgetsSwitches
    BY Zenon DEF Widgets!Init, WidgetsSwitches, Widgets!Health
  <1>2. WidgetsNotes
    BY DashboardAssumption DEF Widgets!Init, WidgetsNotes
  <1>3. WidgetsTimers
    BY DEF Widgets!Init, WidgetsTimers, Widgets!FeedbackIsKept, Widgets!PrefixHasTimer
  <1> QED BY <1>1, <1>2, <1>3 DEF WidgetsInv

\* Every step of the shell's widgets keeps it.
LEMMA WidgetsStep == WidgetsInv /\ [Widgets!Next]_widgetsVars => WidgetsInv'
  <1> SUFFICES ASSUME WidgetsInv, [Widgets!Next]_widgetsVars PROVE WidgetsInv'
    OBVIOUS
  <1> USE DEF WidgetsInv, Widgets!feedbackVars, Widgets!shortcutVars,
          Widgets!healthVars, Widgets!bellVars
  <1>1. WidgetsSwitches'
    BY DEF Widgets!Next, Widgets!ToggleFeedback, Widgets!EditFeedback,
       Widgets!SubmitFeedback, Widgets!FeedbackCloses, Widgets!PressG,
       Widgets!GTimerFires, Widgets!PressOther, Widgets!GoTo, Widgets!ToggleHelp,
       Widgets!CheckHealth, Widgets!HealthArrives, Widgets!DismissBanner,
       Widgets!ToggleBell, Widgets!MarkRead, Widgets!Dismiss, widgetsVars,
       WidgetsSwitches, Widgets!Health
  <1>2. WidgetsNotes'
    BY DashboardAssumption
    DEF Widgets!Next, Widgets!ToggleFeedback, Widgets!EditFeedback,
       Widgets!SubmitFeedback, Widgets!FeedbackCloses, Widgets!PressG,
       Widgets!GTimerFires, Widgets!PressOther, Widgets!GoTo, Widgets!ToggleHelp,
       Widgets!CheckHealth, Widgets!HealthArrives, Widgets!DismissBanner,
       Widgets!ToggleBell, Widgets!MarkRead, Widgets!Dismiss, widgetsVars,
       WidgetsNotes
  <1> USE DEF WidgetsTimers, Widgets!FeedbackIsKept, Widgets!PrefixHasTimer
  <1>3. ASSUME Widgets!ToggleFeedback \/ Widgets!EditFeedback PROVE WidgetsTimers'
    BY <1>3 DEF Widgets!ToggleFeedback, Widgets!EditFeedback
  <1>4. ASSUME Widgets!SubmitFeedback PROVE WidgetsTimers'
    BY <1>4 DEF Widgets!SubmitFeedback, WidgetsSwitches
  <1>5. ASSUME Widgets!FeedbackCloses PROVE WidgetsTimers'
    BY <1>5 DEF Widgets!FeedbackCloses
  <1>6. ASSUME Widgets!PressG PROVE WidgetsTimers'
    BY <1>6 DEF Widgets!PressG
  <1>7. ASSUME Widgets!GTimerFires PROVE WidgetsTimers'
    BY <1>7 DEF Widgets!GTimerFires
  <1>8. ASSUME Widgets!PressOther PROVE WidgetsTimers'
    BY <1>8 DEF Widgets!PressOther
  <1>9. ASSUME Widgets!GoTo PROVE WidgetsTimers'
    BY <1>9 DEF Widgets!GoTo
  <1>10. ASSUME \/ Widgets!CheckHealth \/ Widgets!HealthArrives \/ Widgets!DismissBanner
         PROVE  WidgetsTimers'
    BY <1>10 DEF Widgets!CheckHealth, Widgets!HealthArrives, Widgets!DismissBanner
  <1>11. ASSUME UNCHANGED <<closers, sent, checks, gPressed, gTimers>>
         PROVE  WidgetsTimers'
    BY <1>11
  <1>12. ASSUME \/ Widgets!ToggleHelp \/ Widgets!ToggleBell
                \/ (\E n \in kept : Widgets!MarkRead({n}) \/ Widgets!Dismiss({n}))
                \/ Widgets!MarkRead(kept \ read) \/ Widgets!Dismiss(kept)
                \/ UNCHANGED widgetsVars
         PROVE  UNCHANGED <<closers, sent, checks, gPressed, gTimers>>
    BY <1>12 DEF Widgets!ToggleHelp, Widgets!ToggleBell, Widgets!MarkRead,
                 Widgets!Dismiss, widgetsVars
  <1> QED BY <1>1, <1>2, <1>3, <1>4, <1>5, <1>6, <1>7, <1>8, <1>9, <1>10, <1>11, <1>12
          DEF Widgets!Next

\* It gives the types of the shell's widgets, and FeedbackIsKept and PrefixHasTimer.
LEMMA WidgetsShown ==
  WidgetsInv => Widgets!TypeOK /\ Widgets!FeedbackIsKept /\ Widgets!PrefixHasTimer
  BY DEF WidgetsInv, WidgetsSwitches, WidgetsNotes, WidgetsTimers, Widgets!TypeOK,
         Widgets!PrefixHasTimer, Widgets!MaxTimers

(***************************************************************************)
(* The dashboard.  A step is one of the page that is open and leaves the   *)
(* state of the others alone, so that the pages' invariants hold together. *)
(***************************************************************************)
DashInv ==
  /\ page \in Pages
  /\ EntryInv /\ TeamsInv /\ ListInv /\ ImportInv /\ ProjectInv
  /\ OutputInv /\ VariablesInv /\ DomainsInv /\ StorageInv /\ CronInv
  /\ LogsInv /\ SettingsInv /\ PanelInv /\ PaletteInv /\ WidgetsInv

\* A step of the dashboard is one of each page, or leaves it alone.
PagesStep ==
  /\ [Entering!Next]_entryVars /\ [Teams!Next]_teamsVars
  /\ [ProjectList!Next]_listVars /\ [Importing!Next]_importVars
  /\ [Project!Next]_projectVars /\ [Output!Next]_outputVars
  /\ [Variables!Next]_variablesVars /\ [Domains!Next]_domainsVars
  /\ [Storage!Next]_storageVars /\ [Cron!Next]_cronVars
  /\ [Logs!Next]_logsVars /\ [Settings!Next]_settingsVars
  /\ [Panel!Next]_panelVars /\ [Palette!Next]_paletteVars
  /\ [Widgets!Next]_widgetsVars

\* A step is a step of at most one page; of each of the others it is a stutter.
LEMMA PagesApart == [Next]_vars => page' = page /\ PagesStep
  <1> SUFFICES ASSUME [Next]_vars PROVE page' = page /\ PagesStep
    OBVIOUS
  <1> USE DEF PagesStep
  <1>1. ASSUME Only("entry"), Entering!Next PROVE page' = page /\ PagesStep
    BY <1>1 DEF Only
  <1>2. ASSUME Only("teams"), Teams!Next PROVE page' = page /\ PagesStep
    BY <1>2 DEF Only
  <1>3. ASSUME Only("list"), ProjectList!Next PROVE page' = page /\ PagesStep
    BY <1>3 DEF Only
  <1>4. ASSUME Only("import"), Importing!Next PROVE page' = page /\ PagesStep
    BY <1>4 DEF Only
  <1>5. ASSUME Only("project"), Project!Next PROVE page' = page /\ PagesStep
    BY <1>5 DEF Only
  <1>6. ASSUME Only("output"), Output!Next PROVE page' = page /\ PagesStep
    BY <1>6 DEF Only
  <1>7. ASSUME Only("variables"), Variables!Next PROVE page' = page /\ PagesStep
    BY <1>7 DEF Only
  <1>8. ASSUME Only("domains"), Domains!Next PROVE page' = page /\ PagesStep
    BY <1>8 DEF Only
  <1>9. ASSUME Only("storage"), Storage!Next PROVE page' = page /\ PagesStep
    BY <1>9 DEF Only
  <1>10. ASSUME Only("cron"), Cron!Next PROVE page' = page /\ PagesStep
    BY <1>10 DEF Only
  <1>11. ASSUME Only("logs"), Logs!Next PROVE page' = page /\ PagesStep
    BY <1>11 DEF Only
  <1>12. ASSUME Only("settings"), Settings!Next PROVE page' = page /\ PagesStep
    BY <1>12 DEF Only
  <1>13. ASSUME Only("panel"), Panel!Next PROVE page' = page /\ PagesStep
    BY <1>13 DEF Only
  <1>14. ASSUME Only("palette"), Palette!Next PROVE page' = page /\ PagesStep
    BY <1>14 DEF Only
  <1>15. ASSUME Only("widgets"), Widgets!Next PROVE page' = page /\ PagesStep
    BY <1>15 DEF Only
  <1>16. ASSUME UNCHANGED vars PROVE page' = page /\ PagesStep
    BY <1>16 DEF vars
  <1> HIDE DEF PagesStep
  <1> QED BY <1>1, <1>2, <1>3, <1>4, <1>5, <1>6, <1>7, <1>8, <1>9, <1>10, <1>11, <1>12,
             <1>13, <1>14, <1>15, <1>16, Zenon DEF Next

\* Every page starts in its invariant.
LEMMA DashInit == Init => DashInv
  BY EntryInit, TeamsInit, ListInit, ImportInit, ProjectInit, OutputInit, VariablesInit,
     DomainsInit, StorageInit, CronInit, LogsInit, SettingsInit, PanelInit, PaletteInit,
     WidgetsInit, Zenon DEF Init, DashInv

\* No page's step breaks another's invariant.
LEMMA DashStep == DashInv /\ [Next]_vars => DashInv'
  <1> SUFFICES ASSUME DashInv, [Next]_vars PROVE DashInv'
    OBVIOUS
  <1>1. page' = page /\ PagesStep
    BY PagesApart
  <1> QED BY <1>1, EntryStep, TeamsStep, ListStep, ImportStep, ProjectStep, OutputStep,
             VariablesStep, DomainsStep, StorageStep, CronStep, LogsStep, SettingsStep,
             PanelStep, PaletteStep, WidgetsStep, Zenon DEF PagesStep, DashInv

\* Whatever page is open, the invariants of all the pages hold.
THEOREM PagesInvariant == Spec => []DashInv
  <1>1. Init => DashInv
    BY DashInit
  <1>2. DashInv /\ [Next]_vars => DashInv'
    BY DashStep
  <1> QED BY <1>1, <1>2, PTL DEF Spec

\* Every page keeps the shape its handlers expect, whatever is open.
THEOREM DashboardTypes == Spec => []TypeOK
  <1>1. DashInv => TypeOK
    BY EntryShown, TeamsShown, ListShown, ImportShown, ProjectShown, OutputShown,
       VariablesShown, DomainsShown, StorageShown, CronShown, LogsShown, SettingsShown,
       PanelShown, PaletteShown, WidgetsShown, Zenon DEF DashInv, TypeOK
  <1> QED BY <1>1, PagesInvariant, PTL

\* Entry: a chain of redirects ends within two of them.
THEOREM ChainsEnd == Spec => []LandsSoon
  <1>1. DashInv => LandsSoon
    BY EntryShown DEF DashInv, LandsSoon
  <1> QED BY <1>1, PagesInvariant, PTL

\* TeamPages: writes go to the organization that was shown when they were asked for,
\* and the list comes to show what they did, for any organizations and people and any
\* number of writes under way, those of a page that was left included.
THEOREM TeamsKeepApart == Spec => []WritesGoWhereListed
  <1>1. DashInv => WritesGoWhereListed
    BY TeamsShown DEF DashInv, WritesGoWhereListed
  <1> QED BY <1>1, PagesInvariant, PTL

\* ProjectsPage and StoragePages: what exists is listed, for any projects, stores and
\* creates under way, unless it came to be without the page being told.
THEOREM ListsShowAll == Spec => []ExistingIsListed
  <1>1. DashInv => ExistingIsListed
    BY ListShown, StorageShown DEF DashInv, ExistingIsListed
  <1> QED BY <1>1, PagesInvariant, PTL

\* ImportPage, LogTab and EnvTab: what is shown is what was chosen last, for any
\* number of answers under way, in whatever order they come on the first two; on the
\* third unless one was overtaken, and again once the tab was used with nothing else
\* under way.
THEOREM ChoicesAreShown == Spec => []ShownIsChosen
  <1>1. DashInv => ShownIsChosen
    BY ImportShown, OutputShown, VariablesShown DEF DashInv, ShownIsChosen
  <1> QED BY <1>1, PagesInvariant, PTL

\* ProjectPage: a banner is that of the deployment in production, and it is there if
\* the API lists that deployment, for any limit of the list and any number of promotes
\* and refreshes, unless one was overtaken or failed or somebody else promoted.
THEOREM BannerFollows == Spec => []BannerIsProduction
  <1>1. DashInv => BannerIsProduction
    BY ProjectShown DEF DashInv, BannerIsProduction
  <1> QED BY <1>1, PagesInvariant, PTL

\* Whatever is shown as in progress has the timer that ends or feeds it, but for a
\* store whose page was left or which another tab saved so.
THEOREM TimersRun == Spec => []TimersMatchPages
  <1>1. DashInv => TimersMatchPages
    BY StorageShown, DomainsShown, CronShown, LogsShown, WidgetsShown
       DEF DashInv, TimersMatchPages, DomainsInv, CronInv
  <1> QED BY <1>1, PagesInvariant, PTL

\* AdminForm and ShellWidgets: what was typed stays until it was sent, and what was
\* not touched is what is stored.
THEOREM FormsKeep == Spec => []TypedIsKept
  <1>1. DashInv => TypedIsKept
    BY SettingsShown, WidgetsShown DEF DashInv, TypedIsKept
  <1> QED BY <1>1, PagesInvariant, PTL

\* CommandPalette: the selected item is one of those listed.
THEOREM SelectionStays == Spec => []SelectionIsListed
  <1>1. DashInv => SelectionIsListed
    BY PaletteShown DEF DashInv, SelectionIsListed
  <1> QED BY <1>1, PagesInvariant, PTL

\* DomainsPage: no step but its own button, or opening the page again, takes a domain
\* from the list.
THEOREM DomainsStay == Spec => AddedStays
  <1>1. DashInv /\ [Next]_vars =>
          [\A n \in Names \ early :
             pending'[n] + valid'[n] < pending[n] + valid[n] =>
               Domains!RemoveDomain(n) \/ Domains!Reopen]_Domains!vars
    <2> SUFFICES ASSUME DashInv, [Next]_vars, NEW n \in Names \ early,
                        pending'[n] + valid'[n] < pending[n] + valid[n]
                 PROVE  Domains!RemoveDomain(n) \/ Domains!Reopen
      OBVIOUS
    <2>1. DomainsInv /\ [Domains!Next]_domainsVars
      BY PagesApart DEF DashInv, PagesStep
    <2> QED BY <2>1, DomainsGo
  <1> QED BY <1>1, PagesInvariant, PTL DEF Spec, AddedStays, Domains!AddedStays
=============================================================================
