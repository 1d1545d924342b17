----------------------------- MODULE TeamPages -----------------------------
(***************************************************************************)
(* Which organization the dashboard works on.  The shell keeps one in its  *)
(* header (components/app-shell.tsx) and in localStorage, from where a     *)
(* page reads it once, when it opens: the header's switcher does not open  *)
(* the page anew.  The teams page (app/(authed)/orgs/page.tsx) is modelled *)
(* in full: the list of organizations, the members of the page's own, and  *)
(* the requests that change them.  Any number of them are under way at     *)
(* once; a link of the navigation leaves the page and lets them go on, and *)
(* a reload lets the API finish them and nobody hear of it.                *)
(***************************************************************************)
EXTENDS Naturals, FiniteSets

CONSTANTS Orgs, People, None,
          MaxChanges,  \* bound: what others do, and requests that fail
          MaxWrites    \* bound: requests of the user under way at once

VARIABLES mine, members,       \* the API: the user's organizations, who is in each
          stored,      \* localStorage: opencel_org_id
          header,      \* the shell's organization, None before it is loaded
          orgs,        \* the page: the organizations it lists,
          page,        \* its organization, None if there was none
          shown,       \* the members it lists
          requests,    \* what the user asked for and is not answered yet
          lists,       \* lists of members asked for: NoList, or the answer
          stale,       \* history: the list was behind when it came, or is since
          changes

vars == <<mine, members, stored, header, orgs, page, shown, requests, lists, stale,
          changes>>

\* A list of members: made by the API, which has not changed them since.
NoList == [made |-> FALSE, rows |-> {}, fresh |-> FALSE]
Writes == {"invite", "remove"}
Whats == Writes \cup {"create"}

\* A request: the organization it is for or has created; whether the API has done it;
\* and who waits for its answer: the page that is open, createOrg of a page that was
\* left (which still stores the organization), or nobody.
RequestsOf(what) ==
  [what : what, who : SUBSET People, org : Orgs \cup {None}, done : BOOLEAN,
   at : {"open", "left", "gone"}]

TypeOK ==
  /\ mine \subseteq Orgs /\ members \in [Orgs -> SUBSET People]
  /\ stored \in Orgs \cup {None} /\ header \in Orgs \cup {None}
  /\ orgs \subseteq Orgs /\ page \in Orgs \cup {None} /\ shown \subseteq People
  /\ requests \subseteq RequestsOf(Whats)
  /\ lists \subseteq [made : BOOLEAN, rows : SUBSET People, fresh : BOOLEAN]
  /\ stale \in BOOLEAN /\ changes \in 0..MaxChanges

\* The user signs in on a browser, perhaps one that somebody used before.
Init ==
  /\ LET o == CHOOSE o \in Orgs : TRUE
     IN mine = {o} /\ stored \in {None, CHOOSE x \in Orgs : x # o}
  /\ members = [o \in Orgs |-> {}]
  /\ header = None /\ orgs = {} /\ page = None /\ shown = {}
  /\ requests = {} /\ lists = {}
  /\ stale = FALSE /\ changes = 0

Change == changes < MaxChanges /\ changes' = changes + 1

\* The requests of a page that is left, or gone with the browser's page: those the
\* API has not done yet, and those whose answer still counts.
Heard(q, how) == how = "left" /\ q.what = "create" /\ q.at # "gone"
Without(how) ==
  {[q EXCEPT !.at = IF Heard(q, how) THEN "left" ELSE "gone"] :
     q \in {r \in requests : Heard(r, how) \/ ~r.done}}

(***************************************************************************)
(* The shell.                                                              *)
(***************************************************************************)

\* The page opens: it reads the storage, which is filled if it is empty, and asks
\* for its lists.
OpenPage(org, how) ==
  /\ page' = org /\ orgs' = mine /\ shown' = {}
  /\ requests' = Without(how)
  /\ lists' = IF org = None THEN {} ELSE {NoList}
  /\ stale' = FALSE

\* The effect of the shell, in a page the browser loads: the stored organization if
\* it is one of the user's, or the first; then the page is shown.
LoadShell ==
  /\ header = None /\ mine # {}
  /\ header' = IF stored \in mine THEN stored ELSE CHOOSE o \in mine : TRUE
  /\ stored' = header'
  /\ OpenPage(stored', "gone")
  /\ UNCHANGED <<mine, members, changes>>

\* The organizations cannot be had: the page opens with what was stored, and stores
\* one itself if nothing was.
LoadShellFails ==
  /\ header = None /\ Change
  /\ OpenPage(stored, "gone")
  /\ stored' = IF stored = None /\ mine # {} THEN CHOOSE o \in mine : TRUE ELSE stored
  /\ UNCHANGED <<mine, members, header>>

\* The switcher in the header: the page stays as it is.
SwitchOrg(o) ==
  /\ header # None /\ o \in mine /\ o # header
  /\ header' = o /\ stored' = o
  /\ UNCHANGED <<mine, members, orgs, page, shown, requests, lists, stale, changes>>

\* A link of the navigation, and back.
VisitPage ==
  /\ header # None
  /\ OpenPage(stored, "left")
  /\ UNCHANGED <<mine, members, stored, header, changes>>

(***************************************************************************)
(* The teams page.                                                         *)
(***************************************************************************)

\* A row of the list: the organization is stored, and the browser loads the page.
ChooseOrg(o) ==
  /\ o \in orgs
  /\ stored' = o /\ header' = None
  /\ page' = None /\ orgs' = {} /\ shown' = {} /\ lists' = {}
  /\ requests' = Without("gone")
  /\ stale' = FALSE
  /\ UNCHANGED <<mine, members, changes>>

\* A request the open page sends.
Send(what, who, org) ==
  /\ Cardinality(requests) < MaxWrites
  /\ requests' = requests \cup
       {[what |-> what, who |-> who, org |-> org, done |-> FALSE, at |-> "open"]}
  /\ UNCHANGED <<mine, members, stored, header, orgs, page, shown, lists, stale,
                 changes>>

CreateOrg ==
  /\ orgs # {} /\ mine # Orgs
  /\ Send("create", {}, None)

\* At the API.
CreateOrgDone(q, o) ==
  /\ q \in requests /\ q.what = "create" /\ ~q.done /\ o \notin mine
  /\ mine' = mine \cup {o}
  /\ requests' = IF q.at = "gone" THEN requests \ {q}
                 ELSE (requests \ {q}) \cup {[q EXCEPT !.org = o, !.done = TRUE]}
  /\ UNCHANGED <<members, stored, header, orgs, page, shown, lists, stale, changes>>

\* createOrg: the new organization is stored, though the page was left, for the one
\* that opens next; neither this page nor the header take it.
CreateOrgAnswered(q) ==
  /\ q \in requests /\ q.what = "create" /\ q.done
  /\ stored' = q.org
  /\ orgs' = IF q.at = "open" THEN mine ELSE orgs
  /\ requests' = requests \ {q}
  /\ UNCHANGED <<mine, members, header, page, shown, lists, stale, changes>>

\* A faulty Write: the organization is read from the storage again.
WriteToStored(what, p) ==
  /\ page \in orgs
  /\ what = "remove" => p \in shown
  /\ Send(what, {p}, stored)

\* invite and removeMember send a request for the page's organization, which are
\* there if it is one of those it lists.
Write(what, p) ==
  /\ page \in orgs
  /\ what = "remove" => p \in shown
  /\ Send(what, {p}, page)

\* The API changes the members of o: what it listed for the page before is old.
Ages(o) ==
  lists' = IF o = page THEN {[l EXCEPT !.fresh = FALSE] : l \in lists} ELSE lists

\* At the API.  Of a page that is not open any more nobody waits for the answer.
WriteDone(q) ==
  /\ q \in requests /\ q.what \in Writes /\ ~q.done /\ q.org \in mine
  /\ members' = [members EXCEPT ![q.org] =
                   IF q.what = "invite" THEN @ \cup q.who ELSE @ \ q.who]
  /\ IF q.at = "open"
     THEN /\ requests' = (requests \ {q}) \cup {[q EXCEPT !.done = TRUE]}
          /\ UNCHANGED stale
     ELSE /\ requests' = requests \ {q}
          /\ stale' = (stale \/ q.org = page)
  /\ Ages(q.org)
  /\ UNCHANGED <<mine, stored, header, orgs, page, shown, changes>>

\* A faulty WriteAnswered: the members are not asked for again.
WriteNotRefreshed(q) ==
  /\ q \in requests /\ q.what \in Writes /\ q.done
  /\ requests' = requests \ {q}
  /\ UNCHANGED <<mine, members, stored, header, orgs, page, shown, lists, stale,
                 changes>>

\* It was done, and the members are asked for again.
WriteAnswered(q) ==
  /\ q \in requests /\ q.what \in Writes /\ q.done
  /\ requests' = requests \ {q}
  /\ lists' = lists \cup {NoList}
  /\ UNCHANGED <<mine, members, stored, header, orgs, page, shown, stale, changes>>

\* A message, and nothing else: the API has done it or has not.
RequestFails(q) ==
  /\ q \in requests /\ Change
  /\ requests' = requests \ {q}
  /\ stale' = (stale \/ q.done)
  /\ UNCHANGED <<mine, members, stored, header, orgs, page, shown, lists>>

\* refreshMembers.  A list asked for twice is followed once.
ListMembers ==
  /\ NoList \in lists /\ page \in mine
  /\ lists' = (lists \ {NoList}) \cup
               {[made |-> TRUE, rows |-> members[page], fresh |-> TRUE]}
  /\ UNCHANGED <<mine, members, stored, header, orgs, page, shown, requests, stale,
                 changes>>

MembersArrive(l) ==
  /\ l \in lists /\ l.made
  /\ shown' = l.rows
  /\ lists' = lists \ {l}
  /\ stale' = ~l.fresh
  /\ UNCHANGED <<mine, members, stored, header, orgs, page, requests, changes>>

\* The list cannot be had: it is emptied.
MembersFail ==
  /\ lists # {} /\ Change
  /\ \E l \in lists : lists' = lists \ {l}
  /\ shown' = {} /\ stale' = TRUE
  /\ UNCHANGED <<mine, members, stored, header, orgs, page, requests>>

\* Another tab switches, another admin changes the members.
OtherTab(o) ==
  /\ o \in mine /\ o # stored /\ Change
  /\ stored' = o
  /\ UNCHANGED <<mine, members, header, orgs, page, shown, requests, lists, stale>>

OtherAdmin(o, p) ==
  /\ Change
  /\ members' = [members EXCEPT ![o] = IF p \in @ THEN @ \ {p} ELSE @ \cup {p}]
  /\ stale' = (stale \/ o = page) /\ Ages(o)
  /\ UNCHANGED <<mine, stored, header, orgs, page, shown, requests>>

Next ==
  \/ LoadShell \/ LoadShellFails \/ VisitPage
  \/ CreateOrg \/ ListMembers \/ MembersFail
  \/ \E q \in requests :
       \/ \E o \in Orgs : CreateOrgDone(q, o)
       \/ CreateOrgAnswered(q) \/ WriteDone(q) \/ WriteAnswered(q) \/ RequestFails(q)
  \/ \E o \in Orgs : SwitchOrg(o) \/ ChooseOrg(o) \/ OtherTab(o)
  \/ \E what \in Writes, p \in People : Write(what, p)
  \/ \E l \in lists : MembersArrive(l)
  \/ \E o \in Orgs, p \in People : OtherAdmin(o, p)

Spec == Init /\ [][Next]_vars

(***************************************************************************)
(* Properties.                                                             *)
(***************************************************************************)

\* What the open page adds or removes goes to the organization whose members it
\* lists, though the header, the storage or another tab have moved on.
WritesGoWhereListed ==
  \A q \in requests : q.at = "open" /\ q.what \in Writes => q.org = page

\* However many of its own requests overlap, once they are answered and their lists
\* are in the page lists the members there are - unless the last list that came was
\* read before the last change (it was overtaken by a later one), another admin or a
\* request of a page since left changed them afterwards, or something failed.
MembersAreShown ==
  /\ page # None /\ lists = {} /\ ~stale
  /\ \A q \in requests : ~(q.at = "open" /\ q.what \in Writes)
  => shown = members[page]
=============================================================================
