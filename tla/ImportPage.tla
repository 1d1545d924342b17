----------------------------- MODULE ImportPage -----------------------------
(***************************************************************************)
(* Importing a repository (app/(authed)/import/page.tsx).  The page loads  *)
(* the organizations and whether GitHub is connected, searches the user's  *)
(* repositories, and fills a form from the repository that is chosen and   *)
(* from the templates of lib/project-templates.ts.  The import itself is   *)
(* in Orgs.                                                                *)
(***************************************************************************)
EXTENDS Naturals

CONSTANTS Orgs, Queries,
          Templates,   \* their suggested repository, preset and directory
          Blank, Typed, Chosen, None,   \* contents of a field that are no template's
          MaxImports   \* bound: imports asked for

VARIABLES stored,      \* localStorage: the organization
          orgs, orgID, \* the organizations, and the one that is selected
          gate,        \* what the effect of the page waits for
          connected,   \* GitHub is, or nothing is known
          query, searches, loading, repos,   \* what is typed, the searches under way,
                       \* the flag, and the search whose answer is shown
          asked,       \* history: the last search
          repo, slug, preset,   \* the form; the directory goes with the preset
          template,
          imports,     \* requests to import that are under way
          asks, left   \* such requests so far, and whether one led away

formVars == <<repo, slug, preset, template>>
vars == <<stored, orgs, orgID, gate, connected, query, searches, loading, repos, asked,
          formVars, imports, asks, left>>

TypeOK ==
  /\ stored \in Orgs \cup {None} /\ orgs \subseteq Orgs /\ orgID \in Orgs \cup {None}
  /\ gate \in {"orgs", "github", "done"} /\ connected \in {"unknown", "yes", "no"}
  /\ query \in Queries /\ searches \subseteq Queries /\ loading \in BOOLEAN
  /\ repos \in Queries \cup {None} /\ asked \in Queries \cup {None}
  /\ repo \in {Blank, Typed, Chosen} \cup Templates
  /\ slug \in {Blank, Typed, Chosen}
  /\ preset \in {Blank, Typed} \cup Templates /\ template \in Templates
  /\ imports \in 0..MaxImports /\ asks \in 0..MaxImports /\ left \in BOOLEAN

Init ==
  /\ stored = None /\ orgs = {} /\ orgID = None
  /\ gate = "orgs" /\ connected = "unknown"
  /\ query = CHOOSE q \in Queries : TRUE
  /\ searches = {} /\ loading = FALSE /\ repos = None /\ asked = None
  /\ repo = Blank /\ slug = Blank /\ preset = Blank
  /\ template = CHOOSE t \in Templates : TRUE
  /\ imports = 0 /\ asks = 0 /\ left = FALSE

(***************************************************************************)
(* What the page loads.                                                    *)
(***************************************************************************)

\* The organizations, and the one selected: the stored one if the user is in it, or
\* the first, which is then stored.
LoadOrgs ==
  /\ gate = "orgs" /\ gate' = "github"
  /\ \/ /\ orgs' = Orgs
        /\ orgID' = IF stored \in Orgs THEN stored ELSE CHOOSE o \in Orgs : TRUE
        /\ stored' = orgID'
     \/ UNCHANGED <<orgs, orgID, stored>>
  /\ UNCHANGED <<connected, query, searches, loading, repos, asked, formVars, imports,
                 asks, left>>

\* loadRepos.
LoadRepos(q) ==
  /\ searches' = searches \cup {q} /\ asked' = q /\ loading' = TRUE

\* Whether GitHub is connected; if it is, the repositories are searched.
LoadGitHub ==
  /\ gate = "github" /\ gate' = "done"
  /\ \/ connected' = "yes" /\ LoadRepos(query)
     \/ connected' = "no" /\ UNCHANGED <<searches, asked, loading>>
  /\ UNCHANGED <<stored, orgs, orgID, query, repos, formVars, imports, asks, left>>

\* The repositories arrive, or the list is emptied.
ReposArrive(q) ==
  /\ q \in searches
  /\ searches' = searches \ {q} /\ loading' = FALSE
  /\ repos' \in {q, None}
  /\ UNCHANGED <<stored, orgs, orgID, gate, connected, query, asked, formVars, imports,
                 asks, left>>

(***************************************************************************)
(* What the user does.                                                     *)
(***************************************************************************)
TypeQuery(q) ==
  /\ connected = "yes" /\ q # query /\ query' = q
  /\ UNCHANGED <<stored, orgs, orgID, gate, connected, searches, loading, repos, asked,
                 formVars, imports, asks, left>>

\* A faulty Search: the button is not disabled while a search is under way.
SearchAgain ==
  /\ connected = "yes"
  /\ LoadRepos(query)
  /\ UNCHANGED <<stored, orgs, orgID, gate, connected, query, repos, formVars, imports,
                 asks, left>>

\* The Search button.
Search ==
  /\ connected = "yes" /\ ~loading
  /\ LoadRepos(query)
  /\ UNCHANGED <<stored, orgs, orgID, gate, connected, query, repos, formVars, imports,
                 asks, left>>

\* The selection of the organization, which is stored.
SelectOrg(o) ==
  /\ o \in orgs /\ o # orgID
  /\ orgID' = o /\ stored' = o
  /\ UNCHANGED <<orgs, gate, connected, query, searches, loading, repos, asked, formVars,
                 imports, asks, left>>

\* onSelectRepo, by its row or its button: the name of the project comes with it.
OnSelectRepo ==
  /\ repos # None
  /\ repo' = Chosen /\ slug' = Chosen
  /\ UNCHANGED <<stored, orgs, orgID, gate, connected, query, searches, loading, repos,
                 asked, preset, template, imports, asks, left>>

\* applyTemplate fills fields that are blank, and a repository that is a template's.
\* The preset of a template chosen before stays.
ApplyTemplate(t) ==
  /\ template' = t
  /\ repo' = IF repo \in {Blank} \cup Templates THEN t ELSE repo
  /\ preset' = IF preset = Blank THEN t ELSE preset
  /\ UNCHANGED <<stored, orgs, orgID, gate, connected, query, searches, loading, repos,
                 asked, slug, imports, asks, left>>

\* The fields of the form, and the one for a repository that is not listed.
EditForm ==
  /\ \E v \in {Blank, Typed} :
       \/ repo' = v /\ UNCHANGED <<slug, preset>>
       \/ slug' = v /\ UNCHANGED <<repo, preset>>
       \/ preset' = v /\ UNCHANGED <<repo, slug>>
  /\ UNCHANGED <<stored, orgs, orgID, gate, connected, query, searches, loading, repos,
                 asked, template, imports, asks, left>>

\* canImport.
CanImport == orgID # None /\ repo # Blank /\ slug # Blank

\* importProject: nothing keeps it from being pressed twice.
ImportProject ==
  /\ CanImport /\ ~left /\ asks < MaxImports
  /\ asks' = asks + 1 /\ imports' = imports + 1
  /\ UNCHANGED <<stored, orgs, orgID, gate, connected, query, searches, loading, repos,
                 asked, formVars, left>>

\* It leads to the page of the project, or there is a message: of a second one, that
\* the name is taken.
ImportAnswered ==
  /\ imports > 0 /\ imports' = imports - 1
  /\ left' \in {left, TRUE}
  /\ UNCHANGED <<stored, orgs, orgID, gate, connected, query, searches, loading, repos,
                 asked, formVars, asks>>

Next ==
  \/ LoadOrgs \/ LoadGitHub \/ Search \/ OnSelectRepo \/ EditForm
  \/ ImportProject \/ ImportAnswered
  \/ \E q \in Queries : ReposArrive(q) \/ TypeQuery(q)
  \/ \E o \in Orgs : SelectOrg(o)
  \/ \E t \in Templates : ApplyTemplate(t)

Spec == Init /\ [][Next]_vars

(***************************************************************************)
(* Properties.                                                             *)
(***************************************************************************)

\* The repositories that are listed are those of the last search, once it was
\* answered, whatever was typed meanwhile; and while one is under way there is no
\* other, whose answer could be the last to arrive.
ReposAreOfAsked ==
  /\ \A p, q \in searches : p = q
  /\ searches = {} => ~loading /\ repos \in {asked, None}
=============================================================================
