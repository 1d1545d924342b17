---------------------------- MODULE ProjectsPage ----------------------------
(***************************************************************************)
(* The list of an organization's projects (app/(authed)/projects/page.tsx) *)
(* with its dialog, and with the favourites, which are kept in             *)
(* localStorage and shared by all tabs.  The projects are asked for        *)
(* once, when the page opens, and for the first of them the deployments;   *)
(* the dialog does not wait for them.  A project that is being created     *)
(* is created at the API first and in the list when that has answered:     *)
(* the answer may be lost, and leaving the page does not end the request.  *)
(***************************************************************************)
EXTENDS Naturals, FiniteSets

CONSTANTS Projects,
          MaxLatest,   \* projects whose deployments are asked for, 12 in the code
          MaxCreates,  \* bound: projects being created at once
          MaxChanges   \* bound: what other users and tabs do

VARIABLES exist, deployed,     \* the API: the projects, those with deployments
          favorites,           \* localStorage
          step, answer,        \* the load: what it waits for, what was answered
          list, latest,        \* the page: projects, those shown with a deployment,
          hearts,              \* and favourites
          createOpen, filled,  \* the dialog
          creates,             \* the projects being created
          stale,               \* history: what the page was not told of, see Unseen
          changes

vars == <<exist, deployed, favorites, step, answer, list, latest, hearts,
          createOpen, filled, creates, stale, changes>>

Sets == SUBSET Projects

TypeOK ==
  /\ exist \in Sets /\ deployed \subseteq exist /\ favorites \in Sets
  /\ step \in {"projects", "answered", "deployments", "done"} /\ answer \in Sets
  /\ list \in Sets /\ latest \in Sets /\ hearts \in Sets
  /\ createOpen \in BOOLEAN /\ filled \in BOOLEAN
  /\ creates \subseteq [p : Projects, done : BOOLEAN, open : BOOLEAN]
  /\ stale \in Sets /\ changes \in 0..MaxChanges

\* The page opens: it reads the storage and asks for the projects.  What an earlier
\* page asked to be created may still be.
Open ==
  /\ step' = "projects" /\ answer' = {} /\ list' = {} /\ latest' = {}
  /\ hearts' = favorites
  /\ createOpen' = FALSE /\ filled' = FALSE
  /\ creates' = {[c EXCEPT !.open = FALSE] : c \in {x \in creates : ~x.done}}
  /\ stale' = {}

Init ==
  /\ exist = {} /\ deployed = {} /\ favorites = {}
  /\ step = "projects" /\ answer = {} /\ list = {} /\ latest = {}
  /\ hearts = {}
  /\ createOpen = FALSE /\ filled = FALSE /\ creates = {}
  /\ stale = {} /\ changes = 0

pageVars == <<hearts, createOpen, filled>>

\* Without an organization there is nothing to load: see TeamPages.
Reopen ==
  /\ Open
  /\ UNCHANGED <<exist, deployed, favorites, changes>>

(***************************************************************************)
(* What is shown.                                                          *)
(***************************************************************************)

\* The projects, of which a search shows fewer; a skeleton while they are loaded.
FilteredProjects == IF step = "done" THEN list ELSE {}

(***************************************************************************)
(* refresh.                                                                *)
(***************************************************************************)
ProjectsAnswered ==
  /\ step = "projects" /\ step' = "answered"
  /\ answer' = exist /\ stale' = {}
  /\ UNCHANGED <<exist, deployed, favorites, list, latest, pageVars, creates,
                 changes>>

\* The answer replaces the list, with what was created meanwhile.
ProjectsArrive ==
  /\ step = "answered" /\ step' = "deployments"
  /\ list' = answer /\ stale' = stale \cup (list \ answer)
  /\ UNCHANGED <<exist, deployed, favorites, answer, latest, pageVars, creates,
                 changes>>

\* The latest deployments of the first projects, but for those that failed.
DeploymentsArrive ==
  /\ step = "deployments" /\ step' = "done" /\ answer' = {}
  /\ latest' \in {ps \in SUBSET (answer \cap deployed) : Cardinality(ps) <= MaxLatest}
  /\ UNCHANGED <<exist, deployed, favorites, list, pageVars, creates, stale,
                 changes>>

LoadFails ==
  /\ step \in {"projects", "answered"} /\ step' = "done" /\ answer' = {}
  /\ stale' = Projects
  /\ UNCHANGED <<exist, deployed, favorites, list, latest, pageVars, creates,
                 changes>>

(***************************************************************************)
(* The dialog.                                                             *)
(***************************************************************************)

\* It opens and closes; a template fills its fields, or they are typed.
EditDialog ==
  /\ \/ createOpen' = ~createOpen /\ UNCHANGED filled
     \/ createOpen /\ filled' = ~filled /\ UNCHANGED createOpen
  /\ UNCHANGED <<exist, deployed, favorites, step, answer, list, latest, hearts,
                 creates, stale, changes>>

\* onCreate.  Nothing keeps it from being pressed twice, or for another project.
OnCreate(p) ==
  /\ createOpen /\ filled /\ Cardinality(creates) < MaxCreates
  /\ creates' = creates \cup {[p |-> p, done |-> FALSE, open |-> TRUE]}
  /\ UNCHANGED <<exist, deployed, favorites, step, answer, list, latest, pageVars,
                 stale, changes>>

\* The API creates it, and takes a name once.  Nobody hears of it if the page was left.
CreateDone(c) ==
  /\ c \in creates /\ ~c.done /\ c.p \notin exist
  /\ exist' = exist \cup {c.p}
  /\ creates' = (creates \ {c}) \cup
                  IF c.open THEN {[c EXCEPT !.done = TRUE]} ELSE {}
  /\ stale' = IF c.open THEN stale ELSE stale \cup {c.p}
  /\ UNCHANGED <<deployed, favorites, step, answer, list, latest, pageVars,
                 changes>>

\* A faulty Created: the list is the one there was when the button was pressed.
CreatedForgets(c) ==
  /\ c \in creates /\ c.done
  /\ list' = {c.p} /\ creates' = creates \ {c}
  /\ createOpen' = FALSE /\ filled' = FALSE
  /\ UNCHANGED <<exist, deployed, favorites, step, answer, latest, hearts,
                 stale, changes>>

\* The answer: it is added to the list, for good unless the projects are still to
\* arrive, and the dialog is emptied and closed.
Created(c) ==
  /\ c \in creates /\ c.done
  /\ list' = list \cup {c.p} /\ creates' = creates \ {c}
  /\ createOpen' = FALSE /\ filled' = FALSE
  /\ UNCHANGED <<exist, deployed, favorites, step, answer, latest, hearts,
                 stale, changes>>

\* It was refused, or the answer is lost: a message, and the dialog stays.
CreateFails(c) ==
  /\ c \in creates /\ creates' = creates \ {c}
  /\ stale' = IF c.done THEN stale \cup {c.p} ELSE stale
  /\ UNCHANGED <<exist, deployed, favorites, step, answer, list, latest, pageVars,
                 changes>>

(***************************************************************************)
(* Favourites.                                                             *)
(***************************************************************************)

\* toggleFavorite reads the storage again, so that another tab's are kept.
ToggleFavorite(p) ==
  /\ p \in FilteredProjects
  /\ favorites' = IF p \in favorites THEN favorites \ {p} ELSE favorites \cup {p}
  /\ hearts' = favorites'
  /\ UNCHANGED <<exist, deployed, step, answer, list, latest,
                 createOpen, filled, creates, stale, changes>>

(***************************************************************************)
(* Another user creates a project, a push deploys one; another tab takes a *)
(* favourite.                                                              *)
(***************************************************************************)
Others(p) ==
  /\ changes < MaxChanges /\ changes' = changes + 1
  /\ \/ p \notin exist /\ exist' = exist \cup {p} /\ stale' = stale \cup {p}
        /\ UNCHANGED <<deployed, favorites>>
     \/ p \in exist \ deployed /\ deployed' = deployed \cup {p}
        /\ UNCHANGED <<exist, favorites, stale>>
     \/ p \in exist /\ favorites' = favorites \cup {p}
        /\ UNCHANGED <<exist, deployed, stale>>
  /\ UNCHANGED <<step, answer, list, latest, pageVars, creates>>

Next ==
  \/ Reopen \/ ProjectsAnswered \/ ProjectsArrive \/ DeploymentsArrive \/ LoadFails
  \/ EditDialog
  \/ \E p \in Projects : OnCreate(p) \/ ToggleFavorite(p) \/ Others(p)
  \/ \E c \in creates : CreateDone(c) \/ Created(c) \/ CreateFails(c)

Spec == Init /\ [][Next]_vars

(***************************************************************************)
(* Properties.                                                             *)
(***************************************************************************)

\* What the page need not show: projects whose answer is on its way, and those it was
\* not told of.  Those are what others, or a page before, created after the API had
\* answered; what was created here, and the answer was lost; and what was created here
\* while the projects were under way, and was replaced by an answer made before.
Unseen == stale \cup {c.p : c \in {x \in creates : x.done}}

\* Once loaded, the list has every other project there is, unless the load failed; and
\* a project is shown with a deployment only if the list has it.
ExistingIsListed == step = "done" => exist \ Unseen \subseteq list /\ latest \subseteq list
=============================================================================
