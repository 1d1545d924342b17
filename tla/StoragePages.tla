--------------------------- MODULE StoragePages ---------------------------
(***************************************************************************)
(* The storage pages of the dashboard (app/(authed)/storage): a list of    *)
(* stores and a page for each.  There is no server behind them: stores are *)
(* kept in localStorage under one key, which is read when a page opens and *)
(* written whole, and a store is "provisioned" by a timer.                 *)
(*                                                                         *)
(* A link leads from page to page inside one JavaScript context, in which  *)
(* timers go on; deleting a store on its own page loads the list afresh,   *)
(* which ends them.  React may still evaluate the state updater of a page  *)
(* that is gone, on the state the page had last.                           *)
(***************************************************************************)
EXTENDS Naturals

CONSTANTS Stores,      \* stores somebody may create
          KindOf,      \* the type each is created with
          Kinds,       \* the types the dialog offers
          None,
          MaxForeign   \* bound: writes of another tab

\* STORE_TYPES.
StoreTypes == {"postgres", "redis", "kv", "blob"}

VARIABLES saved,       \* localStorage: the status of each store
          created,     \* stores created so far
          timer, snap, \* the provisioning timer of each store, and what the list
                       \* page showed last if it was left under the timer
          view,        \* the page that is open
          shown,       \* the list page's state
          open, type, named, plan,   \* its dialog
          detail,      \* the store page's state: which store, None if not found
          tab, query, running, answers,      \* its console
          outdated,    \* storage was written behind the list page's back
          left,        \* stores whose page was left before they were ready, or that
                       \* another tab saved so
          foreign      \* writes of another tab so far

formVars == <<open, type, named, plan>>
detailVars == <<detail, tab, query, running, answers>>
vars == <<saved, created, timer, snap, view, shown, formVars, detailVars, outdated,
          left, foreign>>

Status == {"absent", "provisioning", "available"}
Plans == {"hobby", "pro", "enterprise"}
Tabs == {"overview", "query", "env", "settings"}

\* PLANS.
PlansOf(k) == IF k = "kv" THEN Plans \ {"enterprise"} ELSE Plans

NoStores == [s \in Stores |-> "absent"]

TypeOK ==
  /\ saved \in [Stores -> Status] /\ shown \in [Stores -> Status]
  /\ created \subseteq Stores /\ left \subseteq created
  /\ timer \in [Stores -> {"off", "page", "orphan"}]
  /\ snap \in [Stores -> [Stores -> Status]]
  /\ view \in {"list", "store", "elsewhere"}
  /\ type \in Kinds \cup {"none"}
  /\ open \in BOOLEAN /\ named \in BOOLEAN
  /\ plan \in IF type = "none" THEN Plans ELSE PlansOf(type)
  /\ detail \in Stores \cup {None} /\ tab \in Tabs
  /\ query \in BOOLEAN /\ running \in BOOLEAN /\ answers \in 0..2
  /\ outdated \in BOOLEAN /\ foreign \in 0..MaxForeign

ResetForm ==
  /\ open' = FALSE /\ type' = "none" /\ named' = FALSE
  /\ plan' = "hobby"
ResetDetail ==
  /\ detail' = None /\ tab' = "overview" /\ query' = FALSE /\ running' = FALSE
  /\ answers' = 0

Init ==
  /\ saved = NoStores /\ created = {} /\ left = {} /\ foreign = 0
  /\ timer = [s \in Stores |-> "off"] /\ snap = [s \in Stores |-> NoStores]
  /\ view = "list" /\ shown = NoStores /\ outdated = FALSE
  /\ open = FALSE /\ type = "none" /\ named = FALSE
  /\ plan = "hobby"
  /\ detail = None /\ tab = "overview" /\ query = FALSE /\ running = FALSE
  /\ answers = 0

\* setStores and saveStores.
Keep(stores) == shown' = stores /\ saved' = stores /\ outdated' = FALSE

(***************************************************************************)
(* The list.                                                               *)
(***************************************************************************)

\* The rows, of which the filter shows fewer.
Rows == {s \in Stores : shown[s] # "absent"}

\* Opening the list reads the storage.
OpenList(stores) ==
  /\ view' = "list" /\ shown' = stores /\ outdated' = FALSE /\ ResetForm

\* The button in the header; the one in the empty list opens the same dialog.
\* Closing it with Escape keeps what was entered.
ToggleDialog ==
  /\ view = "list"
  /\ open' = ~open
  /\ UNCHANGED <<saved, created, timer, snap, view, shown, type, named, plan,
                 detailVars, outdated, left, foreign>>

\* A faulty SelectType: the plan of the type chosen before stays.
SelectTypeOnly(k) ==
  /\ view = "list" /\ open /\ type = "none"
  /\ type' = k
  /\ UNCHANGED <<saved, created, timer, snap, view, shown, open, named, plan,
                 detailVars, outdated, left, foreign>>

\* The type comes with its first plan.
SelectType(k) ==
  /\ view = "list" /\ open /\ type = "none"
  /\ type' = k /\ plan' = "hobby"
  /\ UNCHANGED <<saved, created, timer, snap, view, shown, open, named,
                 detailVars, outdated, left, foreign>>

\* Its fields: back to the types, another plan, a name or none.
EditForm ==
  /\ view = "list" /\ open /\ type # "none"
  /\ \/ type' = "none" /\ UNCHANGED <<plan, named>>
     \/ plan' \in PlansOf(type) \ {plan} /\ UNCHANGED <<type, named>>
     \/ named' = ~named /\ UNCHANGED <<type, plan>>
  /\ UNCHANGED <<saved, created, timer, snap, view, shown, open, detailVars,
                 outdated, left, foreign>>

CancelDialog ==
  /\ view = "list" /\ open /\ type # "none"
  /\ open' = FALSE /\ type' = "none"
  /\ UNCHANGED <<saved, created, timer, snap, view, shown, named, plan,
                 detailVars, outdated, left, foreign>>

\* onCreate: the store is added and saved, the form is reset, and in three seconds the
\* timer fires.
OnCreate(s) ==
  /\ view = "list" /\ open /\ type = KindOf[s] /\ named
  /\ s \notin created /\ created' = created \cup {s}
  /\ Keep([shown EXCEPT ![s] = "provisioning"])
  /\ timer' = [timer EXCEPT ![s] = "page"]
  /\ open' = FALSE /\ type' = "none" /\ named' = FALSE /\ plan' = "hobby"
  /\ UNCHANGED <<snap, view, detailVars, left, foreign>>

\* A faulty OnDelete: the list is set and not saved.
OnDeleteShown(s) ==
  /\ view = "list" /\ s \in Rows
  /\ shown' = [shown EXCEPT ![s] = "absent"] /\ outdated' = FALSE
  /\ UNCHANGED <<saved, created, timer, snap, view, formVars, detailVars, left, foreign>>

\* onDelete.
OnDelete(s) ==
  /\ view = "list" /\ s \in Rows
  /\ Keep([shown EXCEPT ![s] = "absent"])
  /\ UNCHANGED <<created, timer, snap, view, formVars, detailVars, left, foreign>>

(***************************************************************************)
(* The timer.  Its updater maps the stores there are by then.              *)
(***************************************************************************)
Provision(stores, s) ==
  [stores EXCEPT ![s] = IF @ = "absent" THEN @ ELSE "available"]

\* A faulty TimerFires: the stores are those the page showed at the creation.
TimerFiresStale(s) ==
  /\ timer[s] = "page"
  /\ timer' = [timer EXCEPT ![s] = "off"]
  /\ Keep([NoStores EXCEPT ![s] = "available"])
  /\ UNCHANGED <<created, snap, view, formVars, detailVars, left, foreign>>

TimerFires(s) ==
  /\ timer[s] = "page"
  /\ timer' = [timer EXCEPT ![s] = "off"]
  /\ Keep(Provision(shown, s))
  /\ UNCHANGED <<created, snap, view, formVars, detailVars, left, foreign>>

\* The list page was left: its updater runs on what it showed last, or not at all.
OrphanFires(s) ==
  /\ timer[s] = "orphan"
  /\ timer' = [timer EXCEPT ![s] = "off"]
  /\ \/ saved' = Provision(snap[s], s) /\ outdated' = TRUE
     \/ UNCHANGED <<saved, outdated>>
  /\ snap' = [snap EXCEPT ![s] = NoStores]
  /\ UNCHANGED <<created, view, shown, formVars, detailVars, left, foreign>>

(***************************************************************************)
(* From page to page.                                                      *)
(***************************************************************************)
Unready == {s \in Stores : timer[s] = "page"}

\* Leaving the list orphans its timers.
LeaveList ==
  /\ view = "list"
  /\ timer' = [s \in Stores |-> IF s \in Unready THEN "orphan" ELSE timer[s]]
  /\ snap' = [s \in Stores |-> IF s \in Unready THEN shown ELSE snap[s]]
  /\ left' = left \cup Unready
  /\ shown' = NoStores /\ outdated' = FALSE /\ ResetForm

\* A row leads to the page of its store, which looks it up in the storage.
VisitStore(s) ==
  /\ s \in Rows
  /\ LeaveList
  /\ view' = "store"
  /\ detail' = IF saved[s] = "absent" THEN None ELSE s
  /\ UNCHANGED <<saved, created, tab, query, running, answers, foreign>>

GoElsewhere ==
  /\ LeaveList
  /\ view' = "elsewhere"
  /\ UNCHANGED <<saved, created, detailVars, foreign>>

GoToList ==
  /\ view # "list"
  /\ OpenList(saved) /\ ResetDetail
  /\ UNCHANGED <<saved, created, timer, snap, left, foreign>>

\* The browser loads the list afresh, whatever is open: no timer survives.
LoadList(stores) ==
  /\ OpenList(stores) /\ ResetDetail
  /\ timer' = [s \in Stores |-> "off"]
  /\ snap' = [s \in Stores |-> NoStores]
  /\ left' = left \cup Unready
  /\ UNCHANGED <<created, foreign>>

Reload == LoadList(saved) /\ UNCHANGED saved

(***************************************************************************)
(* The page of a store.                                                    *)
(***************************************************************************)

\* Both Delete buttons, one in the header and one among the settings.
DeleteStore ==
  /\ view = "store" /\ detail # None
  /\ saved' = [saved EXCEPT ![detail] = "absent"]
  /\ LoadList(saved')

SelectTab(t) ==
  /\ view = "store" /\ detail # None /\ t # tab
  /\ tab' = t
  /\ UNCHANGED <<saved, created, timer, snap, view, shown, formVars, detail, query,
                 running, answers, outdated, left, foreign>>

\* Typing, or one of the quick queries a SQL or a Redis store has.
EditQuery ==
  /\ view = "store" /\ detail # None /\ tab = "query"
  /\ query' = ~query
  /\ UNCHANGED <<saved, created, timer, snap, view, shown, formVars, detail, tab,
                 running, answers, outdated, left, foreign>>

\* runQuery.  The button waits for the last answer, the Enter key does not: at
\* most two queries are followed here.
RunQuery ==
  /\ view = "store" /\ detail # None /\ tab = "query" /\ query
  /\ answers < 2 /\ answers' = answers + 1
  /\ running' = TRUE
  /\ UNCHANGED <<saved, created, timer, snap, view, shown, formVars, detail, tab,
                 query, outdated, left, foreign>>

\* The result is made up after 800 ms.
QueryAnswers ==
  /\ answers > 0 /\ answers' = answers - 1
  /\ running' = FALSE
  /\ UNCHANGED <<saved, created, timer, snap, view, shown, formVars, detail, tab,
                 query, outdated, left, foreign>>

(***************************************************************************)
(* Another tab creates a store, deletes one, or its timer fires: it writes *)
(* the stores it shows, of which it may know less or more than this one.   *)
(***************************************************************************)
OtherTabSaves ==
  /\ foreign < MaxForeign /\ foreign' = foreign + 1
  /\ saved' \in [Stores -> Status]
  /\ created' = created \cup {s \in Stores : saved'[s] # "absent"}
  /\ outdated' = (view = "list")
  /\ left' = left \cup {s \in Stores : saved'[s] = "provisioning"}
  /\ UNCHANGED <<timer, snap, view, shown, formVars, detailVars>>

Next ==
  \/ \E k \in Kinds : SelectType(k)
  \/ ToggleDialog \/ EditForm \/ CancelDialog
  \/ \E s \in Stores :
       \/ OnCreate(s) \/ OnDelete(s) \/ TimerFires(s) \/ OrphanFires(s)
       \/ VisitStore(s)
  \/ OtherTabSaves \/ GoElsewhere \/ GoToList \/ Reload
  \/ DeleteStore \/ EditQuery \/ RunQuery \/ QueryAnswers
  \/ \E t \in Tabs : SelectTab(t)

Spec == Init /\ [][Next]_vars

(***************************************************************************)
(* Properties.                                                             *)
(***************************************************************************)

\* What the list shows is what is stored, unless a timer of an earlier visit or
\* another tab has written since the page last read or wrote.
StoredIsShown == view = "list" /\ ~outdated => saved = shown

\* A store that is provisioning has its timer, unless the page that created it
\* was left or reloaded, or another tab saved it so and this one read that: then
\* nothing here ever makes it available.
StuckNeedsLeaving ==
  \A s \in Stores : shown[s] = "provisioning" => timer[s] = "page" \/ s \in left

\* A timer of the open list takes no store from it, though stores were created and
\* deleted while it ran, and does not bring a deleted one back.
TimerKeepsOthers ==
  [][\A s \in Stores : TimerFires(s) =>
       \A x \in Stores : shown'[x] = "absent" <=> shown[x] = "absent"]_vars
=============================================================================
