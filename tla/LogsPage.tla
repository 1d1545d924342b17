------------------------------ MODULE LogsPage ------------------------------
(***************************************************************************)
(* The logs page (app/(authed)/logs/page.tsx).  It asks for the projects   *)
(* of the organization and for the deployments of the first eight, invents *)
(* lines for them, and then adds an invented line every 2.5 seconds while  *)
(* it is live.                                                             *)
(***************************************************************************)
EXTENDS Naturals, Sequences

CONSTANTS Projects,
          Cap,         \* lines the list keeps, 200 in the code
          Batch,       \* lines of the first load, 100 in the code
          MaxLines     \* bound: live lines

VARIABLES step,        \* of the load: "projects", "deployments" or "done"
          projects,    \* the page's state: the projects,
          lines,       \* the list, newest first,
          streaming, intervals,   \* live or paused, and the intervals that run,
          project, level,         \* the filters: a project or All, a level or All
          number       \* live lines so far

vars == <<step, projects, lines, streaming, intervals, project, level, number>>

All == "all"
Levels == {"info", "warn", "error", "debug"}
\* Lines of the load have number 0; a live one is an "info".
Lines == [n : 0..MaxLines, of : Projects, level : Levels]

TypeOK ==
  /\ step \in {"projects", "deployments", "done"}
  /\ projects \subseteq Projects
  /\ Len(lines) <= Cap /\ \A i \in 1..Len(lines) : lines[i] \in Lines
  /\ streaming \in BOOLEAN /\ intervals \in 0..2
  /\ project \in Projects \cup {All} /\ level \in Levels \cup {All}
  /\ number \in 0..MaxLines

Init ==
  /\ step = "projects" /\ projects = {} /\ lines = <<>>
  /\ streaming = TRUE /\ intervals = 0
  /\ project = All /\ level = All /\ number = 0

\* A faulty Interval: no clean-up.
IntervalLeft(live, ps) ==
  intervals' = IF live /\ ps # {} /\ intervals < 2 THEN intervals + 1 ELSE intervals

\* The effect of the interval, after its clean-up: it runs while the page is live
\* and there are projects.
Interval(live, ps) == intervals' = IF live /\ ps # {} THEN 1 ELSE 0

\* load: without an organization, or when the projects cannot be had, nothing is
\* loaded.
LoadFails ==
  /\ step = "projects" /\ step' = "done"
  /\ UNCHANGED <<projects, lines, streaming, intervals, project, level, number>>

\* The projects arrive; the interval starts while the deployments are asked for.
ProjectsArrive ==
  /\ step = "projects" /\ step' = "deployments"
  /\ projects' \in SUBSET Projects
  /\ Interval(streaming, projects')
  /\ UNCHANGED <<lines, streaming, project, level, number>>

\* generateSyntheticLogs: a batch, or nothing without projects.
Synthetic(logs) ==
  IF projects = {} THEN logs = <<>>
  ELSE \E p \in projects, l \in {"info", "error"} :
         logs = [i \in 1..Batch |-> [n |-> 0, of |-> p, level |-> l]]

\* The deployments have arrived, but for those that failed: the list is replaced,
\* whatever was added or cleared meanwhile.
LogsLoaded ==
  /\ step = "deployments" /\ step' = "done"
  /\ Synthetic(lines')
  /\ UNCHANGED <<projects, streaming, intervals, project, level, number>>

\* The interval adds a line and drops the oldest above the cap.
LineArrives ==
  /\ intervals > 0 /\ number < MaxLines
  /\ number' = number + 1
  /\ \E p \in projects :
       LET line == [n |-> number + 1, of |-> p, level |-> "info"]
       IN lines' = SubSeq(<<line>> \o lines, 1,
                          IF Len(lines) < Cap THEN Len(lines) + 1 ELSE Cap)
  /\ UNCHANGED <<step, projects, streaming, intervals, project, level>>

\* Pause or Resume.
TogglePause ==
  /\ streaming' = ~streaming
  /\ Interval(~streaming, projects)
  /\ UNCHANGED <<step, projects, lines, project, level, number>>

Clear ==
  /\ lines' = <<>>
  /\ UNCHANGED <<step, projects, streaming, intervals, project, level, number>>

\* The filters; those for the source and the text work like these.
SetFilter ==
  /\ \/ project' \in projects \cup {All} /\ UNCHANGED level
     \/ level' \in Levels \cup {All} /\ UNCHANGED project
  /\ UNCHANGED <<step, projects, lines, streaming, intervals, number>>

Next ==
  \/ LoadFails \/ ProjectsArrive \/ LogsLoaded
  \/ LineArrives \/ TogglePause \/ Clear \/ SetFilter

Spec == Init /\ [][Next]_vars

(***************************************************************************)
(* Properties.                                                             *)
(***************************************************************************)

\* The lines that are shown, by their places: nothing while the page loads.
Filtered ==
  {i \in 1..Len(lines) :
     /\ step = "done"
     /\ project \in {All, lines[i].of} /\ level \in {All, lines[i].level}}

\* One interval adds lines when the page is live and has projects, none when it is
\* paused, whenever the projects arrived; and what is shown is newest first, the
\* lines of the load below those that came since.
OneStream ==
  /\ intervals = IF streaming /\ projects # {} THEN 1 ELSE 0
  /\ \A i, j \in Filtered :
       i < j => \/ lines[i].n > lines[j].n
                \/ lines[i].n = 0 /\ lines[j].n = 0
=============================================================================
