------------------------------- MODULE LogTab -------------------------------
(***************************************************************************)
(* The tabs of a project's page and its log stream                         *)
(* (app/(authed)/projects/[id]/page.tsx).  The Logs button of a row sets   *)
(* logsFor; its effect empties the pane, shows the tab and opens an        *)
(* EventSource, which the next choice closes and the first error too.      *)
(***************************************************************************)
EXTENDS Naturals, Sequences

CONSTANTS Deployments, None,
          MaxChunks    \* bound: pieces of output of a deployment

VARIABLES written,     \* the API: pieces of output of each deployment
          tab, logsFor, logs,     \* the page's state: the tab, the deployment, the pane
          streams      \* the open streams: of which deployment, and the pieces sent

vars == <<written, tab, logsFor, logs, streams>>

Tabs == {"deployments", "env", "logs"}
Pieces == Deployments \X (1..MaxChunks)
OutputOf(d, k) == [i \in 1..k |-> <<d, i>>]

TypeOK ==
  /\ written \in [Deployments -> 0..MaxChunks]
  /\ tab \in Tabs
  /\ logsFor \in Deployments \cup {None}
  /\ Len(logs) <= MaxChunks /\ \A i \in 1..Len(logs) : logs[i] \in Pieces
  /\ streams \subseteq [of : Deployments, sent : 0..MaxChunks]

Init ==
  /\ written = [d \in Deployments |-> 0]
  /\ tab = "deployments" /\ logsFor = None /\ logs = <<>> /\ streams = {}

BuildWrites(d) ==
  /\ written[d] < MaxChunks
  /\ written' = [written EXCEPT ![d] = @ + 1]
  /\ UNCHANGED <<tab, logsFor, logs, streams>>

\* The tab bar; three more entries are links to other pages.
SelectTab(t) ==
  /\ t # tab /\ tab' = t
  /\ UNCHANGED <<written, logsFor, logs, streams>>

\* A faulty ChooseLogs: the stream of the deployment before stays open.
ChooseLogsKeepsStream(d) ==
  /\ tab = "deployments" /\ d # logsFor
  /\ logsFor' = d /\ logs' = <<>> /\ tab' = "logs"
  /\ streams' = streams \cup {[of |-> d, sent |-> 0]}
  /\ UNCHANGED written

\* The Logs button of a row, and the effect with the clean-up of the last one.
ChooseLogs(d) ==
  /\ tab = "deployments" /\ d # logsFor
  /\ logsFor' = d /\ logs' = <<>> /\ tab' = "logs"
  /\ streams' = {[of |-> d, sent |-> 0]}
  /\ UNCHANGED written

\* A piece arrives and is appended.
LogArrives(s) ==
  /\ s \in streams /\ s.sent < written[s.of]
  /\ logs' = Append(logs, <<s.of, s.sent + 1>>)
  /\ streams' = (streams \ {s}) \cup {[s EXCEPT !.sent = @ + 1]}
  /\ UNCHANGED <<written, tab, logsFor>>

\* A faulty StreamBreaks: the browser connects again, and the API sends the output
\* from its start.
StreamReconnects(s) ==
  /\ s \in streams
  /\ streams' = (streams \ {s}) \cup {[s EXCEPT !.sent = 0]}
  /\ UNCHANGED <<written, tab, logsFor, logs>>

\* An error, or the end of the response, closes the stream for good: the same
\* deployment cannot be chosen again before another one.
StreamBreaks(s) ==
  /\ s \in streams
  /\ streams' = streams \ {s}
  /\ UNCHANGED <<written, tab, logsFor, logs>>

\* The page is left, which closes its stream, and opened again.
Reopen ==
  /\ tab' = "deployments" /\ logsFor' = None /\ logs' = <<>> /\ streams' = {}
  /\ UNCHANGED written

Next ==
  \/ \E d \in Deployments : BuildWrites(d) \/ ChooseLogs(d)
  \/ \E t \in Tabs : SelectTab(t)
  \/ \E s \in streams : LogArrives(s) \/ StreamBreaks(s)
  \/ Reopen

Spec == Init /\ [][Next]_vars

(***************************************************************************)
(* Properties.                                                             *)
(***************************************************************************)

\* The pane of the logs tab.
Pane == IF logsFor = None THEN <<>> ELSE logs

\* The pane holds the beginning of the chosen deployment's output, each piece once
\* and none of another deployment, however often the choice changed and streams
\* broke.
LogsAreOfChosen ==
  \E k \in 0..MaxChunks :
    /\ logsFor = None => k = 0
    /\ logsFor # None => k <= written[logsFor]
    /\ Pane = OutputOf(logsFor, k)
=============================================================================
