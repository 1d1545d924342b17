--------------------------- MODULE DeploymentPage ---------------------------
(***************************************************************************)
(* A deployment as its page in the dashboard shows it.  The worker runs    *)
(* docker commands whose output a logWriter collects and stores in chunks  *)
(* (internal/worker/worker.go); the API streams the chunks after a cursor  *)
(* as server-sent events (internal/api/logs.go); the page appends what it  *)
(* receives and polls the status until it reads a verdict                  *)
(* (apps/web/.../deployments/[deploymentId]/page.tsx).                     *)
(*                                                                         *)
(* Output is numbered in the order it is produced.  A chunk is the pair of *)
(* its first and last number; its row id is its position in rows.          *)
(***************************************************************************)
EXTENDS Naturals, Sequences

CONSTANTS MaxAttempts,   \* bound: deliveries of the task
          MaxOutput,     \* bound: pieces of docker output in a behaviour
          BufferCap,     \* pieces that fit in 8 KiB
          Limit,         \* rows the stream reads at once (500 in the code)
          MaxPolls,      \* bound: status requests in flight
          MaxViews,      \* bound: how often the page is opened
          FaultKinds,    \* which faults may happen
          MaxFaults      \* bound: how many of them in a behaviour

AllFaults == {"db", "timeout", "crash", "api"}

ASSUME DeploymentPageAssumption ==
  /\ MaxAttempts \in Nat \ {0}
  /\ MaxOutput \in Nat
  /\ BufferCap \in Nat
  /\ Limit \in Nat \ {0}
  /\ MaxPolls \in Nat \ {0}
  /\ MaxViews \in Nat
  /\ FaultKinds \subseteq AllFaults
  /\ MaxFaults \in Nat

VARIABLES status,     \* the row's status
          rows,       \* its log chunks, by id
          refused,    \* history: pieces in chunks that Postgres did not take for text
          attempt,    \* deliveries of its task so far
          phase,      \* where the running attempt is
          next,       \* where runDocker's result will take it
          flushing,   \* is the logWriter inside AppendLogChunk?
          produced,   \* pieces of output so far
          passed,     \* pieces that have left the logWriter's buffer
          ctxDone,    \* has the attempt's context passed its deadline?
          conn,       \* the log stream
          after,      \* its cursor, afterID
          wire,       \* events sent and not yet received
          shown,      \* chunks on the page
          badge,      \* status on the page
          asked,      \* status requests the API has not answered
          answers,    \* how many answers of each kind are on their way back
          views, dbUp, faults

rowVars == <<status, rows, refused>>
workerVars == <<attempt, phase, next, flushing, produced, passed, ctxDone>>
streamVars == <<conn, after, wire, shown>>
pollVars == <<badge, asked, answers, views>>
envVars == <<dbUp, faults>>
vars == <<rowVars, workerVars, streamVars, pollVars, envVars>>

Statuses == {"QUEUED", "BUILDING", "READY", "FAILED"}
Verdicts == {"READY", "FAILED"}

\* Docker commands in the order an attempt runs them, and what follows each.
Commands == {"build", "push", "run"}
Then == [build |-> "push", push |-> "run", run |-> "publishing"]
Phases == {"waiting", "loaded", "closing", "publishing", "failing", "logged",
           "acking", "over"} \cup Commands

\* Phases in which no attempt runs.
AtRest == {"waiting", "over"}

Chunks == (1..MaxOutput + MaxAttempts) \X (1..MaxOutput + MaxAttempts)

TypeOK ==
  /\ status \in Statuses
  /\ rows \in Seq(Chunks)
  /\ attempt \in 0..MaxAttempts
  /\ phase \in Phases
  /\ next \in {"none", "push", "run", "publishing", "failing"}
  /\ flushing \in BOOLEAN
  /\ produced \in 0..MaxOutput + MaxAttempts
  /\ passed \in 0..produced
  /\ refused \subseteq 1..passed
  /\ ctxDone \in BOOLEAN
  /\ conn \in {"none", "open", "ending", "closed"}
  /\ after \in 0..Len(rows)
  /\ wire \in Seq(Chunks)
  /\ shown \in Seq(Chunks)
  /\ badge \in Statuses \cup {"none"}
  /\ asked \in 0..MaxPolls
  /\ answers \in [Statuses -> 0..MaxPolls]
  /\ views \in 0..MaxViews
  /\ dbUp \in BOOLEAN
  /\ faults \in 0..MaxFaults

Init ==
  /\ status = "QUEUED"
  /\ rows = <<>>
  /\ refused = {}
  /\ attempt = 0
  /\ phase = "waiting"
  /\ next = "none"
  /\ flushing = FALSE
  /\ produced = 0
  /\ passed = 0
  /\ ctxDone = FALSE
  /\ conn = "none"
  /\ after = 0
  /\ wire = <<>>
  /\ shown = <<>>
  /\ badge = "none"
  /\ asked = 0
  /\ answers = [s \in Statuses |-> 0]
  /\ views = 0
  /\ dbUp = TRUE
  /\ faults = 0

(***************************************************************************)
(* The worker.  A statement succeeds if Postgres answers and the attempt's *)
(* context is alive; the errors of all but Publish are ignored.            *)
(***************************************************************************)

CanWrite == dbUp /\ ~ctxDone

TryMark(s) == status' = IF CanWrite THEN s ELSE status

AppendLogChunk(first, last) ==
  rows' = IF CanWrite THEN Append(rows, <<first, last>>) ELSE rows

\* An attempt that fails is followed by another delivery, or by none.
Redelivery(n) == IF n < MaxAttempts THEN "waiting" ELSE "over"

\* Without Postgres the row is not found and the attempt leaves no message.
TakeTask ==
  /\ phase = "waiting"
  /\ attempt' = attempt + 1
  /\ phase' = IF dbUp THEN "loaded" ELSE Redelivery(attempt')
  /\ UNCHANGED <<rowVars, next, flushing, produced, passed, ctxDone, streamVars, pollVars, envVars>>

\* What comes between BUILDING and docker build may fail in many ways.
MarkBuilding ==
  /\ phase = "loaded"
  /\ TryMark("BUILDING")
  /\ phase' \in {"build", "failing"}
  /\ UNCHANGED <<rows, refused, attempt, next, flushing, produced, passed, ctxDone, streamVars,
                 pollVars, envVars>>

\* logWriter.Write: a full buffer is flushed, and so is one that was last
\* flushed half a second ago.
Write ==
  /\ phase \in Commands
  /\ ~flushing
  /\ produced < MaxOutput
  /\ produced' = produced + 1
  /\ flushing' \in {f \in BOOLEAN : produced' - passed > BufferCap => f}
  /\ UNCHANGED <<rowVars, attempt, phase, next, passed, ctxDone, streamVars, pollVars, envVars>>

\* Docker's output is bytes.  Postgres takes no NUL and nothing that is not UTF-8,
\* which a chunk is not if it begins or ends within a character.
RefuseChunk(first, last) ==
  /\ CanWrite
  /\ refused' = refused \cup first..last
  /\ UNCHANGED rows

\* logWriter.flush: the buffer is emptied whether the append worked or not.
Flush ==
  /\ flushing
  /\ \/ AppendLogChunk(passed + 1, produced) /\ UNCHANGED refused
     \/ RefuseChunk(passed + 1, produced)
  /\ passed' = produced
  /\ flushing' = FALSE
  /\ UNCHANGED <<status, attempt, phase, next, produced, ctxDone, streamVars, pollVars, envVars>>

\* A faulty CommandEnds: runDocker does not flush what is left.
CommandEndsUnflushed ==
  /\ phase \in Commands
  /\ ~flushing
  /\ \/ next' = Then[phase] /\ (ctxDone => phase = "push")
     \/ next' = "failing" /\ phase # "push"
  /\ phase' = "closing"
  /\ passed' = produced
  /\ UNCHANGED <<rowVars, attempt, flushing, produced, ctxDone, streamVars, pollVars, envVars>>

\* docker exits, or is killed with the context; a failed push is ignored.
\* What the buffer still holds is flushed before runDocker returns.
CommandEnds ==
  /\ phase \in Commands
  /\ ~flushing
  /\ \/ next' = Then[phase] /\ (ctxDone => phase = "push")
     \/ next' = "failing" /\ phase # "push"
  /\ phase' = "closing"
  /\ flushing' = (passed < produced)
  /\ UNCHANGED <<rowVars, attempt, produced, passed, ctxDone, streamVars, pollVars, envVars>>

CommandReturns ==
  /\ phase = "closing"
  /\ ~flushing
  /\ phase' = next
  /\ next' = "none"
  /\ UNCHANGED <<rowVars, attempt, flushing, produced, passed, ctxDone, streamVars,
                 pollVars, envVars>>

Publish ==
  /\ phase = "publishing"
  /\ TryMark("READY")
  /\ phase' = IF CanWrite THEN "acking" ELSE "failing"
  /\ UNCHANGED <<rows, refused, attempt, next, flushing, produced, passed, ctxDone, streamVars,
                 pollVars, envVars>>

\* fail(): the message goes to the log, then FAILED to the row.
LogFailure ==
  /\ phase = "failing"
  /\ AppendLogChunk(produced + 1, produced + 1)
  /\ produced' = produced + 1
  /\ passed' = produced + 1
  /\ phase' = "logged"
  /\ UNCHANGED <<status, refused, attempt, next, flushing, ctxDone, streamVars, pollVars, envVars>>

RecordFailure ==
  /\ phase = "logged"
  /\ TryMark("FAILED")
  /\ phase' = Redelivery(attempt)
  /\ ctxDone' = FALSE
  /\ UNCHANGED <<rows, refused, attempt, next, flushing, produced, passed, streamVars,
                 pollVars, envVars>>

Acknowledge ==
  /\ phase = "acking"
  /\ phase' = "over"
  /\ ctxDone' = FALSE
  /\ UNCHANGED <<rowVars, attempt, next, flushing, produced, passed, streamVars,
                 pollVars, envVars>>

(***************************************************************************)
(* The page and the API.                                                   *)
(***************************************************************************)

\* The effects of a page that has just been mounted: empty log, new stream,
\* cursor 0.  The handler looks the deployment up before it streams.
OpenPage ==
  /\ views < MaxViews
  /\ views' = views + 1
  /\ conn' = IF dbUp THEN "open" ELSE "closed"
  /\ after' = 0
  /\ wire' = <<>>
  /\ shown' = <<>>
  /\ badge' = "none"
  /\ asked' = 0
  /\ answers' = [s \in Statuses |-> 0]
  /\ UNCHANGED <<rowVars, workerVars, envVars>>

MinOf(a, b) == IF a < b THEN a ELSE b

\* A faulty StreamRows: the first rows of the log whatever the cursor says.
StreamRowsFromStart ==
  /\ conn = "open"
  /\ dbUp
  /\ after < Len(rows)
  /\ after' = MinOf(after + Limit, Len(rows))
  /\ wire' = wire \o SubSeq(rows, 1, MinOf(Limit, Len(rows)))
  /\ UNCHANGED <<rowVars, workerVars, conn, shown, pollVars, envVars>>

\* A faulty StreamRows: nothing is read once the deployment has a verdict.
StreamRowsUntilVerdict ==
  /\ conn = "open"
  /\ dbUp
  /\ status \notin Verdicts
  /\ after < Len(rows)
  /\ after' = MinOf(after + Limit, Len(rows))
  /\ wire' = wire \o SubSeq(rows, after + 1, after')
  /\ UNCHANGED <<rowVars, workerVars, conn, shown, pollVars, envVars>>

\* A tick of handleDeploymentLogsSSE: ListLogChunks, one event per row, and
\* the cursor moves to the last of them.
StreamRows ==
  /\ conn = "open"
  /\ dbUp
  /\ after < Len(rows)
  /\ after' = MinOf(after + Limit, Len(rows))
  /\ wire' = wire \o SubSeq(rows, after + 1, after')
  /\ UNCHANGED <<rowVars, workerVars, conn, shown, pollVars, envVars>>

\* The query fails: an error event is the last one.
StreamFails ==
  /\ conn = "open"
  /\ ~dbUp
  /\ conn' = "ending"
  /\ UNCHANGED <<rowVars, workerVars, after, wire, shown, pollVars, envVars>>

ReceiveChunk ==
  /\ conn \in {"open", "ending"}
  /\ wire # <<>>
  /\ shown' = Append(shown, Head(wire))
  /\ wire' = Tail(wire)
  /\ UNCHANGED <<rowVars, workerVars, conn, after, pollVars, envVars>>

\* The page closes its EventSource on the first error and opens no other.
ReceiveError ==
  /\ conn = "ending"
  /\ wire = <<>>
  /\ conn' = "closed"
  /\ after' = 0
  /\ UNCHANGED <<rowVars, workerVars, wire, shown, pollVars, envVars>>

InFlight == asked + answers["QUEUED"] + answers["BUILDING"]
                  + answers["READY"] + answers["FAILED"]

\* A faulty AskStatus: the interval is cleared by any answer but QUEUED.
AskStatusUntilStarted ==
  /\ views > 0
  /\ badge \in {"none", "QUEUED"}
  /\ InFlight < MaxPolls
  /\ asked' = asked + 1
  /\ UNCHANGED <<rowVars, workerVars, streamVars, badge, answers, views, envVars>>

\* The interval runs while the page shows no verdict.  It does not wait for
\* the answer to the last request, and ignores errors.
AskStatus ==
  /\ views > 0
  /\ badge \notin Verdicts
  /\ InFlight < MaxPolls
  /\ asked' = asked + 1
  /\ UNCHANGED <<rowVars, workerVars, streamVars, badge, answers, views, envVars>>

AnswerStatus ==
  /\ asked > 0
  /\ asked' = asked - 1
  /\ answers' = IF dbUp THEN [answers EXCEPT ![status] = @ + 1] ELSE answers
  /\ UNCHANGED <<rowVars, workerVars, streamVars, badge, views, envVars>>

\* Answers may overtake each other.
ReceiveStatus(s) ==
  /\ answers[s] > 0
  /\ badge' = s
  /\ answers' = [answers EXCEPT ![s] = @ - 1]
  /\ UNCHANGED <<rowVars, workerVars, streamVars, asked, views, envVars>>

(***************************************************************************)
(* The environment.                                                        *)
(***************************************************************************)

Fault(k) == k \in FaultKinds /\ faults < MaxFaults /\ faults' = faults + 1

DbGoesDown ==
  /\ Fault("db")
  /\ dbUp
  /\ dbUp' = FALSE
  /\ UNCHANGED <<rowVars, workerVars, streamVars, pollVars>>

DbComesBack ==
  /\ ~dbUp
  /\ dbUp' = TRUE
  /\ UNCHANGED <<rowVars, workerVars, streamVars, pollVars, faults>>

DeadlinePasses ==
  /\ Fault("timeout")
  /\ phase \notin AtRest
  /\ ~ctxDone
  /\ ctxDone' = TRUE
  /\ UNCHANGED <<rowVars, attempt, phase, next, flushing, produced, passed, streamVars,
                 pollVars, dbUp>>

\* The buffer dies with the worker; the task is delivered again.
WorkerCrashes ==
  /\ Fault("crash")
  /\ phase \notin AtRest
  /\ phase' = Redelivery(attempt)
  /\ next' = "none"
  /\ flushing' = FALSE
  /\ passed' = produced
  /\ ctxDone' = FALSE
  /\ UNCHANGED <<rowVars, attempt, produced, streamVars, pollVars, dbUp>>

\* The API is replaced: the stream breaks, with whatever was on its way, and
\* requests in flight fail.
ApiRestarts ==
  /\ Fault("api")
  /\ views > 0
  /\ conn' = "closed"
  /\ after' = 0
  /\ wire' = <<>>
  /\ asked' = 0
  /\ UNCHANGED <<rowVars, workerVars, shown, badge, answers, views, dbUp>>

\* The task is over and the page shows all it will.
Quiescent ==
  /\ phase = "over"
  /\ UNCHANGED vars

Attempt == \/ MarkBuilding \/ Write \/ Flush \/ CommandEnds \/ CommandReturns
           \/ Publish \/ LogFailure \/ RecordFailure \/ Acknowledge

Next ==
  \/ TakeTask \/ Attempt
  \/ OpenPage \/ StreamRows \/ StreamFails \/ ReceiveChunk \/ ReceiveError
  \/ AskStatus \/ AnswerStatus \/ \E s \in Statuses : ReceiveStatus(s)
  \/ DbGoesDown \/ DbComesBack \/ DeadlinePasses \/ WorkerCrashes \/ ApiRestarts
  \/ Quiescent

Spec == Init /\ [][Next]_vars

\* The queue delivers, handlers run on, tickers and intervals fire, answers
\* arrive, and Postgres comes back.
Fairness ==
  /\ WF_vars(TakeTask) /\ WF_vars(Attempt)
  /\ WF_vars(StreamRows) /\ WF_vars(StreamFails)
  /\ WF_vars(ReceiveChunk) /\ WF_vars(ReceiveError)
  /\ WF_vars(AskStatus) /\ WF_vars(AnswerStatus)
  /\ \A s \in Statuses : WF_vars(ReceiveStatus(s))
  /\ WF_vars(DbComesBack)

FairSpec == Spec /\ Fairness

(***************************************************************************)
(* Properties.                                                             *)
(***************************************************************************)

\* The page's log is the beginning of what is stored, in the order of the row
\* ids: nothing is skipped or repeated at a page boundary of the query, when
\* the stream breaks, or when the page is opened again (logs.go:69-74).
ShownIsPrefix ==
  /\ Len(shown) <= Len(rows)
  /\ shown = SubSeq(rows, 1, Len(shown))
  /\ conn = "open" => shown \o wire = SubSeq(rows, 1, after)

\* The stored log is in the order of production and repeats nothing, over all
\* attempts; and unless Postgres was away, a deadline passed or a process
\* died, nothing is missing but what the buffer holds and the chunks that
\* Postgres refused, each by itself (worker.go:331-354).
InLog(n) == \E i \in DOMAIN rows : rows[i][1] <= n /\ n <= rows[i][2]

OutputIsKept ==
  /\ \A i \in DOMAIN rows : rows[i][1] <= rows[i][2] /\ rows[i][2] <= passed
  /\ \A i \in 2..Len(rows) : rows[i - 1][2] < rows[i][1]
  /\ faults = 0 =>
       /\ \A n \in 1..passed : InLog(n) <=> n \notin refused
       /\ phase \in AtRest => passed = produced

\* A page whose stream does not break shows, in the end, every stored chunk
\* (README.md:11, "Stream build/runtime logs in the dashboard").
StreamCatchesUp == <>[](conn = "open") => <>[](shown = rows)

\* The page never stays on a status the deployment has left, unless it is a
\* verdict: late and overtaken answers, errors and outages included.  It may
\* keep a verdict that a later attempt overturned, since it stops asking.
BadgeSettles == <>[](views > 0 => badge = status \/ badge \in Verdicts)
=============================================================================
