--------------------------- MODULE AdminJobPanel ---------------------------
(***************************************************************************)
(* The job panel of the admin page (app/(authed)/admin/page.tsx).  Apply   *)
(* asks for a job, and from then on the panel asks for the job and then    *)
(* for its logs every 1.5 seconds, for as long as the page is open; what   *)
(* is asked twice may be answered in any order, and an answer for a job    *)
(* asked for before still counts.  What the jobs do is in AdminJobs; here  *)
(* their status changes and their log grows, of which the API gives the    *)
(* oldest lines.  Only the job that is followed is kept: what the row of   *)
(* an earlier one says when it is asked for may be anything.               *)
(***************************************************************************)
EXTENDS Naturals

CONSTANTS None,
          MaxJobs,     \* bound: jobs, numbered as they are followed
          MaxChunks,   \* bound: lines of log of a job
          LogLimit,    \* lines the API gives, 1000 in the code
          MaxPolls     \* bound: polls under way at a time

VARIABLES status, chunks,      \* the database: status and lines of log of that job
          jobID,               \* the page: the job it follows,
          job, jobLogs,        \* the job and the logs that are shown,
          polls                \* and the polls under way

JobIDs == 1..MaxJobs

vars == <<status, chunks, jobID, job, jobLogs, polls>>

Statuses == {"none", "queued", "running", "success", "failed"}
Final == {"success", "failed"}
NoJob == [id |-> None, status |-> "none"]
NoPoll == [id |-> None, of |-> "job", made |-> FALSE, status |-> "none", chunks |-> 0]

TypeOK ==
  /\ status \in Statuses /\ chunks \in 0..MaxChunks
  /\ jobID \in JobIDs \cup {None}
  /\ job \in [id : JobIDs \cup {None}, status : Statuses]
  /\ jobLogs \in [id : JobIDs \cup {None}, chunks : 0..MaxChunks]
  /\ polls \in [1..MaxPolls -> [id : JobIDs \cup {None}, of : {"job", "logs"},
                               made : BOOLEAN, status : Statuses,
                               chunks : 0..MaxChunks]]

Init ==
  /\ status = "none" /\ chunks = 0
  /\ jobID = None
  /\ job = NoJob /\ jobLogs = [id |-> None, chunks |-> 0]
  /\ polls = [n \in 1..MaxPolls |-> NoPoll]

\* loadJob.
LoadJob(id) ==
  \E n \in 1..MaxPolls :
    /\ polls[n] = NoPoll /\ \A m \in 1..(n - 1) : polls[m] # NoPoll
    /\ polls' = [polls EXCEPT ![n] = [NoPoll EXCEPT !.id = id]]

\* The polls but one, the others in the order they were made.
Without(n) ==
  [m \in 1..MaxPolls |-> IF m < n THEN polls[m]
                         ELSE IF m < MaxPolls THEN polls[m + 1] ELSE NoPoll]

(***************************************************************************)
(* The agent and the API.                                                  *)
(***************************************************************************)

\* runAdminJob: the job that is delivered is running, until the agent has done it or
\* failed.  It is delivered again, whatever it has ended with, if the agent could not
\* acknowledge it, and asynq retries what failed.  An agent that is replaced under
\* its job leaves it running.
AgentStarts ==
  /\ status \in {"queued"} \cup Final /\ status' = "running"
  /\ UNCHANGED <<chunks, jobID, job, jobLogs, polls>>

\* logf: a line, unless the insert fails.
AgentLogs ==
  /\ status = "running" /\ chunks < MaxChunks
  /\ chunks' = chunks + 1
  /\ UNCHANGED <<status, jobID, job, jobLogs, polls>>

AgentEnds ==
  /\ status = "running" /\ status' \in Final
  /\ UNCHANGED <<chunks, jobID, job, jobLogs, polls>>

\* ListAdminJobLogs: what is listed of n lines, the oldest.
Listed(n) == IF n > LogLimit THEN LogLimit ELSE n

\* handleAdminGetJob and handleAdminGetJobLogs.
Answer(n) ==
  /\ polls[n] # NoPoll /\ ~polls[n].made
  /\ \E s \in Statuses \ {"none"}, k \in 0..MaxChunks :
       /\ polls[n].id = jobID => s = status /\ k = chunks
       /\ polls' = [polls EXCEPT
            ![n].made = TRUE,
            ![n].status = IF polls[n].of = "job" THEN s ELSE @,
            ![n].chunks = IF polls[n].of = "logs" THEN Listed(k) ELSE @]
  /\ UNCHANGED <<status, chunks, jobID, job, jobLogs>>

(***************************************************************************)
(* The page.                                                               *)
(***************************************************************************)

\* apply: a job was created, and by the time of the answer the agent may have got
\* anywhere with it; the page follows it, its effect loads it, and the interval of the
\* one before ends.  If it was refused, or the answer is lost, nothing changes here.
ApplyAnswered(j) ==
  /\ j = IF jobID = None THEN 1 ELSE jobID + 1
  /\ jobID' = j
  /\ status' \in Statuses \ {"none"}
  /\ chunks' \in IF status' = "queued" THEN {0} ELSE 0..MaxChunks
  /\ LoadJob(j)
  /\ UNCHANGED <<job, jobLogs>>

\* A faulty Tick: the interval ends when the job shown is no longer running.
TickWhileRunning ==
  /\ jobID # None /\ job.status \in {"none", "running"}
  /\ LoadJob(jobID)
  /\ UNCHANGED <<status, chunks, jobID, job, jobLogs>>

\* The interval, which waits for no answer.
Tick ==
  /\ jobID # None
  /\ LoadJob(jobID)
  /\ UNCHANGED <<status, chunks, jobID, job, jobLogs>>

\* The job has arrived: it is shown, and its logs are asked for.
JobArrives(n) ==
  /\ polls[n].made /\ polls[n].of = "job"
  /\ job' = [id |-> polls[n].id, status |-> polls[n].status]
  /\ polls' = [polls EXCEPT ![n] = [NoPoll EXCEPT !.id = polls[n].id, !.of = "logs"]]
  /\ UNCHANGED <<status, chunks, jobID, jobLogs>>

LogsArrive(n) ==
  /\ polls[n].made /\ polls[n].of = "logs"
  /\ jobLogs' = [id |-> polls[n].id, chunks |-> polls[n].chunks]
  /\ polls' = Without(n)
  /\ UNCHANGED <<status, chunks, jobID, job>>

\* Either request fails: nothing is said.
PollFails(n) ==
  /\ polls[n] # NoPoll
  /\ polls' = Without(n)
  /\ UNCHANGED <<status, chunks, jobID, job, jobLogs>>

Next ==
  \/ AgentStarts \/ AgentLogs \/ AgentEnds \/ Tick
  \/ \E j \in JobIDs : ApplyAnswered(j)
  \/ \E n \in 1..MaxPolls : Answer(n) \/ JobArrives(n) \/ LogsArrive(n) \/ PollFails(n)

PollGoesOn(n) == Answer(n) \/ JobArrives(n) \/ LogsArrive(n)

\* The interval ticks while the page is open, requests end, and they do not fail for
\* ever.
Fairness ==
  /\ WF_vars(Tick) /\ \A n \in 1..MaxPolls : WF_vars(PollGoesOn(n))
  /\ <>[][\A n \in 1..MaxPolls : ~PollFails(n)]_vars

Spec == Init /\ [][Next]_vars /\ Fairness

(***************************************************************************)
(* Properties.                                                             *)
(***************************************************************************)

\* Once the job the panel follows has ended for good, the panel comes to show its
\* verdict and its log, as far as the API lists it, and stays so: whatever answers of
\* earlier polls, of this job or of one before, were still under way, and whatever
\* requests failed.
VerdictSettles ==
  \A j \in JobIDs :
    <>[](jobID = j /\ status \in Final) =>
      <>[](/\ job = [id |-> j, status |-> status]
           /\ jobLogs = [id |-> j, chunks |-> Listed(chunks)])
=============================================================================
