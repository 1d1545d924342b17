----------------------------- MODULE CronPage -----------------------------
(***************************************************************************)
(* The cron page of the dashboard (app/(authed)/cron/page.tsx).  The API   *)
(* has no cron jobs: the page keeps them in its own state, which starts    *)
(* with a few invented ones and is gone when the page is left, and a run   *)
(* is a timer of two seconds.                                              *)
(***************************************************************************)
EXTENDS Naturals

CONSTANTS Jobs,        \* ids
          Enabled, Paused,   \* the jobs the page starts with
          None,
          MaxRuns      \* bound: runs of one job at a time

VARIABLES jobs,        \* the jobs of the list
          enabled,     \* those that are not paused
          last,        \* lastStatus of each job
          timers,      \* runs of each job whose timer has yet to fire
          menu,        \* the job whose menu is open
          form, name, path   \* the form is open, its name and path are not blank

formVars == <<form, name, path>>
vars == <<jobs, enabled, last, timers, menu, formVars>>

Outcomes == {"never", "success", "failed", "running"}

TypeOK ==
  /\ jobs \subseteq Jobs /\ enabled \subseteq Jobs
  /\ last \in [Jobs -> Outcomes]
  /\ timers \in [Jobs -> 0..MaxRuns]
  /\ menu \in Jobs \cup {None}
  /\ form \in BOOLEAN /\ name \in BOOLEAN /\ path \in BOOLEAN

\* INITIAL_JOBS: the paused one had failed.
InitialOutcome ==
  [j \in Jobs |-> IF j \in Enabled THEN "success"
                  ELSE IF j \in Paused THEN "failed" ELSE "never"]

Init ==
  /\ jobs = Enabled \cup Paused /\ enabled = Enabled
  /\ last = InitialOutcome
  /\ timers = [j \in Jobs |-> 0]
  /\ menu = None
  /\ form = FALSE /\ name = FALSE /\ path = TRUE

\* The form and its fields.
OpenForm ==
  /\ form' = TRUE
  /\ UNCHANGED <<jobs, enabled, last, timers, menu, name, path>>

EditForm ==
  /\ form
  /\ \/ name' = ~name /\ UNCHANGED <<form, path>>
     \/ path' = ~path /\ UNCHANGED <<form, name>>
     \/ form' = FALSE /\ UNCHANGED <<name, path>>
  /\ UNCHANGED <<jobs, enabled, last, timers, menu>>

\* createJob: the button needs a name, the function a path as well.  The id is the
\* time, which no other job has.
CreateJob(j) ==
  /\ form /\ name /\ path
  /\ j \notin jobs /\ timers[j] = 0
  /\ jobs' = jobs \cup {j} /\ enabled' = enabled \cup {j}
  /\ last' = [last EXCEPT ![j] = "never"]
  /\ form' = FALSE /\ name' = FALSE /\ path' = TRUE
  /\ UNCHANGED <<timers, menu>>

\* toggleJob.
ToggleJob(j) ==
  /\ j \in jobs
  /\ enabled' = IF j \in enabled THEN enabled \ {j} ELSE enabled \cup {j}
  /\ UNCHANGED <<jobs, last, timers, menu, formVars>>

\* The dots open a job's menu and close it.
ToggleMenu(j) ==
  /\ j \in jobs
  /\ menu' = IF menu = j THEN None ELSE j
  /\ UNCHANGED <<jobs, enabled, last, timers, formVars>>

\* deleteJob: its timers go on.
DeleteJob(j) ==
  /\ j \in jobs /\ menu = j
  /\ jobs' = jobs \ {j} /\ enabled' = enabled \ {j}
  /\ menu' = None
  /\ UNCHANGED <<last, timers, formVars>>

\* runNow: a paused job too, and one that is running.
RunNow(j) ==
  /\ j \in jobs /\ menu = j
  /\ timers[j] < MaxRuns
  /\ timers' = [timers EXCEPT ![j] = @ + 1]
  /\ last' = [last EXCEPT ![j] = "running"]
  /\ menu' = None
  /\ UNCHANGED <<jobs, enabled, formVars>>

\* A faulty TimerFires: it looks for jobs that are still enabled.
TimerMissesPaused(j) ==
  /\ timers[j] > 0
  /\ timers' = [timers EXCEPT ![j] = @ - 1]
  /\ last' = IF j \in enabled THEN [last EXCEPT ![j] = "success"] ELSE last
  /\ UNCHANGED <<jobs, enabled, menu, formVars>>

\* The run is over: every run succeeds.  The first timer ends all runs of the job.
TimerFires(j) ==
  /\ timers[j] > 0
  /\ timers' = [timers EXCEPT ![j] = @ - 1]
  /\ last' = IF j \in jobs THEN [last EXCEPT ![j] = "success"] ELSE last
  /\ UNCHANGED <<jobs, enabled, menu, formVars>>

\* The page is left and opened again.
Reopen ==
  /\ jobs' = Enabled \cup Paused /\ enabled' = Enabled
  /\ last' = InitialOutcome
  /\ timers' = [j \in Jobs |-> 0]
  /\ menu' = None
  /\ form' = FALSE /\ name' = FALSE /\ path' = TRUE

Next ==
  \/ OpenForm \/ EditForm \/ Reopen
  \/ \E j \in Jobs :
       \/ CreateJob(j) \/ ToggleJob(j) \/ ToggleMenu(j) \/ DeleteJob(j)
       \/ RunNow(j) \/ TimerFires(j)

Spec == Init /\ [][Next]_vars

(***************************************************************************)
(* Properties.                                                             *)
(***************************************************************************)

\* A job of the list that shows as running has a timer that will end it, however
\* often it was run, paused and resumed meanwhile.
RunningHasTimer ==
  \A j \in jobs : last[j] = "running" => timers[j] > 0
=============================================================================
