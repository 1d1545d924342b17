----------------------------- MODULE TaskQueue -----------------------------
(***************************************************************************)
(* The asynq task queue (github.com/hibiken/asynq v0.26, an external       *)
(* library on Redis), as the API, the worker and the agent use it: one     *)
(* queue ("default"), delivery at least once, MaxRetry failed attempts     *)
(* before a task is archived.  Nothing in the repository sets options on a *)
(* task, so asynq's defaults hold: 25 retries, a 30 minute deadline per    *)
(* attempt.  Retry delays are abstracted away: a task waiting to be        *)
(* retried is "pending" with retried > 0.                                  *)
(*                                                                         *)
(* The module has no Next of its own: a component conjoins these operators *)
(* to the steps of its producers and consumers.                            *)
(***************************************************************************)
EXTENDS Naturals

CONSTANTS Tasks,     \* the tasks that can ever be enqueued
          MaxRetry   \* failed attempts after which a task is archived

VARIABLES tstate,    \* where each task is
          retried    \* how many failed attempts each task has behind it

queueVars == <<tstate, retried>>

TaskStates == {"absent", "pending", "active", "completed", "archived", "lost"}

QueueTypeOK ==
  /\ tstate \in [Tasks -> TaskStates]
  /\ retried \in [Tasks -> 0..MaxRetry]

QueueInit ==
  /\ tstate = [t \in Tasks |-> "absent"]
  /\ retried = [t \in Tasks |-> 0]

\* asynq.Client.Enqueue stored the task.
Enqueue(t) ==
  /\ tstate[t] = "absent"
  /\ tstate' = [tstate EXCEPT ![t] = "pending"]
  /\ UNCHANGED retried

\* A server moves the task to its active list and starts a lease.
Take(t) ==
  /\ tstate[t] = "pending"
  /\ tstate' = [tstate EXCEPT ![t] = "active"]
  /\ UNCHANGED retried

\* The handler returned nil: the task is deleted.
Complete(t) ==
  /\ tstate[t] = "active"
  /\ tstate' = [tstate EXCEPT ![t] = "completed"]
  /\ UNCHANGED retried

\* A failed attempt of a task in one of the states From: it is retried, or
\* archived once it has been retried MaxRetry times.
FailedAttempt(t, From) ==
  /\ tstate[t] \in From
  /\ \/ /\ retried[t] < MaxRetry
        /\ tstate' = [tstate EXCEPT ![t] = "pending"]
        /\ retried' = [retried EXCEPT ![t] = @ + 1]
     \/ /\ retried[t] >= MaxRetry
        /\ tstate' = [tstate EXCEPT ![t] = "archived"]
        /\ UNCHANGED retried

\* The handler returned an error, its deadline passed, or its lease expired.
Fail(t) == FailedAttempt(t, {"active"})

\* A server with no handler for the task's type takes it: the mux answers
\* "handler not found", which counts as a failed attempt.
Misroute(t) == FailedAttempt(t, {"pending"})

\* A server that shuts down pushes the tasks S it was running back, without
\* counting an attempt.
Requeue(S) ==
  /\ tstate' = [t \in Tasks |-> IF t \in S THEN "pending" ELSE tstate[t]]
  /\ UNCHANGED retried

\* Redis (run without append-only persistence) restarts from a snapshot taken
\* before the task was enqueued.
Lose(t) ==
  /\ tstate[t] = "pending"
  /\ tstate' = [tstate EXCEPT ![t] = "lost"]
  /\ UNCHANGED retried
=============================================================================
