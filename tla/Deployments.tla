---------------------------- MODULE Deployments ----------------------------
(***************************************************************************)
(* The life of a deployment: a GitHub push creates the row and enqueues a  *)
(* build_deploy task (internal/api/webhook_github.go); the worker takes    *)
(* the task, builds the image, runs the container and publishes the        *)
(* deployment (internal/worker/worker.go, apps/worker/main.go).  The task  *)
(* of a deployment is named by the deployment's id.                        *)
(*                                                                         *)
(* Around the code's steps the model puts what the environment may do:     *)
(* Postgres goes away and comes back, the worker crashes, is stopped or    *)
(* runs into the task deadline, the API dies between two steps, Redis      *)
(* loses a task, the host restarts, and the agent - a second asynq server  *)
(* on the same queue - takes a task it has no handler for.                 *)
(*                                                                         *)
(* deployment_events and log chunks are append-only and decide nothing;    *)
(* they are left out here.                                                 *)
(***************************************************************************)
EXTENDS Naturals, FiniteSets

CONSTANTS Deployments,        \* deployment ids that may be created
          MaxRetry,           \* asynq's retry limit (25 in the code)
          Concurrency,        \* attempts the worker runs at once (2 in the code)
          AgentSharesQueue,   \* is the agent started on the same Redis?
          FaultKinds,         \* which faults of the environment may happen
          MaxFaults           \* bound: how many of them in a behaviour

AllFaults == {"db", "crash", "shutdown", "timeout", "reboot", "api", "redis"}

ASSUME DeploymentsAssumption ==
  /\ MaxRetry \in Nat
  /\ Concurrency \in Nat \ {0}
  /\ AgentSharesQueue \in BOOLEAN
  /\ FaultKinds \subseteq AllFaults
  /\ MaxFaults \in Nat

VARIABLES status, recorded, container,   \* see DeploymentLifecycle
          tstate, retried,               \* the task queue, see TaskQueue
          req,     \* the webhook request that creates each deployment
          phase,   \* where the attempt running for each deployment is
          dbUp,    \* does Postgres answer?
          faults   \* faults so far, bounded by MaxFaults

Lifecycle == INSTANCE DeploymentLifecycle
Queue == INSTANCE TaskQueue WITH Tasks <- Deployments

rowVars == <<status, recorded>>
queueVars == <<tstate, retried>>
envVars == <<dbUp, faults>>
vars == <<status, recorded, container, tstate, retried, req, phase, dbUp, faults>>

Requests == {"idle", "created", "accepted", "refused", "lost"}

\* The points between two effects of BuildAndDeploy at which an attempt can be.
Running == {"taken", "loaded", "building", "built", "ran", "published",
            "failing", "failed"}

\* "orphaned": the worker died and the task's lease has yet to expire.
Phases == {"idle", "orphaned"} \cup Running

TypeOK ==
  /\ Lifecycle!LifecycleTypeOK
  /\ Queue!QueueTypeOK
  /\ req \in [Deployments -> Requests]
  /\ phase \in [Deployments -> Phases]
  /\ dbUp \in BOOLEAN
  /\ faults \in 0..MaxFaults

Init ==
  /\ Lifecycle!LifecycleInit
  /\ Queue!QueueInit
  /\ req = [d \in Deployments |-> "idle"]
  /\ phase = [d \in Deployments |-> "idle"]
  /\ dbUp = TRUE
  /\ faults = 0

(***************************************************************************)
(* The push handler.                                                       *)
(***************************************************************************)

\* The project is known and the row is inserted; with Postgres down the
\* handler answers 500 and leaves nothing behind.
CreateDeployment(d) ==
  /\ req[d] = "idle"
  /\ dbUp
  /\ status' = [status EXCEPT ![d] = "QUEUED"]
  /\ req' = [req EXCEPT ![d] = "created"]
  /\ UNCHANGED <<recorded, container, queueVars, phase, envVars>>

\* The task is stored and the handler answers 200.
EnqueueAccepted(d) ==
  /\ req[d] = "created"
  /\ Queue!Enqueue(d)
  /\ req' = [req EXCEPT ![d] = "accepted"]
  /\ UNCHANGED <<rowVars, container, phase, envVars>>

\* Enqueue returned an error and the handler answers 500: the row stays.
\* Redis may have stored the task although the answer got lost.
EnqueueRefused(d) ==
  /\ req[d] = "created"
  /\ \/ Queue!Enqueue(d)
     \/ UNCHANGED queueVars
  /\ req' = [req EXCEPT ![d] = "refused"]
  /\ UNCHANGED <<rowVars, container, phase, envVars>>

(***************************************************************************)
(* One attempt of BuildAndDeploy.                                          *)
(***************************************************************************)

At(d, p) == phase[d] = p
Goto(d, p) == phase' = [phase EXCEPT ![d] = p]

\* UPDATE deployments SET status: the error of the call is ignored, so with
\* Postgres down the attempt goes on and the row keeps its status.
TryMark(d, s) ==
  status' = IF dbUp THEN [status EXCEPT ![d] = s] ELSE status

Attempts == {d \in Deployments : phase[d] \in Running}

TakeTask(d) ==
  /\ At(d, "idle")
  /\ Cardinality(Attempts) < Concurrency
  /\ Queue!Take(d)
  /\ Goto(d, "taken")
  /\ UNCHANGED <<rowVars, container, req, envVars>>

\* GetDeployment and GetProject: on an error the attempt returns without fail().
LoadDeployment(d) ==
  /\ At(d, "taken")
  /\ Goto(d, IF dbUp THEN "loaded" ELSE "failed")
  /\ UNCHANGED <<rowVars, container, queueVars, req, envVars>>

MarkBuilding(d) ==
  /\ At(d, "loaded")
  /\ TryMark(d, "BUILDING")
  /\ Goto(d, "building")
  /\ UNCHANGED <<recorded, container, queueVars, req, envVars>>

\* A faulty BuildImage: the container is taken to run once the image is there.
BuildImageWithoutRun(d) ==
  /\ At(d, "building")
  /\ dbUp
  /\ Goto(d, "ran")
  /\ UNCHANGED <<rowVars, container, queueVars, req, envVars>>

\* GitHub configuration, token, zipball, unpacking, image build and the
\* environment variables all went well; the latter are read from Postgres.
BuildImage(d) ==
  /\ At(d, "building")
  /\ dbUp
  /\ Goto(d, "built")
  /\ UNCHANGED <<rowVars, container, queueVars, req, envVars>>

\* A faulty BuildFails: the error is returned without calling fail().
BuildFailsUnrecorded(d) ==
  /\ At(d, "building")
  /\ Goto(d, "failed")
  /\ UNCHANGED <<rowVars, container, queueVars, req, envVars>>

\* Any of those steps may fail.
BuildFails(d) ==
  /\ At(d, "building")
  /\ Goto(d, "failing")
  /\ UNCHANGED <<rowVars, container, queueVars, req, envVars>>

\* A faulty RunContainer: a container that is already there is reused.
RunOrReuseContainer(d) ==
  /\ At(d, "built")
  /\ container' = [container EXCEPT ![d] = "running"]
  /\ Goto(d, "ran")
  /\ UNCHANGED <<rowVars, queueVars, req, envVars>>

\* docker run -d --name opencel-deploy-<id>: the name must be free.
RunContainer(d) ==
  /\ At(d, "built")
  /\ container[d] = "none"
  /\ container' = [container EXCEPT ![d] = "running"]
  /\ Goto(d, "ran")
  /\ UNCHANGED <<rowVars, queueVars, req, envVars>>

\* The name is taken, or docker fails; docker may have created the container
\* and then failed to start it.
RunFails(d) ==
  /\ At(d, "built")
  /\ \/ UNCHANGED container
     \/ /\ container[d] = "none"
        /\ container' = [container EXCEPT ![d] = "exited"]
  /\ Goto(d, "failing")
  /\ UNCHANGED <<rowVars, queueVars, req, envVars>>

\* UpdateDeployment(READY, image, container name, port, preview URL).
Publish(d) ==
  /\ At(d, "ran")
  /\ dbUp
  /\ status' = [status EXCEPT ![d] = "READY"]
  /\ recorded' = [recorded EXCEPT ![d] = TRUE]
  /\ Goto(d, "published")
  /\ UNCHANGED <<container, queueVars, req, envVars>>

\* A faulty PublishFails: the error is ignored, as it is for every other status.
PublishFailureIgnored(d) ==
  /\ At(d, "ran")
  /\ ~dbUp
  /\ Goto(d, "published")
  /\ UNCHANGED <<rowVars, container, queueVars, req, envVars>>

\* The update did not reach Postgres.
PublishFails(d) ==
  /\ At(d, "ran")
  /\ ~dbUp
  /\ Goto(d, "failing")
  /\ UNCHANGED <<rowVars, container, queueVars, req, envVars>>

\* A faulty RecordFailure: without COALESCE the FAILED update clears the name.
RecordFailureClearsName(d) ==
  /\ At(d, "failing")
  /\ TryMark(d, "FAILED")
  /\ recorded' = IF dbUp THEN [recorded EXCEPT ![d] = FALSE] ELSE recorded
  /\ Goto(d, "failed")
  /\ UNCHANGED <<container, queueVars, req, envVars>>

\* fail(): the log line, the event and the FAILED status, all best effort.
RecordFailure(d) ==
  /\ At(d, "failing")
  /\ TryMark(d, "FAILED")
  /\ Goto(d, "failed")
  /\ UNCHANGED <<recorded, container, queueVars, req, envVars>>

\* BuildAndDeploy returns nil.
ReturnNil(d) ==
  /\ At(d, "published")
  /\ Queue!Complete(d)
  /\ Goto(d, "idle")
  /\ UNCHANGED <<rowVars, container, req, envVars>>

\* A faulty ReturnError: the task goes back to the queue without being counted.
ReturnErrorUncounted(d) ==
  /\ At(d, "failed")
  /\ Queue!Requeue({d})
  /\ Goto(d, "idle")
  /\ UNCHANGED <<rowVars, container, req, envVars>>

\* BuildAndDeploy returns an error.
ReturnError(d) ==
  /\ At(d, "failed")
  /\ Queue!Fail(d)
  /\ Goto(d, "idle")
  /\ UNCHANGED <<rowVars, container, req, envVars>>

(***************************************************************************)
(* The environment.                                                        *)
(***************************************************************************)

\* The agent's asynq server takes the task; its mux has no build_deploy handler.
AgentTakesTask(d) ==
  /\ AgentSharesQueue
  /\ At(d, "idle")
  /\ Queue!Misroute(d)
  /\ UNCHANGED <<rowVars, container, req, phase, envVars>>

\* asynq's recoverer finds the expired lease of a dead attempt.
LeaseExpires(d) ==
  /\ At(d, "orphaned")
  /\ Queue!Fail(d)
  /\ Goto(d, "idle")
  /\ UNCHANGED <<rowVars, container, req, envVars>>

Fault(kind) ==
  /\ kind \in FaultKinds
  /\ faults < MaxFaults
  /\ faults' = faults + 1

\* The 30 minute deadline passes.  The context is done, so every later write
\* of the attempt fails, fail()'s included: the row keeps its status.
DeadlinePasses(d) ==
  /\ Fault("timeout")
  /\ phase[d] \in Running
  /\ Queue!Fail(d)
  /\ Goto(d, "idle")
  /\ UNCHANGED <<rowVars, container, req, dbUp>>

\* Postgres commits the READY update but the connection breaks before the
\* answer: the attempt takes it for an error.
PublishUnacknowledged(d) ==
  /\ Fault("db")
  /\ At(d, "ran")
  /\ dbUp
  /\ status' = [status EXCEPT ![d] = "READY"]
  /\ recorded' = [recorded EXCEPT ![d] = TRUE]
  /\ Goto(d, "failing")
  /\ UNCHANGED <<container, queueVars, req, dbUp>>

DbGoesDown ==
  /\ Fault("db")
  /\ dbUp
  /\ dbUp' = FALSE
  /\ UNCHANGED <<rowVars, container, queueVars, req, phase>>

DbComesBack ==
  /\ ~dbUp
  /\ dbUp' = TRUE
  /\ UNCHANGED <<rowVars, container, queueVars, req, phase, faults>>

\* The API process dies between inserting the row and enqueuing the task.
ApiDies(d) ==
  /\ Fault("api")
  /\ req[d] = "created"
  /\ req' = [req EXCEPT ![d] = "lost"]
  /\ UNCHANGED <<rowVars, container, queueVars, phase, dbUp>>

Orphan == phase' = [d \in Deployments |->
                      IF phase[d] \in Running THEN "orphaned" ELSE phase[d]]

\* The worker process dies; asynq learns of it only when the leases expire.
WorkerCrashes ==
  /\ Fault("crash")
  /\ Attempts # {}
  /\ Orphan
  /\ UNCHANGED <<rowVars, container, queueVars, req, dbUp>>

\* The worker is stopped (a compose up that recreates it): asynq gives the
\* running tasks back to the queue.
WorkerStops ==
  /\ Fault("shutdown")
  /\ Attempts # {}
  /\ Queue!Requeue(Attempts)
  /\ phase' = [d \in Deployments |-> IF d \in Attempts THEN "idle" ELSE phase[d]]
  /\ UNCHANGED <<rowVars, container, req, dbUp>>

\* The host restarts.  The stack's services come back, the deployments'
\* containers, run without a restart policy, do not.
HostRestarts ==
  /\ Fault("reboot")
  /\ Lifecycle!Halt
  /\ Orphan
  /\ UNCHANGED <<queueVars, req, dbUp>>

RedisLosesTask(d) ==
  /\ Fault("redis")
  /\ Queue!Lose(d)
  /\ UNCHANGED <<rowVars, container, req, phase, dbUp>>

\* Every push has been dealt with and nothing is left in the queue.
Quiescent ==
  /\ dbUp
  /\ \A d \in Deployments : /\ req[d] \in {"accepted", "refused", "lost"}
                            /\ phase[d] = "idle"
                            /\ tstate[d] \notin {"pending", "active"}
  /\ UNCHANGED vars

WorkerStep(d) ==
  \/ LoadDeployment(d) \/ MarkBuilding(d) \/ BuildImage(d) \/ BuildFails(d)
  \/ RunContainer(d) \/ RunFails(d) \/ Publish(d) \/ PublishFails(d)
  \/ RecordFailure(d) \/ ReturnNil(d) \/ ReturnError(d)

Environment ==
  \/ \E d \in Deployments :
       \/ AgentTakesTask(d) \/ DeadlinePasses(d) \/ PublishUnacknowledged(d)
       \/ ApiDies(d) \/ RedisLosesTask(d)
  \/ DbGoesDown \/ WorkerCrashes \/ WorkerStops \/ HostRestarts

Next ==
  \/ \E d \in Deployments :
       \/ CreateDeployment(d) \/ EnqueueAccepted(d) \/ EnqueueRefused(d)
       \/ TakeTask(d) \/ WorkerStep(d) \/ LeaseExpires(d)
  \/ DbComesBack
  \/ Environment
  \/ Quiescent

Spec == Init /\ [][Next]_vars

(***************************************************************************)
(* Fairness: a Go handler goes on to its next statement, asynq's server    *)
(* loop takes pending tasks and its recoverer runs every minute, Postgres  *)
(* is restarted by compose (restart: unless-stopped).                      *)
(***************************************************************************)
Fairness ==
  /\ \A d \in Deployments :
       /\ WF_vars(EnqueueAccepted(d) \/ EnqueueRefused(d))
       /\ WF_vars(TakeTask(d))
       /\ WF_vars(WorkerStep(d))
       /\ WF_vars(LeaseExpires(d))
  /\ WF_vars(DbComesBack)

FairSpec == Spec /\ Fairness
(***************************************************************************)
(* Properties.                                                             *)
(***************************************************************************)

\* A READY row always has its container name recorded and its container was
\* created: BuildAndDeploy publishes only after docker run succeeded, in
\* whatever order crashes, retries and database outages fall.
ReadyIsBacked ==
  \A d \in Deployments :
    status[d] = "READY" => recorded[d] /\ container[d] # "none"

\* A task leaves the queue as done only for a row that reads READY: no attempt
\* that failed, or that could not write its result, is acknowledged.
AckedIsReady ==
  \A d \in Deployments : tstate[d] = "completed" => status[d] = "READY"

\* A deployment whose container exists although the row is not READY and no
\* attempt is about to publish it: an earlier attempt died, timed out or
\* failed after docker created the container.
Spent(d) ==
  /\ container[d] # "none"
  /\ status[d] # "READY"
  /\ phase[d] # "ran"

\* Such a deployment never becomes READY again: every retry finds the name
\* opencel-deploy-<id> taken, and nothing removes the container.
SpentForever == [][\A d \in Deployments : Spent(d) => Spent(d)']_vars

\* Without a fault of the environment, a task that used up its retries leaves
\* a row that says FAILED - or one that still says QUEUED, when the agent took
\* every single delivery.  A row stuck in BUILDING takes a fault.
StuckNeedsFault ==
  \A d \in Deployments :
    tstate[d] = "archived" /\ faults = 0 =>
      \/ status[d] = "FAILED"
      \/ AgentSharesQueue /\ status[d] = "QUEUED"

\* The detailed model implements the deployment lifecycle the rest of the
\* system builds on: published at most once, over a container that exists.
ImplementsLifecycle == Lifecycle!LifecycleSpec

\* Every accepted push comes to an end: its task is acknowledged, archived or
\* lost by Redis, whatever finite number of faults hits the attempts.
AcceptedEnds ==
  \A d \in Deployments :
    req[d] = "accepted" ~> tstate[d] \in {"completed", "archived", "lost"}

\* README.md:8, "Build and deploy on push": an accepted push is picked up by
\* the worker.
PushIsBuilt ==
  \A d \in Deployments : req[d] = "accepted" ~> status[d] # "QUEUED"
=============================================================================
