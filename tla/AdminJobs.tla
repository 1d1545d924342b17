----------------------------- MODULE AdminJobs -----------------------------
(***************************************************************************)
(* Admin jobs: an instance admin saves settings and asks the agent to      *)
(* apply them, or to update the instance (internal/api/admin.go).  The     *)
(* agent (apps/agent/main.go), an asynq server with one slot, runs the     *)
(* installer, which rewrites .env and has Docker Compose recreate what     *)
(* changed - the agent's own container included, under the running job.    *)
(*                                                                         *)
(* Configuration is abstracted to version numbers: of the settings in      *)
(* Postgres (domain, scheme, GitHub App; never blank again once saved), of *)
(* the .env file, of the repository checkout, and of what the running      *)
(* containers were started from.  The TLS mode is apart, for it does not   *)
(* travel in .env: the installer writes those keys from its --tls flag,    *)
(* where of all the agent may pass it knows "letsencrypt" only.            *)
(* Timestamps, job logs and error texts are left out: nothing reads them   *)
(* back.                                                                   *)
(***************************************************************************)
EXTENDS Naturals

CONSTANTS Jobs,
          TypeOf,              \* the type of each job
          MaxRetry,            \* asynq's retry limit (25 in the code)
          MaxVersion,          \* bound: settings saved, commits pushed
          WorkerSharesQueue,   \* is the worker started on the same Redis?
          FaultKinds, MaxFaults

AllFaults == {"db", "api", "redis", "timeout", "crash", "disk", "git"}

ASSUME AdminJobsAssumption ==
  /\ TypeOf \in [Jobs -> {"apply_settings", "self_update"}]
  /\ MaxRetry \in Nat
  /\ MaxVersion \in Nat
  /\ WorkerSharesQueue \in BOOLEAN
  /\ FaultKinds \subseteq AllFaults
  /\ MaxFaults \in Nat

VARIABLES settings,   \* version of the settings in Postgres; 0 is none saved
          tls,        \* the TLS mode saved with them
          repoHead,   \* newest commit of the upstream repository
          env,        \* version of the settings written to .env
          checkout,   \* commit of the repository checkout
          runEnv,     \* version of .env the services run with
          runCode,    \* commit the agent's container was built from
          flag,       \* the --tls the running attempt passes to the installer
          runTls,     \* what Traefik runs with
          source,     \* the agent's /opt/opencel-src: the same directory of the host,
                      \* another one, or nothing to build from
          tlsKept,    \* history: no other mode was ever saved
          status,     \* admin_jobs.status
          asked,      \* history: the version in force when the job was asked for
          req,        \* the request that asks for it
          phase,      \* where the attempt running for it is
          tstate, retried,   \* the task queue, see TaskQueue
          agentUp, dbUp, faults

Queue == INSTANCE TaskQueue WITH Tasks <- Jobs

confVars == <<settings, tls, tlsKept, repoHead>>
hostVars == <<env, checkout, runEnv, runCode, flag, runTls, source>>
queueVars == <<tstate, retried>>
envVars == <<agentUp, dbUp, faults>>
vars == <<settings, tls, tlsKept, repoHead, env, checkout, runEnv, runCode, flag,
          runTls, source, status, asked, req, phase, tstate, retried, agentUp, dbUp,
          faults>>

Versions == 0..MaxVersion
Modes == {"letsencrypt", "other"}    \* "other": cloudflared, disabled
Served == {"letsencrypt", "uncertified"}
Sources == {"own", "elsewhere", "absent"}
JobStatuses == {"none", "queued", "running", "success", "failed"}
Running == {"taken", "preparing", "installing", "succeeded", "erred",
            "returning nil", "returning error"}

TypeOK ==
  /\ settings \in Versions /\ repoHead \in Versions
  /\ env \in Versions /\ checkout \in Versions
  /\ runEnv \in Versions /\ runCode \in Versions
  /\ tls \in Modes /\ flag \in Modes
  /\ runTls \in Served /\ source \in Sources
  /\ tlsKept \in BOOLEAN
  /\ status \in [Jobs -> JobStatuses]
  /\ asked \in [Jobs -> Versions]
  /\ req \in [Jobs -> {"idle", "created", "accepted", "refusing", "refused", "lost"}]
  /\ phase \in [Jobs -> {"idle", "orphaned"} \cup Running]
  /\ Queue!QueueTypeOK
  /\ agentUp \in BOOLEAN /\ dbUp \in BOOLEAN
  /\ faults \in 0..MaxFaults

\* A released agent has no source directory (OPENCEL_REPO_DIR is empty in its
\* template, and then taken for /opt/opencel-src); one built from a checkout has the
\* operator's, which may be at any path of the host.  The instance was installed with
\* Let's Encrypt (a tunnel is in module Installer).
Init ==
  /\ settings = 0 /\ repoHead = 0 /\ env = 0 /\ checkout = 0
  /\ runEnv = 0 /\ runCode = 0
  /\ tls = "letsencrypt" /\ flag = "letsencrypt"
  /\ runTls = "letsencrypt" /\ tlsKept = TRUE
  /\ source \in Sources
  /\ status = [j \in Jobs |-> "none"]
  /\ asked = [j \in Jobs |-> 0]
  /\ req = [j \in Jobs |-> "idle"]
  /\ phase = [j \in Jobs |-> "idle"]
  /\ Queue!QueueInit
  /\ agentUp = TRUE /\ dbUp = TRUE
  /\ faults = 0

Fault(kind) ==
  /\ kind \in FaultKinds
  /\ faults < MaxFaults
  /\ faults' = faults + 1

\* SetAdminJobStatus; its error is always ignored.
TrySetStatus(j, s) == status' = IF dbUp THEN [status EXCEPT ![j] = s] ELSE status

At(j, p) == phase[j] = p
Goto(j, p) == phase' = [phase EXCEPT ![j] = p]
Busy == \E j \in Jobs : phase[j] \in Running

(***************************************************************************)
(* The API.                                                                *)
(***************************************************************************)

SaveSettings(m) ==
  /\ dbUp
  /\ settings < MaxVersion
  /\ settings' = settings + 1
  /\ tls' = m
  /\ tlsKept' = (tlsKept /\ m = "letsencrypt")
  /\ UNCHANGED <<repoHead, hostVars, status, asked, req, phase, queueVars, envVars>>

UpstreamCommit ==
  /\ repoHead < MaxVersion
  /\ repoHead' = repoHead + 1
  /\ UNCHANGED <<settings, tls, tlsKept, hostVars, status, asked, req, phase, queueVars,
                 envVars>>

\* CreateAdminJob inserts the row as queued.
CreateJob(j) ==
  /\ req[j] = "idle"
  /\ dbUp
  /\ status' = [status EXCEPT ![j] = "queued"]
  /\ asked' = [asked EXCEPT ![j] = IF TypeOf[j] = "apply_settings"
                                   THEN settings ELSE repoHead]
  /\ req' = [req EXCEPT ![j] = "created"]
  /\ UNCHANGED <<confVars, hostVars, phase, queueVars, envVars>>

\* The task is stored and the handler answers 202.
EnqueueAccepted(j) ==
  /\ req[j] = "created"
  /\ Queue!Enqueue(j)
  /\ req' = [req EXCEPT ![j] = "accepted"]
  /\ UNCHANGED <<confVars, hostVars, status, asked, phase, envVars>>

\* Enqueue returned an error; Redis may have stored the task all the same.
EnqueueRefused(j) ==
  /\ Fault("redis")
  /\ req[j] = "created"
  /\ \/ Queue!Enqueue(j)
     \/ UNCHANGED queueVars
  /\ req' = [req EXCEPT ![j] = "refusing"]
  /\ UNCHANGED <<confVars, hostVars, status, asked, phase, agentUp, dbUp>>

\* The handler marks the job failed and answers 500.
RefuseJob(j) ==
  /\ req[j] = "refusing"
  /\ TrySetStatus(j, "failed")
  /\ req' = [req EXCEPT ![j] = "refused"]
  /\ UNCHANGED <<confVars, hostVars, asked, phase, queueVars, envVars>>

ApiDies(j) ==
  /\ Fault("api")
  /\ req[j] \in {"created", "refusing"}
  /\ req' = [req EXCEPT ![j] = "lost"]
  /\ UNCHANGED <<confVars, hostVars, status, asked, phase, queueVars, agentUp, dbUp>>

(***************************************************************************)
(* The agent: runAdminJob around applySettings or selfUpdate.              *)
(***************************************************************************)

TakeJob(j) ==
  /\ agentUp
  /\ ~Busy
  /\ At(j, "idle")
  /\ Queue!Take(j)
  /\ Goto(j, "taken")
  /\ UNCHANGED <<confVars, hostVars, status, asked, req, envVars>>

MarkRunning(j) ==
  /\ At(j, "taken")
  /\ TrySetStatus(j, "running")
  /\ Goto(j, "preparing")
  /\ UNCHANGED <<confVars, hostVars, asked, req, queueVars, envVars>>

\* A faulty WriteEnv: the installer is run on the .env that is there.
SkipEnv(j) ==
  /\ TypeOf[j] = "apply_settings"
  /\ At(j, "preparing")
  /\ Goto(j, "installing")
  /\ UNCHANGED <<confVars, hostVars, status, asked, req, queueVars, envVars>>

\* applySettings reads the settings, writes .env and goes on to the installer.  A
\* read that fails counts as "not set": with Postgres down the keys stay as they
\* are and the TLS mode is taken to be the default.
WriteEnv(j) ==
  /\ TypeOf[j] = "apply_settings"
  /\ At(j, "preparing")
  /\ env' = IF dbUp THEN settings ELSE env
  /\ flag' = IF dbUp THEN tls ELSE "letsencrypt"
  /\ Goto(j, "installing")
  /\ UNCHANGED <<confVars, checkout, runEnv, runCode, runTls, source, status, asked, req,
                 queueVars, envVars>>

\* .env cannot be written: a warning is logged and the installer runs anyway.
WriteEnvFails(j) ==
  /\ Fault("disk")
  /\ TypeOf[j] = "apply_settings"
  /\ At(j, "preparing")
  /\ flag' = IF dbUp THEN tls ELSE "letsencrypt"
  /\ Goto(j, "installing")
  /\ UNCHANGED <<confVars, env, checkout, runEnv, runCode, runTls, source, status, asked,
                 req, queueVars, agentUp, dbUp>>

\* selfUpdate: git fetch and git pull --ff-only, where there is a repository, and
\* the installer with --tls letsencrypt, whatever was saved.
PullRepo(j) ==
  /\ TypeOf[j] = "self_update"
  /\ At(j, "preparing")
  /\ source # "absent"
  /\ checkout' = repoHead
  /\ flag' = "letsencrypt"
  /\ Goto(j, "installing")
  /\ UNCHANGED <<confVars, env, runEnv, runCode, runTls, source, status, asked, req,
                 queueVars, envVars>>

\* The pull cannot fast-forward: its error is ignored and the installer runs.
PullFails(j) ==
  /\ Fault("git")
  /\ TypeOf[j] = "self_update"
  /\ At(j, "preparing")
  /\ source # "absent"
  /\ flag' = "letsencrypt"
  /\ Goto(j, "installing")
  /\ UNCHANGED <<confVars, env, checkout, runEnv, runCode, runTls, source, status, asked,
                 req, queueVars, agentUp, dbUp>>

\* The key file cannot be written, or the fetch fails.
PrepareFails(j) ==
  /\ At(j, "preparing")
  /\ Goto(j, "erred")
  /\ UNCHANGED <<confVars, hostVars, status, asked, req, queueVars, envVars>>

\* What the TLS keys the installer writes make of Traefik: with a mode it does not
\* know TLS is on without a certificate resolver.
Serving(m) == IF m = "letsencrypt" THEN "letsencrypt" ELSE "uncertified"

\* The installer is run with --repo /opt/opencel-src: it writes that path into .env,
\* and Compose recreates an agent built from other code or with another directory
\* of the host mounted there.
AgentDiffers == runCode # checkout \/ source = "elsewhere"

\* opencel install returns: the services run what .env and the checkout say.
\* This takes a source to build from and an agent that Compose has no reason to
\* recreate.
InstallDone(j) ==
  /\ At(j, "installing")
  /\ source # "absent" /\ ~AgentDiffers
  /\ runEnv' = env
  /\ runTls' = Serving(flag)
  /\ Goto(j, "succeeded")
  /\ UNCHANGED <<confVars, env, checkout, runCode, flag, source, status, asked, req,
                 queueVars, envVars>>

\* The services that are recreated before the end get the new configuration.
SomeRecreated ==
  /\ runEnv' \in {runEnv, env}
  /\ runTls' \in {runTls, Serving(flag)}

\* The installer, or docker compose up --build, fails part of the way.
InstallFails(j) ==
  /\ At(j, "installing")
  /\ SomeRecreated
  /\ Goto(j, "erred")
  /\ UNCHANGED <<confVars, env, checkout, runCode, flag, source, status, asked, req,
                 queueVars, envVars>>

\* The new agent has the host's own /opt/opencel-src mounted, which Docker makes
\* empty if it was not there.
NewSource == IF source = "elsewhere" THEN "absent" ELSE source

\* A faulty InstallReplacesAgent: the task was acknowledged before it was run.
ReplaceAgentAckedEarly(j) ==
  /\ At(j, "installing")
  /\ source # "absent" /\ AgentDiffers
  /\ runCode' = checkout
  /\ source' = NewSource
  /\ SomeRecreated
  /\ Queue!Complete(j)
  /\ Goto(j, "idle")
  /\ agentUp' \in BOOLEAN
  /\ UNCHANGED <<confVars, env, checkout, flag, status, asked, req, dbUp, faults>>

\* Compose recreates the agent itself.  Stopping the old container makes asynq
\* give the task back and kills the installer and Compose, which run in it: the
\* other services may have been recreated or not, the new agent may have been
\* started or not.
InstallReplacesAgent(j) ==
  /\ At(j, "installing")
  /\ source # "absent" /\ AgentDiffers
  /\ runCode' = checkout
  /\ source' = NewSource
  /\ SomeRecreated
  /\ Queue!Requeue({j})
  /\ Goto(j, "idle")
  /\ agentUp' \in BOOLEAN
  /\ UNCHANGED <<confVars, env, checkout, flag, status, asked, req, dbUp, faults>>

RecordSuccess(j) ==
  /\ At(j, "succeeded")
  /\ TrySetStatus(j, "success")
  /\ Goto(j, "returning nil")
  /\ UNCHANGED <<confVars, hostVars, asked, req, queueVars, envVars>>

\* A faulty RecordFailure: the error is recorded, then swallowed.
RecordFailureSwallowed(j) ==
  /\ At(j, "erred")
  /\ TrySetStatus(j, "failed")
  /\ Goto(j, "returning nil")
  /\ UNCHANGED <<confVars, hostVars, asked, req, queueVars, envVars>>

RecordFailure(j) ==
  /\ At(j, "erred")
  /\ TrySetStatus(j, "failed")
  /\ Goto(j, "returning error")
  /\ UNCHANGED <<confVars, hostVars, asked, req, queueVars, envVars>>

\* A faulty ReturnNil: the result is taken for an error.
ReturnNilAsError(j) ==
  /\ At(j, "returning nil")
  /\ Queue!Fail(j)
  /\ Goto(j, "idle")
  /\ UNCHANGED <<confVars, hostVars, status, asked, req, envVars>>

ReturnNil(j) ==
  /\ At(j, "returning nil")
  /\ Queue!Complete(j)
  /\ Goto(j, "idle")
  /\ UNCHANGED <<confVars, hostVars, status, asked, req, envVars>>

ReturnError(j) ==
  /\ At(j, "returning error")
  /\ Queue!Fail(j)
  /\ Goto(j, "idle")
  /\ UNCHANGED <<confVars, hostVars, status, asked, req, envVars>>

(***************************************************************************)
(* The environment.                                                        *)
(***************************************************************************)

\* The worker's mux has no handler for the agent's tasks.
WorkerTakesTask(j) ==
  /\ WorkerSharesQueue
  /\ At(j, "idle")
  /\ Queue!Misroute(j)
  /\ UNCHANGED <<confVars, hostVars, status, asked, req, phase, envVars>>

\* asynq's 30 minute deadline.  The installer is killed, the docker compose it
\* started is not and may finish; no status is written, the context being done.
DeadlinePasses(j) ==
  /\ Fault("timeout")
  /\ phase[j] \in Running
  /\ IF At(j, "installing") THEN SomeRecreated ELSE UNCHANGED <<runEnv, runTls>>
  /\ Queue!Fail(j)
  /\ Goto(j, "idle")
  /\ UNCHANGED <<confVars, env, checkout, runCode, flag, source, status, asked, req,
                 agentUp, dbUp>>

\* The agent's container dies; compose restarts it (unless-stopped).
AgentCrashes ==
  /\ Fault("crash")
  /\ Busy
  /\ phase' = [j \in Jobs |-> IF phase[j] \in Running THEN "orphaned" ELSE phase[j]]
  /\ UNCHANGED <<confVars, hostVars, status, asked, req, queueVars, agentUp, dbUp>>

LeaseExpires(j) ==
  /\ At(j, "orphaned")
  /\ Queue!Fail(j)
  /\ Goto(j, "idle")
  /\ UNCHANGED <<confVars, hostVars, status, asked, req, envVars>>

\* Somebody runs docker compose up or opencel update on the host.
AgentIsStarted ==
  /\ ~agentUp
  /\ agentUp' = TRUE
  /\ UNCHANGED <<confVars, hostVars, status, asked, req, phase, queueVars, dbUp, faults>>

DbGoesDown ==
  /\ Fault("db")
  /\ dbUp
  /\ dbUp' = FALSE
  /\ UNCHANGED <<confVars, hostVars, status, asked, req, phase, queueVars, agentUp>>

DbComesBack ==
  /\ ~dbUp
  /\ dbUp' = TRUE
  /\ UNCHANGED <<confVars, hostVars, status, asked, req, phase, queueVars, agentUp,
                 faults>>

\* Nothing is left to do for any job and nobody changes anything any more.
Quiescent ==
  /\ dbUp /\ agentUp
  /\ settings = MaxVersion /\ repoHead = MaxVersion
  /\ \A j \in Jobs : /\ req[j] \in {"accepted", "refused", "lost"}
                     /\ phase[j] = "idle"
                     /\ tstate[j] \notin {"pending", "active"}
  /\ UNCHANGED vars

AgentStep(j) ==
  \/ MarkRunning(j) \/ WriteEnv(j) \/ PullRepo(j) \/ PrepareFails(j)
  \/ InstallDone(j) \/ InstallFails(j) \/ InstallReplacesAgent(j)
  \/ RecordSuccess(j) \/ RecordFailure(j) \/ ReturnNil(j) \/ ReturnError(j)

Next ==
  \/ \E m \in Modes : SaveSettings(m)
  \/ UpstreamCommit
  \/ \E j \in Jobs :
       \/ CreateJob(j) \/ EnqueueAccepted(j) \/ EnqueueRefused(j) \/ RefuseJob(j)
       \/ ApiDies(j) \/ TakeJob(j) \/ AgentStep(j) \/ WriteEnvFails(j) \/ PullFails(j)
       \/ WorkerTakesTask(j) \/ DeadlinePasses(j) \/ LeaseExpires(j)
  \/ AgentCrashes \/ AgentIsStarted \/ DbGoesDown \/ DbComesBack
  \/ Quiescent

Spec == Init /\ [][Next]_vars

\* Handlers and asynq's loops make progress; a stopped agent is started again by
\* the operator, Postgres by compose.
FairSpec ==
  /\ Spec
  /\ \A j \in Jobs :
       /\ WF_vars(EnqueueAccepted(j)) /\ WF_vars(RefuseJob(j))
       /\ WF_vars(TakeJob(j))
       /\ WF_vars(AgentStep(j)) /\ WF_vars(LeaseExpires(j))
  /\ WF_vars(AgentIsStarted) /\ WF_vars(DbComesBack)

(***************************************************************************)
(* Properties.                                                             *)
(***************************************************************************)

\* As long as nothing in the environment fails, a task is acknowledged only for
\* a job that reads success: the agent being replaced under its own job gives
\* the task back instead.
DoneIsSuccess ==
  \A j \in Jobs : tstate[j] = "completed" /\ faults = 0 => status[j] = "success"

\* Then, too, a job that reads success has done what it was asked for: the
\* services run with settings (or the agent from a commit) at least as new as
\* those in force when the admin asked, whatever was saved or pushed meanwhile
\* and however often the job was restarted under itself.  Of the TLS mode that is
\* true of Let's Encrypt only: no job brings up any other.
SuccessMeansApplied ==
  \A j \in Jobs : status[j] = "success" /\ faults = 0 =>
    /\ asked[j] <= IF TypeOf[j] = "apply_settings" THEN runEnv ELSE runCode
    /\ tlsKept => runTls = "letsencrypt"

\* And success is final: no retry turns the job back to running or failed.
SuccessIsFinal ==
  [][\A j \in Jobs : status[j] = "success" /\ faults' = 0 =>
       status'[j] = "success"]_vars

\* A job the API accepted ends with a verdict, unless asynq archived its task
\* because the worker or faults used up its retries, or Postgres was away when
\* the verdict was written: the agent being replaced under its own job does not
\* leave it running for ever.
JobVerdict ==
  \A j \in Jobs : req[j] = "accepted" ~>
    \/ status[j] \in {"success", "failed"}
    \/ tstate[j] = "archived"
    \/ tstate[j] = "completed" /\ faults > 0
=============================================================================
