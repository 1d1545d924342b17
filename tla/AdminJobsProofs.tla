-------------------------- MODULE AdminJobsProofs --------------------------
(***************************************************************************)
(* Proofs about AdminJobs, for any number of jobs of either type, retries  *)
(* and versions: while nothing in the environment fails, a job that reads  *)
(* success has done what it was asked for, and stays so.                   *)
(***************************************************************************)
EXTENDS AdminJobs, TLAPS

\* A task is somebody's while an attempt for it runs, and is not yet queued before
\* the request has asked for it.
QueueOK(j) ==
  /\ req[j] = "idle" => status[j] = "none"
  /\ req[j] \in {"idle", "created"} => tstate[j] = "absent" /\ phase[j] = "idle"
  /\ req[j] # "refusing" /\ phase[j] # "orphaned"
  /\ phase[j] \in Running => tstate[j] = "active"
  /\ tstate[j] = "active" => phase[j] \in Running

\* How far a job has come, and what it was asked for.
Applied(j) == asked[j] <= IF TypeOf[j] = "apply_settings" THEN runEnv ELSE runCode
Prepared(j) == asked[j] <= IF TypeOf[j] = "apply_settings" THEN env ELSE checkout
Known(j) == asked[j] <= IF TypeOf[j] = "apply_settings" THEN settings ELSE repoHead

ProgressOK(j) ==
  /\ Known(j)
  /\ phase[j] = "installing" => Prepared(j)
  /\ phase[j] = "succeeded" => Applied(j)
  /\ status[j] = "success" => Applied(j)
  /\ phase[j] = "returning nil" => status[j] = "success"
  /\ tstate[j] = "completed" => status[j] = "success"
  /\ status[j] = "success" =>
       phase[j] = "returning nil" \/ (phase[j] = "idle" /\ tstate[j] = "completed")

\* Versions only grow on their way to the services.
VersionsOK ==
  /\ runEnv <= env /\ env <= settings
  /\ runCode <= checkout /\ checkout <= repoHead

\* All of this is promised as long as nothing has failed; Postgres is there then.
JobsInv == faults = 0 => VersionsOK /\ \A j \in Jobs : QueueOK(j) /\ ProgressOK(j)
DbInv == faults = 0 => dbUp

\* TypeOK in three parts: the provers know numbers, strings or truth values.
Phases == {"idle", "orphaned"} \cup Running
Requests == {"idle", "created", "accepted", "refusing", "refused", "lost"}
Numbers ==
  /\ settings \in Versions /\ repoHead \in Versions
  /\ env \in Versions /\ checkout \in Versions
  /\ runEnv \in Versions /\ runCode \in Versions
  /\ asked \in [Jobs -> Versions]
  /\ retried \in [Jobs -> 0..MaxRetry]
  /\ faults \in 0..MaxFaults
Places ==
  /\ status \in [Jobs -> JobStatuses]
  /\ req \in [Jobs -> Requests]
  /\ phase \in [Jobs -> Phases]
  /\ tstate \in [Jobs -> Queue!TaskStates]
  /\ tls \in Modes /\ flag \in Modes
  /\ runTls \in Served /\ source \in Sources
Switches == agentUp \in BOOLEAN /\ dbUp \in BOOLEAN /\ tlsKept \in BOOLEAN

\* What the assumption says of the bounds.
LEMMA Bounds ==
  MaxRetry \in Nat /\ MaxVersion \in Nat /\ MaxFaults \in Nat
  BY AdminJobsAssumption, Zenon DEF AdminJobsAssumption

\* The initial state satisfies the invariant.
LEMMA InitInv ==
  Init => TypeOK /\ JobsInv /\ DbInv
  <1> SUFFICES ASSUME Init PROVE TypeOK /\ JobsInv /\ DbInv
    OBVIOUS
  <1> USE Bounds DEF Init, Queue!QueueInit
  <1>1. agentUp \in BOOLEAN /\ dbUp \in BOOLEAN /\ tlsKept \in BOOLEAN /\ DbInv
    BY Zenon DEF DbInv
  <1>2. Numbers
    BY DEF Numbers, Versions
  <1>3. Places
    BY DEF Places, JobStatuses, Requests, Phases, Queue!TaskStates, Modes, Served, Sources
  <1>4. TypeOK
    BY <1>1, <1>2, <1>3, Zenon
       DEF TypeOK, Numbers, Places, Phases, Requests, Queue!QueueTypeOK
  <1>5. JobsInv
    BY DEF JobsInv, VersionsOK, QueueOK, ProgressOK, Known, Running
  <1> QED BY <1>1, <1>4, <1>5

\* Versions and counters stay within their bounds.
LEMMA NumbersStep ==
  Numbers /\ [Next]_vars => Numbers'
  <1> SUFFICES ASSUME Numbers, [Next]_vars PROVE Numbers'
    OBVIOUS
  <1> USE Bounds DEF Numbers, Versions, SomeRecreated, confVars, hostVars, queueVars, envVars
  <1>1. ASSUME NEW m \in Modes, SaveSettings(m) PROVE Numbers'
    BY <1>1 DEF SaveSettings
  <1>2. CASE UpstreamCommit
    BY <1>2 DEF UpstreamCommit
  <1>3. ASSUME NEW j \in Jobs, CreateJob(j) PROVE Numbers'
    BY <1>3 DEF CreateJob
  <1>4. ASSUME NEW j \in Jobs, EnqueueAccepted(j) PROVE Numbers'
    BY <1>4 DEF EnqueueAccepted, Queue!Enqueue
  <1>5. ASSUME NEW j \in Jobs, EnqueueRefused(j) PROVE Numbers'
    BY <1>5 DEF EnqueueRefused, Fault, Queue!Enqueue
  <1>6. ASSUME NEW j \in Jobs, RefuseJob(j) PROVE Numbers'
    BY <1>6 DEF RefuseJob, TrySetStatus
  <1>7. ASSUME NEW j \in Jobs, ApiDies(j) PROVE Numbers'
    BY <1>7 DEF ApiDies, Fault
  <1>8. ASSUME NEW j \in Jobs, TakeJob(j) PROVE Numbers'
    BY <1>8 DEF TakeJob, At, Goto, Queue!Take
  <1>9. ASSUME NEW j \in Jobs, MarkRunning(j) PROVE Numbers'
    BY <1>9 DEF MarkRunning, At, Goto, TrySetStatus
  <1>10. ASSUME NEW j \in Jobs, WriteEnv(j) PROVE Numbers'
    BY <1>10 DEF WriteEnv, At, Goto
  <1>11. ASSUME NEW j \in Jobs, PullRepo(j) PROVE Numbers'
    BY <1>11 DEF PullRepo, At, Goto
  <1>12. ASSUME NEW j \in Jobs, PrepareFails(j) PROVE Numbers'
    BY <1>12 DEF PrepareFails, At, Goto
  <1>13. ASSUME NEW j \in Jobs, InstallDone(j) PROVE Numbers'
    BY <1>13 DEF InstallDone, At, Goto
  <1>14. ASSUME NEW j \in Jobs, InstallFails(j) PROVE Numbers'
    BY <1>14 DEF InstallFails, At, Goto
  <1>15. ASSUME NEW j \in Jobs, InstallReplacesAgent(j) PROVE Numbers'
    BY <1>15 DEF InstallReplacesAgent, At, Goto, Queue!Requeue
  <1>16. ASSUME NEW j \in Jobs, RecordSuccess(j) PROVE Numbers'
    BY <1>16 DEF RecordSuccess, At, Goto, TrySetStatus
  <1>17. ASSUME NEW j \in Jobs, RecordFailure(j) PROVE Numbers'
    BY <1>17 DEF RecordFailure, At, Goto, TrySetStatus
  <1>18. ASSUME NEW j \in Jobs, ReturnNil(j) PROVE Numbers'
    BY <1>18 DEF ReturnNil, At, Goto, Queue!Complete
  <1>19. ASSUME NEW j \in Jobs, ReturnError(j) PROVE Numbers'
    <2>1. Queue!Fail(j) /\ UNCHANGED <<confVars, hostVars, asked, envVars>>
      BY <1>19 DEF ReturnError
    <2> QED BY <2>1 DEF Queue!Fail, Queue!FailedAttempt
  <1>20. ASSUME NEW j \in Jobs, WriteEnvFails(j) PROVE Numbers'
    BY <1>20 DEF WriteEnvFails, At, Goto, Fault
  <1>21. ASSUME NEW j \in Jobs, PullFails(j) PROVE Numbers'
    BY <1>21 DEF PullFails, At, Goto, Fault
  <1>22. ASSUME NEW j \in Jobs, WorkerTakesTask(j) PROVE Numbers'
    BY <1>22 DEF WorkerTakesTask, At, Queue!Misroute, Queue!FailedAttempt
  <1>23. ASSUME NEW j \in Jobs, DeadlinePasses(j) PROVE Numbers'
    BY <1>23 DEF DeadlinePasses, Goto, At, Fault, Queue!Fail, Queue!FailedAttempt
  <1>24. ASSUME NEW j \in Jobs, LeaseExpires(j) PROVE Numbers'
    BY <1>24 DEF LeaseExpires, At, Goto, Queue!Fail, Queue!FailedAttempt
  <1>25. CASE AgentCrashes
    BY <1>25 DEF AgentCrashes, Fault, Busy
  <1>26. CASE AgentIsStarted
    BY <1>26 DEF AgentIsStarted
  <1>27. CASE DbGoesDown
    BY <1>27 DEF DbGoesDown, Fault
  <1>28. CASE DbComesBack
    BY <1>28 DEF DbComesBack
  <1>29. CASE Quiescent
    BY <1>29 DEF Quiescent, vars
  <1>30. CASE UNCHANGED vars
    BY <1>30 DEF vars
  <1> QED BY <1>1, <1>2, <1>3, <1>4, <1>5, <1>6, <1>7, <1>8, <1>9, <1>10, <1>11, <1>12,
             <1>13, <1>14, <1>15, <1>16, <1>17, <1>18, <1>19, <1>20, <1>21, <1>22, <1>23,
             <1>24,
             <1>25, <1>26, <1>27, <1>28, <1>29, <1>30
             DEF Next, AgentStep

\* Statuses, phases and queue states stay what the code knows.
LEMMA PlacesStep ==
  Places /\ [Next]_vars => Places'
  <1> SUFFICES ASSUME Places, [Next]_vars PROVE Places'
    OBVIOUS
  <1> USE DEF Places, JobStatuses, Requests, Phases, Running, Queue!TaskStates,
              Modes, Served, Sources, Serving, SomeRecreated, NewSource,
              confVars, hostVars, queueVars, envVars
  <1>1. ASSUME NEW m \in Modes, SaveSettings(m) PROVE Places'
    BY <1>1 DEF SaveSettings
  <1>2. CASE UpstreamCommit
    BY <1>2 DEF UpstreamCommit
  <1>3. ASSUME NEW j \in Jobs, CreateJob(j) PROVE Places'
    BY <1>3 DEF CreateJob
  <1>4. ASSUME NEW j \in Jobs, EnqueueAccepted(j) PROVE Places'
    BY <1>4 DEF EnqueueAccepted, Queue!Enqueue
  <1>5. ASSUME NEW j \in Jobs, EnqueueRefused(j) PROVE Places'
    BY <1>5 DEF EnqueueRefused, Fault, Queue!Enqueue
  <1>6. ASSUME NEW j \in Jobs, RefuseJob(j) PROVE Places'
    BY <1>6 DEF RefuseJob, TrySetStatus
  <1>7. ASSUME NEW j \in Jobs, ApiDies(j) PROVE Places'
    BY <1>7 DEF ApiDies, Fault
  <1>8. ASSUME NEW j \in Jobs, TakeJob(j) PROVE Places'
    BY <1>8 DEF TakeJob, At, Goto, Queue!Take
  <1>9. ASSUME NEW j \in Jobs, MarkRunning(j) PROVE Places'
    BY <1>9 DEF MarkRunning, At, Goto, TrySetStatus
  <1>10. ASSUME NEW j \in Jobs, WriteEnv(j) PROVE Places'
    BY <1>10 DEF WriteEnv, At, Goto
  <1>11. ASSUME NEW j \in Jobs, PullRepo(j) PROVE Places'
    BY <1>11 DEF PullRepo, At, Goto
  <1>12. ASSUME NEW j \in Jobs, PrepareFails(j) PROVE Places'
    BY <1>12 DEF PrepareFails, At, Goto
  <1>13. ASSUME NEW j \in Jobs, InstallDone(j) PROVE Places'
    BY <1>13 DEF InstallDone, At, Goto
  <1>14. ASSUME NEW j \in Jobs, InstallFails(j) PROVE Places'
    BY <1>14 DEF InstallFails, At, Goto
  <1>15. ASSUME NEW j \in Jobs, InstallReplacesAgent(j) PROVE Places'
    BY <1>15 DEF InstallReplacesAgent, At, Goto, Queue!Requeue
  <1>16. ASSUME NEW j \in Jobs, RecordSuccess(j) PROVE Places'
    BY <1>16 DEF RecordSuccess, At, Goto, TrySetStatus
  <1>17. ASSUME NEW j \in Jobs, RecordFailure(j) PROVE Places'
    BY <1>17 DEF RecordFailure, At, Goto, TrySetStatus
  <1>18. ASSUME NEW j \in Jobs, ReturnNil(j) PROVE Places'
    BY <1>18 DEF ReturnNil, At, Goto, Queue!Complete
  <1>19. ASSUME NEW j \in Jobs, ReturnError(j) PROVE Places'
    BY <1>19 DEF ReturnError, At, Goto, Queue!Fail, Queue!FailedAttempt
  <1>20. ASSUME NEW j \in Jobs, WriteEnvFails(j) PROVE Places'
    BY <1>20 DEF WriteEnvFails, At, Goto, Fault
  <1>21. ASSUME NEW j \in Jobs, PullFails(j) PROVE Places'
    BY <1>21 DEF PullFails, At, Goto, Fault
  <1>22. ASSUME NEW j \in Jobs, WorkerTakesTask(j) PROVE Places'
    BY <1>22 DEF WorkerTakesTask, At, Queue!Misroute, Queue!FailedAttempt
  <1>23. ASSUME NEW j \in Jobs, DeadlinePasses(j) PROVE Places'
    BY <1>23 DEF DeadlinePasses, Goto, At, Fault, Queue!Fail, Queue!FailedAttempt
  <1>24. ASSUME NEW j \in Jobs, LeaseExpires(j) PROVE Places'
    BY <1>24 DEF LeaseExpires, At, Goto, Queue!Fail, Queue!FailedAttempt
  <1>25. CASE AgentCrashes
    BY <1>25 DEF AgentCrashes, Fault, Busy
  <1>26. CASE AgentIsStarted
    BY <1>26 DEF AgentIsStarted
  <1>27. CASE DbGoesDown
    BY <1>27 DEF DbGoesDown, Fault
  <1>28. CASE DbComesBack
    BY <1>28 DEF DbComesBack
  <1>29. CASE Quiescent
    BY <1>29 DEF Quiescent, vars
  <1>30. CASE UNCHANGED vars
    BY <1>30 DEF vars
  <1> QED BY <1>1, <1>2, <1>3, <1>4, <1>5, <1>6, <1>7, <1>8, <1>9, <1>10, <1>11, <1>12,
             <1>13, <1>14, <1>15, <1>16, <1>17, <1>18, <1>19, <1>20, <1>21, <1>22, <1>23,
             <1>24,
             <1>25, <1>26, <1>27, <1>28, <1>29, <1>30
             DEF Next, AgentStep

\* The two switches stay Boolean.
LEMMA SwitchesStep ==
  Switches /\ [Next]_vars => Switches'
  <1> SUFFICES ASSUME Switches, [Next]_vars PROVE Switches'
    OBVIOUS
  <1> USE DEF Switches, SomeRecreated, confVars, hostVars, queueVars, envVars
  <1>1. ASSUME NEW m \in Modes, SaveSettings(m) PROVE Switches'
    BY <1>1 DEF SaveSettings
  <1>2. CASE UpstreamCommit
    BY <1>2 DEF UpstreamCommit
  <1>3. ASSUME NEW j \in Jobs, CreateJob(j) PROVE Switches'
    BY <1>3 DEF CreateJob
  <1>4. ASSUME NEW j \in Jobs, EnqueueAccepted(j) PROVE Switches'
    BY <1>4 DEF EnqueueAccepted, Queue!Enqueue
  <1>5. ASSUME NEW j \in Jobs, EnqueueRefused(j) PROVE Switches'
    BY <1>5 DEF EnqueueRefused, Fault, Queue!Enqueue
  <1>6. ASSUME NEW j \in Jobs, RefuseJob(j) PROVE Switches'
    BY <1>6 DEF RefuseJob, TrySetStatus
  <1>7. ASSUME NEW j \in Jobs, ApiDies(j) PROVE Switches'
    BY <1>7 DEF ApiDies, Fault
  <1>8. ASSUME NEW j \in Jobs, TakeJob(j) PROVE Switches'
    BY <1>8 DEF TakeJob, At, Goto, Queue!Take
  <1>9. ASSUME NEW j \in Jobs, MarkRunning(j) PROVE Switches'
    BY <1>9 DEF MarkRunning, At, Goto, TrySetStatus
  <1>10. ASSUME NEW j \in Jobs, WriteEnv(j) PROVE Switches'
    BY <1>10 DEF WriteEnv, At, Goto
  <1>11. ASSUME NEW j \in Jobs, PullRepo(j) PROVE Switches'
    BY <1>11 DEF PullRepo, At, Goto
  <1>12. ASSUME NEW j \in Jobs, PrepareFails(j) PROVE Switches'
    BY <1>12 DEF PrepareFails, At, Goto
  <1>13. ASSUME NEW j \in Jobs, InstallDone(j) PROVE Switches'
    BY <1>13 DEF InstallDone, At, Goto
  <1>14. ASSUME NEW j \in Jobs, InstallFails(j) PROVE Switches'
    BY <1>14 DEF InstallFails, At, Goto
  <1>15. ASSUME NEW j \in Jobs, InstallReplacesAgent(j) PROVE Switches'
    BY <1>15 DEF InstallReplacesAgent, At, Goto, Queue!Requeue
  <1>16. ASSUME NEW j \in Jobs, RecordSuccess(j) PROVE Switches'
    BY <1>16 DEF RecordSuccess, At, Goto, TrySetStatus
  <1>17. ASSUME NEW j \in Jobs, RecordFailure(j) PROVE Switches'
    BY <1>17 DEF RecordFailure, At, Goto, TrySetStatus
  <1>18. ASSUME NEW j \in Jobs, ReturnNil(j) PROVE Switches'
    BY <1>18 DEF ReturnNil, At, Goto, Queue!Complete
  <1>19. ASSUME NEW j \in Jobs, ReturnError(j) PROVE Switches'
    BY <1>19 DEF ReturnError, At, Goto, Queue!Fail, Queue!FailedAttempt
  <1>20. ASSUME NEW j \in Jobs, WriteEnvFails(j) PROVE Switches'
    BY <1>20 DEF WriteEnvFails, At, Goto, Fault
  <1>21. ASSUME NEW j \in Jobs, PullFails(j) PROVE Switches'
    BY <1>21 DEF PullFails, At, Goto, Fault
  <1>22. ASSUME NEW j \in Jobs, WorkerTakesTask(j) PROVE Switches'
    BY <1>22 DEF WorkerTakesTask, At, Queue!Misroute, Queue!FailedAttempt
  <1>23. ASSUME NEW j \in Jobs, DeadlinePasses(j) PROVE Switches'
    BY <1>23 DEF DeadlinePasses, Goto, At, Fault, Queue!Fail, Queue!FailedAttempt
  <1>24. ASSUME NEW j \in Jobs, LeaseExpires(j) PROVE Switches'
    BY <1>24 DEF LeaseExpires, At, Goto, Queue!Fail, Queue!FailedAttempt
  <1>25. CASE AgentCrashes
    BY <1>25 DEF AgentCrashes, Fault, Busy
  <1>26. CASE AgentIsStarted
    BY <1>26 DEF AgentIsStarted
  <1>27. CASE DbGoesDown
    BY <1>27 DEF DbGoesDown, Fault
  <1>28. CASE DbComesBack
    BY <1>28 DEF DbComesBack
  <1>29. CASE Quiescent
    BY <1>29 DEF Quiescent, vars
  <1>30. CASE UNCHANGED vars
    BY <1>30 DEF vars
  <1> QED BY <1>1, <1>2, <1>3, <1>4, <1>5, <1>6, <1>7, <1>8, <1>9, <1>10, <1>11, <1>12,
             <1>13, <1>14, <1>15, <1>16, <1>17, <1>18, <1>19, <1>20, <1>21, <1>22, <1>23,
             <1>24,
             <1>25, <1>26, <1>27, <1>28, <1>29, <1>30
             DEF Next, AgentStep

\* A fault is never taken back.
LEMMA FaultsStay ==
  Numbers /\ [Next]_vars /\ faults' = 0 => faults = 0
  <1> SUFFICES ASSUME Numbers, [Next]_vars, faults' = 0 PROVE faults = 0
    OBVIOUS
  <1> USE DEF confVars, hostVars, queueVars, envVars
  <1>0. faults \in Nat
    BY Bounds DEF Numbers
  <1>1. ASSUME NEW m \in Modes, SaveSettings(m) PROVE faults = 0
    BY <1>1 DEF SaveSettings
  <1>2. CASE UpstreamCommit
    BY <1>2 DEF UpstreamCommit
  <1>3. ASSUME NEW j \in Jobs, CreateJob(j) PROVE faults = 0
    BY <1>3 DEF CreateJob
  <1>4. ASSUME NEW j \in Jobs, EnqueueAccepted(j) PROVE faults = 0
    BY <1>4 DEF EnqueueAccepted, Queue!Enqueue
  <1>5. ASSUME NEW j \in Jobs, EnqueueRefused(j) PROVE faults = 0
    BY <1>0, <1>5 DEF EnqueueRefused, Fault, Queue!Enqueue
  <1>6. ASSUME NEW j \in Jobs, RefuseJob(j) PROVE faults = 0
    BY <1>6 DEF RefuseJob, TrySetStatus
  <1>7. ASSUME NEW j \in Jobs, ApiDies(j) PROVE faults = 0
    BY <1>0, <1>7 DEF ApiDies, Fault
  <1>8. ASSUME NEW j \in Jobs, TakeJob(j) PROVE faults = 0
    BY <1>8 DEF TakeJob, At, Goto, Queue!Take
  <1>9. ASSUME NEW j \in Jobs, MarkRunning(j) PROVE faults = 0
    BY <1>9 DEF MarkRunning, At, Goto, TrySetStatus
  <1>10. ASSUME NEW j \in Jobs, WriteEnv(j) PROVE faults = 0
    BY <1>10 DEF WriteEnv, At, Goto
  <1>11. ASSUME NEW j \in Jobs, PullRepo(j) PROVE faults = 0
    BY <1>11 DEF PullRepo, At, Goto
  <1>12. ASSUME NEW j \in Jobs, PrepareFails(j) PROVE faults = 0
    BY <1>12 DEF PrepareFails, At, Goto
  <1>13. ASSUME NEW j \in Jobs, InstallDone(j) PROVE faults = 0
    BY <1>13 DEF InstallDone, At, Goto
  <1>14. ASSUME NEW j \in Jobs, InstallFails(j) PROVE faults = 0
    BY <1>14 DEF InstallFails, At, Goto
  <1>15. ASSUME NEW j \in Jobs, InstallReplacesAgent(j) PROVE faults = 0
    BY <1>15 DEF InstallReplacesAgent, At, Goto, Queue!Requeue
  <1>16. ASSUME NEW j \in Jobs, RecordSuccess(j) PROVE faults = 0
    BY <1>16 DEF RecordSuccess, At, Goto, TrySetStatus
  <1>17. ASSUME NEW j \in Jobs, RecordFailure(j) PROVE faults = 0
    BY <1>17 DEF RecordFailure, At, Goto, TrySetStatus
  <1>18. ASSUME NEW j \in Jobs, ReturnNil(j) PROVE faults = 0
    BY <1>18 DEF ReturnNil, At, Goto, Queue!Complete
  <1>19. ASSUME NEW j \in Jobs, ReturnError(j) PROVE faults = 0
    BY <1>19 DEF ReturnError, At, Goto, Queue!Fail, Queue!FailedAttempt
  <1>20. ASSUME NEW j \in Jobs, WriteEnvFails(j) PROVE faults = 0
    BY <1>0, <1>20 DEF WriteEnvFails, At, Goto, Fault
  <1>21. ASSUME NEW j \in Jobs, PullFails(j) PROVE faults = 0
    BY <1>0, <1>21 DEF PullFails, At, Goto, Fault
  <1>22. ASSUME NEW j \in Jobs, WorkerTakesTask(j) PROVE faults = 0
    BY <1>22 DEF WorkerTakesTask, At, Queue!Misroute, Queue!FailedAttempt
  <1>23. ASSUME NEW j \in Jobs, DeadlinePasses(j) PROVE faults = 0
    BY <1>0, <1>23 DEF DeadlinePasses, Goto, At, Fault, Queue!Fail, Queue!FailedAttempt
  <1>24. ASSUME NEW j \in Jobs, LeaseExpires(j) PROVE faults = 0
    BY <1>24 DEF LeaseExpires, At, Goto, Queue!Fail, Queue!FailedAttempt
  <1>25. CASE AgentCrashes
    BY <1>0, <1>25 DEF AgentCrashes, Fault, Busy
  <1>26. CASE AgentIsStarted
    BY <1>26 DEF AgentIsStarted
  <1>27. CASE DbGoesDown
    BY <1>0, <1>27 DEF DbGoesDown, Fault
  <1>28. CASE DbComesBack
    BY <1>28 DEF DbComesBack
  <1>29. CASE Quiescent
    BY <1>29 DEF Quiescent, vars
  <1>30. CASE UNCHANGED vars
    BY <1>30 DEF vars
  <1> QED BY <1>1, <1>2, <1>3, <1>4, <1>5, <1>6, <1>7, <1>8, <1>9, <1>10, <1>11, <1>12,
             <1>13, <1>14, <1>15, <1>16, <1>17, <1>18, <1>19, <1>20, <1>21, <1>22, <1>23,
             <1>24,
             <1>25, <1>26, <1>27, <1>28, <1>29, <1>30
             DEF Next, AgentStep

\* No fault happens in a step that counts none.
LEMMA NoFault ==
  ASSUME faults = 0, faults' = 0, NEW k
  PROVE  ~Fault(k)
  BY DEF Fault

\* The database only goes away by a fault.
LEMMA DbStep ==
  DbInv /\ faults = 0 /\ faults' = 0 /\ [Next]_vars => DbInv'
  <1> SUFFICES ASSUME DbInv, faults = 0, faults' = 0, [Next]_vars PROVE DbInv'
    OBVIOUS
  <1> USE DEF DbInv, confVars, hostVars, queueVars, envVars
  <1>1. ASSUME NEW m \in Modes, SaveSettings(m) PROVE DbInv'
    BY <1>1 DEF SaveSettings
  <1>2. CASE UpstreamCommit
    BY <1>2 DEF UpstreamCommit
  <1>3. ASSUME NEW j \in Jobs, CreateJob(j) PROVE DbInv'
    BY <1>3 DEF CreateJob
  <1>4. ASSUME NEW j \in Jobs, EnqueueAccepted(j) PROVE DbInv'
    BY <1>4 DEF EnqueueAccepted, Queue!Enqueue
  <1>5. ASSUME NEW j \in Jobs, EnqueueRefused(j) PROVE DbInv'
    BY <1>5 DEF EnqueueRefused, Fault, Queue!Enqueue
  <1>6. ASSUME NEW j \in Jobs, RefuseJob(j) PROVE DbInv'
    BY <1>6 DEF RefuseJob, TrySetStatus
  <1>7. ASSUME NEW j \in Jobs, ApiDies(j) PROVE DbInv'
    BY <1>7 DEF ApiDies, Fault
  <1>8. ASSUME NEW j \in Jobs, TakeJob(j) PROVE DbInv'
    BY <1>8 DEF TakeJob, At, Goto, Queue!Take
  <1>9. ASSUME NEW j \in Jobs, MarkRunning(j) PROVE DbInv'
    BY <1>9 DEF MarkRunning, At, Goto, TrySetStatus
  <1>10. ASSUME NEW j \in Jobs, WriteEnv(j) PROVE DbInv'
    BY <1>10 DEF WriteEnv, At, Goto
  <1>11. ASSUME NEW j \in Jobs, PullRepo(j) PROVE DbInv'
    BY <1>11 DEF PullRepo, At, Goto
  <1>12. ASSUME NEW j \in Jobs, PrepareFails(j) PROVE DbInv'
    BY <1>12 DEF PrepareFails, At, Goto
  <1>13. ASSUME NEW j \in Jobs, InstallDone(j) PROVE DbInv'
    BY <1>13 DEF InstallDone, At, Goto
  <1>14. ASSUME NEW j \in Jobs, InstallFails(j) PROVE DbInv'
    BY <1>14 DEF InstallFails, At, Goto
  <1>15. ASSUME NEW j \in Jobs, InstallReplacesAgent(j) PROVE DbInv'
    BY <1>15 DEF InstallReplacesAgent, At, Goto, Queue!Requeue
  <1>16. ASSUME NEW j \in Jobs, RecordSuccess(j) PROVE DbInv'
    BY <1>16 DEF RecordSuccess, At, Goto, TrySetStatus
  <1>17. ASSUME NEW j \in Jobs, RecordFailure(j) PROVE DbInv'
    BY <1>17 DEF RecordFailure, At, Goto, TrySetStatus
  <1>18. ASSUME NEW j \in Jobs, ReturnNil(j) PROVE DbInv'
    BY <1>18 DEF ReturnNil, At, Goto, Queue!Complete
  <1>19. ASSUME NEW j \in Jobs, ReturnError(j) PROVE DbInv'
    BY <1>19 DEF ReturnError, At, Goto, Queue!Fail, Queue!FailedAttempt
  <1>20. ASSUME NEW j \in Jobs, WriteEnvFails(j) PROVE DbInv'
    BY <1>20 DEF WriteEnvFails, At, Goto, Fault
  <1>21. ASSUME NEW j \in Jobs, PullFails(j) PROVE DbInv'
    BY <1>21 DEF PullFails, At, Goto, Fault
  <1>22. ASSUME NEW j \in Jobs, WorkerTakesTask(j) PROVE DbInv'
    BY <1>22 DEF WorkerTakesTask, At, Queue!Misroute, Queue!FailedAttempt
  <1>23. ASSUME NEW j \in Jobs, DeadlinePasses(j) PROVE DbInv'
    BY <1>23 DEF DeadlinePasses, Goto, At, Fault, Queue!Fail, Queue!FailedAttempt
  <1>24. ASSUME NEW j \in Jobs, LeaseExpires(j) PROVE DbInv'
    BY <1>24 DEF LeaseExpires, At, Goto, Queue!Fail, Queue!FailedAttempt
  <1>25. CASE AgentCrashes
    BY <1>25 DEF AgentCrashes, Fault, Busy
  <1>26. CASE AgentIsStarted
    BY <1>26 DEF AgentIsStarted
  <1>27. CASE DbGoesDown
    BY <1>27 DEF DbGoesDown, Fault
  <1>28. CASE DbComesBack
    BY <1>28 DEF DbComesBack
  <1>29. CASE Quiescent
    BY <1>29 DEF Quiescent, vars
  <1>30. CASE UNCHANGED vars
    BY <1>30 DEF vars
  <1> QED BY <1>1, <1>2, <1>3, <1>4, <1>5, <1>6, <1>7, <1>8, <1>9, <1>10, <1>11, <1>12,
             <1>13, <1>14, <1>15, <1>16, <1>17, <1>18, <1>19, <1>20, <1>21, <1>22, <1>23,
             <1>24,
             <1>25, <1>26, <1>27, <1>28, <1>29, <1>30
             DEF Next, AgentStep

\* Without faults, the row of a job and its task agree after every step.
LEMMA QueueStep ==
  ASSUME Places, \A j \in Jobs : QueueOK(j), faults = 0, faults' = 0, [Next]_vars
  PROVE  \A j \in Jobs : QueueOK(j)'
  <1> DEFINE Fine == \A i \in Jobs : QueueOK(i)
  <1> SUFFICES Fine'
    OBVIOUS
  <1> USE DEF Places, JobStatuses, Requests, Phases, Running, Queue!TaskStates, QueueOK,
              confVars, hostVars, queueVars, envVars
  <1>1. ASSUME NEW m \in Modes, SaveSettings(m) PROVE Fine'
    BY <1>1 DEF SaveSettings
  <1>2. CASE UpstreamCommit
    BY <1>2 DEF UpstreamCommit
  <1>3. ASSUME NEW j \in Jobs, CreateJob(j) PROVE Fine'
    BY <1>3 DEF CreateJob
  <1>4. ASSUME NEW j \in Jobs, EnqueueAccepted(j) PROVE Fine'
    BY <1>4 DEF EnqueueAccepted, Queue!Enqueue
  <1>5. ASSUME NEW j \in Jobs, EnqueueRefused(j) PROVE Fine'
    BY <1>5, NoFault DEF EnqueueRefused
  <1>6. ASSUME NEW j \in Jobs, RefuseJob(j) PROVE Fine'
    BY <1>6 DEF RefuseJob, TrySetStatus
  <1>7. ASSUME NEW j \in Jobs, ApiDies(j) PROVE Fine'
    BY <1>7, NoFault DEF ApiDies
  <1>8. ASSUME NEW j \in Jobs, TakeJob(j) PROVE Fine'
    <2>1. /\ phase[j] = "idle" /\ tstate[j] = "pending"
          /\ phase' = [phase EXCEPT ![j] = "taken"] /\ UNCHANGED <<status, req>>
          /\ tstate' = [tstate EXCEPT ![j] = "active"]
      BY <1>8 DEF TakeJob, At, Goto, Queue!Take
    <2>2. QueueOK(j)'
      BY <2>1
    <2>3. ASSUME NEW i \in Jobs, i # j PROVE QueueOK(i)'
      <3>1. /\ phase'[i] = phase[i] /\ tstate'[i] = tstate[i]
            /\ status'[i] = status[i] /\ req'[i] = req[i]
        BY <2>1, <2>3
      <3> QED BY <3>1
    <2> HIDE DEF QueueOK
    <2> QED BY <2>2, <2>3
  <1>9. ASSUME NEW j \in Jobs, MarkRunning(j) PROVE Fine'
    BY <1>9 DEF MarkRunning, At, Goto, TrySetStatus
  <1>10. ASSUME NEW j \in Jobs, WriteEnv(j) PROVE Fine'
    BY <1>10 DEF WriteEnv, At, Goto
  <1>11. ASSUME NEW j \in Jobs, PullRepo(j) PROVE Fine'
    BY <1>11 DEF PullRepo, At, Goto
  <1>12. ASSUME NEW j \in Jobs, PrepareFails(j) PROVE Fine'
    BY <1>12 DEF PrepareFails, At, Goto
  <1>13. ASSUME NEW j \in Jobs, InstallDone(j) PROVE Fine'
    BY <1>13 DEF InstallDone, At, Goto
  <1>14. ASSUME NEW j \in Jobs, InstallFails(j) PROVE Fine'
    BY <1>14 DEF InstallFails, At, Goto
  <1>15. ASSUME NEW j \in Jobs, InstallReplacesAgent(j) PROVE Fine'
    BY <1>15 DEF InstallReplacesAgent, At, Goto, Queue!Requeue
  <1>16. ASSUME NEW j \in Jobs, RecordSuccess(j) PROVE Fine'
    BY <1>16 DEF RecordSuccess, At, Goto, TrySetStatus
  <1>17. ASSUME NEW j \in Jobs, RecordFailure(j) PROVE Fine'
    BY <1>17 DEF RecordFailure, At, Goto, TrySetStatus
  <1>18. ASSUME NEW j \in Jobs, ReturnNil(j) PROVE Fine'
    <2>1. /\ phase[j] = "returning nil" /\ tstate[j] = "active"
          /\ phase' = [phase EXCEPT ![j] = "idle"] /\ UNCHANGED <<status, req>>
          /\ tstate' = [tstate EXCEPT ![j] = "completed"]
      BY <1>18 DEF ReturnNil, At, Goto, Queue!Complete
    <2>2. QueueOK(j)'
      BY <2>1
    <2>3. ASSUME NEW i \in Jobs, i # j PROVE QueueOK(i)'
      <3>1. /\ phase'[i] = phase[i] /\ tstate'[i] = tstate[i]
            /\ status'[i] = status[i] /\ req'[i] = req[i]
        BY <2>1, <2>3
      <3> QED BY <3>1
    <2> HIDE DEF QueueOK
    <2> QED BY <2>2, <2>3
  <1>19. ASSUME NEW j \in Jobs, ReturnError(j) PROVE Fine'
    <2>1. /\ phase[j] = "returning error" /\ phase' = [phase EXCEPT ![j] = "idle"]
          /\ Queue!Fail(j) /\ UNCHANGED <<status, req>>
      BY <1>19 DEF ReturnError, At, Goto
    <2>2. \/ tstate' = [tstate EXCEPT ![j] = "pending"]
          \/ tstate' = [tstate EXCEPT ![j] = "archived"]
      BY <2>1 DEF Queue!Fail, Queue!FailedAttempt
    <2>3. QueueOK(j)'
      BY <2>1, <2>2
    <2>4. ASSUME NEW i \in Jobs, i # j PROVE QueueOK(i)'
      <3>1. /\ phase'[i] = phase[i] /\ tstate'[i] = tstate[i]
            /\ status'[i] = status[i] /\ req'[i] = req[i]
        BY <2>1, <2>2, <2>4
      <3> QED BY <3>1
    <2> HIDE DEF QueueOK
    <2> QED BY <2>3, <2>4
  <1>20. ASSUME NEW j \in Jobs, WriteEnvFails(j) PROVE Fine'
    BY <1>20, NoFault DEF WriteEnvFails
  <1>21. ASSUME NEW j \in Jobs, PullFails(j) PROVE Fine'
    BY <1>21, NoFault DEF PullFails
  <1>22. ASSUME NEW j \in Jobs, WorkerTakesTask(j) PROVE Fine'
    <2>1. /\ phase[j] = "idle" /\ tstate[j] = "pending" /\ UNCHANGED <<status, req, phase>>
          /\ \/ tstate' = [tstate EXCEPT ![j] = "pending"]
             \/ tstate' = [tstate EXCEPT ![j] = "archived"]
      BY <1>22 DEF WorkerTakesTask, At, Queue!Misroute, Queue!FailedAttempt
    <2>2. QueueOK(j)'
      BY <2>1
    <2>3. ASSUME NEW i \in Jobs, i # j PROVE QueueOK(i)'
      <3>1. /\ phase'[i] = phase[i] /\ tstate'[i] = tstate[i]
            /\ status'[i] = status[i] /\ req'[i] = req[i]
        BY <2>1, <2>3
      <3> QED BY <3>1
    <2> HIDE DEF QueueOK
    <2> QED BY <2>2, <2>3
  <1>23. ASSUME NEW j \in Jobs, DeadlinePasses(j) PROVE Fine'
    BY <1>23, NoFault DEF DeadlinePasses
  <1>24. ASSUME NEW j \in Jobs, LeaseExpires(j) PROVE Fine'
    BY <1>24 DEF LeaseExpires, At, Goto, Queue!Fail, Queue!FailedAttempt
  <1>25. CASE AgentCrashes
    BY <1>25, NoFault DEF AgentCrashes
  <1>26. CASE AgentIsStarted
    BY <1>26 DEF AgentIsStarted
  <1>27. CASE DbGoesDown
    BY <1>27, NoFault DEF DbGoesDown
  <1>28. CASE DbComesBack
    BY <1>28 DEF DbComesBack
  <1>29. CASE Quiescent
    BY <1>29 DEF Quiescent, vars
  <1>30. CASE UNCHANGED vars
    BY <1>30 DEF vars
  <1> QED BY <1>1, <1>2, <1>3, <1>4, <1>5, <1>6, <1>7, <1>8, <1>9, <1>10, <1>11, <1>12,
             <1>13, <1>14, <1>15, <1>16, <1>17, <1>18, <1>19, <1>20, <1>21, <1>22, <1>23,
             <1>24,
             <1>25, <1>26, <1>27, <1>28, <1>29, <1>30
             DEF Next, AgentStep

\* While no other mode was ever saved, nothing passes or serves one.
TlsInv ==
  tlsKept => tls = "letsencrypt" /\ flag = "letsencrypt" /\ runTls = "letsencrypt"

\* No step of a job or of the environment brings up a mode that was not saved.
LEMMA TlsStep ==
  TlsInv /\ [Next]_vars => TlsInv'
  <1> SUFFICES ASSUME TlsInv, [Next]_vars PROVE TlsInv'
    OBVIOUS
  <1> USE DEF TlsInv, Serving, SomeRecreated, confVars, hostVars
  <1>1. ASSUME NEW m \in Modes, SaveSettings(m) PROVE TlsInv'
    BY <1>1 DEF SaveSettings
  <1>2. CASE UpstreamCommit
    BY <1>2 DEF UpstreamCommit
  <1>3. ASSUME NEW j \in Jobs, CreateJob(j) PROVE TlsInv'
    BY <1>3 DEF CreateJob
  <1>4. ASSUME NEW j \in Jobs, EnqueueAccepted(j) PROVE TlsInv'
    BY <1>4 DEF EnqueueAccepted
  <1>5. ASSUME NEW j \in Jobs, EnqueueRefused(j) PROVE TlsInv'
    BY <1>5 DEF EnqueueRefused
  <1>6. ASSUME NEW j \in Jobs, RefuseJob(j) PROVE TlsInv'
    BY <1>6 DEF RefuseJob
  <1>7. ASSUME NEW j \in Jobs, ApiDies(j) PROVE TlsInv'
    BY <1>7 DEF ApiDies
  <1>8. ASSUME NEW j \in Jobs, TakeJob(j) PROVE TlsInv'
    BY <1>8 DEF TakeJob
  <1>9. ASSUME NEW j \in Jobs, MarkRunning(j) PROVE TlsInv'
    BY <1>9 DEF MarkRunning
  <1>10. ASSUME NEW j \in Jobs, WriteEnv(j) PROVE TlsInv'
    BY <1>10 DEF WriteEnv
  <1>11. ASSUME NEW j \in Jobs, PullRepo(j) PROVE TlsInv'
    BY <1>11 DEF PullRepo
  <1>12. ASSUME NEW j \in Jobs, PrepareFails(j) PROVE TlsInv'
    BY <1>12 DEF PrepareFails
  <1>13. ASSUME NEW j \in Jobs, InstallDone(j) PROVE TlsInv'
    BY <1>13 DEF InstallDone
  <1>14. ASSUME NEW j \in Jobs, InstallFails(j) PROVE TlsInv'
    BY <1>14 DEF InstallFails
  <1>15. ASSUME NEW j \in Jobs, InstallReplacesAgent(j) PROVE TlsInv'
    BY <1>15 DEF InstallReplacesAgent
  <1>16. ASSUME NEW j \in Jobs, RecordSuccess(j) PROVE TlsInv'
    BY <1>16 DEF RecordSuccess
  <1>17. ASSUME NEW j \in Jobs, RecordFailure(j) PROVE TlsInv'
    BY <1>17 DEF RecordFailure
  <1>18. ASSUME NEW j \in Jobs, ReturnNil(j) PROVE TlsInv'
    BY <1>18 DEF ReturnNil
  <1>19. ASSUME NEW j \in Jobs, ReturnError(j) PROVE TlsInv'
    BY <1>19 DEF ReturnError
  <1>20. ASSUME NEW j \in Jobs, WriteEnvFails(j) PROVE TlsInv'
    BY <1>20 DEF WriteEnvFails
  <1>21. ASSUME NEW j \in Jobs, PullFails(j) PROVE TlsInv'
    BY <1>21 DEF PullFails
  <1>22. ASSUME NEW j \in Jobs, WorkerTakesTask(j) PROVE TlsInv'
    BY <1>22 DEF WorkerTakesTask
  <1>23. ASSUME NEW j \in Jobs, DeadlinePasses(j) PROVE TlsInv'
    BY <1>23 DEF DeadlinePasses
  <1>24. ASSUME NEW j \in Jobs, LeaseExpires(j) PROVE TlsInv'
    BY <1>24 DEF LeaseExpires
  <1>25. CASE AgentCrashes
    BY <1>25 DEF AgentCrashes
  <1>26. CASE AgentIsStarted
    BY <1>26 DEF AgentIsStarted
  <1>27. CASE DbGoesDown
    BY <1>27 DEF DbGoesDown
  <1>28. CASE DbComesBack
    BY <1>28 DEF DbComesBack
  <1>29. CASE Quiescent
    BY <1>29 DEF Quiescent, vars
  <1>30. CASE UNCHANGED vars
    BY <1>30 DEF vars
  <1> QED BY <1>1, <1>2, <1>3, <1>4, <1>5, <1>6, <1>7, <1>8, <1>9, <1>10, <1>11, <1>12,
             <1>13, <1>14, <1>15, <1>16, <1>17, <1>18, <1>19, <1>20, <1>21, <1>22, <1>23,
             <1>24,
             <1>25, <1>26, <1>27, <1>28, <1>29, <1>30
             DEF Next, AgentStep
\* What a job was asked for stays known, prepared and applied as the versions grow.
LEMMA Growth ==
  ASSUME NEW j \in Jobs, Numbers, Numbers', asked'[j] = asked[j],
         settings <= settings', repoHead <= repoHead', env <= env', checkout <= checkout',
         runEnv <= runEnv', runCode <= runCode'
  PROVE  /\ Known(j) => Known(j)'
         /\ Prepared(j) => Prepared(j)'
         /\ Applied(j) => Applied(j)'
  <1>1. /\ {settings, repoHead, env, checkout, runEnv, runCode, asked[j]} \subseteq Nat
        /\ {settings, repoHead, env, checkout, runEnv, runCode, asked[j]}' \subseteq Nat
    BY Bounds DEF Numbers, Versions
  <1> QED BY <1>1 DEF Known, Prepared, Applied

\* A job that is created asks for versions that are known by then, and changes what no
\* other job asked for.
LEMMA AskedIsKnown ==
  Numbers => \A j \in Jobs :
    CreateJob(j) => Known(j)' /\ \A i \in Jobs : i # j => asked'[i] = asked[i]
  <1> SUFFICES ASSUME Numbers, NEW j \in Jobs, CreateJob(j)
               PROVE  Known(j)' /\ \A i \in Jobs : i # j => asked'[i] = asked[i]
    OBVIOUS
  <1>1. /\ asked' = [asked EXCEPT ![j] = IF TypeOf[j] = "apply_settings"
                                         THEN settings ELSE repoHead]
        /\ UNCHANGED <<settings, repoHead>>
    BY DEF CreateJob, confVars
  <1>2. asked \in [Jobs -> Versions] /\ {settings, repoHead} \subseteq Nat
    BY Bounds DEF Numbers, Versions
  <1>3. asked'[j] = IF TypeOf[j] = "apply_settings" THEN settings ELSE repoHead
    BY <1>1, <1>2
  <1> QED BY <1>1, <1>2, <1>3 DEF Known

\* Without faults, versions never go back and what runs is never ahead of what is
\* there.
LEMMA VersionsStep ==
  ASSUME Numbers, VersionsOK, dbUp, faults = 0, faults' = 0, [Next]_vars
  PROVE  /\ VersionsOK'
         /\ settings <= settings' /\ repoHead <= repoHead' /\ env <= env'
         /\ checkout <= checkout' /\ runEnv <= runEnv' /\ runCode <= runCode'
  <1> DEFINE Fine == /\ VersionsOK'
                     /\ settings <= settings' /\ repoHead <= repoHead' /\ env <= env'
                     /\ checkout <= checkout' /\ runEnv <= runEnv' /\ runCode <= runCode'
  <1> SUFFICES Fine
    OBVIOUS
  <1>0. {settings, repoHead, env, checkout, runEnv, runCode} \subseteq Nat
    BY Bounds DEF Numbers, Versions
  <1> USE DEF VersionsOK, SomeRecreated, confVars, hostVars, queueVars, envVars
  <1>1. ASSUME NEW m \in Modes, SaveSettings(m) PROVE Fine
    BY <1>0, <1>1 DEF SaveSettings
  <1>2. CASE UpstreamCommit
    BY <1>0, <1>2 DEF UpstreamCommit
  <1>3. ASSUME NEW j \in Jobs, CreateJob(j) PROVE Fine
    BY <1>0, <1>3 DEF CreateJob
  <1>4. ASSUME NEW j \in Jobs, EnqueueAccepted(j) PROVE Fine
    BY <1>0, <1>4 DEF EnqueueAccepted
  <1>5. ASSUME NEW j \in Jobs, EnqueueRefused(j) PROVE Fine
    BY <1>0, <1>5, NoFault DEF EnqueueRefused
  <1>6. ASSUME NEW j \in Jobs, RefuseJob(j) PROVE Fine
    BY <1>0, <1>6 DEF RefuseJob
  <1>7. ASSUME NEW j \in Jobs, ApiDies(j) PROVE Fine
    BY <1>0, <1>7, NoFault DEF ApiDies
  <1>8. ASSUME NEW j \in Jobs, TakeJob(j) PROVE Fine
    BY <1>0, <1>8 DEF TakeJob
  <1>9. ASSUME NEW j \in Jobs, MarkRunning(j) PROVE Fine
    BY <1>0, <1>9 DEF MarkRunning
  <1>10. ASSUME NEW j \in Jobs, WriteEnv(j) PROVE Fine
    <2>1. env' = settings
      BY <1>10, Zenon DEF WriteEnv
    <2>2. UNCHANGED <<settings, repoHead, checkout, runEnv, runCode>>
      BY <1>10 DEF WriteEnv
    <2> QED BY <1>0, <2>1, <2>2
  <1>11. ASSUME NEW j \in Jobs, PullRepo(j) PROVE Fine
    BY <1>0, <1>11 DEF PullRepo
  <1>12. ASSUME NEW j \in Jobs, PrepareFails(j) PROVE Fine
    BY <1>0, <1>12 DEF PrepareFails
  <1>13. ASSUME NEW j \in Jobs, InstallDone(j) PROVE Fine
    BY <1>0, <1>13 DEF InstallDone
  <1>14. ASSUME NEW j \in Jobs, InstallFails(j) PROVE Fine
    BY <1>0, <1>14 DEF InstallFails
  <1>15. ASSUME NEW j \in Jobs, InstallReplacesAgent(j) PROVE Fine
    BY <1>0, <1>15 DEF InstallReplacesAgent
  <1>16. ASSUME NEW j \in Jobs, RecordSuccess(j) PROVE Fine
    <2>1. UNCHANGED <<confVars, hostVars>>
      BY <1>16 DEF RecordSuccess
    <2> QED BY <1>0, <2>1
  <1>17. ASSUME NEW j \in Jobs, RecordFailure(j) PROVE Fine
    <2>1. UNCHANGED <<confVars, hostVars>>
      BY <1>17 DEF RecordFailure
    <2> QED BY <1>0, <2>1
  <1>18. ASSUME NEW j \in Jobs, ReturnNil(j) PROVE Fine
    <2>1. UNCHANGED <<confVars, hostVars>>
      BY <1>18 DEF ReturnNil
    <2> QED BY <1>0, <2>1
  <1>19. ASSUME NEW j \in Jobs, ReturnError(j) PROVE Fine
    <2>1. UNCHANGED <<confVars, hostVars>>
      BY <1>19 DEF ReturnError
    <2> QED BY <1>0, <2>1
  <1>20. ASSUME NEW j \in Jobs, WriteEnvFails(j) PROVE Fine
    BY <1>0, <1>20, NoFault DEF WriteEnvFails
  <1>21. ASSUME NEW j \in Jobs, PullFails(j) PROVE Fine
    BY <1>0, <1>21, NoFault DEF PullFails
  <1>22. ASSUME NEW j \in Jobs, WorkerTakesTask(j) PROVE Fine
    BY <1>0, <1>22 DEF WorkerTakesTask
  <1>23. ASSUME NEW j \in Jobs, DeadlinePasses(j) PROVE Fine
    BY <1>0, <1>23, NoFault DEF DeadlinePasses
  <1>24. ASSUME NEW j \in Jobs, LeaseExpires(j) PROVE Fine
    BY <1>0, <1>24 DEF LeaseExpires
  <1>25. CASE AgentCrashes
    BY <1>0, <1>25, NoFault DEF AgentCrashes
  <1>26. CASE AgentIsStarted
    BY <1>0, <1>26 DEF AgentIsStarted
  <1>27. CASE DbGoesDown
    BY <1>0, <1>27, NoFault DEF DbGoesDown
  <1>28. CASE DbComesBack
    BY <1>0, <1>28 DEF DbComesBack
  <1>29. CASE Quiescent
    BY <1>0, <1>29 DEF Quiescent, vars
  <1>30. CASE UNCHANGED vars
    BY <1>0, <1>30 DEF vars
  <1> QED BY <1>1, <1>2, <1>3, <1>4, <1>5, <1>6, <1>7, <1>8, <1>9, <1>10, <1>11, <1>12,
             <1>13, <1>14, <1>15, <1>16, <1>17, <1>18, <1>19, <1>20, <1>21, <1>22, <1>23,
             <1>24,
             <1>25, <1>26, <1>27, <1>28, <1>29, <1>30
             DEF Next, AgentStep

\* Without faults, a job has done what its phase says.
LEMMA ProgressStep ==
  ASSUME Numbers, Places, \A j \in Jobs : QueueOK(j), \A j \in Jobs : ProgressOK(j),
         VersionsOK, dbUp, faults = 0, faults' = 0, [Next]_vars
  PROVE  \A j \in Jobs : ProgressOK(j)'
  <1> DEFINE Fine == \A i \in Jobs : ProgressOK(i)
  <1> SUFFICES Fine'
    OBVIOUS
  <1>0. \A i \in Jobs : asked'[i] = asked[i] =>
          /\ Known(i) => Known(i)'
          /\ Prepared(i) => Prepared(i)'
          /\ Applied(i) => Applied(i)'
    BY Growth, VersionsStep, NumbersStep
  <1> USE <1>0
      DEF Places, QueueOK, ProgressOK, Running, confVars, hostVars, queueVars, envVars
  <1>1. ASSUME NEW m \in Modes, SaveSettings(m) PROVE Fine'
    BY <1>1 DEF SaveSettings
  <1>2. CASE UpstreamCommit
    BY <1>2 DEF UpstreamCommit
  <1>3. ASSUME NEW j \in Jobs, CreateJob(j) PROVE Fine'
    <2>1. /\ req[j] = "idle" /\ status' = [status EXCEPT ![j] = "queued"]
          /\ asked' = [asked EXCEPT ![j] = IF TypeOf[j] = "apply_settings"
                                          THEN settings ELSE repoHead]
          /\ UNCHANGED <<settings, repoHead, phase, tstate>>
      BY <1>3 DEF CreateJob
    <2>3. Known(j)'
      BY <1>3, AskedIsKnown
    <2>4. ASSUME NEW i \in Jobs, i # j PROVE asked'[i] = asked[i]
      BY <1>3, <2>4, AskedIsKnown
    <2> HIDE DEF Known
    <2> QED BY <2>1, <2>3, <2>4
  <1>4. ASSUME NEW j \in Jobs, EnqueueAccepted(j) PROVE Fine'
    BY <1>4 DEF EnqueueAccepted, Queue!Enqueue
  <1>5. ASSUME NEW j \in Jobs, EnqueueRefused(j) PROVE Fine'
    BY <1>5, NoFault DEF EnqueueRefused
  <1>6. ASSUME NEW j \in Jobs, RefuseJob(j) PROVE Fine'
    BY <1>6 DEF RefuseJob, TrySetStatus
  <1>7. ASSUME NEW j \in Jobs, ApiDies(j) PROVE Fine'
    BY <1>7, NoFault DEF ApiDies
  <1>8. ASSUME NEW j \in Jobs, TakeJob(j) PROVE Fine'
    BY <1>8 DEF TakeJob, At, Goto, Queue!Take
  <1>9. ASSUME NEW j \in Jobs, MarkRunning(j) PROVE Fine'
    BY <1>9 DEF MarkRunning, At, Goto, TrySetStatus
  <1>10. ASSUME NEW j \in Jobs, WriteEnv(j) PROVE Fine'
    <2>1. env' = settings
      BY <1>10, Zenon DEF WriteEnv
    <2>2. TypeOf[j] = "apply_settings" /\ Known(j)
      BY <1>10 DEF WriteEnv
    <2>3. /\ phase' = [phase EXCEPT ![j] = "installing"] /\ phase[j] = "preparing"
          /\ UNCHANGED <<asked, status, tstate>>
      BY <1>10 DEF WriteEnv, At, Goto
    <2>4. Prepared(j)'
      BY <2>1, <2>2, <2>3 DEF Prepared, Known
    <2> QED BY <2>3, <2>4
  <1>11. ASSUME NEW j \in Jobs, PullRepo(j) PROVE Fine'
    <2>1. checkout' = repoHead /\ TypeOf[j] = "self_update" /\ Known(j)
      BY <1>11 DEF PullRepo
    <2>2. /\ phase' = [phase EXCEPT ![j] = "installing"] /\ phase[j] = "preparing"
          /\ UNCHANGED <<asked, status, tstate>>
      BY <1>11 DEF PullRepo, At, Goto
    <2>3. Prepared(j)'
      BY <2>1, <2>2 DEF Prepared, Known
    <2> QED BY <2>2, <2>3
  <1>12. ASSUME NEW j \in Jobs, PrepareFails(j) PROVE Fine'
    BY <1>12 DEF PrepareFails, At, Goto
  <1>13. ASSUME NEW j \in Jobs, InstallDone(j) PROVE Fine'
    <2>1. runEnv' = env /\ UNCHANGED runCode /\ runCode = checkout /\ Prepared(j)
      BY <1>13 DEF InstallDone, AgentDiffers, At
    <2>2. /\ phase' = [phase EXCEPT ![j] = "succeeded"] /\ phase[j] = "installing"
          /\ UNCHANGED <<asked, status, tstate>>
      BY <1>13 DEF InstallDone, At, Goto
    <2>3. Applied(j)'
      BY <2>1, <2>2 DEF Prepared, Applied
    <2> QED BY <2>2, <2>3
  <1>14. ASSUME NEW j \in Jobs, InstallFails(j) PROVE Fine'
    BY <1>14 DEF InstallFails, At, Goto
  <1>15. ASSUME NEW j \in Jobs, InstallReplacesAgent(j) PROVE Fine'
    BY <1>15 DEF InstallReplacesAgent, At, Goto, Queue!Requeue
  <1>16. ASSUME NEW j \in Jobs, RecordSuccess(j) PROVE Fine'
    <2>1. status' = [status EXCEPT ![j] = "success"]
      BY <1>16, Zenon DEF RecordSuccess, TrySetStatus
    <2>2. /\ phase' = [phase EXCEPT ![j] = "returning nil"] /\ phase[j] = "succeeded"
          /\ UNCHANGED <<asked, tstate>>
      BY <1>16 DEF RecordSuccess, At, Goto
    <2>3. Known(j)' /\ Applied(j)'
      BY <2>2
    <2>4. status'[j] = "success" /\ phase'[j] = "returning nil"
      BY <2>1, <2>2
    <2>5. ProgressOK(j)'
      BY <2>3, <2>4 DEF ProgressOK
    <2>6. ASSUME NEW i \in Jobs, i # j PROVE ProgressOK(i)'
      BY <2>1, <2>2, <2>6
    <2> HIDE DEF ProgressOK
    <2> QED BY <2>5, <2>6
  <1>17. ASSUME NEW j \in Jobs, RecordFailure(j) PROVE Fine'
    BY <1>17 DEF RecordFailure, At, Goto, TrySetStatus
  <1>18. ASSUME NEW j \in Jobs, ReturnNil(j) PROVE Fine'
    BY <1>18 DEF ReturnNil, At, Goto, Queue!Complete
  <1>19. ASSUME NEW j \in Jobs, ReturnError(j) PROVE Fine'
    <2>1. /\ phase[j] = "returning error" /\ phase' = [phase EXCEPT ![j] = "idle"]
          /\ UNCHANGED <<status, asked>> /\ tstate[j] = "active"
          /\ \/ tstate' = [tstate EXCEPT ![j] = "pending"]
             \/ tstate' = [tstate EXCEPT ![j] = "archived"]
      BY <1>19 DEF ReturnError, At, Goto, Queue!Fail, Queue!FailedAttempt
    <2>2. ProgressOK(j)'
      BY <2>1
    <2>3. ASSUME NEW i \in Jobs, i # j PROVE ProgressOK(i)'
      BY <2>1, <2>3
    <2> HIDE DEF ProgressOK
    <2> QED BY <2>2, <2>3
  <1>20. ASSUME NEW j \in Jobs, WriteEnvFails(j) PROVE Fine'
    BY <1>20, NoFault DEF WriteEnvFails
  <1>21. ASSUME NEW j \in Jobs, PullFails(j) PROVE Fine'
    BY <1>21, NoFault DEF PullFails
  <1>22. ASSUME NEW j \in Jobs, WorkerTakesTask(j) PROVE Fine'
    <2>1. /\ phase[j] = "idle" /\ tstate[j] = "pending" /\ UNCHANGED <<status, phase, asked>>
          /\ \/ tstate' = [tstate EXCEPT ![j] = "pending"]
             \/ tstate' = [tstate EXCEPT ![j] = "archived"]
      BY <1>22 DEF WorkerTakesTask, At, Queue!Misroute, Queue!FailedAttempt
    <2>2. ProgressOK(j)'
      BY <2>1
    <2>3. ASSUME NEW i \in Jobs, i # j PROVE ProgressOK(i)'
      BY <2>1, <2>3
    <2> HIDE DEF ProgressOK
    <2> QED BY <2>2, <2>3
  <1>23. ASSUME NEW j \in Jobs, DeadlinePasses(j) PROVE Fine'
    BY <1>23, NoFault DEF DeadlinePasses
  <1>24. ASSUME NEW j \in Jobs, LeaseExpires(j) PROVE Fine'
    BY <1>24 DEF LeaseExpires, At, Goto, Queue!Fail, Queue!FailedAttempt
  <1>25. CASE AgentCrashes
    BY <1>25, NoFault DEF AgentCrashes
  <1>26. CASE AgentIsStarted
    BY <1>26 DEF AgentIsStarted
  <1>27. CASE DbGoesDown
    BY <1>27, NoFault DEF DbGoesDown
  <1>28. CASE DbComesBack
    BY <1>28 DEF DbComesBack
  <1>29. CASE Quiescent
    BY <1>29 DEF Quiescent, vars
  <1>30. CASE UNCHANGED vars
    BY <1>30 DEF vars
  <1> QED BY <1>1, <1>2, <1>3, <1>4, <1>5, <1>6, <1>7, <1>8, <1>9, <1>10, <1>11, <1>12,
             <1>13, <1>14, <1>15, <1>16, <1>17, <1>18, <1>19, <1>20, <1>21, <1>22, <1>23,
             <1>24,
             <1>25, <1>26, <1>27, <1>28, <1>29, <1>30
             DEF Next, AgentStep

\* The three lemmas put together.
LEMMA StepInv ==
  TypeOK /\ JobsInv /\ DbInv /\ TlsInv /\ [Next]_vars =>
    TypeOK' /\ JobsInv' /\ DbInv' /\ TlsInv'
  <1> SUFFICES ASSUME TypeOK, JobsInv, DbInv, TlsInv, [Next]_vars
               PROVE  TypeOK' /\ JobsInv' /\ DbInv' /\ TlsInv'
    OBVIOUS
  <1>1. Numbers /\ Places /\ Switches
    BY Zenon DEF TypeOK, Numbers, Places, Switches, Phases, Requests, Queue!QueueTypeOK
  <1>2. Numbers' /\ Places' /\ Switches'
    BY <1>1, NumbersStep, PlacesStep, SwitchesStep
  <1>3. TypeOK'
    BY <1>2, Zenon
       DEF TypeOK, Numbers, Places, Switches, Phases, Requests, Queue!QueueTypeOK
  <1>4. JobsInv' /\ DbInv'
    <2>1. CASE faults' = 0
      <3>1. faults = 0
        BY <1>1, <2>1, FaultsStay
      <3>2. dbUp /\ VersionsOK /\ \A j \in Jobs : QueueOK(j) /\ ProgressOK(j)
        BY <3>1, Zenon DEF JobsInv, DbInv
      <3>3. DbInv'
        BY <2>1, <3>1, DbStep
      <3>4. \A j \in Jobs : QueueOK(j)'
        BY <1>1, <2>1, <3>1, <3>2, QueueStep
      <3>5. VersionsOK' /\ \A j \in Jobs : ProgressOK(j)'
        BY <1>1, <2>1, <3>1, <3>2, VersionsStep, ProgressStep
      <3> QED BY <3>3, <3>4, <3>5, Zenon DEF JobsInv
    <2>2. CASE faults' # 0
      BY <2>2, Zenon DEF JobsInv, DbInv
    <2> QED BY <2>1, <2>2
  <1> QED BY <1>3, <1>4, TlsStep

\* So the invariant holds in every state of every behaviour.
LEMMA Invariance ==
  Spec => [](TypeOK /\ JobsInv /\ DbInv /\ TlsInv)
  <1>1. Init => TlsInv
    BY DEF Init, TlsInv
  <1> QED BY <1>1, InitInv, StepInv, PTL DEF Spec

\* Whatever fails, and whoever takes the tasks, the tables, the files and the queue
\* stay in the shape the handlers expect.
THEOREM JobsTypeCorrect ==
  Spec => []TypeOK
  BY Invariance, PTL

\* Without faults a task is acknowledged only for a job that reads success: asynq gets
\* it back when the agent is replaced under it.
THEOREM CompletedIsSuccess ==
  Spec => []DoneIsSuccess
  <1>1. JobsInv => DoneIsSuccess
    BY DEF JobsInv, DoneIsSuccess, ProgressOK
  <1> QED BY <1>1, Invariance, PTL

\* And a job that reads success has brought up what was in force when the admin asked:
\* versions only grow, and an attempt applies what it reads after it was asked for.  Of
\* the TLS mode only Let's Encrypt survives the installer's flag.
THEOREM SuccessIsApplied ==
  Spec => []SuccessMeansApplied
  <1>1. JobsInv /\ TlsInv => SuccessMeansApplied
    BY DEF JobsInv, TlsInv, SuccessMeansApplied, ProgressOK, Applied
  <1> QED BY <1>1, Invariance, PTL

\* No retry touches a job that reads success: by then its task is acknowledged, or
\* about to be.
THEOREM SuccessStays ==
  Spec => SuccessIsFinal
  <1>1. (TypeOK /\ JobsInv /\ DbInv) /\ [Next]_vars =>
          [\A j \in Jobs : status[j] = "success" /\ faults' = 0 =>
             status'[j] = "success"]_vars
    <2> SUFFICES ASSUME TypeOK, JobsInv, [Next]_vars, NEW i \in Jobs,
                        status[i] = "success", faults' = 0
                 PROVE  status'[i] = "success"
      BY Zenon
    <2>1. Numbers /\ Places
      BY Zenon DEF TypeOK, Numbers, Places, Phases, Requests, Queue!QueueTypeOK
    <2>2. faults = 0
      BY <2>1, FaultsStay
    <2>3. \A j \in Jobs : QueueOK(j) /\ ProgressOK(j)
      BY <2>2 DEF JobsInv
    <2>4. ASSUME NEW m \in Modes, SaveSettings(m) PROVE status'[i] = "success"
      BY <2>4 DEF SaveSettings
    <2>5. CASE UpstreamCommit
      BY <2>5 DEF UpstreamCommit
    <2>6. ASSUME NEW j \in Jobs, CreateJob(j) PROVE status'[i] = "success"
      BY <2>1, <2>3, <2>6 DEF CreateJob, QueueOK, Places
    <2>7. ASSUME NEW j \in Jobs, EnqueueAccepted(j) PROVE status'[i] = "success"
      BY <2>7 DEF EnqueueAccepted, Queue!Enqueue
    <2>8. ASSUME NEW j \in Jobs, EnqueueRefused(j) PROVE status'[i] = "success"
      BY <2>2, NoFault, <2>8 DEF EnqueueRefused
    <2>9. ASSUME NEW j \in Jobs, RefuseJob(j) PROVE status'[i] = "success"
      BY <2>3, <2>9 DEF RefuseJob, QueueOK
    <2>10. ASSUME NEW j \in Jobs, ApiDies(j) PROVE status'[i] = "success"
      BY <2>2, NoFault, <2>10 DEF ApiDies
    <2>11. ASSUME NEW j \in Jobs, TakeJob(j) PROVE status'[i] = "success"
      BY <2>11 DEF TakeJob, At, Goto, Queue!Take
    <2>12. ASSUME NEW j \in Jobs, MarkRunning(j) PROVE status'[i] = "success"
      BY <2>1, <2>3, <2>12 DEF MarkRunning, At, TrySetStatus, ProgressOK, Places
    <2>13. ASSUME NEW j \in Jobs, WriteEnv(j) PROVE status'[i] = "success"
      BY <2>13 DEF WriteEnv, At, Goto
    <2>14. ASSUME NEW j \in Jobs, PullRepo(j) PROVE status'[i] = "success"
      BY <2>14 DEF PullRepo, At, Goto
    <2>15. ASSUME NEW j \in Jobs, PrepareFails(j) PROVE status'[i] = "success"
      BY <2>15 DEF PrepareFails, At, Goto
    <2>16. ASSUME NEW j \in Jobs, InstallDone(j) PROVE status'[i] = "success"
      BY <2>16 DEF InstallDone, At, Goto
    <2>17. ASSUME NEW j \in Jobs, InstallFails(j) PROVE status'[i] = "success"
      BY <2>17 DEF InstallFails, At, Goto
    <2>18. ASSUME NEW j \in Jobs, InstallReplacesAgent(j) PROVE status'[i] = "success"
      BY <2>18 DEF InstallReplacesAgent, At, Goto, Queue!Requeue
    <2>19. ASSUME NEW j \in Jobs, RecordSuccess(j) PROVE status'[i] = "success"
      BY <2>1, <2>19 DEF RecordSuccess, TrySetStatus, Places
    <2>20. ASSUME NEW j \in Jobs, RecordFailure(j) PROVE status'[i] = "success"
      BY <2>1, <2>3, <2>20 DEF RecordFailure, At, TrySetStatus, ProgressOK, Places
    <2>21. ASSUME NEW j \in Jobs, ReturnNil(j) PROVE status'[i] = "success"
      BY <2>21 DEF ReturnNil, At, Goto, Queue!Complete
    <2>22. ASSUME NEW j \in Jobs, ReturnError(j) PROVE status'[i] = "success"
      BY <2>22 DEF ReturnError, At, Goto, Queue!Fail, Queue!FailedAttempt
    <2>23. ASSUME NEW j \in Jobs, WriteEnvFails(j) PROVE status'[i] = "success"
      BY <2>2, NoFault, <2>23 DEF WriteEnvFails
    <2>24. ASSUME NEW j \in Jobs, PullFails(j) PROVE status'[i] = "success"
      BY <2>2, NoFault, <2>24 DEF PullFails
    <2>25. ASSUME NEW j \in Jobs, WorkerTakesTask(j) PROVE status'[i] = "success"
      BY <2>25 DEF WorkerTakesTask, At, Queue!Misroute, Queue!FailedAttempt
    <2>26. ASSUME NEW j \in Jobs, DeadlinePasses(j) PROVE status'[i] = "success"
      BY <2>2, NoFault, <2>26 DEF DeadlinePasses
    <2>27. ASSUME NEW j \in Jobs, LeaseExpires(j) PROVE status'[i] = "success"
      BY <2>27 DEF LeaseExpires, At, Goto, Queue!Fail, Queue!FailedAttempt
    <2>28. CASE AgentCrashes
      BY <2>2, NoFault, <2>28 DEF AgentCrashes
    <2>29. CASE AgentIsStarted
      BY <2>29 DEF AgentIsStarted
    <2>30. CASE DbGoesDown
      BY <2>2, NoFault, <2>30 DEF DbGoesDown
    <2>31. CASE DbComesBack
      BY <2>31 DEF DbComesBack
    <2>32. CASE Quiescent
      BY <2>32 DEF Quiescent, vars
    <2>33. CASE UNCHANGED vars
      BY <2>33 DEF vars
    <2> QED BY <2>4, <2>5, <2>6, <2>7, <2>8, <2>9, <2>10, <2>11, <2>12, <2>13, <2>14,
               <2>15,
               <2>16, <2>17, <2>18, <2>19, <2>20, <2>21, <2>22, <2>23, <2>24, <2>25,
               <2>26, <2>27,
               <2>28, <2>29, <2>30, <2>31, <2>32, <2>33
               DEF Next, AgentStep
  <1> QED BY <1>1, Invariance, PTL DEF SuccessIsFinal, Spec
====
