------------------------- MODULE DeploymentsProofs -------------------------
(***************************************************************************)
(* Proofs about Deployments, for every set of deployments, retry limit,    *)
(* concurrency, fault set and fault bound.                                 *)
(*                                                                         *)
(* The safety properties are not inductive as they stand.  DepInv adds     *)
(* what the code relies on without saying so: an attempt runs exactly for  *)
(* an active task, a row exists before anything else does, and an attempt  *)
(* that is about to publish has just created the container itself.         *)
(***************************************************************************)
EXTENDS Deployments, TLAPS

\* The request, the row, the task and the attempt of one deployment agree.
Coherent(d) ==
  /\ phase[d] # "idle" <=> tstate[d] = "active"
  /\ req[d] = "idle" <=> status[d] = "none"
  /\ tstate[d] # "absent" => req[d] \in {"accepted", "refused"}
  /\ req[d] = "created" => status[d] = "QUEUED"

\* What is known about the container and the row.
Backed(d) ==
  /\ recorded[d] => container[d] # "none"
  /\ container[d] # "none" => status[d] # "none"
  /\ status[d] = "READY" => recorded[d]
  /\ phase[d] = "ran" => container[d] # "none" /\ ~recorded[d]
  /\ phase[d] = "published" => status[d] = "READY"
  /\ tstate[d] = "completed" => status[d] = "READY"

DepInv == TypeOK /\ \A d \in Deployments : Coherent(d) /\ Backed(d)

\* Before the first fault.
Undisturbed(d) ==
  /\ tstate[d] = "pending" => status[d] \in {"QUEUED", "FAILED"}
  /\ phase[d] = "failed" => status[d] = "FAILED"
  /\ phase[d] # "orphaned"
  /\ tstate[d] = "archived" =>
       \/ status[d] = "FAILED"
       \/ AgentSharesQueue /\ status[d] = "QUEUED"

FaultFreeInv == faults = 0 => dbUp /\ \A d \in Deployments : Undisturbed(d)

IInv == DepInv /\ FaultFreeInv
(***************************************************************************)
(* DepInv is inductive.                                                    *)
(***************************************************************************)

\* In the initial state no request, row, container or task exists.
LEMMA DepInvInit == Init => DepInv
  BY DeploymentsAssumption
     DEF Init, DepInv, TypeOK, Coherent, Backed, Requests, Phases, Running,
         Lifecycle!LifecycleInit, Lifecycle!LifecycleTypeOK,
         Lifecycle!Statuses, Lifecycle!ContainerStates,
         Queue!QueueInit, Queue!QueueTypeOK, Queue!TaskStates

\* Every step of the handler, the worker and the environment preserves DepInv.
LEMMA DepInvStep == DepInv /\ [Next]_vars => DepInv'
  <1> SUFFICES ASSUME DepInv, [Next]_vars PROVE DepInv'
    OBVIOUS
  <1> USE DeploymentsAssumption
      DEF DepInv, TypeOK, Coherent, Backed, Requests, Phases, Running,
          Lifecycle!LifecycleTypeOK, Lifecycle!Statuses,
          Lifecycle!ContainerStates, Queue!QueueTypeOK, Queue!TaskStates,
          rowVars, queueVars, envVars
  <1>1. ASSUME NEW d \in Deployments, CreateDeployment(d) PROVE DepInv'
    BY <1>1 DEF CreateDeployment
  <1>2. ASSUME NEW d \in Deployments, EnqueueAccepted(d) PROVE DepInv'
    BY <1>2 DEF EnqueueAccepted, Queue!Enqueue
  <1>3. ASSUME NEW d \in Deployments, EnqueueRefused(d) PROVE DepInv'
    BY <1>3 DEF EnqueueRefused, Queue!Enqueue
  <1>4. ASSUME NEW d \in Deployments, TakeTask(d) PROVE DepInv'
    BY <1>4 DEF TakeTask, At, Goto, Attempts, Queue!Take
  <1>5. ASSUME NEW d \in Deployments, LoadDeployment(d) PROVE DepInv'
    BY <1>5 DEF LoadDeployment, At, Goto
  <1>6. ASSUME NEW d \in Deployments, MarkBuilding(d) PROVE DepInv'
    BY <1>6 DEF MarkBuilding, At, Goto, TryMark
  <1>7. ASSUME NEW d \in Deployments, BuildImage(d) PROVE DepInv'
    BY <1>7 DEF BuildImage, At, Goto
  <1>8. ASSUME NEW d \in Deployments, BuildFails(d) PROVE DepInv'
    BY <1>8 DEF BuildFails, At, Goto
  <1>9. ASSUME NEW d \in Deployments, RunContainer(d) PROVE DepInv'
    BY <1>9 DEF RunContainer, At, Goto
  <1>10. ASSUME NEW d \in Deployments, RunFails(d) PROVE DepInv'
    BY <1>10 DEF RunFails, At, Goto
  <1>11. ASSUME NEW d \in Deployments, Publish(d) PROVE DepInv'
    BY <1>11 DEF Publish, At, Goto
  <1>12. ASSUME NEW d \in Deployments, PublishFails(d) PROVE DepInv'
    BY <1>12 DEF PublishFails, At, Goto
  <1>13. ASSUME NEW d \in Deployments, RecordFailure(d) PROVE DepInv'
    BY <1>13 DEF RecordFailure, At, Goto, TryMark
  <1>14. ASSUME NEW d \in Deployments, ReturnNil(d) PROVE DepInv'
    BY <1>14 DEF ReturnNil, At, Goto, Queue!Complete
  <1>15. ASSUME NEW d \in Deployments, ReturnError(d) PROVE DepInv'
    BY <1>15 DEF ReturnError, At, Goto, Queue!Fail, Queue!FailedAttempt
  <1>16. ASSUME NEW d \in Deployments, LeaseExpires(d) PROVE DepInv'
    BY <1>16 DEF LeaseExpires, At, Goto, Queue!Fail, Queue!FailedAttempt
  <1>17. ASSUME DbComesBack PROVE DepInv'
    BY <1>17 DEF DbComesBack
  <1>18. ASSUME NEW d \in Deployments, AgentTakesTask(d) PROVE DepInv'
    BY <1>18 DEF AgentTakesTask, At, Queue!Misroute, Queue!FailedAttempt
  <1>19. ASSUME NEW d \in Deployments, DeadlinePasses(d) PROVE DepInv'
    BY <1>19 DEF DeadlinePasses, Goto, Fault, Queue!Fail, Queue!FailedAttempt
  <1>20. ASSUME NEW d \in Deployments, PublishUnacknowledged(d) PROVE DepInv'
    BY <1>20 DEF PublishUnacknowledged, At, Goto, Fault
  <1>21. ASSUME NEW d \in Deployments, ApiDies(d) PROVE DepInv'
    BY <1>21 DEF ApiDies, Fault
  <1>22. ASSUME NEW d \in Deployments, RedisLosesTask(d) PROVE DepInv'
    BY <1>22 DEF RedisLosesTask, Fault, Queue!Lose
  <1>23. ASSUME DbGoesDown PROVE DepInv'
    <2>1. dbUp' \in BOOLEAN
      BY <1>23, Zenon DEF DbGoesDown
    <2>2. faults' \in 0..MaxFaults
      BY <1>23 DEF DbGoesDown, Fault
    <2>3. UNCHANGED <<status, recorded, container, tstate, retried, req, phase>>
      BY <1>23 DEF DbGoesDown
    <2>4. QED
      BY <2>1, <2>2, <2>3
  <1>24. ASSUME WorkerCrashes PROVE DepInv'
    BY <1>24 DEF WorkerCrashes, Fault, Orphan, Attempts
  <1>25. ASSUME WorkerStops PROVE DepInv'
    BY <1>25 DEF WorkerStops, Fault, Attempts, Queue!Requeue
  <1>26. ASSUME HostRestarts PROVE DepInv'
    BY <1>26 DEF HostRestarts, Fault, Orphan, Lifecycle!Halt
  <1>27. ASSUME Quiescent PROVE DepInv'
    BY <1>27 DEF Quiescent, vars
  <1>28. CASE UNCHANGED vars
    BY <1>28 DEF vars
  <1>29. QED
    BY <1>1, <1>2, <1>3, <1>4, <1>5, <1>6, <1>7, <1>8, <1>9, <1>10, <1>11,
       <1>12, <1>13, <1>14, <1>15, <1>16, <1>17, <1>18, <1>19, <1>20,
       <1>21, <1>22, <1>23, <1>24, <1>25, <1>26, <1>27, <1>28 DEF Next,
       WorkerStep, Environment

\* DepInv holds in every reachable state.
THEOREM DepInvHolds == Spec => []DepInv
  BY DepInvInit, DepInvStep, PTL DEF Spec

\* Every variable stays in its range: in particular no task is retried more
\* than MaxRetry times, however attempts end.
THEOREM TypeCorrect == Spec => []TypeOK
  <1>1. DepInv => TypeOK
    BY DEF DepInv
  <1>2. QED
    BY <1>1, DepInvHolds, PTL

\* A READY row names a container that was created (worker.go publishes only
\* after docker run succeeded), under every interleaving of faults.
THEOREM ReadyIsAlwaysBacked == Spec => []ReadyIsBacked
  <1>1. DepInv => ReadyIsBacked
    BY DEF DepInv, ReadyIsBacked, Backed
  <1>2. QED
    BY <1>1, DepInvHolds, PTL

\* A task is acknowledged only for a row that reads READY, and the row keeps
\* saying so.
THEOREM AckedIsAlwaysReady == Spec => []AckedIsReady
  <1>1. DepInv => AckedIsReady
    BY DEF DepInv, AckedIsReady, Backed
  <1>2. QED
    BY <1>1, DepInvHolds, PTL
(***************************************************************************)
(* A deployment that lost its chance stays unpublished.                    *)
(***************************************************************************)

\* No step makes a Spent deployment READY or about to publish.
LEMMA SpentStep == DepInv /\ [Next]_vars =>
                     \A e \in Deployments : Spent(e) => Spent(e)'
  <1> SUFFICES ASSUME DepInv, [Next]_vars, NEW e \in Deployments, Spent(e)
               PROVE  Spent(e)'
    OBVIOUS
  <1> USE DEF DepInv, TypeOK, Phases, Running, Spent, Lifecycle!LifecycleTypeOK,
              Coherent, Backed, Queue!QueueTypeOK, rowVars, queueVars, envVars
  <1>1. ASSUME NEW d \in Deployments, CreateDeployment(d) PROVE Spent(e)'
    BY <1>1 DEF CreateDeployment
  <1>2. ASSUME NEW d \in Deployments, EnqueueAccepted(d) PROVE Spent(e)'
    BY <1>2 DEF EnqueueAccepted, Queue!Enqueue
  <1>3. ASSUME NEW d \in Deployments, EnqueueRefused(d) PROVE Spent(e)'
    BY <1>3 DEF EnqueueRefused, Queue!Enqueue
  <1>4. ASSUME NEW d \in Deployments, TakeTask(d) PROVE Spent(e)'
    BY <1>4 DEF TakeTask, At, Goto, Attempts, Queue!Take
  <1>5. ASSUME NEW d \in Deployments, LoadDeployment(d) PROVE Spent(e)'
    BY <1>5 DEF LoadDeployment, At, Goto
  <1>6. ASSUME NEW d \in Deployments, MarkBuilding(d) PROVE Spent(e)'
    BY <1>6 DEF MarkBuilding, At, Goto, TryMark
  <1>7. ASSUME NEW d \in Deployments, BuildImage(d) PROVE Spent(e)'
    BY <1>7 DEF BuildImage, At, Goto
  <1>8. ASSUME NEW d \in Deployments, BuildFails(d) PROVE Spent(e)'
    BY <1>8 DEF BuildFails, At, Goto
  <1>9. ASSUME NEW d \in Deployments, RunContainer(d) PROVE Spent(e)'
    BY <1>9 DEF RunContainer, At, Goto
  <1>10. ASSUME NEW d \in Deployments, RunFails(d) PROVE Spent(e)'
    BY <1>10 DEF RunFails, At, Goto
  <1>11. ASSUME NEW d \in Deployments, Publish(d) PROVE Spent(e)'
    BY <1>11 DEF Publish, At, Goto
  <1>12. ASSUME NEW d \in Deployments, PublishFails(d) PROVE Spent(e)'
    BY <1>12 DEF PublishFails, At, Goto
  <1>13. ASSUME NEW d \in Deployments, RecordFailure(d) PROVE Spent(e)'
    BY <1>13 DEF RecordFailure, At, Goto, TryMark
  <1>14. ASSUME NEW d \in Deployments, ReturnNil(d) PROVE Spent(e)'
    BY <1>14 DEF ReturnNil, At, Goto, Queue!Complete
  <1>15. ASSUME NEW d \in Deployments, ReturnError(d) PROVE Spent(e)'
    BY <1>15 DEF ReturnError, At, Goto, Queue!Fail, Queue!FailedAttempt
  <1>16. ASSUME NEW d \in Deployments, LeaseExpires(d) PROVE Spent(e)'
    BY <1>16 DEF LeaseExpires, At, Goto, Queue!Fail, Queue!FailedAttempt
  <1>17. ASSUME DbComesBack PROVE Spent(e)'
    BY <1>17 DEF DbComesBack
  <1>18. ASSUME NEW d \in Deployments, AgentTakesTask(d) PROVE Spent(e)'
    BY <1>18 DEF AgentTakesTask, At, Queue!Misroute, Queue!FailedAttempt
  <1>19. ASSUME NEW d \in Deployments, DeadlinePasses(d) PROVE Spent(e)'
    BY <1>19 DEF DeadlinePasses, Goto, Fault, Queue!Fail,
              Queue!FailedAttempt
  <1>20. ASSUME NEW d \in Deployments, PublishUnacknowledged(d) PROVE Spent(e)'
    BY <1>20 DEF PublishUnacknowledged, At, Goto, Fault
  <1>21. ASSUME NEW d \in Deployments, ApiDies(d) PROVE Spent(e)'
    BY <1>21 DEF ApiDies, Fault
  <1>22. ASSUME NEW d \in Deployments, RedisLosesTask(d) PROVE Spent(e)'
    BY <1>22 DEF RedisLosesTask, Fault, Queue!Lose
  <1>23. ASSUME DbGoesDown PROVE Spent(e)'
    BY <1>23 DEF DbGoesDown, Fault
  <1>24. ASSUME WorkerCrashes PROVE Spent(e)'
    BY <1>24 DEF WorkerCrashes, Fault, Orphan, Attempts
  <1>25. ASSUME WorkerStops PROVE Spent(e)'
    BY <1>25 DEF WorkerStops, Fault, Attempts, Queue!Requeue
  <1>26. ASSUME HostRestarts PROVE Spent(e)'
    BY <1>26 DEF HostRestarts, Fault, Orphan, Lifecycle!Halt
  <1>27. ASSUME Quiescent PROVE Spent(e)'
    BY <1>27 DEF Quiescent, vars
  <1>28. CASE UNCHANGED vars
    BY <1>28 DEF vars
  <1>29. QED
    BY <1>1, <1>2, <1>3, <1>4, <1>5, <1>6, <1>7, <1>8, <1>9, <1>10, <1>11,
       <1>12, <1>13, <1>14, <1>15, <1>16, <1>17, <1>18, <1>19, <1>20,
       <1>21, <1>22, <1>23, <1>24, <1>25, <1>26, <1>27, <1>28 DEF Next,
       WorkerStep, Environment

\* A deployment whose container outlived its attempt is never READY again:
\* every later docker run finds the name taken.
THEOREM SpentIsForever == Spec => SpentForever
  <1>1. DepInv /\ [Next]_vars => [\A d \in Deployments : Spent(d) => Spent(d)']_vars
    BY SpentStep
  <1>2. QED
    BY <1>1, DepInvHolds, PTL DEF Spec, SpentForever

(***************************************************************************)
(* Without faults, an archived task has a verdict.                         *)
(***************************************************************************)

\* FaultFreeInv holds initially.
LEMMA FaultFreeInit == Init => FaultFreeInv
  BY DEF Init, FaultFreeInv, Undisturbed, Lifecycle!LifecycleInit, Queue!QueueInit

\* Every step keeps FaultFreeInv: fault steps make faults positive.
LEMMA FaultFreeStep == DepInv /\ FaultFreeInv /\ [Next]_vars => FaultFreeInv'
  <1> SUFFICES ASSUME DepInv, FaultFreeInv, [Next]_vars PROVE FaultFreeInv'
    OBVIOUS
  <1> USE DeploymentsAssumption
      DEF DepInv, TypeOK, Phases, Running, FaultFreeInv, Undisturbed, Coherent,
          Lifecycle!LifecycleTypeOK, Queue!QueueTypeOK, rowVars, queueVars,
          envVars
  <1>1. ASSUME NEW d \in Deployments, CreateDeployment(d) PROVE FaultFreeInv'
    BY <1>1 DEF CreateDeployment
  <1>2. ASSUME NEW d \in Deployments, EnqueueAccepted(d) PROVE FaultFreeInv'
    BY <1>2 DEF EnqueueAccepted, Queue!Enqueue
  <1>3. ASSUME NEW d \in Deployments, EnqueueRefused(d) PROVE FaultFreeInv'
    BY <1>3 DEF EnqueueRefused, Queue!Enqueue
  <1>4. ASSUME NEW d \in Deployments, TakeTask(d) PROVE FaultFreeInv'
    BY <1>4 DEF TakeTask, At, Goto, Attempts, Queue!Take
  <1>5. ASSUME NEW d \in Deployments, LoadDeployment(d) PROVE FaultFreeInv'
    BY <1>5 DEF LoadDeployment, At, Goto
  <1>6. ASSUME NEW d \in Deployments, MarkBuilding(d) PROVE FaultFreeInv'
    BY <1>6 DEF MarkBuilding, At, Goto, TryMark
  <1>7. ASSUME NEW d \in Deployments, BuildImage(d) PROVE FaultFreeInv'
    BY <1>7 DEF BuildImage, At, Goto
  <1>8. ASSUME NEW d \in Deployments, BuildFails(d) PROVE FaultFreeInv'
    BY <1>8 DEF BuildFails, At, Goto
  <1>9. ASSUME NEW d \in Deployments, RunContainer(d) PROVE FaultFreeInv'
    BY <1>9 DEF RunContainer, At, Goto
  <1>10. ASSUME NEW d \in Deployments, RunFails(d) PROVE FaultFreeInv'
    BY <1>10 DEF RunFails, At, Goto
  <1>11. ASSUME NEW d \in Deployments, Publish(d) PROVE FaultFreeInv'
    BY <1>11 DEF Publish, At, Goto
  <1>12. ASSUME NEW d \in Deployments, PublishFails(d) PROVE FaultFreeInv'
    BY <1>12 DEF PublishFails, At, Goto
  <1>13. ASSUME NEW d \in Deployments, RecordFailure(d) PROVE FaultFreeInv'
    BY <1>13 DEF RecordFailure, At, Goto, TryMark
  <1>14. ASSUME NEW d \in Deployments, ReturnNil(d) PROVE FaultFreeInv'
    BY <1>14 DEF ReturnNil, At, Goto, Queue!Complete
  <1>15. ASSUME NEW d \in Deployments, ReturnError(d) PROVE FaultFreeInv'
    BY <1>15 DEF ReturnError, At, Goto, Queue!Fail, Queue!FailedAttempt
  <1>16. ASSUME NEW d \in Deployments, LeaseExpires(d) PROVE FaultFreeInv'
    BY <1>16 DEF LeaseExpires, At, Goto, Queue!Fail, Queue!FailedAttempt
  <1>17. ASSUME DbComesBack PROVE FaultFreeInv'
    BY <1>17 DEF DbComesBack
  <1>18. ASSUME NEW d \in Deployments, AgentTakesTask(d) PROVE FaultFreeInv'
    BY <1>18 DEF AgentTakesTask, At, Queue!Misroute, Queue!FailedAttempt
  <1>19. ASSUME NEW d \in Deployments, DeadlinePasses(d) PROVE FaultFreeInv'
    BY <1>19 DEF DeadlinePasses, Goto, Fault, Queue!Fail,
              Queue!FailedAttempt
  <1>20. ASSUME NEW d \in Deployments, PublishUnacknowledged(d) PROVE FaultFreeInv'
    BY <1>20 DEF PublishUnacknowledged, At, Goto, Fault
  <1>21. ASSUME NEW d \in Deployments, ApiDies(d) PROVE FaultFreeInv'
    BY <1>21 DEF ApiDies, Fault
  <1>22. ASSUME NEW d \in Deployments, RedisLosesTask(d) PROVE FaultFreeInv'
    BY <1>22 DEF RedisLosesTask, Fault, Queue!Lose
  <1>23. ASSUME DbGoesDown PROVE FaultFreeInv'
    BY <1>23 DEF DbGoesDown, Fault
  <1>24. ASSUME WorkerCrashes PROVE FaultFreeInv'
    BY <1>24 DEF WorkerCrashes, Fault, Orphan, Attempts
  <1>25. ASSUME WorkerStops PROVE FaultFreeInv'
    BY <1>25 DEF WorkerStops, Fault, Attempts, Queue!Requeue
  <1>26. ASSUME HostRestarts PROVE FaultFreeInv'
    BY <1>26 DEF HostRestarts, Fault, Orphan, Lifecycle!Halt
  <1>27. ASSUME Quiescent PROVE FaultFreeInv'
    BY <1>27 DEF Quiescent, vars
  <1>28. CASE UNCHANGED vars
    BY <1>28 DEF vars
  <1>29. QED
    BY <1>1, <1>2, <1>3, <1>4, <1>5, <1>6, <1>7, <1>8, <1>9, <1>10, <1>11,
       <1>12, <1>13, <1>14, <1>15, <1>16, <1>17, <1>18, <1>19, <1>20,
       <1>21, <1>22, <1>23, <1>24, <1>25, <1>26, <1>27, <1>28 DEF Next,
       WorkerStep, Environment

\* Without a fault of the environment, a task that used up its retries leaves a
\* row that reads FAILED, or QUEUED if the agent took every delivery.
THEOREM StuckAlwaysNeedsFault == Spec => []StuckNeedsFault
  <1>1. FaultFreeInv => StuckNeedsFault
    BY DEF FaultFreeInv, Undisturbed, StuckNeedsFault
  <1>2. QED
    BY <1>1, DepInvHolds, FaultFreeInit, FaultFreeStep, PTL DEF Spec

(***************************************************************************)
(* Deployments implements DeploymentLifecycle.                             *)
(***************************************************************************)

\* Every step is a step of the lifecycle or leaves the row and the container
\* as they are.
LEMMA RefinementStep == DepInv /\ [Next]_vars =>
                          [Lifecycle!LifecycleNext]_(Lifecycle!lifecycleVars)
  <1> SUFFICES ASSUME DepInv, [Next]_vars
               PROVE  [Lifecycle!LifecycleNext]_(Lifecycle!lifecycleVars)
    OBVIOUS
  <1> USE DEF DepInv, TypeOK, Phases, Running, Coherent, Backed,
              Lifecycle!LifecycleTypeOK, Lifecycle!LifecycleNext,
              Lifecycle!lifecycleVars, rowVars, queueVars, envVars
  <1>1. ASSUME NEW d \in Deployments, CreateDeployment(d)
         PROVE  [Lifecycle!LifecycleNext]_(Lifecycle!lifecycleVars)
    BY <1>1 DEF CreateDeployment, Lifecycle!Insert
  <1>2. ASSUME NEW d \in Deployments, EnqueueAccepted(d)
         PROVE  [Lifecycle!LifecycleNext]_(Lifecycle!lifecycleVars)
    BY <1>2 DEF EnqueueAccepted, Queue!Enqueue
  <1>3. ASSUME NEW d \in Deployments, EnqueueRefused(d)
         PROVE  [Lifecycle!LifecycleNext]_(Lifecycle!lifecycleVars)
    BY <1>3 DEF EnqueueRefused, Queue!Enqueue
  <1>4. ASSUME NEW d \in Deployments, TakeTask(d)
         PROVE  [Lifecycle!LifecycleNext]_(Lifecycle!lifecycleVars)
    BY <1>4 DEF TakeTask, At, Goto, Attempts, Queue!Take
  <1>5. ASSUME NEW d \in Deployments, LoadDeployment(d)
         PROVE  [Lifecycle!LifecycleNext]_(Lifecycle!lifecycleVars)
    BY <1>5 DEF LoadDeployment, At, Goto
  <1>6. ASSUME NEW d \in Deployments, MarkBuilding(d)
         PROVE  [Lifecycle!LifecycleNext]_(Lifecycle!lifecycleVars)
    BY <1>6 DEF MarkBuilding, At, Goto, TryMark, Lifecycle!Mark
  <1>7. ASSUME NEW d \in Deployments, BuildImage(d)
         PROVE  [Lifecycle!LifecycleNext]_(Lifecycle!lifecycleVars)
    BY <1>7 DEF BuildImage, At, Goto
  <1>8. ASSUME NEW d \in Deployments, BuildFails(d)
         PROVE  [Lifecycle!LifecycleNext]_(Lifecycle!lifecycleVars)
    BY <1>8 DEF BuildFails, At, Goto
  <1>9. ASSUME NEW d \in Deployments, RunContainer(d)
         PROVE  [Lifecycle!LifecycleNext]_(Lifecycle!lifecycleVars)
    BY <1>9 DEF RunContainer, At, Goto, Lifecycle!CreateContainer
  <1>10. ASSUME NEW d \in Deployments, RunFails(d)
         PROVE  [Lifecycle!LifecycleNext]_(Lifecycle!lifecycleVars)
    BY <1>10 DEF RunFails, At, Goto, Lifecycle!CreateContainer
  <1>11. ASSUME NEW d \in Deployments, Publish(d)
         PROVE  [Lifecycle!LifecycleNext]_(Lifecycle!lifecycleVars)
    BY <1>11 DEF Publish, At, Goto, Lifecycle!PublishOnce
  <1>12. ASSUME NEW d \in Deployments, PublishFails(d)
         PROVE  [Lifecycle!LifecycleNext]_(Lifecycle!lifecycleVars)
    BY <1>12 DEF PublishFails, At, Goto
  <1>13. ASSUME NEW d \in Deployments, RecordFailure(d)
         PROVE  [Lifecycle!LifecycleNext]_(Lifecycle!lifecycleVars)
    BY <1>13 DEF RecordFailure, At, Goto, TryMark, Lifecycle!Mark
  <1>14. ASSUME NEW d \in Deployments, ReturnNil(d)
         PROVE  [Lifecycle!LifecycleNext]_(Lifecycle!lifecycleVars)
    BY <1>14 DEF ReturnNil, At, Goto, Queue!Complete
  <1>15. ASSUME NEW d \in Deployments, ReturnError(d)
         PROVE  [Lifecycle!LifecycleNext]_(Lifecycle!lifecycleVars)
    BY <1>15 DEF ReturnError, At, Goto, Queue!Fail, Queue!FailedAttempt
  <1>16. ASSUME NEW d \in Deployments, LeaseExpires(d)
         PROVE  [Lifecycle!LifecycleNext]_(Lifecycle!lifecycleVars)
    BY <1>16 DEF LeaseExpires, At, Goto, Queue!Fail, Queue!FailedAttempt
  <1>17. ASSUME DbComesBack
         PROVE  [Lifecycle!LifecycleNext]_(Lifecycle!lifecycleVars)
    BY <1>17 DEF DbComesBack
  <1>18. ASSUME NEW d \in Deployments, AgentTakesTask(d)
         PROVE  [Lifecycle!LifecycleNext]_(Lifecycle!lifecycleVars)
    BY <1>18 DEF AgentTakesTask, At, Queue!Misroute, Queue!FailedAttempt
  <1>19. ASSUME NEW d \in Deployments, DeadlinePasses(d)
         PROVE  [Lifecycle!LifecycleNext]_(Lifecycle!lifecycleVars)
    BY <1>19 DEF DeadlinePasses, Goto, Fault, Queue!Fail,
              Queue!FailedAttempt
  <1>20. ASSUME NEW d \in Deployments, PublishUnacknowledged(d)
         PROVE  [Lifecycle!LifecycleNext]_(Lifecycle!lifecycleVars)
    BY <1>20 DEF PublishUnacknowledged, At, Goto, Fault,
              Lifecycle!PublishOnce
  <1>21. ASSUME NEW d \in Deployments, ApiDies(d)
         PROVE  [Lifecycle!LifecycleNext]_(Lifecycle!lifecycleVars)
    BY <1>21 DEF ApiDies, Fault
  <1>22. ASSUME NEW d \in Deployments, RedisLosesTask(d)
         PROVE  [Lifecycle!LifecycleNext]_(Lifecycle!lifecycleVars)
    BY <1>22 DEF RedisLosesTask, Fault, Queue!Lose
  <1>23. ASSUME DbGoesDown
         PROVE  [Lifecycle!LifecycleNext]_(Lifecycle!lifecycleVars)
    BY <1>23 DEF DbGoesDown, Fault
  <1>24. ASSUME WorkerCrashes
         PROVE  [Lifecycle!LifecycleNext]_(Lifecycle!lifecycleVars)
    BY <1>24 DEF WorkerCrashes, Fault, Orphan, Attempts
  <1>25. ASSUME WorkerStops
         PROVE  [Lifecycle!LifecycleNext]_(Lifecycle!lifecycleVars)
    BY <1>25 DEF WorkerStops, Fault, Attempts, Queue!Requeue
  <1>26. ASSUME HostRestarts
         PROVE  [Lifecycle!LifecycleNext]_(Lifecycle!lifecycleVars)
    BY <1>26 DEF HostRestarts, Fault, Orphan, Lifecycle!Halt
  <1>27. ASSUME Quiescent
         PROVE  [Lifecycle!LifecycleNext]_(Lifecycle!lifecycleVars)
    BY <1>27 DEF Quiescent, vars
  <1>28. CASE UNCHANGED vars
    BY <1>28 DEF vars
  <1>29. QED
    BY <1>1, <1>2, <1>3, <1>4, <1>5, <1>6, <1>7, <1>8, <1>9, <1>10, <1>11,
       <1>12, <1>13, <1>14, <1>15, <1>16, <1>17, <1>18, <1>19, <1>20,
       <1>21, <1>22, <1>23, <1>24, <1>25, <1>26, <1>27, <1>28 DEF Next,
       WorkerStep, Environment

\* The queue, the worker and all their faults implement the lifecycle:
\* published at most once, over a container that exists, nothing taken back.
THEOREM Refinement == Spec => ImplementsLifecycle
  <1>1. Init => Lifecycle!LifecycleInit
    BY DEF Init
  <1>2. QED
    BY <1>1, RefinementStep, DepInvHolds, PTL
       DEF Spec, ImplementsLifecycle, Lifecycle!LifecycleSpec
=============================================================================
