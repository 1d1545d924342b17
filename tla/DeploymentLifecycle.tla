------------------------ MODULE DeploymentLifecycle ------------------------
(***************************************************************************)
(* What the deployments table and the Docker daemon promise the rest of    *)
(* the system about a deployment, whatever the queue, the worker and its   *)
(* faults do: a deployment is published (READY, with its container name    *)
(* and preview URL recorded) at most once, only over a container that      *)
(* exists, and what was recorded is never taken back.  Deployments.tla     *)
(* is the detailed model that implements this one; ProdRouting.tla builds  *)
(* on it.                                                                  *)
(***************************************************************************)
CONSTANT Deployments   \* the deployment ids that can ever be created

VARIABLES status,      \* deployments.status, "none" before the row exists
          recorded,    \* deployments.container_name and preview_url are set
          container    \* the Docker container opencel-deploy-<id>

lifecycleVars == <<status, recorded, container>>

Statuses == {"none", "QUEUED", "BUILDING", "READY", "FAILED"}
ContainerStates == {"none", "running", "exited"}

LifecycleTypeOK ==
  /\ status \in [Deployments -> Statuses]
  /\ recorded \in [Deployments -> BOOLEAN]
  /\ container \in [Deployments -> ContainerStates]

LifecycleInit ==
  /\ status = [d \in Deployments |-> "none"]
  /\ recorded = [d \in Deployments |-> FALSE]
  /\ container = [d \in Deployments |-> "none"]

\* A row is inserted with status QUEUED.
Insert(d) ==
  /\ status[d] = "none"
  /\ status' = [status EXCEPT ![d] = "QUEUED"]
  /\ UNCHANGED <<recorded, container>>

\* An attempt marks the row BUILDING or FAILED, also over a READY row.
Mark(d, s) ==
  /\ status[d] # "none"
  /\ s \in {"BUILDING", "FAILED"}
  /\ status' = [status EXCEPT ![d] = s]
  /\ UNCHANGED <<recorded, container>>

\* Docker creates the container, started or not; its name is then taken.
CreateContainer(d, c) ==
  /\ status[d] # "none"
  /\ container[d] = "none"
  /\ c \in {"running", "exited"}
  /\ container' = [container EXCEPT ![d] = c]
  /\ UNCHANGED <<status, recorded>>

\* The row becomes READY with the container's name: once in its life.
PublishOnce(d) ==
  /\ status[d] # "none"
  /\ container[d] # "none"
  /\ ~recorded[d]
  /\ status' = [status EXCEPT ![d] = "READY"]
  /\ recorded' = [recorded EXCEPT ![d] = TRUE]
  /\ UNCHANGED container

\* The host restarts: containers were run without a restart policy.
Halt ==
  /\ container' = [d \in Deployments |->
                     IF container[d] = "running" THEN "exited" ELSE container[d]]
  /\ UNCHANGED <<status, recorded>>

LifecycleNext ==
  \/ \E d \in Deployments :
       \/ Insert(d)
       \/ \E s \in {"BUILDING", "FAILED"} : Mark(d, s)
       \/ \E c \in {"running", "exited"} : CreateContainer(d, c)
       \/ PublishOnce(d)
  \/ Halt

LifecycleSpec == LifecycleInit /\ [][LifecycleNext]_lifecycleVars
=============================================================================
