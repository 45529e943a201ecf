--------------------------- MODULE TrainingBackend ---------------------------
(***************************************************************************)
(* The backend job a DistributedTraining owns: a PyTorchJob run by the     *)
(* Kubeflow training operator or a SparkApplication run by the Spark       *)
(* operator (internal/backend).  Its pods carry the node selector of the   *)
(* job's pool, so it starts only on a running pool with a Ready node.      *)
(*                                                                         *)
(* The reads and writes of the operator (apply, GetPhase, GetStartTime)    *)
(* are operators used by the module Reconciler; the actions at the end are *)
(* what the backend's own controller, its users and the garbage collector  *)
(* do.                                                                     *)
(***************************************************************************)
EXTENDS JobSpecs

VARIABLE
    bj     \* bj[j]: the backend job of the object called j

BackendState == {"none", "pending", "running", "succeeded", "failed"}

\* owner is the incarnation of the DistributedTraining in ownerReferences.
BackendJob == [state : BackendState, owner : Nat]

NoBackendJob == [state |-> "none", owner |-> 0]

BackendTypeOK == bj \in [Jobs -> BackendJob]

BackendInit == bj = [j \in Jobs |-> NoBackendJob]

\* Server-side apply: creates the job, or takes over one that is there already.
Apply(j, owner) ==
    bj' = [bj EXCEPT ![j] =
             [state |-> IF @.state = "none" THEN "pending" ELSE @.state,
              owner |-> owner]]

\* Mutant of BackendPhase: a finished job is a successful one.
EndedIsSucceeded(j) ==
    IF bj[j].state \in {"succeeded", "failed"} THEN "Succeeded" ELSE "Running"

\* GetPhase: a job without a Succeeded or Failed condition is Running.
BackendPhase(j) ==
    IF bj[j].state = "succeeded" THEN "Succeeded"
    ELSE IF bj[j].state = "failed" THEN "Failed"
    ELSE "Running"

\* GetStartTime: Kubeflow sets status.startTime once the pods run; for Spark the
\* operator takes its own clock.
StartTimeKnown(j, backend) ==
    \/ backend = "spark"
    \/ bj[j].state \in {"running", "succeeded", "failed"}

-----------------------------------------------------------------------------
BackendStart(j) ==
    /\ bj[j].state = "pending"
    /\ bj' = [bj EXCEPT ![j].state = "running"]

BackendFinish(j) ==
    /\ bj[j].state = "running"
    /\ \E result \in {"succeeded", "failed"} :
         bj' = [bj EXCEPT ![j].state = result]

\* The backend job goes away: a user deletes it, or the garbage collector
\* after its owner is gone.
BackendVanish(j) ==
    /\ bj[j].state # "none"
    /\ bj' = [bj EXCEPT ![j] = NoBackendJob]
=============================================================================
