------------------------------ MODULE JobContract ------------------------------
(***************************************************************************)
(* What the operator promises of a DistributedTraining object, without     *)
(* reconciles, patches, operations or a work queue: in which order a job   *)
(* passes its stages, and which node pool and which backend job it has     *)
(* meanwhile.  A job is a name; what happens to one job does not depend on *)
(* another.                                                                *)
(***************************************************************************)
CONSTANT Jobs

VARIABLES
    stage,    \* stage[j]: "none", or the phase of the job
    leaving,  \* leaving[j]: somebody wants the job deleted
    lease,    \* lease[j]: the node pool rented for j
    work      \* work[j]: the backend job

vars == <<stage, leaving, lease, work>>

\* A pool is ordered, then held or broken, and costs money until it is returned;
\* after a while it is gone.
NotPaid == {"none", "returned"}

Init ==
    /\ stage = [j \in Jobs |-> "none"]
    /\ leaving = [j \in Jobs |-> FALSE]
    /\ lease = [j \in Jobs |-> "none"]
    /\ work = [j \in Jobs |-> "none"]

-----------------------------------------------------------------------------
(***************************************************************************)
(* The job.                                                                *)
(***************************************************************************)
StageTo(j, next) ==
    /\ stage' = [stage EXCEPT ![j] = next]
    /\ UNCHANGED <<leaving, lease, work>>

\* A backend job of an earlier object of this name may still be there.
Submit(j) == stage[j] = "none" /\ lease[j] \in NotPaid /\ StageTo(j, "")

Provision(j) == stage[j] = "" /\ StageTo(j, "Provisioning")

BeReady(j) == stage[j] = "Provisioning" /\ lease[j] = "held" /\ StageTo(j, "Ready")

Run(j) == stage[j] = "Ready" /\ lease[j] = "held" /\ StageTo(j, "Running")

\* Somebody may have deleted the backend job after it succeeded.
Collect(j) ==
    /\ stage[j] = "Running"
    /\ work[j] \in {"succeeded", "none"}
    /\ StageTo(j, "Collecting")

Succeed(j) == stage[j] = "Collecting" /\ lease[j] \in NotPaid /\ StageTo(j, "Succeeded")

\* A job that fails may keep its pool until it is deleted.
Fail(j) ==
    /\ stage[j] \in {"", "Provisioning", "Ready", "Running"}
    /\ StageTo(j, "Failed")

Leave(j) ==
    /\ stage[j] # "none" /\ ~leaving[j]
    /\ leaving' = [leaving EXCEPT ![j] = TRUE]
    /\ UNCHANGED <<stage, lease, work>>

\* Nothing that is paid for is left behind.
Vanish(j) ==
    /\ stage[j] # "none"
    /\ lease[j] \in NotPaid
    /\ stage' = [stage EXCEPT ![j] = "none"]
    /\ leaving' = [leaving EXCEPT ![j] = FALSE]
    /\ UNCHANGED <<lease, work>>

-----------------------------------------------------------------------------
(***************************************************************************)
(* Its pool.                                                               *)
(***************************************************************************)
LeaseTo(j, next) ==
    /\ lease' = [lease EXCEPT ![j] = next]
    /\ UNCHANGED <<stage, leaving, work>>

Order(j) == stage[j] = "Provisioning" /\ lease[j] = "none" /\ LeaseTo(j, "ordered")

\* The cloud makes the pool, or fails to and may leave a broken one.
Deliver(j) ==
    /\ lease[j] = "ordered"
    /\ \E next \in {"held", "broken", "none"} : LeaseTo(j, next)

\* Never while the job waits for its backend job or trains.
GiveBack(j) ==
    /\ lease[j] \in {"held", "broken"}
    /\ leaving[j] \/ stage[j] \in {"Provisioning", "Collecting"}
    /\ LeaseTo(j, "returned")

Expire(j) == lease[j] = "returned" /\ LeaseTo(j, "none")

-----------------------------------------------------------------------------
(***************************************************************************)
(* Its backend job.                                                        *)
(***************************************************************************)
WorkTo(j, next) ==
    /\ work' = [work EXCEPT ![j] = next]
    /\ UNCHANGED <<stage, leaving, lease>>

\* Once, and again when it was deleted while the job was Running.
Start(j) ==
    /\ stage[j] \in {"Ready", "Running"}
    /\ lease[j] = "held"
    /\ work[j] = "none" /\ WorkTo(j, "pending")

\* Its pods find no node but those of the job's own pool.
Train(j) == work[j] = "pending" /\ lease[j] = "held" /\ WorkTo(j, "running")

End(j) ==
    /\ work[j] = "running"
    /\ \E next \in {"succeeded", "failed"} : WorkTo(j, next)

\* Deleted by a user, or collected with the object that owned it.
Drop(j) == work[j] # "none" /\ WorkTo(j, "none")

-----------------------------------------------------------------------------
Step(j) ==
    \/ Submit(j) \/ Provision(j) \/ BeReady(j) \/ Run(j) \/ Collect(j)
    \/ Succeed(j) \/ Fail(j) \/ Leave(j) \/ Vanish(j)
    \/ Order(j) \/ Deliver(j) \/ GiveBack(j) \/ Expire(j)
    \/ Start(j) \/ Train(j) \/ End(j) \/ Drop(j)

Next == \E j \in Jobs : Step(j)

Spec == Init /\ [][Next]_vars
===============================================================================
