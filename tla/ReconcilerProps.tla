---------------------------- MODULE ReconcilerProps ----------------------------
(***************************************************************************)
(* What the operator promises about jobs, node pools and backend jobs.     *)
(* Which of these hold depends on what may fail and on whether two jobs    *)
(* name the same pool: the configurations say under which constants each   *)
(* is checked.                                                             *)
(***************************************************************************)
EXTENDS Reconciler

Live(j) == cr[j].exists /\ ~cr[j].deleting

PhaseOf(j) == cr[j].status.phase

\* A pool that costs money and that nobody is deleting.
Billed(p) == pool[p].state \in {"creating", "running", "error"}

-----------------------------------------------------------------------------
(***************************************************************************)
(* No orphaned infrastructure (distributedtraining_controller.go:140-141): *)
(* a pool that is not being deleted belongs to an object that exists and   *)
(* whose finalizer will make the operator delete the pool.  To break it    *)
(* takes a finalizer that is removed, or skipped, while the pool is there. *)
(***************************************************************************)
PoolsAreClaimed ==
    \A p \in Pools : Billed(p) =>
        \A j \in pool[p].owner : cr[j].exists /\ cr[j].finalizer

(***************************************************************************)
(* A job is in phase Ready or Running only while its own pool runs: the    *)
(* backend job is never submitted to a pool that is missing, unfinished or *)
(* on its way out.  Crashes and failed patches between CreateNodePool, the *)
(* poll and the two patches that end reconcileProvisioning must not break  *)
(* this.                                                                   *)
(***************************************************************************)
TrainsOnOwnPool ==
    \A j \in Jobs :
        Live(j) /\ PhaseOf(j) \in {"Ready", "Running"} =>
            /\ pool[PoolOf(j)].state = "running"
            /\ pool[PoolOf(j)].owner = {j}

(***************************************************************************)
(* status.gkeOperationID always names an operation on the job's own pool,  *)
(* of the kind its phase waits for: reconcileProvisioning polls a creation *)
(* and reconcileSucceeded a deletion, although both use the same field.    *)
(***************************************************************************)
OperationMatchesPhase ==
    \A j \in Jobs :
        LET kind == IF PhaseOf(j) = "Provisioning" THEN "create" ELSE "delete" IN
        cr[j].exists /\ cr[j].status.op # 0 /\ PhaseOf(j) # "Failed" =>
            /\ PhaseOf(j) \in {"Provisioning", "Collecting", "Succeeded"}
            /\ \E o \in operations :
                 /\ o.id = cr[j].status.op
                 /\ o.kind = kind
                 /\ o.pool = PoolOf(j)

(***************************************************************************)
(* While the informer lags, all three hold until a call fails: a handler   *)
(* run on a stale object does not make them false by itself.               *)
(***************************************************************************)
OrderlyUntilFault ==
    faults = 0 => PoolsAreClaimed /\ TrainsOnOwnPool /\ OperationMatchesPhase

(***************************************************************************)
(* The pool of a job whose node count the solver chose has the number of   *)
(* nodes that is in status.resolvedTopology now: the answer a pool was     *)
(* created from is never replaced, whatever is retried afterwards, also    *)
(* when the object is deleted and created again under the same name.       *)
(***************************************************************************)
PoolHasResolvedSize ==
    \A j \in Jobs :
        /\ cr[j].exists /\ cr[j].spec.objective
        /\ pool[PoolOf(j)].owner = {j} /\ Billed(PoolOf(j))
        => pool[PoolOf(j)].nodes = cr[j].status.nodes

(***************************************************************************)
(* trainingStartTime is the start of the backend job that is there now: a  *)
(* PyTorchJob that has been recreated and has not started has none.  A     *)
(* start left over from the deleted run would inflate the training time    *)
(* and the cost (reconcileRunning resets it before it applies the job).    *)
(***************************************************************************)
StartBelongsToThisRun ==
    \A j \in Jobs :
        /\ cr[j].exists /\ cr[j].status.trainStart
        /\ cr[j].spec.backend = "pytorch"
        => bj[j].state # "pending"

(***************************************************************************)
(* A job whose results are collected has trained: its backend job ended    *)
(* with success, unless somebody deleted it since.                         *)
(***************************************************************************)
CollectsOnlySuccess ==
    \A j \in Jobs :
        cr[j].exists /\ PhaseOf(j) \in {"Collecting", "Succeeded"} =>
            bj[j].state \in {"succeeded", "none"}

(***************************************************************************)
(* A Succeeded job has everything the phases before were to record, also   *)
(* when patches failed and handlers were run again: it was resolved,       *)
(* provisioned, named and finished, and its node count is back to 0.       *)
(***************************************************************************)
SucceededIsComplete ==
    \A j \in Jobs :
        LET s == cr[j].status IN
        cr[j].exists /\ s.phase = "Succeeded" =>
            /\ s.start /\ s.provStart /\ s.provTime /\ s.jobName /\ s.finish
            /\ s.size = 0
            /\ cr[j].spec.objective => s.nodes \in cr[j].spec.solutions


(***************************************************************************)
(* The solver learns from succeeded runs only                              *)
(* (distributedtraininghistory_types.go:23-27): a job with a history entry *)
(* is past its training and never fails any more.                          *)
(***************************************************************************)
HistoryOnlyOfSuccess ==
    \A j \in Jobs :
        cr[j].exists /\ hist[j].entries > 0 =>
            PhaseOf(j) \in {"Collecting", "Succeeded"}

-----------------------------------------------------------------------------
(***************************************************************************)
(* A job moves through the phases in their order, may fail from any of the *)
(* first four, and Succeeded and Failed are final.                         *)
(***************************************************************************)
PhaseSteps ==
    {<<"", "Provisioning">>, <<"", "Failed">>,
     <<"Provisioning", "Ready">>, <<"Provisioning", "Failed">>,
     <<"Ready", "Running">>, <<"Ready", "Failed">>,
     <<"Running", "Collecting">>, <<"Running", "Failed">>,
     <<"Collecting", "Succeeded">>}

PhasesInOrder ==
    [][\A j \in Jobs :
         cr[j].exists /\ cr'[j].exists =>
            \/ cr'[j].status.phase = PhaseOf(j)
            \/ <<PhaseOf(j), cr'[j].status.phase>> \in PhaseSteps]_vars

(***************************************************************************)
(* A stale read never takes a job back: whatever is patched blindly over a *)
(* newer status, a job that has not failed only moves forward.  (A failed  *)
(* one may come back: a handler that reads an older version, still in      *)
(* Provisioning, can write Ready over Failed.)                             *)
(***************************************************************************)
NeverTakenBack ==
    [][\A j \in Jobs :
         cr[j].exists /\ cr'[j].exists /\ PhaseOf(j) # "Failed" =>
            \/ cr'[j].status.phase = PhaseOf(j)
            \/ <<PhaseOf(j), cr'[j].status.phase>> \in PhaseSteps]_vars

(***************************************************************************)
(* A pool is taken from a job only when the job is done with it: never     *)
(* while the job waits for its backend job or the backend job trains.      *)
(***************************************************************************)
NoPoolTakenFromTraining ==
    [][\A j \in Jobs :
         /\ pool[PoolOf(j)].state = "running"
         /\ pool'[PoolOf(j)].state = "deleting"
         /\ j \in pool[PoolOf(j)].owner
         => cr[j].deleting \/ PhaseOf(j) \in {"Provisioning", "Collecting"}]_vars

(***************************************************************************)
(* The solver runs once per object: resolvedTopology is never rewritten    *)
(* (feature.md:79), although reconcilePending may be run again after the   *)
(* patch that stored it.                                                   *)
(***************************************************************************)
ResolvedOnce ==
    [][\A j \in Jobs :
         cr[j].exists /\ cr'[j].exists /\ cr[j].status.nodes # 0 =>
            cr'[j].status.nodes = cr[j].status.nodes]_vars

-----------------------------------------------------------------------------
(***************************************************************************)
(* Every job ends: it succeeds or fails, or somebody deletes it.           *)
(***************************************************************************)
JobEnds ==
    \A j \in Jobs :
        Live(j) ~> (~Live(j) \/ PhaseOf(j) \in {"Succeeded", "Failed"})

(***************************************************************************)
(* The finalizer never blocks a deletion for good: an object that is being *)
(* deleted goes away, also when its pool has an operation in flight.       *)
(***************************************************************************)
DeletionCompletes == \A j \in Jobs : cr[j].deleting ~> ~cr[j].deleting

(***************************************************************************)
(* The pool of a job that is gone or has succeeded is released in the end. *)
(***************************************************************************)
PoolIsReleased ==
    \A p \in Pools :
        (\E j \in pool[p].owner : ~cr[j].exists \/ PhaseOf(j) = "Succeeded")
            ~> pool[p].state = "absent"
================================================================================
