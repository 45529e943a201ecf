----------------------------- MODULE ReconcilerInv -----------------------------
(***************************************************************************)
(* The inductive invariant behind PoolsAreClaimed: why no pool is orphaned *)
(* when the informer is up to date and GKE keeps its word about deletions. *)
(***************************************************************************)
EXTENDS ReconcilerProps

\* The pool of job j, created for j and not on its way out.
HasPool(j) == j \in pool[PoolOf(j)].owner /\ Billed(PoolOf(j))

Creating(j) == j \in pool[PoolOf(j)].owner /\ pool[PoolOf(j)].state = "creating"

\* The worker is past the finalizer of its object.
AtWork == pc \notin {"idle", "addFinalizer"}

Provisioned == {"Ready", "Running", "Collecting", "Succeeded"}

\* id is empty, or names an operation on the pool of j that GKE has started.
OwnOperation(id, j) ==
    /\ id <= lastOp
    /\ \A o \in operations : o.id = id => o.pool = PoolOf(j)

Unfinished(id) == \A o \in operations : o.id = id => o.status = "running"

CloudInv ==
    /\ \A o \in operations : o.id <= lastOp
    /\ \A p \in Pools : \A j \in pool[p].owner : PoolOf(j) = p

(***************************************************************************)
(* An object: as long as it may have a pool, it keeps the finalizer and is *)
(* not Succeeded (then the finalizer would delete nothing).  While its     *)
(* pool is being created, polling its operation cannot say "done".         *)
(***************************************************************************)
ObjectInv(j) ==
    /\ cache[j] = cr[j]
    /\ cr[j].deleting => cr[j].finalizer
    /\ HasPool(j) =>
         cr[j].exists /\ cr[j].finalizer /\ cr[j].status.phase # "Succeeded"
    /\ Creating(j) =>
         cr[j].status.phase \notin Provisioned /\ Unfinished(cr[j].status.op)
    /\ OwnOperation(cr[j].status.op, j)

\* What the handlers have found out about the pool when they make these calls.
PoolIsGone == {"removeFinalizer", "releaseOp", "history", "results"}
PoolIsMade == {"count", "apply", "jobName", "getPhase", "resetStart", "getStart",
               "trainStart", "release"}

(***************************************************************************)
(* The worker: the object it works on is there and keeps its finalizer;    *)
(* the phase in memory is the stored one.                                  *)
(***************************************************************************)
WorkerInv ==
    /\ pc \notin {"idle", "addFinalizer"} =>
         /\ cr[job].exists /\ cr[job].finalizer
         /\ obj.phase = cr[job].status.phase
    /\ pc \in {"finalDelete", "removeFinalizer"} => cr[job].deleting
    /\ pc \in {"provStart", "create", "poll"} =>
         obj.phase = "Provisioning" /\ obj.op = cr[job].status.op
    /\ pc = "create" => obj.op = 0
    /\ pc \in {"createOp", "releaseOp"} => OwnOperation(arg, job)
    /\ pc = "createOp" /\ Creating(job) => Unfinished(arg)
    /\ pc \in PoolIsMade => ~Creating(job)
    /\ pc \in PoolIsGone => ~HasPool(job)
    /\ pc \in {"getStart", "trainStart"} => to # "Succeeded"
    /\ pc = "setPhase" /\ to \in Provisioned => ~Creating(job)
    /\ pc = "setPhase" /\ to = "Succeeded" => ~HasPool(job)

(***************************************************************************)
(* PoolsAreClaimed is not inductive: this is.                              *)
(***************************************************************************)
ClaimInv == CloudInv /\ (\A j \in Jobs : ObjectInv(j)) /\ WorkerInv

\* Under these assumptions; the run orphaned_pool shows what happens without.
Reliable ==
    /\ ~CacheLag
    /\ "deleteCall" \notin FaultKinds
    /\ "deleteOp" \notin FaultKinds
=================================================================================
