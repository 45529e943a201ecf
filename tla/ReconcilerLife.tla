---------------------------- MODULE ReconcilerLife ----------------------------
(***************************************************************************)
(* The inductive invariants behind what ReconcilerProps says of the life   *)
(* of one job.  LifeInv needs nothing but a current cache; HoldInv and     *)
(* SizeInv build on it and say which pool the job has meanwhile.           *)
(***************************************************************************)
EXTENDS ReconcilerInv

Past(phase) ==
    CASE phase = "Provisioning" -> {"Provisioning", "Ready", "Running", "Collecting", "Succeeded"}
      [] phase = "Ready"        -> {"Ready", "Running", "Collecting", "Succeeded"}
      [] phase = "Running"      -> {"Running", "Collecting", "Succeeded"}
      [] phase = "Collecting"   -> {"Collecting", "Succeeded"}

Follows(next, phase) == next = phase \/ <<phase, next>> \in PhaseSteps

\* GKE has started an operation id of this kind on the pool of j.
Started(id, kind, j) ==
    \E o \in operations : o.id = id /\ o.kind = kind /\ o.pool = PoolOf(j)

\* No SparkApplication can be behind the name j, whatever spec it has.
NeverSpark(j) == \A s \in Specs[j] : s.backend # "spark"

-----------------------------------------------------------------------------
(***************************************************************************)
(* What a status s may say of j, whose spec is d, at each phase: the       *)
(* operation it waits for, what has been recorded on the way, and how they *)
(* agree with the backend job and the history.                             *)
(***************************************************************************)
OperationFits(j, s) ==
    s.op # 0 /\ s.phase # "Failed" =>
        \/ s.phase = "Provisioning" /\ Started(s.op, "create", j)
        \/ s.phase \in Past("Collecting") /\ Started(s.op, "delete", j)

RecordFits(s) ==
    /\ s.phase # "Pending"
    /\ s.phase \in Past("Provisioning") => s.start
    /\ s.phase \in Past("Ready") => s.provStart /\ s.provTime
    /\ s.phase \in Past("Running") => s.jobName
    /\ s.phase = "Succeeded" => s.finish /\ s.size = 0

NodesFit(d, s) ==
    ~SpecEdits /\ d.objective =>
        /\ s.nodes # 0 => s.nodes \in d.solutions
        /\ s.phase \in Past("Provisioning") => s.nodes # 0

TrainingFits(j, s) ==
    /\ s.phase \in {"", "Provisioning", "Ready"} => ~s.trainStart
    /\ s.trainStart /\ NeverSpark(j) => bj[j].state # "pending"
    /\ s.phase \in Past("Collecting") => bj[j].state \in {"succeeded", "none"}
    /\ hist[j].entries > 0 => s.phase \in Past("Collecting")

Fits(j, d, s) ==
    OperationFits(j, s) /\ RecordFits(s) /\ NodesFit(d, s) /\ TrainingFits(j, s)

LifeOf(j) ==
    /\ cache[j] = cr[j]
    /\ cr[j].deleting => cr[j].finalizer
    /\ cr[j].exists => cr[j].spec \in Specs[j] /\ Fits(j, cr[j].spec, cr[j].status)

(***************************************************************************)
(* The calls a handler makes at one phase, and what it knows there.        *)
(***************************************************************************)
CallsAt(phase) ==
    CASE phase = ""             -> {"startTime", "solve"}
      [] phase = "Provisioning" -> {"provStart", "create", "createOp", "poll", "cleanup", "count"}
      [] phase = "Running"      -> {"getPhase", "resetStart", "getStart", "trainStart"}
      [] phase = "Collecting"   -> {"release", "releaseOp", "history", "results"}
      [] phase = "Succeeded"    -> {"pollDelete", "clearOp"}

PhaseKnown ==
    /\ \A phase \in {"", "Provisioning", "Running", "Collecting", "Succeeded"} :
         pc \in CallsAt(phase) => obj.phase = phase
    /\ pc \in {"apply", "jobName"} => obj.phase \in {"Ready", "Running"}

(***************************************************************************)
(* The status in memory is the stored one; after a patch whose error is    *)
(* ignored only gkeOperationID and trainingStartTime may be ahead of it.   *)
(***************************************************************************)
MemoryInv ==
    /\ cr[job].exists /\ cr[job].finalizer
    /\ obj = [cr[job].status EXCEPT !.op = obj.op, !.trainStart = obj.trainStart]
    /\ pc \notin {"history", "results", "setPhase"} => obj = cr[job].status
    /\ ~SpecEdits => spec = cr[job].spec
    /\ \E s \in Specs[job] : s.backend = spec.backend

CallInv ==
    /\ PhaseKnown
    /\ pc = "solve" => obj.start /\ obj.nodes = 0
    /\ pc \in CallsAt("Provisioning") \ {"provStart"} => obj.provStart
    /\ pc = "create" => obj.op = 0
    /\ pc = "createOp" => Started(arg, "create", job)
    /\ pc = "apply" => ~obj.trainStart
    /\ pc \in {"getStart", "trainStart"} =>
         /\ to \in {"Running", "Collecting", "Failed"}
         /\ to = "Collecting" => bj[job].state \in {"succeeded", "none"}
    /\ pc = "trainStart" /\ NeverSpark(job) => bj[job].state # "pending"
    /\ pc = "releaseOp" => Started(arg, "delete", job)
    /\ pc \in {"finalDelete", "removeFinalizer"} => cr[job].deleting

\* The phase that is about to be written follows the stored one, and fits.
NextPhaseInv ==
    /\ Follows(to, cr[job].status.phase)
    /\ Fits(job, cr[job].spec, [cr[job].status EXCEPT !.phase = to])

LifeInv ==
    /\ \A j \in Jobs : LifeOf(j)
    /\ AtWork => MemoryInv /\ CallInv
    /\ pc = "setPhase" => NextPhaseInv

\* One step of a job that is there before and after it.
LifeStep ==
    \A j \in Jobs :
        cr[j].exists /\ cr'[j].exists =>
            /\ Follows(cr'[j].status.phase, PhaseOf(j))
            /\ \/ cr'[j].status.nodes = cr[j].status.nodes
               \/ cr[j].status.nodes = 0 /\ PhaseOf(j) = ""

-----------------------------------------------------------------------------
\* Two objects never name the same pool.
PoolsApart == \A j, k \in Jobs : PoolOf(j) = PoolOf(k) => j = k

\* A poll that fails is taken for a failed creation: the pool is deleted.  The job
\* must then be failed without a second fault.
PollsCount == "pollCall" \in FaultKinds => {"api", "crash"} \cap FaultKinds = {}

OwnRunning(j) ==
    pool[PoolOf(j)].state = "running" /\ pool[PoolOf(j)].owner = {j}

\* Of the operations on one pool at most one is running, and the pool shows it.
OperationsInv ==
    /\ CloudInv
    /\ \A o, q \in operations :
         o.id = q.id \/ (o.pool = q.pool /\ o.status = "running" /\ q.status = "running")
           => o = q
    /\ \A o \in operations : o.status = "running" =>
         pool[o.pool].state = IF o.kind = "create" THEN "creating" ELSE "deleting"

\* The pool that the creation id made for j is still j's: it is not deleted
\* before the job has moved on.
Granted(id, j) ==
    \A o \in operations : o.id = id =>
        /\ o.status = "running" => pool[PoolOf(j)].owner = {j}
        /\ o.status = "done" => OwnRunning(j)

HasFailed(id) == \A o \in operations : o.id = id => o.status = "failed"

\* A poll has failed and the pool is gone: the job fails next.
Abandoned(j) ==
    "pollCall" \in FaultKinds /\ pc = "setPhase" /\ to = "Failed" /\ job = j

\* A phase handler is at work on j.
Handled(j) == AtWork /\ pc \notin {"finalDelete", "removeFinalizer"} /\ job = j

\* A handler that began before its object was deleted goes on as if it were not.
InUse(j) == cr[j].exists /\ (~cr[j].deleting \/ Handled(j))

HeldBy(j) ==
    InUse(j) =>
        /\ PhaseOf(j) \in {"Ready", "Running"} => OwnRunning(j)
        /\ PhaseOf(j) = "Provisioning" =>
             Granted(cr[j].status.op, j) \/ Abandoned(j)

HoldInv ==
    /\ OperationsInv
    /\ \A j \in Jobs : HeldBy(j)
    /\ pc = "createOp" => Granted(arg, job)
    /\ pc = "cleanup" /\ "pollCall" \notin FaultKinds => HasFailed(obj.op)
    /\ pc = "count" \/ (pc = "setPhase" /\ to = "Ready") => OwnRunning(job)

(***************************************************************************)
(* A pool is made after its job was resolved, with the resolved node count.*)
(***************************************************************************)
SizeOf(j) ==
    cr[j].exists /\ HasPool(j) =>
        /\ PhaseOf(j) # ""
        /\ cr[j].spec.objective => pool[PoolOf(j)].nodes = cr[j].status.nodes

SizeInv == \A j \in Jobs : SizeOf(j)
===============================================================================
