------------------------------ MODULE Reconciler ------------------------------
(***************************************************************************)
(* The control loop of the operator: DistributedTrainingReconciler         *)
(* (internal/controller/distributedtraining_controller.go, phases.go,      *)
(* history.go), composed with the node pools of GKE, the Kubernetes API    *)
(* and the backend jobs it drives.                                         *)
(*                                                                         *)
(* One worker takes one name after the other from the work queue           *)
(* (MaxConcurrentReconciles is 1).  A reconcile is cut into one step per   *)
(* call that leaves the process, because this is where another actor acts, *)
(* the call fails or the process dies: pc is the call to be made next, obj *)
(* the object's status as it is in memory.  Everything else of a handler   *)
(* (its conditions and early returns) is decided in the step before.       *)
(***************************************************************************)
EXTENDS GKE, KubeAPI, TrainingBackend

CONSTANTS
    NoJob,       \* the worker is idle
    FaultKinds,  \* what may go wrong
    MaxFaults,   \* bound: how often something goes wrong
    MaxEntries   \* bound: history entries one object ever writes

ASSUME NoJobAssumption == NoJob \notin Jobs
ASSUME MaxEntriesAssumption == MaxEntries \in Nat
ASSUME FaultAssumption ==
    /\ MaxFaults \in Nat
    /\ FaultKinds \subseteq
         {"crash",        \* the operator process dies and is started again
          "api",          \* a call to the Kubernetes API returns an error
          "createCall",   \* CreateNodePool returns an error other than AlreadyExists
          "deleteCall",   \* DeleteNodePool returns an error for a deletable pool
          "pollCall",     \* GetOperation returns an error
          "deleteOp",     \* an accepted deletion fails later
          "node",         \* a Ready node is lost
          "vanish"}       \* somebody deletes the backend job

VARIABLES
    pc,      \* the call the worker makes next, "idle" between reconciles
    job,     \* the name being reconciled
    obj,     \* the status in memory (job.Status)
    spec,    \* the spec in memory (job.Spec)
    to,      \* the phase setPhase or setFailed is about to write
    arg,     \* the result of the last call that a later call needs
    timed,   \* reconcileCollecting: TrainingStartTime was set when it began
    hist,    \* hist[j]: history entries written for the present object j
    faults   \* how often something went wrong

workerVars == <<pc, job, obj, spec, to, arg, timed>>
vars == <<gkeVars, kubeVars, bj, workerVars, hist, faults>>

Label ==
    {"idle", "addFinalizer", "startTime", "solve", "provStart", "create",
     "createOp", "poll", "cleanup", "count", "apply", "jobName", "getPhase",
     "resetStart", "getStart", "trainStart", "release", "releaseOp", "history",
     "results", "pollDelete", "clearOp", "finalDelete", "removeFinalizer",
     "setPhase"}

WorkerTypeOK ==
    /\ pc \in Label
    /\ job \in Jobs \cup {NoJob}
    /\ pc # "idle" => job \in Jobs
    /\ obj \in Status
    /\ spec \in JobSpecType
    /\ to \in Phase
    /\ arg \in Int
    /\ pc \in {"createOp", "releaseOp"} => arg \in Nat

TypeOK ==
    /\ GKETypeOK /\ KubeTypeOK /\ BackendTypeOK /\ WorkerTypeOK
    /\ timed \in BOOLEAN
    /\ hist \in [Jobs -> [entries : Nat, priced : Nat]]
    /\ faults \in Nat

Init ==
    /\ GKEInit /\ KubeInit /\ BackendInit
    /\ pc = "idle" /\ job = NoJob /\ obj = EmptyStatus /\ spec = EmptySpec
    /\ to = "" /\ arg = 0 /\ timed = FALSE
    /\ hist = [j \in Jobs |-> [entries |-> 0, priced |-> 0]]
    /\ faults = 0

-----------------------------------------------------------------------------
Fault(kind) ==
    /\ kind \in FaultKinds
    /\ faults < MaxFaults
    /\ faults' = faults + 1

NoFault == UNCHANGED faults

-----------------------------------------------------------------------------
(***************************************************************************)
(* How a reconcile goes on.                                                *)
(***************************************************************************)
Goto(label) == pc' = label /\ to' = ""

\* Mutant of MoveTo: reconcileRunning goes on to collect without storing the phase.
MoveToOrCollect(phase) ==
    IF phase = "Collecting" THEN Goto("release") ELSE pc' = "setPhase" /\ to' = phase

MoveTo(phase) == pc' = "setPhase" /\ to' = phase   \* return r.setPhase(...)

FailJob == MoveTo("Failed")                        \* return r.setFailed(...)

\* The handler returns; requeue: with RequeueAfter or an error.
Return(requeue) ==
    /\ pc' = "idle" /\ job' = NoJob /\ obj' = EmptyStatus /\ spec' = EmptySpec
    /\ to' = "" /\ arg' = 0 /\ timed' = FALSE
    /\ queue' = IF requeue THEN queue \cup {job} ELSE queue

Stay == UNCHANGED <<job, timed, queue>>            \* same reconcile goes on

(***************************************************************************)
(* r.Status().Patch(ctx, job, MergeFrom(obj)) after job.Status was set to  *)
(* new.  An error may come before or after the server has stored the       *)
(* patch; a patch of an object that is gone is NotFound.                   *)
(***************************************************************************)
Accepted(new) ==
    /\ cr[job].exists
    /\ PatchStatus(job, obj, new)
    /\ NoFault

Rejected(new) ==
    \/ /\ IF cr[job].exists THEN Fault("api") ELSE NoFault
       /\ UNCHANGED <<cr, cache>>
    \/ /\ cr[job].exists
       /\ Fault("api")
       /\ PatchStatus(job, obj, new)

\* The answer is decoded into the object in memory, its spec included; only
\* reconcileProvisioning goes on with the node count it computed from both before
\* (cfg): to it, spec and nodes are what they were.
Refreshed(new) ==
    LET answer == Decoded(new, Merged(obj, new, cr[job].status)) IN
    IF pc = "provStart"
    THEN obj' = [answer EXCEPT !.nodes = obj.nodes] /\ spec' = spec
    ELSE obj' = answer /\ spec' = DecodedSpec(spec, cr[job].spec)

\* Mutants of Persist: an error is swallowed; an error fails the job.
PersistAndForget(new, next) ==
    /\ \/ Accepted(new) /\ Refreshed(new) /\ next /\ Stay /\ UNCHANGED arg
       \/ Rejected(new) /\ Return(FALSE)
    /\ UNCHANGED uid

PersistOrFail(new, next) ==
    /\ \/ Accepted(new) /\ Refreshed(new) /\ next
       \/ Rejected(new) /\ FailJob /\ obj' = new /\ UNCHANGED spec
    /\ Stay /\ UNCHANGED <<arg, uid>>

\* The handler goes on with next when the patch succeeds and returns its error
\* otherwise.
Persist(new, next) ==
    /\ \/ Accepted(new) /\ Refreshed(new) /\ next /\ Stay /\ UNCHANGED arg
       \/ Rejected(new) /\ Return(TRUE)
    /\ UNCHANGED uid

\* The handler goes on with next whatever the reply; after an error memory and
\* server differ.
PersistBestEffort(new, next) ==
    /\ \/ Accepted(new) /\ Refreshed(new)
       \/ Rejected(new) /\ obj' = new /\ UNCHANGED spec
    /\ next /\ Stay /\ UNCHANGED <<arg, uid>>

\* The patch is the last thing the handler does.
PersistAndReturn(new, requeue) ==
    /\ \/ Accepted(new) /\ Return(requeue)
       \/ Rejected(new) /\ Return(TRUE)
    /\ UNCHANGED uid

World == <<gkeVars, bj, hist>>    \* what a patch leaves alone

-----------------------------------------------------------------------------
(***************************************************************************)
(* The beginnings of the phase handlers, up to their first call.           *)
(***************************************************************************)
\* Mutant of EnterSolver: the guard of reconcilePending is gone.
EnterSolverAlways(s, status) ==
    IF s.objective THEN Goto("solve") ELSE MoveTo("Provisioning")

EnterSolver(s, status) ==
    IF s.objective /\ status.nodes = 0 THEN Goto("solve")
    ELSE MoveTo("Provisioning")

EnterPending(s, status) ==
    IF ~ValidSpec(s) THEN FailJob
    ELSE IF ~status.start THEN Goto("startTime")
    ELSE EnterSolver(s, status)

EnterOperation(status) == IF status.op = 0 THEN Goto("create") ELSE Goto("poll")

EnterProvisioning(s, status) ==
    IF s.objective /\ status.nodes = 0 THEN FailJob
    ELSE IF ~status.provStart THEN Goto("provStart")
    ELSE EnterOperation(status)

EnterBackend(s, label) ==
    IF s.backend \in Registered THEN Goto(label) ELSE FailJob

\* Mutant of EnterDelete: every ended job counts as cleaned up.
EnterDeleteOfEnded(phase) ==
    IF phase \in {"Succeeded", "Failed"} THEN Goto("removeFinalizer")
    ELSE Goto("finalDelete")

EnterDelete(phase) ==
    IF phase = "Succeeded" THEN Goto("removeFinalizer") ELSE Goto("finalDelete")

EnterPhase(s, status) ==
    \/ status.phase \in {"", "Pending"} /\ EnterPending(s, status)
    \/ status.phase = "Provisioning" /\ EnterProvisioning(s, status)
    \/ status.phase = "Ready" /\ EnterBackend(s, "apply")
    \/ status.phase = "Running" /\ EnterBackend(s, "getPhase")
    \/ status.phase = "Collecting" /\ Goto("release")
    \/ status.phase = "Succeeded" /\ Goto("pollDelete")

\* Mutant of NothingToDo: the phase is looked at before the deletion timestamp.
NothingToDoWhenEnded(o) ==
    \/ ~o.exists
    \/ o.finalizer /\ o.status.phase = "Failed"
    \/ o.finalizer /\ o.status.phase = "Succeeded" /\ o.status.op = 0

\* Nothing to do: the object is gone, has failed, or has succeeded and its pool
\* is known to be deleted.
NothingToDo(o) ==
    \/ ~o.exists
    \/ /\ ~o.deleting /\ o.finalizer
       /\ \/ o.status.phase = "Failed"
          \/ o.status.phase = "Succeeded" /\ o.status.op = 0

Take(j) ==
    /\ pc = "idle"
    /\ j \in queue
    /\ queue' = queue \ {j}
    /\ UNCHANGED <<cr, cache, uid, World, faults>>

Discard(j) ==
    /\ Take(j)
    /\ NothingToDo(cache[j])
    /\ UNCHANGED workerVars

Reconcile(j) ==
    LET o == cache[j] IN
    /\ Take(j)
    /\ ~NothingToDo(o)
    /\ job' = j /\ obj' = o.status /\ spec' = o.spec /\ timed' = o.status.trainStart
    /\ UNCHANGED arg
    /\ IF o.deleting THEN EnterDelete(o.status.phase)
       ELSE IF ~o.finalizer THEN Goto("addFinalizer")
       ELSE EnterPhase(o.spec, o.status)

AddFinalizer ==
    /\ pc = "addFinalizer"
    /\ \/ /\ cr[job].exists
          /\ Put(job, [cr[job] EXCEPT !.finalizer = TRUE])
          /\ NoFault
       \/ Fault("api") /\ UNCHANGED <<cr, cache>>
       \/ ~cr[job].exists /\ NoFault /\ UNCHANGED <<cr, cache>>
    /\ Return(TRUE)
    /\ UNCHANGED <<uid, World>>

\* setPhase and setFailed: a failed job is not requeued.
SetPhase ==
    /\ pc = "setPhase"
    /\ PersistAndReturn([obj EXCEPT !.phase = to], to # "Failed")
    /\ UNCHANGED World

-----------------------------------------------------------------------------
(***************************************************************************)
(* reconcilePending                                                        *)
(***************************************************************************)
SetStartTime ==
    /\ pc = "startTime"
    /\ Persist([obj EXCEPT !.start = TRUE], EnterSolver(spec', obj'))
    /\ UNCHANGED World

\* runSolver reads the history and the cost ConfigMap; its result is patched
\* into the status.  An unreadable history or objective fails the job.
Solve ==
    /\ pc = "solve"
    /\ \/ \E n \in spec.solutions :
            Persist([obj EXCEPT !.nodes = n], MoveTo("Provisioning"))
       \/ /\ \/ spec.solutions = {} /\ NoFault
             \/ Fault("api")
          /\ FailJob /\ Stay /\ UNCHANGED <<obj, spec, arg, cr, cache, uid>>
    /\ UNCHANGED World

-----------------------------------------------------------------------------
(***************************************************************************)
(* reconcileProvisioning                                                   *)
(***************************************************************************)
SetProvisioningStartTime ==
    /\ pc = "provStart"
    /\ Persist([obj EXCEPT !.provStart = TRUE], EnterOperation(obj'))
    /\ UNCHANGED World

\* Every error of CreateNodePool fails the job, also one that comes after GKE
\* has accepted the call.
CreateNodePool ==
    LET Accept == AcceptCreate(PoolOf(job), job, DesiredNodes(spec, obj.nodes)) IN
    /\ pc = "create"
    /\ \/ Accept /\ NoFault /\ arg' = lastOp' /\ Goto("createOp")
       \/ RejectCreate(PoolOf(job)) /\ NoFault /\ UNCHANGED arg /\ FailJob
       \/ /\ Fault("createCall") /\ UNCHANGED arg /\ FailJob
          /\ (Accept \/ UNCHANGED gkeVars)
    /\ Stay
    /\ UNCHANGED <<obj, spec, kubeVars, bj, hist>>

StoreCreateOperation ==
    /\ pc = "createOp"
    /\ PersistAndReturn([obj EXCEPT !.op = arg], TRUE)
    /\ UNCHANGED World

PollCreate ==
    /\ pc = "poll"
    /\ \/ /\ OperationReply(obj.op) = "done"
          /\ Goto("count") /\ NoFault /\ Stay /\ UNCHANGED <<obj, spec, arg>>
       \/ /\ OperationReply(obj.op) = "running"
          /\ Return(TRUE) /\ NoFault
       \/ /\ \/ OperationReply(obj.op) = "error" /\ NoFault
             \/ Fault("pollCall")
          /\ Goto("cleanup") /\ Stay /\ UNCHANGED <<obj, spec, arg>>
    /\ UNCHANGED <<cr, cache, uid, World>>

\* DeleteNodePool after a failed creation: its error is only logged.
CleanUpPool ==
    /\ pc = "cleanup"
    /\ \/ AcceptDelete(PoolOf(job)) /\ NoFault
       \/ DeleteReply(PoolOf(job)) # "OK" /\ NoFault /\ UNCHANGED gkeVars
       \/ Fault("deleteCall") /\ UNCHANGED gkeVars
    /\ FailJob
    /\ Stay
    /\ UNCHANGED <<obj, spec, arg, kubeVars, bj, hist>>

\* Mutant of CountReadyNodes: the finished operation is not cleared.
CountReadyNodesKeepsOperation ==
    LET ready == pool[PoolOf(job)].ready IN
    /\ pc = "count"
    /\ ready >= DesiredNodes(spec, obj.nodes)
    /\ Persist([obj EXCEPT !.size = ready, !.provTime = TRUE], MoveTo("Ready"))
    /\ UNCHANGED World

\* The nodes are listed from the API server.  Too few of them: their number is
\* recorded if possible.  Enough: the operation is cleared and the result
\* recorded in one patch; the phase is a second one.
CountReadyNodes ==
    LET ready == pool[PoolOf(job)].ready IN
    /\ pc = "count"
    /\ \/ /\ ready < DesiredNodes(spec, obj.nodes)
          /\ PersistAndReturn([obj EXCEPT !.size = ready], TRUE)
       \/ /\ ready >= DesiredNodes(spec, obj.nodes)
          /\ Persist([obj EXCEPT !.op = 0, !.size = ready, !.provTime = TRUE],
                     MoveTo("Ready"))
       \/ Fault("api") /\ Return(TRUE) /\ UNCHANGED <<cr, cache, uid>>
    /\ UNCHANGED World

-----------------------------------------------------------------------------
(***************************************************************************)
(* reconcileReady                                                          *)
(***************************************************************************)
ApplyJob ==
    /\ pc = "apply"
    /\ \/ /\ spec.manifestOk /\ Apply(job, uid[job]) /\ NoFault
          /\ Goto("jobName") /\ Stay /\ UNCHANGED <<obj, spec, arg>>
       \/ /\ ~spec.manifestOk /\ NoFault
          /\ FailJob /\ Stay /\ UNCHANGED <<obj, spec, arg, bj>>
       \/ /\ Fault("api")
          /\ \/ UNCHANGED bj
             \/ spec.manifestOk /\ Apply(job, uid[job])
          /\ Return(TRUE)
    /\ UNCHANGED <<cr, cache, uid, gkeVars, hist>>

SetJobName ==
    /\ pc = "jobName"
    /\ Persist([obj EXCEPT !.jobName = TRUE], MoveTo("Running"))
    /\ UNCHANGED World

-----------------------------------------------------------------------------
(***************************************************************************)
(* reconcileRunning                                                        *)
(***************************************************************************)
\* Mutant of Verdict: a completed job goes straight to Succeeded.
VerdictWithoutCollecting(phase) ==
    IF phase \in {"Succeeded", "Failed"} THEN phase ELSE "Running"

\* What the handler ends with, once the start time has been dealt with.
Verdict(phase) ==
    CASE phase = "Succeeded" -> "Collecting"
      [] phase = "Failed"    -> "Failed"
      [] OTHER               -> "Running"

GetPhase ==
    LET verdict == Verdict(BackendPhase(job)) IN
    /\ pc = "getPhase"
    /\ \/ /\ bj[job].state = "none" /\ NoFault
          /\ IF spec.onFailure THEN Goto("resetStart") ELSE FailJob
          /\ Stay /\ UNCHANGED <<obj, spec, arg>>
       \/ /\ bj[job].state # "none" /\ NoFault
          /\ \/ /\ ~obj.trainStart
                /\ pc' = "getStart" /\ to' = verdict
                /\ Stay /\ UNCHANGED <<obj, spec, arg>>
             \/ /\ obj.trainStart /\ verdict # "Running"
                /\ MoveTo(verdict) /\ Stay /\ UNCHANGED <<obj, spec, arg>>
             \/ obj.trainStart /\ verdict = "Running" /\ Return(TRUE)
       \/ Fault("api") /\ Return(TRUE)
    /\ UNCHANGED <<cr, cache, uid, World>>

\* Mutant of ResetTrainingStart: the start of the deleted run is kept.
KeepTrainingStart ==
    /\ pc = "resetStart"
    /\ EnterBackend(spec, "apply") /\ Stay /\ NoFault
    /\ UNCHANGED <<obj, spec, arg, cr, cache, uid, World>>

\* The backend job is gone: forget its start, then go on as in Ready.
ResetTrainingStart ==
    /\ pc = "resetStart"
    /\ Persist([obj EXCEPT !.trainStart = FALSE], EnterBackend(spec', "apply"))
    /\ UNCHANGED World

\* The start time is not there yet, or cannot be read: next time.
GetStartTime ==
    /\ pc = "getStart"
    /\ \/ /\ StartTimeKnown(job, spec.backend) /\ NoFault
          /\ pc' = "trainStart" /\ UNCHANGED <<to, obj, spec, arg>> /\ Stay
       \/ /\ \/ ~StartTimeKnown(job, spec.backend) /\ NoFault
             \/ Fault("api")
          /\ IF to = "Running" THEN Return(TRUE)
             ELSE MoveTo(to) /\ Stay /\ UNCHANGED <<obj, spec, arg>>
    /\ UNCHANGED <<cr, cache, uid, World>>


SetTrainingStart ==
    LET new == [obj EXCEPT !.trainStart = TRUE] IN
    /\ pc = "trainStart"
    /\ IF to = "Running" THEN PersistAndReturn(new, TRUE)
       ELSE PersistBestEffort(new, MoveTo(to))
    /\ UNCHANGED World

-----------------------------------------------------------------------------
(***************************************************************************)
(* reconcileCollecting                                                     *)
(***************************************************************************)
\* An error of DeleteNodePool is only logged.
ReleasePool ==
    /\ pc = "release"
    /\ \/ /\ AcceptDelete(PoolOf(job)) /\ NoFault
          /\ arg' = lastOp' /\ Goto("releaseOp")
       \/ /\ \/ DeleteReply(PoolOf(job)) # "OK" /\ NoFault
             \/ Fault("deleteCall")
          /\ UNCHANGED <<gkeVars, arg>> /\ Goto("history")
    /\ Stay
    /\ UNCHANGED <<obj, spec, kubeVars, bj, hist>>

StoreDeleteOperation ==
    /\ pc = "releaseOp"
    /\ PersistBestEffort([obj EXCEPT !.op = arg], Goto("history"))
    /\ UNCHANGED World

\* CollectResults, the cost, and writeHistoryEntry, which is called whether or not
\* there is a cost.  The entry is skipped without a training time, a throughput or a
\* node count; it takes its cost from the status, not from the results just
\* computed.  Its errors are logged, also one that comes after it was stored.
CollectResults ==
    LET cost == IF spec.priced THEN obj.size ELSE NoCost
        written == [entries |-> hist[job].entries + 1,
                    priced  |-> IF obj.billed = NoCost THEN hist[job].priced
                                ELSE hist[job].priced + 1]
        complete == timed /\ HistoryNodes(spec, obj.nodes) # 0
                      /\ spec.backend \in Registered
                      /\ hist[job].entries < MaxEntries
    IN
    /\ pc = "history"
    /\ \/ NoFault /\ arg' = cost
       \/ Fault("api") /\ arg' \in {cost, NoCost}   \* the entry or the ConfigMap
    /\ \/ complete /\ hist' = [hist EXCEPT ![job] = written]
       \/ UNCHANGED hist      \* or the metrics have no throughput
    /\ Goto("results") /\ Stay
    /\ UNCHANGED <<obj, spec, kubeVars, gkeVars, bj>>

\* Mutant of SetResults: the nodes are subtracted, once more by a retry.
SetResultsBySubtraction ==
    /\ pc = "results"
    /\ Persist([obj EXCEPT !.trainTime = timed, !.billed = arg, !.finish = TRUE,
                           !.size = @ - DesiredNodes(spec, obj.nodes)],
               MoveTo("Succeeded"))
    /\ UNCHANGED World

SetResults ==
    /\ pc = "results"
    /\ Persist([obj EXCEPT !.trainTime = timed, !.billed = arg,
                           !.finish = TRUE, !.size = 0],
               MoveTo("Succeeded"))
    /\ UNCHANGED World

-----------------------------------------------------------------------------
(***************************************************************************)
(* reconcileSucceeded                                                      *)
(***************************************************************************)
PollDelete ==
    /\ pc = "pollDelete"
    /\ \/ /\ OperationReply(obj.op) = "done" /\ NoFault
          /\ Goto("clearOp") /\ Stay /\ UNCHANGED <<obj, spec, arg>>
       \/ /\ \/ OperationReply(obj.op) # "done" /\ NoFault
             \/ Fault("pollCall")
          /\ Return(TRUE)
    /\ UNCHANGED <<cr, cache, uid, World>>

ClearOperation ==
    /\ pc = "clearOp"
    /\ PersistAndReturn([obj EXCEPT !.op = 0], FALSE)
    /\ UNCHANGED World

-----------------------------------------------------------------------------
(***************************************************************************)
(* reconcileDelete                                                         *)
(***************************************************************************)
DeletePool ==
    /\ pc = "finalDelete"
    /\ \/ /\ AcceptDelete(PoolOf(job)) /\ NoFault
          /\ Goto("removeFinalizer") /\ Stay /\ UNCHANGED <<obj, spec, arg>>
       \/ /\ DeleteReply(PoolOf(job)) = "NotFound" /\ NoFault /\ UNCHANGED gkeVars
          /\ Goto("removeFinalizer") /\ Stay /\ UNCHANGED <<obj, spec, arg>>
       \/ /\ \/ DeleteReply(PoolOf(job)) = "FailedPrecondition" /\ NoFault
             \/ Fault("deleteCall")
          /\ UNCHANGED gkeVars
          /\ Return(TRUE)
    /\ UNCHANGED <<cr, cache, uid, bj, hist>>

\* The object goes away with its finalizer.
RemoveFinalizer ==
    LET rest == IF cr[job].deleting THEN NoObject
                ELSE [cr[job] EXCEPT !.finalizer = FALSE]
    IN
    /\ pc = "removeFinalizer"
    /\ \/ cr[job].exists /\ Put(job, rest) /\ NoFault /\ Return(~CacheLag)
       \/ /\ IF cr[job].exists THEN Fault("api") ELSE NoFault
          /\ UNCHANGED <<cr, cache>> /\ Return(TRUE)
    /\ UNCHANGED <<uid, World>>

-----------------------------------------------------------------------------
(***************************************************************************)
(* The actors around the operator.                                         *)
(***************************************************************************)
Operator == <<workerVars, hist>>

\* The process dies at any call; the next one lists all objects first.
Crash ==
    /\ pc # "idle"
    /\ Fault("crash")
    /\ pc' = "idle" /\ job' = NoJob /\ obj' = EmptyStatus /\ spec' = EmptySpec
    /\ to' = "" /\ arg' = 0 /\ timed' = FALSE
    /\ cache' = cr
    /\ queue' = {j \in Jobs : cr[j].exists}
    /\ UNCHANGED <<cr, uid, World>>

UserCreate(j) ==
    /\ CreateObject(j)
    /\ hist' = [hist EXCEPT ![j] = [entries |-> 0, priced |-> 0]]
    /\ UNCHANGED <<workerVars, gkeVars, bj, faults>>

UserEdit(j) ==
    /\ EditObject(j)
    /\ UNCHANGED <<Operator, gkeVars, bj, faults>>

UserDelete(j) ==
    /\ DeleteObject(j)
    /\ UNCHANGED <<Operator, gkeVars, bj, faults>>

InformerSync(j) ==
    /\ CacheLag
    /\ SyncCache(j)
    /\ UNCHANGED <<Operator, gkeVars, bj, faults>>

CloudCreates(p) ==
    /\ FinishCreate(p) \/ FailCreate(p)
    /\ UNCHANGED <<Operator, kubeVars, bj, faults>>

CloudDeletes(p) ==
    /\ \/ FinishDelete(p) /\ NoFault
       \/ FailDelete(p) /\ Fault("deleteOp")
    /\ UNCHANGED <<Operator, kubeVars, bj>>

NodeJoins(p) ==
    /\ NodeReady(p)
    /\ UNCHANGED <<Operator, kubeVars, bj, faults>>

NodeLeaves(p) ==
    /\ NodeLost(p) /\ Fault("node")
    /\ UNCHANGED <<Operator, kubeVars, bj>>

\* Pods are scheduled on a Ready node of the job's pool.
TrainingStarts(j) ==
    /\ pool[PoolOf(j)].state = "running" /\ pool[PoolOf(j)].ready > 0
    /\ BackendStart(j)
    /\ UNCHANGED <<Operator, kubeVars, gkeVars, faults>>

TrainingEnds(j) ==
    /\ BackendFinish(j)
    /\ UNCHANGED <<Operator, kubeVars, gkeVars, faults>>

\* Ownership lets Kubernetes collect the backend job of a deleted object.
CollectGarbage(j) ==
    /\ ~cr[j].exists \/ bj[j].owner # uid[j]
    /\ BackendVanish(j)
    /\ UNCHANGED <<Operator, kubeVars, gkeVars, faults>>

UserDeletesBackendJob(j) ==
    /\ BackendVanish(j) /\ Fault("vanish")
    /\ UNCHANGED <<Operator, kubeVars, gkeVars>>

-----------------------------------------------------------------------------
Handler ==
    \/ AddFinalizer \/ SetPhase \/ SetStartTime \/ Solve
    \/ SetProvisioningStartTime \/ CreateNodePool \/ StoreCreateOperation
    \/ PollCreate \/ CleanUpPool \/ CountReadyNodes
    \/ ApplyJob \/ SetJobName
    \/ GetPhase \/ ResetTrainingStart \/ GetStartTime \/ SetTrainingStart
    \/ ReleasePool \/ StoreDeleteOperation \/ CollectResults \/ SetResults
    \/ PollDelete \/ ClearOperation
    \/ DeletePool \/ RemoveFinalizer

Dequeue(j) == Discard(j) \/ Reconcile(j)

Environment ==
    \/ Crash
    \/ \E j \in Jobs : \/ UserCreate(j) \/ UserEdit(j) \/ UserDelete(j)
                      \/ InformerSync(j)
                      \/ TrainingStarts(j) \/ TrainingEnds(j)
                      \/ CollectGarbage(j) \/ UserDeletesBackendJob(j)
    \/ \E p \in Pools : \/ CloudCreates(p) \/ CloudDeletes(p)
                       \/ NodeJoins(p) \/ NodeLeaves(p)

Next == Handler \/ (\E j \in Jobs : Dequeue(j)) \/ Environment

Spec == Init /\ [][Next]_vars

(***************************************************************************)
(* The worker goes on as long as the process lives.  The work queue is     *)
(* first in, first out, so a queued name gets its turn although the worker *)
(* is busy in between: strong fairness.  The cloud ends its operations,    *)
(* nodes join, training ends and the informer catches up.                  *)
(***************************************************************************)
Fairness ==
    /\ WF_vars(Handler)
    /\ \A j \in Jobs : /\ SF_vars(Dequeue(j))
                      /\ WF_vars(InformerSync(j))
                      /\ WF_vars(TrainingStarts(j))
                      /\ WF_vars(TrainingEnds(j))
                      /\ WF_vars(CollectGarbage(j))
    /\ \A p \in Pools : /\ WF_vars(CloudCreates(p))
                       /\ WF_vars(CloudDeletes(p))
                       /\ WF_vars(NodeJoins(p))

FairSpec == Spec /\ Fairness
===============================================================================
