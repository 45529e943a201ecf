------------------------- MODULE ReconcilerPoolProofs -------------------------
(***************************************************************************)
(* Which pool a job has while it trains.  HoldInv and SizeInv (module      *)
(* ReconcilerLife) are inductive relative to LifeInv and ClaimInv: a job   *)
(* that is Ready or Running has its own running pool, nobody takes it away *)
(* meanwhile, and it has as many nodes as the solver resolved.             *)
(***************************************************************************)
EXTENDS ReconcilerLifeProofs, ReconcilerClaimProofs

\* id is empty, or a creation that GKE has started for j.
MadeFor(id, j) == id = 0 \/ Started(id, "create", j)

\* The cloud did nothing that j, waiting for its pool or using it, would notice.
Undisturbed(j) ==
    /\ OwnRunning(j) => OwnRunning(j)'
    /\ \A id : MadeFor(id, j) /\ Granted(id, j) => Granted(id, j)'
    /\ \A id : MadeFor(id, j) /\ HasFailed(id) => HasFailed(id)'

\* What the proofs use of the types of pools and operations.
LEMMA CloudTypes ==
    ASSUME TypeOK
    PROVE  /\ lastOp \in Nat /\ pool \in [Pools -> NodePool]
           /\ \A p \in Pools : pool[p] \in NodePool
           /\ \A j \in Jobs : PoolOf(j) \in Pools
           /\ \A o \in operations :
                /\ o \in Operation /\ o.id \in Nat /\ o.id # 0 /\ o.pool \in Pools
<1>1. MaxOps \in Nat
  BY MaxOpsAssumption
<1>2. \A i \in OpIds : i \in Nat /\ i # 0
  BY <1>1 DEF OpIds
<1>3. \A o \in operations :
         o \in Operation /\ o.id \in Nat /\ o.id # 0 /\ o.pool \in Pools
  BY <1>2 DEF TypeOK, GKETypeOK, Operation
<1>4. lastOp \in Nat
  BY <1>1 DEF TypeOK, GKETypeOK
<1>5. QED
  BY <1>3, <1>4, SpecAssumption DEF TypeOK, GKETypeOK, PoolOf

\* No operation has the empty name.
LEMMA NoName == ASSUME TypeOK, NEW j PROVE Granted(0, j) /\ HasFailed(0)
  BY CloudTypes DEF Granted, HasFailed

-----------------------------------------------------------------------------
\* Without a step of the cloud nothing is disturbed.
LEMMA QuietCloud ==
    ASSUME OperationsInv, UNCHANGED gkeVars
    PROVE  OperationsInv' /\ \A j \in Jobs : Undisturbed(j)
<1>1. OperationsInv'
  BY DEF OperationsInv, CloudInv, gkeVars
<1>2. \A j \in Jobs : Undisturbed(j)
  BY DEF Undisturbed, OwnRunning, Granted, HasFailed, gkeVars
<1>3. QED
  BY <1>1, <1>2

\* An operation is started on a pool that has none running: the pool shows it.
LEMMA StartedOperations ==
    ASSUME TypeOK, OperationsInv, NEW kind, NEW p \in Pools,
           StartOperation(kind, p),
           pool[p].state \notin {"creating", "deleting"},
           NEW x, pool' = [pool EXCEPT ![p] = x],
           x.state = IF kind = "create" THEN "creating" ELSE "deleting",
           \A j \in x.owner : PoolOf(j) = p
    PROVE  OperationsInv'
<1> DEFINE new == [id |-> lastOp + 1, kind |-> kind, pool |-> p, status |-> "running"]
<1>1. /\ new.id = lastOp + 1 /\ new.kind = kind /\ new.pool = p
      /\ new.status = "running"
      /\ operations' = operations \cup {new} /\ lastOp' = lastOp + 1
  BY DEF StartOperation
<1> HIDE DEF new
<1>2. /\ \A o \in operations : o.id \in Nat /\ o.id <= lastOp /\ o.pool \in Pools
      /\ lastOp \in Nat
  BY CloudTypes DEF OperationsInv, CloudInv
<1>3. \A q \in Pools : pool'[q] = IF q = p THEN x ELSE pool[q]
  BY CloudTypes
<1>4. \A o \in operations : o.status = "running" => o.pool # p
  BY DEF OperationsInv
<1>5. CloudInv'
  <2>1. \A o \in operations' : o.id <= lastOp'
    BY <1>1, <1>2
  <2>2. \A q \in Pools : \A j \in pool'[q].owner : PoolOf(j) = q
    BY <1>3 DEF OperationsInv, CloudInv
  <2>3. QED
    BY <2>1, <2>2 DEF CloudInv, PoolOf
<1>6. \A o \in operations : o.id # new.id
  BY <1>1, <1>2
<1>7. \A o, q \in operations' :
         o.id = q.id \/ (o.pool = q.pool /\ o.status = "running" /\ q.status = "running")
           => o = q
  BY <1>1, <1>4, <1>6 DEF OperationsInv
<1>8. \A o \in operations' : o.status = "running" =>
         pool'[o.pool].state = IF o.kind = "create" THEN "creating" ELSE "deleting"
  BY <1>1, <1>2, <1>3, <1>4 DEF OperationsInv
<1>9. QED
  BY <1>5, <1>7, <1>8 DEF OperationsInv

\* It does not disturb the jobs of other pools; nor the job that is given the pool,
\* when the pool was absent.
LEMMA StartedUndisturbed ==
    ASSUME TypeOK, OperationsInv, NEW kind, NEW p \in Pools,
           StartOperation(kind, p),
           NEW x, pool' = [pool EXCEPT ![p] = x], NEW j \in Jobs
    PROVE  /\ \A id : MadeFor(id, j) /\ HasFailed(id) => HasFailed(id)'
           /\ PoolOf(j) # p => Undisturbed(j)
           /\ PoolOf(j) = p /\ pool[p].state = "absent" => Undisturbed(j)
           /\ \A id : MadeFor(id, j) /\ HasFailed(id) => Granted(id, j)'
<1> DEFINE new == [id |-> lastOp + 1, kind |-> kind, pool |-> p, status |-> "running"]
<1>1. new.id = lastOp + 1 /\ operations' = operations \cup {new}
  BY DEF StartOperation
<1> HIDE DEF new
<1>2. \A id : MadeFor(id, j) => id # new.id
  BY <1>1, CloudTypes DEF MadeFor, Started, OperationsInv, CloudInv
<1>3. \A id : MadeFor(id, j) => \A o \in operations' : o.id = id => o \in operations
  BY <1>1, <1>2
<1>4. \A id : MadeFor(id, j) /\ HasFailed(id) => HasFailed(id)' /\ Granted(id, j)'
  BY <1>3 DEF HasFailed, Granted
<1>5. ASSUME PoolOf(j) # p PROVE Undisturbed(j)
  <2>1. pool'[PoolOf(j)] = pool[PoolOf(j)] /\ PoolOf(j)' = PoolOf(j)
    BY <1>5, CloudTypes DEF PoolOf
  <2>2. OwnRunning(j)' <=> OwnRunning(j)
    BY <2>1 DEF OwnRunning, PoolOf
  <2>3. \A id : MadeFor(id, j) /\ Granted(id, j) => Granted(id, j)'
    BY <1>3, <2>1, <2>2 DEF Granted, PoolOf
  <2>4. QED
    BY <1>4, <2>2, <2>3 DEF Undisturbed
<1>6. ASSUME PoolOf(j) = p, pool[p].state = "absent" PROVE Undisturbed(j)
  <2>1. ~OwnRunning(j)
    BY <1>6 DEF OwnRunning
  <2>2. ASSUME NEW id, MadeFor(id, j), Granted(id, j) PROVE Granted(id, j)'
    <3>1. \A o \in operations : o.id = id =>
             o.pool = p /\ o.status # "done" /\ o.status # "running"
      BY <1>6, <2>1, <2>2, CloudTypes
         DEF MadeFor, Started, Granted, OperationsInv
    <3>2. QED
      BY <1>3, <2>2, <3>1 DEF Granted
  <2>3. QED
    BY <1>4, <2>1, <2>2 DEF Undisturbed
<1>7. QED
  BY <1>4, <1>5, <1>6

\* An operation ends, and a creation that is done leaves the pool it made running.
LEMMA EndedOperations ==
    ASSUME TypeOK, OperationsInv, NEW kind, NEW p \in Pools, NEW status,
           status # "running", EndOperation(kind, p, status),
           NEW x, pool' = [pool EXCEPT ![p] = x],
           x.owner = pool[p].owner \/ x.owner = {},
           kind = "create" /\ status = "done" =>
               x.owner = pool[p].owner /\ x.state = "running"
    PROVE  OperationsInv' /\ \A j \in Jobs : Undisturbed(j)
<1>1. PICK o \in operations :
         /\ o.kind = kind /\ o.pool = p /\ o.status = "running"
         /\ operations' = (operations \ {o}) \cup {[o EXCEPT !.status = status]}
  BY DEF EndOperation
<1> DEFINE e == [o EXCEPT !.status = status]
<1>2. o \in Operation
  BY CloudTypes
<1>3. e.id = o.id /\ e.kind = kind /\ e.pool = p /\ e.status = status
  BY <1>1, <1>2 DEF Operation
<1>4. operations' = (operations \ {o}) \cup {e} /\ lastOp' = lastOp
  BY <1>1 DEF EndOperation
<1> HIDE DEF e
<1>5. \A q \in Pools : pool'[q] = IF q = p THEN x ELSE pool[q]
  BY CloudTypes
<1>6. /\ pool[p].state = IF kind = "create" THEN "creating" ELSE "deleting"
      /\ \A q \in operations : q.pool = p /\ q.status = "running" => q = o
      /\ \A q \in operations : q.id = o.id => q = o
  BY <1>1 DEF OperationsInv
<1>7. OperationsInv'
  <2>1. \A q \in operations' : q.id <= lastOp'
    BY <1>3, <1>4 DEF OperationsInv, CloudInv
  <2>2. \A q \in Pools : \A j \in pool'[q].owner : PoolOf(j) = q
    BY <1>5 DEF OperationsInv, CloudInv
  <2>3. CloudInv'
    BY <2>1, <2>2 DEF CloudInv, PoolOf
  <2>4. \A q, r \in operations' :
           q.id = r.id \/ (q.pool = r.pool /\ q.status = "running" /\ r.status = "running")
             => q = r
    BY <1>3, <1>4, <1>6 DEF OperationsInv
  <2>5. \A q \in operations' : q.status = "running" =>
           pool'[q.pool].state = IF q.kind = "create" THEN "creating" ELSE "deleting"
    BY <1>3, <1>4, <1>5, <1>6, CloudTypes DEF OperationsInv
  <2>6. QED
    BY <2>3, <2>4, <2>5 DEF OperationsInv
<1>8. ASSUME NEW j \in Jobs PROVE Undisturbed(j)
  <2>1. PoolOf(j) \in Pools /\ PoolOf(j)' = PoolOf(j)
    BY CloudTypes DEF PoolOf
  <2>2. OwnRunning(j) => PoolOf(j) # p /\ OwnRunning(j)'
    BY <1>5, <1>6, <2>1 DEF OwnRunning
  <2>3. \A id : HasFailed(id) => HasFailed(id)'
    BY <1>1, <1>3, <1>4 DEF HasFailed
  <2>4. ASSUME NEW id, MadeFor(id, j), Granted(id, j),
               NEW q \in operations', q.id = id
        PROVE  /\ q.status = "running" => pool'[PoolOf(j)].owner = {j}
               /\ q.status = "done" => OwnRunning(j)'
    <3>1. Started(id, "create", j)
      BY <1>3, <1>4, <2>4, CloudTypes DEF MadeFor
    <3>2. CASE q = e
      <4>1. kind = "create" /\ PoolOf(j) = p
        BY <1>3, <1>6, <3>1, <3>2, <2>4, <1>1 DEF Started
      <4>2. pool[p].owner = {j}
        BY <1>1, <1>3, <2>4, <3>2, <4>1 DEF Granted
      <4>3. q.status = "done" => OwnRunning(j)'
        BY <1>3, <1>5, <2>1, <3>2, <4>1, <4>2 DEF OwnRunning
      <4>4. QED
        BY <1>3, <3>2, <4>3
    <3>3. CASE q # e
      <4>1. q \in operations /\ q # o /\ q.pool = PoolOf(j)
        BY <1>4, <2>4, <3>1, <3>3 DEF Started, OperationsInv
      <4>2. q.status = "running" => PoolOf(j) # p
        BY <1>6, <4>1
      <4>3. q.status = "running" => pool'[PoolOf(j)].owner = {j}
        BY <1>5, <2>1, <2>4, <4>1, <4>2 DEF Granted
      <4>4. q.status = "done" => OwnRunning(j)'
        BY <2>2, <2>4, <4>1 DEF Granted
      <4>5. QED
        BY <4>3, <4>4
    <3>4. QED
      BY <3>2, <3>3
  <2>5. \A id : MadeFor(id, j) /\ Granted(id, j) => Granted(id, j)'
    BY <2>1, <2>4 DEF Granted
  <2>6. QED
    BY <2>2, <2>3, <2>5 DEF Undisturbed
<1>9. QED
  BY <1>7, <1>8

\* What the cloud does by itself disturbs nobody.
LEMMA CloudSteps ==
    ASSUME TypeOK, OperationsInv, NEW p \in Pools,
           \/ CloudCreates(p) \/ CloudDeletes(p) \/ NodeJoins(p) \/ NodeLeaves(p)
    PROVE  OperationsInv' /\ \A j \in Jobs : Undisturbed(j)
<1>1. pool[p] \in NodePool
  BY CloudTypes
<1>2. CASE FinishCreate(p) \/ FailDelete(p)
  <2> DEFINE x == [pool[p] EXCEPT !.state = "running"]
  <2>1. x.owner = pool[p].owner /\ x.state = "running"
    BY <1>1 DEF NodePool
  <2>2. pool' = [pool EXCEPT ![p] = x]
    BY <1>2 DEF FinishCreate, FailDelete
  <2> HIDE DEF x
  <2>3. QED
    BY <1>2, <2>1, <2>2, EndedOperations DEF FinishCreate, FailDelete
<1>3. CASE FailCreate(p) \/ FinishDelete(p)
  <2> DEFINE failed == [pool[p] EXCEPT !.state = "error"]
             gone == NoPool
  <2>1. failed.owner = pool[p].owner /\ gone.owner = {}
    BY <1>1 DEF NodePool, NoPool
  <2>2. /\ pool' = [pool EXCEPT ![p] = failed] \/ pool' = [pool EXCEPT ![p] = gone]
        /\ EndOperation("create", p, "failed") \/ EndOperation("delete", p, "done")
    BY <1>3 DEF FailCreate, FinishDelete
  <2> HIDE DEF failed, gone
  <2>3. CASE EndOperation("create", p, "failed")
    BY <2>1, <2>2, <2>3, EndedOperations
  <2>4. CASE EndOperation("delete", p, "done")
    BY <2>1, <2>2, <2>4, EndedOperations
  <2>5. QED
    BY <2>2, <2>3, <2>4
<1>4. CASE NodeReady(p) \/ NodeLost(p)
  <2>1. PICK n : pool' = [pool EXCEPT ![p].ready = n]
    BY <1>4 DEF NodeReady, NodeLost
  <2>2. \A q \in Pools : pool'[q].state = pool[q].state /\ pool'[q].owner = pool[q].owner
    BY <2>1, CloudTypes DEF NodePool
  <2>3. UNCHANGED <<operations, lastOp>>
    BY <1>4 DEF NodeReady, NodeLost
  <2>4. OperationsInv'
    BY <2>2, <2>3, CloudTypes DEF OperationsInv, CloudInv, PoolOf
  <2>5. \A j \in Jobs : Undisturbed(j)
    BY <2>2, <2>3, CloudTypes DEF Undisturbed, OwnRunning, Granted, HasFailed, PoolOf
  <2>6. QED
    BY <2>4, <2>5
<1>5. QED
  BY <1>2, <1>3, <1>4 DEF CloudCreates, CloudDeletes, NodeJoins, NodeLeaves

\* A pool is created for j: GKE grants it.
LEMMA CreatedPool ==
    ASSUME TypeOK, OperationsInv, NEW j \in Jobs, NEW n, AcceptCreate(PoolOf(j), j, n),
           PoolsApart
    PROVE  /\ OperationsInv' /\ \A k \in Jobs : Undisturbed(k)
           /\ Granted(lastOp, j)'
<1> DEFINE p == PoolOf(j)
           x == [state |-> "creating", owner |-> {j}, nodes |-> n, ready |-> 0]
<1>1. /\ p \in Pools /\ pool[p].state = "absent"
      /\ pool' = [pool EXCEPT ![p] = x] /\ StartOperation("create", p)
  BY CloudTypes DEF AcceptCreate
<1>2. x.state = "creating" /\ x.owner = {j}
  OBVIOUS
<1> HIDE DEF x
<1>3. OperationsInv'
  BY <1>1, <1>2, StartedOperations
<1>4. \A k \in Jobs : Undisturbed(k)
  BY <1>1, StartedUndisturbed
<1>5. Granted(lastOp, j)'
  <2>1. /\ \A o \in operations' : o.id = lastOp' => o.status = "running"
        /\ pool'[p].owner = {j}
    BY <1>1, <1>2, CloudTypes DEF StartOperation, OperationsInv, CloudInv
  <2>2. QED
    BY <2>1 DEF Granted, PoolOf
<1>6. QED
  BY <1>3, <1>4, <1>5

\* The pool of j is deleted: only j notices, and not in a creation that has failed.
LEMMA DeletedPool ==
    ASSUME TypeOK, OperationsInv, NEW j \in Jobs, AcceptDelete(PoolOf(j)), PoolsApart
    PROVE  /\ OperationsInv' /\ \A k \in Jobs \ {j} : Undisturbed(k)
           /\ \A id : MadeFor(id, j) /\ HasFailed(id) => Granted(id, j)'
<1> DEFINE p == PoolOf(j)
           x == [pool[p] EXCEPT !.state = "deleting"]
<1>1. /\ p \in Pools /\ pool[p].state \in {"running", "error"}
      /\ pool' = [pool EXCEPT ![p] = x] /\ StartOperation("delete", p)
  BY CloudTypes DEF AcceptDelete, DeleteReply, NodePool, PoolState
<1>2. x.state = "deleting" /\ x.owner = pool[p].owner
  BY <1>1, CloudTypes DEF NodePool
<1> HIDE DEF x
<1>3. OperationsInv'
  <2>1. \A k \in x.owner : PoolOf(k) = p
    BY <1>1, <1>2 DEF OperationsInv, CloudInv
  <2>2. QED
    BY <1>1, <1>2, <2>1, StartedOperations
<1>4. \A k \in Jobs \ {j} : PoolOf(k) # p
  BY DEF PoolsApart
<1>5. QED
  BY <1>1, <1>3, <1>4, StartedUndisturbed

-----------------------------------------------------------------------------
\* What HoldInv says of the worker.
HoldWorker ==
    /\ pc = "createOp" => Granted(arg, job)
    /\ pc = "cleanup" /\ "pollCall" \notin FaultKinds => HasFailed(obj.op)
    /\ pc = "count" \/ (pc = "setPhase" /\ to = "Ready") => OwnRunning(job)

Holders == \A j \in Jobs : HeldBy(j)

\* The hypotheses of what follows.
HoldAssumption == ~CacheLag /\ PoolsApart /\ PollsCount

\* HoldInv, its part of the worker apart.
LEMMA HoldParts == HoldInv <=> OperationsInv /\ Holders /\ HoldWorker
  BY DEF HoldInv, Holders, HoldWorker

\* After most calls the worker relies on nothing about the pool.
Unconcerned ==
    /\ pc' \notin {"createOp", "cleanup", "count"}
    /\ ~(pc' = "setPhase" /\ to' = "Ready")

\* Out of the handlers that work on a pool, nothing is asked of the worker.
LEMMA UnconcernedWorker == ASSUME Unconcerned PROVE HoldWorker'
  BY DEF Unconcerned, HoldWorker

-----------------------------------------------------------------------------
(***************************************************************************)
(* Which jobs use their pool.                                              *)
(***************************************************************************)
\* The step leaves the spec and the deletion timestamp of an object alone, or removes it.
Untouched ==
    \A j \in Jobs : cr'[j].exists =>
        /\ cr[j].exists /\ cr'[j].deleting = cr[j].deleting
        /\ cr'[j].spec = cr[j].spec

\* A status patch does.
LEMMA PatchTouches ==
    ASSUME TypeOK, pc # "idle", NEW new, Accepted(new) \/ Rejected(new)
    PROVE  Untouched
<1> DEFINE s == Merged(obj, new, cr[job].status)
<1>1. cr' = [cr EXCEPT ![job] = [@ EXCEPT !.status = s]] \/ UNCHANGED cr
  BY DEF Accepted, Rejected, PatchStatus, Put
<1> HIDE DEF s
<1>2. QED
  BY <1>1, LifeTypes DEF Untouched, Object

\* So does any other call of the worker.
LEMMA HandlerTouches == ASSUME TypeOK, Handler PROVE Untouched
<1>1. pc # "idle"
  BY DEF Handler, AddFinalizer, SetPhase, SetStartTime, Solve,
         SetProvisioningStartTime, CreateNodePool, StoreCreateOperation, PollCreate,
         CleanUpPool, CountReadyNodes, ApplyJob, SetJobName, GetPhase,
         ResetTrainingStart, GetStartTime, SetTrainingStart, ReleasePool,
         StoreDeleteOperation, CollectResults, SetResults, PollDelete,
         ClearOperation, DeletePool, RemoveFinalizer
<1>2. CASE AddFinalizer \/ RemoveFinalizer
  <2>1. \E b \in BOOLEAN :
           \/ cr' = [cr EXCEPT ![job] = [cr[job] EXCEPT !.finalizer = b]]
           \/ cr' = [cr EXCEPT ![job] = NoObject]
           \/ UNCHANGED cr
    BY <1>2 DEF AddFinalizer, RemoveFinalizer, Put
  <2>2. ~NoObject.exists
    BY DEF NoObject
  <2>3. QED
    BY <2>1, <2>2, LifeTypes DEF Untouched, Object
<1>3. CASE \/ CreateNodePool \/ PollCreate \/ CleanUpPool \/ ApplyJob \/ GetPhase
           \/ GetStartTime \/ ReleasePool \/ CollectResults \/ PollDelete \/ DeletePool
  BY <1>3 DEF CreateNodePool, PollCreate, CleanUpPool, ApplyJob, GetPhase, GetStartTime,
              ReleasePool, CollectResults, PollDelete, DeletePool, kubeVars, Untouched
<1>4. CASE SetStartTime \/ Solve \/ SetProvisioningStartTime \/ StoreCreateOperation
  BY <1>1, <1>4, PatchTouches
     DEF SetStartTime, Solve, SetProvisioningStartTime, StoreCreateOperation, Persist,
         PersistAndReturn, Untouched
<1>5. CASE CountReadyNodes \/ SetJobName \/ ResetTrainingStart \/ SetTrainingStart
  BY <1>1, <1>5, PatchTouches
     DEF CountReadyNodes, SetJobName, ResetTrainingStart, SetTrainingStart, Persist,
         PersistAndReturn, PersistBestEffort, Untouched
<1>6. CASE StoreDeleteOperation \/ SetResults \/ ClearOperation \/ SetPhase
  BY <1>1, <1>6, PatchTouches
     DEF StoreDeleteOperation, SetResults, ClearOperation, SetPhase, Persist,
         PersistAndReturn, PersistBestEffort, Untouched
<1>7. QED
  BY <1>2, <1>3, <1>4, <1>5, <1>6 DEF Handler

\* A job that uses its pool after the step has done so before.
UsedBefore == \A j \in Jobs : InUse(j)' => InUse(j)

\* A handler goes on with its job or returns.
LEMMA HandlerSteady ==
    ASSUME Handler
    PROVE  \A j : Handled(j)' => Handled(j)
<1>1. pc' = "idle" \/ job' = job
  BY DEF Handler, AddFinalizer, SetPhase, SetStartTime, Solve,
         SetProvisioningStartTime, CreateNodePool, StoreCreateOperation, PollCreate,
         CleanUpPool, CountReadyNodes, ApplyJob, SetJobName, GetPhase,
         ResetTrainingStart, GetStartTime, SetTrainingStart, ReleasePool,
         StoreDeleteOperation, CollectResults, SetResults, PollDelete,
         ClearOperation, DeletePool, RemoveFinalizer, Persist, PersistBestEffort,
         PersistAndReturn, Return, Stay
<1>2. pc \in {"idle", "addFinalizer", "finalDelete", "removeFinalizer"} =>
         pc' \in {"idle", "removeFinalizer"}
  BY DEF Handler, AddFinalizer, SetPhase, SetStartTime, Solve,
         SetProvisioningStartTime, CreateNodePool, StoreCreateOperation, PollCreate,
         CleanUpPool, CountReadyNodes, ApplyJob, SetJobName, GetPhase,
         ResetTrainingStart, GetStartTime, SetTrainingStart, ReleasePool,
         StoreDeleteOperation, CollectResults, SetResults, PollDelete,
         ClearOperation, DeletePool, RemoveFinalizer, Return, Goto
<1>3. QED
  BY <1>1, <1>2 DEF Handled, AtWork

\* No call of the worker lets another job use its pool.
LEMMA HandlerUses == ASSUME TypeOK, Handler PROVE UsedBefore
  BY HandlerTouches, HandlerSteady DEF Untouched, UsedBefore, InUse

-----------------------------------------------------------------------------
\* In the phase Provisioning an object names a creation, or none.
LEMMA ProvisioningOperation ==
    ASSUME LifeInv, NEW j \in Jobs, cr[j].exists, PhaseOf(j) = "Provisioning"
    PROVE  MadeFor(cr[j].status.op, j)
  BY DEF LifeInv, LifeOf, Fits, OperationFits, Past, PhaseOf, MadeFor

\* An undisturbed object that stays in use and keeps its phase and its operation is held.
LEMMA StaysHeld ==
    ASSUME LifeInv, NEW j \in Jobs, HeldBy(j), Undisturbed(j),
           InUse(j)' => /\ InUse(j) /\ PhaseOf(j)' = PhaseOf(j)
                        /\ cr'[j].status.op = cr[j].status.op,
           Abandoned(j) /\ PhaseOf(j)' = "Provisioning" => Abandoned(j)'
    PROVE  HeldBy(j)'
<1>1. ASSUME InUse(j)', PhaseOf(j)' \in {"Ready", "Running"} PROVE OwnRunning(j)'
  BY <1>1 DEF HeldBy, Undisturbed
<1>2. ASSUME InUse(j)', PhaseOf(j)' = "Provisioning", ~Abandoned(j)
      PROVE  Granted(cr[j].status.op, j)'
  <2>1. /\ InUse(j) /\ cr[j].exists /\ PhaseOf(j) = "Provisioning"
        /\ cr'[j].status.op = cr[j].status.op
    BY <1>2 DEF InUse
  <2>2. \A id : id = cr[j].status.op => Granted(id, j)'
    BY <1>2, <2>1, ProvisioningOperation DEF HeldBy, Undisturbed
  <2>3. QED
    BY <2>1, <2>2 DEF Granted
<1>3. QED
  BY <1>1, <1>2 DEF HeldBy

\* A new object has nothing to hold.
LEMMA NewHeld ==
    ASSUME NEW j, PhaseOf(j)' \notin {"Ready", "Running", "Provisioning"}
    PROVE  HeldBy(j)'
  BY DEF HeldBy

\* A step beside the worker.
LEMMA BesideHold ==
    ASSUME LifeInv, HoldInv, UNCHANGED workerVars, OperationsInv',
           \A k \in Jobs : Undisturbed(k), pc # "idle" => job \in Jobs,
           \A k \in Jobs : InUse(k)' =>
               \/ InUse(k) /\ cr'[k].status = cr[k].status
               \/ ~cr[k].exists /\ PhaseOf(k)' = ""
    PROVE  HoldInv'
<1>1. UNCHANGED <<pc, job, obj, to, arg>>
  BY DEF workerVars
<1>2. Holders'
  <2> SUFFICES ASSUME NEW k \in Jobs PROVE HeldBy(k)'
    BY DEF Holders
  <2>1. HeldBy(k) /\ Undisturbed(k) /\ (Abandoned(k) => Abandoned(k)')
    BY <1>1, HoldParts DEF Holders, Abandoned
  <2>2. CASE PhaseOf(k)' = ""
    BY <2>2, NewHeld
  <2>3. CASE InUse(k)' => InUse(k) /\ cr'[k].status = cr[k].status
    BY <2>1, <2>3, StaysHeld DEF PhaseOf
  <2>4. QED
    BY <2>2, <2>3
<1>3. HoldWorker'
  <2>1. ASSUME AtWork
        PROVE  /\ job \in Jobs /\ cr[job].exists /\ CallInv
               /\ pc \notin {"history", "results", "setPhase"} => obj = cr[job].status
    BY <2>1, LifeParts DEF AtWork, WorkerLife, MemoryInv
  <2>2. ASSUME pc = "createOp" PROVE Granted(arg, job)'
    <3>1. \A i, k : i = arg /\ k = job => Granted(i, k)'
      BY <2>1, <2>2, HoldParts DEF AtWork, CallInv, HoldWorker, Undisturbed, MadeFor
    <3>2. QED
      BY <1>1, <3>1 DEF Granted, OwnRunning, PoolOf
  <2>3. ASSUME pc = "cleanup", "pollCall" \notin FaultKinds PROVE HasFailed(obj.op)'
    <3>1. obj = cr[job].status /\ PhaseOf(job) = "Provisioning"
      BY <2>1, <2>3 DEF AtWork, CallInv, PhaseKnown, CallsAt, PhaseOf
    <3>2. \A i : i = obj.op => HasFailed(i)'
      BY <2>1, <2>3, <3>1, ProvisioningOperation, HoldParts
         DEF AtWork, HoldWorker, Undisturbed
    <3>3. QED
      BY <1>1, <3>2 DEF HasFailed
  <2>4. ASSUME pc = "count" \/ (pc = "setPhase" /\ to = "Ready")
        PROVE  OwnRunning(job)'
    <3>1. \A k : k = job => OwnRunning(k)'
      BY <2>1, <2>4, HoldParts DEF AtWork, HoldWorker, Undisturbed
    <3>2. QED
      BY <1>1, <3>1 DEF OwnRunning, PoolOf
  <2>5. QED
    BY <1>1, <2>2, <2>3, <2>4 DEF HoldWorker
<1>4. QED
  BY <1>2, <1>3, HoldParts DEF HoldInv, Holders, HoldWorker

-----------------------------------------------------------------------------
\* The calls and moves after which the worker relies on no pool.
LEMMA EnterUnconcerned ==
    ASSUME NEW s, NEW status
    PROVE  /\ EnterPending(s, status) \/ EnterSolver(s, status) => Unconcerned
           /\ EnterProvisioning(s, status) \/ EnterOperation(status) => Unconcerned
           /\ EnterBackend(s, "apply") \/ EnterBackend(s, "getPhase") => Unconcerned
           /\ EnterDelete(status.phase) => Unconcerned
           /\ EnterPhase(s, status) => Unconcerned
           /\ \A b : Return(b) => Unconcerned
           /\ \A phase : phase # "Ready" /\ MoveTo(phase) => Unconcerned
           /\ FailJob => Unconcerned
           /\ \A label : /\ label \notin {"createOp", "cleanup", "count", "setPhase"}
                         /\ Goto(label)
                         => Unconcerned
<1>1. /\ \A b : Return(b) => Unconcerned
      /\ \A phase : phase # "Ready" /\ MoveTo(phase) => Unconcerned
      /\ FailJob => Unconcerned
      /\ \A label : /\ label \notin {"createOp", "cleanup", "count", "setPhase"}
                    /\ Goto(label)
                    => Unconcerned
  BY DEF Return, MoveTo, FailJob, Goto, Unconcerned
<1>2. /\ EnterSolver(s, status) \/ EnterOperation(status) => Unconcerned
      /\ EnterBackend(s, "apply") \/ EnterBackend(s, "getPhase") => Unconcerned
  BY <1>1 DEF EnterSolver, EnterOperation, EnterBackend
<1>3. /\ EnterPending(s, status) \/ EnterProvisioning(s, status) => Unconcerned
      /\ EnterDelete(status.phase) => Unconcerned
  BY <1>1, <1>2 DEF EnterPending, EnterProvisioning, EnterDelete
<1>4. EnterPhase(s, status) => Unconcerned
  BY <1>1, <1>2, <1>3 DEF EnterPhase
<1>5. QED
  BY <1>1, <1>2, <1>3, <1>4

\* A call that writes no object and disturbs none.
LEMMA CallHolds ==
    ASSUME LifeInv, HoldInv, UNCHANGED cr, UsedBefore, pc # "setPhase",
           \A k \in Jobs : Undisturbed(k)
    PROVE  Holders'
<1>1. \A k \in Jobs : HeldBy(k) /\ ~Abandoned(k)
  BY HoldParts DEF Holders, Abandoned
<1>2. \A k \in Jobs : HeldBy(k)'
  BY <1>1, StaysHeld DEF PhaseOf, UsedBefore
<1>3. QED
  BY <1>2 DEF Holders

\* A status patch that leaves the phase alone, and the operation of a job that waits
\* for its pool too, unless it stores a creation.
LEMMA PatchHolds ==
    ASSUME TypeOK, ~CacheLag, LifeInv, HoldInv, pc \notin {"idle", "setPhase"},
           UsedBefore, UNCHANGED World, NEW new, Accepted(new) \/ Rejected(new),
           new.phase = obj.phase,
           \/ new.op = obj.op
           \/ PhaseOf(job) # "Provisioning"
           \/ Granted(new.op, job)
    PROVE  OperationsInv' /\ Holders'
<1> DEFINE s == Merged(obj, new, cr[job].status)
<1>1. s.phase = PhaseOf(job) /\ s.op \in {cr[job].status.op, new.op}
      /\ (new.op = obj.op => s.op = cr[job].status.op)
  BY DEF Merged, PhaseOf
<1> HIDE DEF s
<1>2. job \in Jobs
  BY LifeTypes
<1>3. cr' = [cr EXCEPT ![job] = [@ EXCEPT !.status = s]] \/ UNCHANGED cr
  BY DEF Accepted, Rejected, PatchStatus, Put, s
<1>4. \A k \in Jobs :
         \/ cr'[k] = cr[k]
         \/ k = job /\ cr'[k] = [cr[k] EXCEPT !.status = s]
  BY <1>2, <1>3, LifeTypes
<1>5. \A k \in Jobs : (InUse(k)' => InUse(k)) /\ PhaseOf(k)' = PhaseOf(k)
  BY <1>1, <1>4, LifeTypes DEF UsedBefore, PhaseOf, Object
<1>6. OperationsInv' /\ \A k \in Jobs : Undisturbed(k)
  BY QuietCloud, HoldParts DEF World
<1>7. \A k \in Jobs : HeldBy(k) /\ ~Abandoned(k)
  BY HoldParts DEF Holders, Abandoned
<1>8. ASSUME NEW k \in Jobs PROVE HeldBy(k)'
  <2>1. CASE cr'[k].status.op = cr[k].status.op
    BY <1>5, <1>6, <1>7, <2>1, StaysHeld
  <2>2. CASE cr'[k].status.op # cr[k].status.op
    <3>1. /\ k = job /\ cr'[k].status.op = new.op
          /\ PhaseOf(k) # "Provisioning" \/ Granted(new.op, k)
      BY <1>1, <1>4, <2>2, LifeTypes DEF Object
    <3>2. InUse(k)' /\ PhaseOf(k)' \in {"Ready", "Running"} => OwnRunning(k)'
      BY <1>5, <1>6, <1>7 DEF HeldBy, Undisturbed
    <3>3. PhaseOf(k)' = "Provisioning" => Granted(new.op, k)
      BY <1>5, <3>1
    <3>4. \A i : Granted(i, k) => Granted(i, k)'
      BY DEF World, gkeVars, Granted, OwnRunning, PoolOf
    <3>5. PhaseOf(k)' = "Provisioning" => \A i : i = cr'[k].status.op => Granted(i, k)'
      BY <3>1, <3>3, <3>4
    <3>6. PhaseOf(k)' = "Provisioning" => Granted(cr[k].status.op, k)'
      BY <3>5 DEF Granted
    <3>7. QED
      BY <3>2, <3>6 DEF HeldBy
  <2>3. QED
    BY <2>1, <2>2
<1>9. QED
  BY <1>6, <1>8 DEF Holders

-----------------------------------------------------------------------------
\* What is shown of every step.
LEMMA HoldStep ==
    ASSUME OperationsInv', Holders', Unconcerned \/ HoldWorker'
    PROVE  HoldInv'
  BY UnconcernedWorker DEF HoldInv, Holders, HoldWorker

\* The patches that leave phase and operation alone.
LEMMA PlainPatches ==
    ASSUME TypeOK, ~CacheLag, LifeInv, HoldInv,
           \/ SetStartTime \/ Solve \/ SetProvisioningStartTime \/ SetJobName
           \/ ResetTrainingStart \/ SetTrainingStart \/ SetResults
    PROVE  HoldInv'
<1>1. /\ pc \notin {"idle", "setPhase"} /\ UNCHANGED World /\ obj \in Status
      /\ UsedBefore
  <2>1. UsedBefore
    BY HandlerUses DEF Handler
  <2>2. QED
    BY <2>1, LifeTypes
       DEF SetStartTime, Solve, SetProvisioningStartTime, SetJobName,
           ResetTrainingStart, SetTrainingStart, SetResults
<1>2. ASSUME NEW new, Accepted(new) \/ Rejected(new),
             new.phase = obj.phase, new.op = obj.op, Unconcerned
      PROVE  HoldInv'
  BY <1>1, <1>2, PatchHolds, HoldStep
<1>3. CASE SetStartTime
  <2> DEFINE new == [obj EXCEPT !.start = TRUE]
  <2>1. new.phase = obj.phase /\ new.op = obj.op
    BY <1>1 DEF Status
  <2>2. (Accepted(new) \/ Rejected(new)) /\ Unconcerned
    BY <1>3, EnterUnconcerned DEF SetStartTime, Persist
  <2> HIDE DEF new
  <2>3. QED
    BY <1>2, <2>1, <2>2
<1>4. CASE Solve
  <2>1. ASSUME NEW n \in spec.solutions,
               Persist([obj EXCEPT !.nodes = n], MoveTo("Provisioning"))
        PROVE  HoldInv'
    <3> DEFINE new == [obj EXCEPT !.nodes = n]
    <3>1. new.phase = obj.phase /\ new.op = obj.op
      BY <1>1 DEF Status
    <3>2. (Accepted(new) \/ Rejected(new)) /\ Unconcerned
      BY <2>1, EnterUnconcerned DEF Persist
    <3> HIDE DEF new
    <3>3. QED
      BY <1>2, <3>1, <3>2
  <2>2. ASSUME FailJob, UNCHANGED cr PROVE HoldInv'
    <3>1. OperationsInv' /\ \A k \in Jobs : Undisturbed(k)
      BY <1>1, QuietCloud, HoldParts DEF World
    <3>2. QED
      BY <1>1, <2>2, <3>1, EnterUnconcerned, CallHolds, HoldStep
  <2>3. QED
    BY <1>4, <2>1, <2>2 DEF Solve
<1>5. CASE SetProvisioningStartTime
  <2> DEFINE new == [obj EXCEPT !.provStart = TRUE]
  <2>1. new.phase = obj.phase /\ new.op = obj.op
    BY <1>1 DEF Status
  <2>2. (Accepted(new) \/ Rejected(new)) /\ Unconcerned
    BY <1>5, EnterUnconcerned DEF SetProvisioningStartTime, Persist
  <2> HIDE DEF new
  <2>3. QED
    BY <1>2, <2>1, <2>2
<1>6. CASE SetJobName
  <2> DEFINE new == [obj EXCEPT !.jobName = TRUE]
  <2>1. new.phase = obj.phase /\ new.op = obj.op
    BY <1>1 DEF Status
  <2>2. (Accepted(new) \/ Rejected(new)) /\ Unconcerned
    BY <1>6, EnterUnconcerned DEF SetJobName, Persist
  <2> HIDE DEF new
  <2>3. QED
    BY <1>2, <2>1, <2>2
<1>7. CASE ResetTrainingStart
  <2> DEFINE new == [obj EXCEPT !.trainStart = FALSE]
  <2>1. new.phase = obj.phase /\ new.op = obj.op
    BY <1>1 DEF Status
  <2>2. (Accepted(new) \/ Rejected(new)) /\ Unconcerned
    BY <1>7, EnterUnconcerned DEF ResetTrainingStart, Persist
  <2> HIDE DEF new
  <2>3. QED
    BY <1>2, <2>1, <2>2
<1>8. CASE SetTrainingStart
  <2> DEFINE new == [obj EXCEPT !.trainStart = TRUE]
  <2>1. new.phase = obj.phase /\ new.op = obj.op
    BY <1>1 DEF Status
  <2>2. to # "Ready"
    BY <1>8, LifeParts DEF SetTrainingStart, WorkerLife, AtWork, CallInv
  <2>3. (Accepted(new) \/ Rejected(new)) /\ Unconcerned
    BY <1>8, <2>2, EnterUnconcerned
       DEF SetTrainingStart, PersistAndReturn, PersistBestEffort
  <2> HIDE DEF new
  <2>4. QED
    BY <1>2, <2>1, <2>3
<1>9. CASE SetResults
  <2> DEFINE new == [obj EXCEPT !.trainTime = timed, !.billed = arg,
                                !.finish = TRUE, !.size = 0]
  <2>1. new.phase = obj.phase /\ new.op = obj.op
    BY <1>1 DEF Status
  <2>2. (Accepted(new) \/ Rejected(new)) /\ Unconcerned
    BY <1>9, EnterUnconcerned DEF SetResults, Persist
  <2> HIDE DEF new
  <2>3. QED
    BY <1>2, <2>1, <2>2
<1>10. QED
  BY <1>3, <1>4, <1>5, <1>6, <1>7, <1>8, <1>9

\* The patches that store or clear an operation.
LEMMA OperationPatches ==
    ASSUME TypeOK, ~CacheLag, LifeInv, HoldInv,
           StoreCreateOperation \/ StoreDeleteOperation \/ ClearOperation
    PROVE  HoldInv'
<1>1. /\ pc \notin {"idle", "setPhase"} /\ UNCHANGED World /\ obj \in Status
      /\ AtWork /\ CallInv /\ MemoryInv /\ obj.phase = PhaseOf(job) /\ UsedBefore
  <2>1. /\ pc \in {"createOp", "releaseOp", "clearOp"} /\ UNCHANGED World /\ AtWork
    BY DEF StoreCreateOperation, StoreDeleteOperation, ClearOperation, AtWork
  <2>2. UsedBefore
    BY HandlerUses DEF Handler
  <2>3. QED
    BY <2>1, <2>2, AtWorkFacts
<1>2. ASSUME NEW n, LET new == [obj EXCEPT !.op = n] IN Accepted(new) \/ Rejected(new),
             PhaseOf(job) # "Provisioning" \/ Granted(n, job), Unconcerned
      PROVE  HoldInv'
  <2> DEFINE new == [obj EXCEPT !.op = n]
  <2>1. new.phase = obj.phase /\ new.op = n
    BY <1>1 DEF Status
  <2>2. Accepted(new) \/ Rejected(new)
    BY <1>2
  <2> HIDE DEF new
  <2>3. OperationsInv' /\ Holders'
    BY <1>1, <1>2, <2>1, <2>2, PatchHolds
  <2>4. QED
    BY <1>2, <2>3, HoldStep
<1>3. CASE StoreCreateOperation
  <2>1. Granted(arg, job)
    BY <1>3, HoldParts DEF HoldWorker, StoreCreateOperation
  <2>2. QED
    BY <1>2, <1>3, <2>1, EnterUnconcerned DEF StoreCreateOperation, PersistAndReturn
<1>4. CASE StoreDeleteOperation
  <2>1. PhaseOf(job) # "Provisioning"
    BY <1>1, <1>4 DEF StoreDeleteOperation, CallInv, PhaseKnown, CallsAt
  <2>2. QED
    BY <1>2, <1>4, <2>1, EnterUnconcerned DEF StoreDeleteOperation, PersistBestEffort
<1>5. CASE ClearOperation
  <2>1. PhaseOf(job) # "Provisioning"
    BY <1>1, <1>5 DEF ClearOperation, CallInv, PhaseKnown, CallsAt
  <2>2. QED
    BY <1>2, <1>5, <2>1, EnterUnconcerned DEF ClearOperation, PersistAndReturn
<1>6. QED
  BY <1>3, <1>4, <1>5

\* Enough nodes are Ready: the pool the job has been polling for is its own.
LEMMA CountReadyNodesHold ==
    ASSUME TypeOK, ~CacheLag, LifeInv, HoldInv, CountReadyNodes
    PROVE  HoldInv'
<1> DEFINE ready == pool[PoolOf(job)].ready
           few == [obj EXCEPT !.size = ready]
           all == [obj EXCEPT !.op = 0, !.size = ready, !.provTime = TRUE]
<1>1. pc = "count" /\ UNCHANGED World /\ obj \in Status /\ job \in Jobs /\ UsedBefore
  <2>1. UsedBefore
    BY HandlerUses DEF Handler
  <2>2. QED
    BY <2>1, LifeTypes DEF CountReadyNodes
<1>2. few.phase = obj.phase /\ few.op = obj.op /\ all.phase = obj.phase /\ all.op = 0
  BY <1>1 DEF Status
<1>3. \/ (Accepted(few) \/ Rejected(few)) /\ Unconcerned
      \/ Accepted(all) /\ MoveTo("Ready") /\ Stay
      \/ Rejected(all) /\ Unconcerned
      \/ UNCHANGED cr /\ Unconcerned
  BY EnterUnconcerned DEF CountReadyNodes, Persist, PersistAndReturn
<1> HIDE DEF few, all
<1>4. Granted(0, job)
  BY NoName
<1>5. OperationsInv' /\ \A k \in Jobs : Undisturbed(k)
  BY <1>1, QuietCloud, HoldParts DEF World
<1>6. OperationsInv' /\ Holders'
  <2>1. CASE UNCHANGED cr
    BY <1>1, <1>5, <2>1, CallHolds
  <2>2. CASE Accepted(few) \/ Rejected(few)
    BY <1>1, <1>2, <2>2, PatchHolds
  <2>3. CASE Accepted(all) \/ Rejected(all)
    BY <1>1, <1>2, <1>4, <2>3, PatchHolds
  <2>4. QED
    BY <1>3, <2>1, <2>2, <2>3
<1>7. CASE Accepted(all) /\ MoveTo("Ready") /\ Stay
  <2>1. OwnRunning(job)
    BY <1>1, HoldParts DEF HoldWorker
  <2>2. job' = job /\ pool' = pool /\ pc' = "setPhase"
    BY <1>1, <1>7 DEF Stay, World, gkeVars, MoveTo
  <2>3. HoldWorker'
    BY <2>1, <2>2 DEF HoldWorker, OwnRunning, PoolOf
  <2>4. QED
    BY <1>6, <2>3, HoldStep
<1>8. QED
  BY <1>3, <1>6, <1>7, HoldStep

\* GetOperation on the creation: done means that the pool is there, an error of the
\* operation that it is not.
LEMMA PollCreateHold ==
    ASSUME TypeOK, LifeInv, HoldInv, PollCreate
    PROVE  HoldInv'
<1>1. /\ pc = "poll" /\ UNCHANGED World /\ UNCHANGED cr /\ AtWork
      /\ job \in Jobs /\ HeldBy(job) /\ ~Abandoned(job) /\ UsedBefore
  <2>1. UsedBefore
    BY HandlerUses DEF Handler
  <2>2. QED
    BY <2>1, LifeTypes, HoldParts DEF PollCreate, AtWork, Holders, Abandoned
<1>2. obj = cr[job].status /\ PhaseOf(job) = "Provisioning" /\ InUse(job)
  BY <1>1, AtWorkFacts DEF MemoryInv, CallInv, PhaseKnown, CallsAt, InUse, Handled
<1>3. OperationsInv' /\ Holders'
  BY <1>1, QuietCloud, HoldParts, CallHolds DEF World
<1>4. CASE Unconcerned
  BY <1>3, <1>4, HoldStep
<1>5. CASE OperationReply(obj.op) = "done" /\ Goto("count") /\ Stay
  <2>1. \E o \in operations : o.id = obj.op /\ o.status = "done"
    BY <1>5 DEF OperationReply
  <2>2. OwnRunning(job)
    BY <1>1, <1>2, <2>1 DEF HeldBy, Granted
  <2>3. UNCHANGED <<job, cr, pool>> /\ pc' = "count"
    BY <1>1, <1>5 DEF Stay, World, gkeVars, Goto
  <2>4. HoldWorker'
    BY <2>2, <2>3 DEF HoldWorker, OwnRunning, PoolOf
  <2>5. QED
    BY <1>3, <2>4, HoldStep
<1>6. CASE /\ Goto("cleanup") /\ UNCHANGED obj
           /\ OperationReply(obj.op) = "error" \/ Fault("pollCall")
  <2>1. pc' = "cleanup" /\ UNCHANGED <<obj, operations>>
    BY <1>1, <1>6 DEF Goto, World, gkeVars
  <2>2. CASE OperationReply(obj.op) = "error"
    <3>1. \E o \in operations : o.id = obj.op /\ o.status = "failed"
      BY <2>2 DEF OperationReply
    <3>2. HasFailed(obj.op)
      BY <3>1, HoldParts DEF OperationsInv, HasFailed
    <3>3. HoldWorker'
      BY <2>1, <3>2 DEF HoldWorker, HasFailed
    <3>4. QED
      BY <1>3, <3>3, HoldStep
  <2>3. CASE Fault("pollCall")
    BY <1>3, <2>1, <2>3, HoldStep DEF Fault, HoldWorker
  <2>4. QED
    BY <1>6, <2>2, <2>3
<1>7. QED
  BY <1>4, <1>5, <1>6, EnterUnconcerned DEF PollCreate

\* setPhase: a job becomes Ready with its own pool, and Running with the same.
LEMMA SetPhaseHold ==
    ASSUME TypeOK, ~CacheLag, PollsCount, LifeInv, HoldInv, SetPhase
    PROVE  HoldInv'
<1> DEFINE new == [obj EXCEPT !.phase = to]
           s == Merged(obj, new, cr[job].status)
<1>1. /\ pc = "setPhase" /\ UNCHANGED World /\ AtWork /\ pc' = "idle"
      /\ Accepted(new) \/ Rejected(new)
  BY DEF SetPhase, AtWork, PersistAndReturn, Return
<1>2. /\ job \in Jobs /\ obj.phase = PhaseOf(job) /\ cr[job].exists /\ obj \in Status
      /\ NextPhaseInv /\ UsedBefore
  <2>1. UsedBefore
    BY HandlerUses DEF Handler
  <2>2. QED
    BY <1>1, <2>1, AtWorkFacts, LifeParts DEF MemoryInv, WorkerLife
<1>3. s.phase = to /\ s.op = cr[job].status.op
  BY <1>2 DEF Merged, PhaseOf, Status
<1> HIDE DEF new, s
<1>4. OperationsInv' /\ \A k \in Jobs : Undisturbed(k)
  BY <1>1, QuietCloud, HoldParts DEF World
<1>5. /\ cr' = [cr EXCEPT ![job] = [@ EXCEPT !.status = s]] \/ UNCHANGED cr
      /\ "pollCall" \in FaultKinds => cr' = [cr EXCEPT ![job] = [@ EXCEPT !.status = s]]
  BY <1>1, <1>2 DEF Accepted, Rejected, PatchStatus, Put, s, Fault, PollsCount
<1>6. ASSUME NEW k \in Jobs, cr'[k] = cr[k], ~Abandoned(k) PROVE HeldBy(k)'
  BY <1>2, <1>4, <1>6, StaysHeld, HoldParts DEF Holders, UsedBefore, PhaseOf
<1>7. ASSUME NEW k \in Jobs, k = job, cr'[k] = [cr[k] EXCEPT !.status = s]
      PROVE  HeldBy(k)'
  <2>1. /\ InUse(k)' => InUse(k)
        /\ PhaseOf(k)' = to /\ cr'[k].status.op = cr[k].status.op
    BY <1>2, <1>3, <1>7, LifeTypes DEF UsedBefore, PhaseOf, Object
  <2>2. Undisturbed(k) /\ HeldBy(k)
    BY <1>4, HoldParts DEF Holders
  <2>3. CASE to = PhaseOf(k)
    BY <2>1, <2>2, <2>3, StaysHeld DEF Abandoned
  <2>4. CASE to = "Provisioning" /\ to # PhaseOf(k)
    <3>1. PhaseOf(k) = ""
      BY <1>2, <1>7, <2>4 DEF NextPhaseInv, Follows, PhaseSteps, PhaseOf
    <3>2. cr[k].status.op = 0
      BY <1>2, <1>7, <3>1, LifeParts
         DEF Lives, LifeOf, Fits, OperationFits, Past, PhaseOf
    <3>3. \A id : id = 0 => Granted(id, k)'
      BY <2>2, NoName DEF Undisturbed, MadeFor
    <3>4. Granted(cr[k].status.op, k)'
      BY <2>1, <3>2, <3>3 DEF Granted
    <3>5. QED
      BY <2>1, <2>4, <3>4 DEF HeldBy
  <2>5. CASE to = "Ready"
    BY <1>1, <1>7, <2>1, <2>2, <2>5, HoldParts DEF HoldWorker, HeldBy, Undisturbed
  <2>6. CASE to = "Running" /\ to # PhaseOf(k)
    <3>1. PhaseOf(k) = "Ready"
      BY <1>2, <1>7, <2>6 DEF NextPhaseInv, Follows, PhaseSteps, PhaseOf
    <3>2. QED
      BY <2>1, <2>2, <2>6, <3>1 DEF HeldBy, Undisturbed
  <2>7. CASE to \notin {"Ready", "Running", "Provisioning"}
    BY <2>1, <2>7, NewHeld
  <2>8. QED
    BY <2>3, <2>4, <2>5, <2>6, <2>7
<1>8. ASSUME NEW k \in Jobs PROVE HeldBy(k)'
  <2>1. CASE k # job \/ (UNCHANGED cr /\ "pollCall" \notin FaultKinds)
    <3>1. cr'[k] = cr[k] /\ ~Abandoned(k)
      BY <1>5, <2>1, LifeTypes DEF Abandoned
    <3>2. QED
      BY <1>6, <3>1
  <2>2. CASE k = job /\ cr' = [cr EXCEPT ![job] = [@ EXCEPT !.status = s]]
    BY <1>7, <2>2, LifeTypes
  <2>3. QED
    BY <1>5, <2>1, <2>2
<1>9. Holders' /\ Unconcerned
  BY <1>1, <1>8 DEF Holders, Unconcerned
<1>10. QED
  BY <1>4, <1>9, HoldStep

\* The calls that neither write an object nor touch a pool.
LEMMA ReadsHold ==
    ASSUME TypeOK, LifeInv, HoldInv,
           \/ ApplyJob \/ GetPhase \/ GetStartTime \/ CollectResults \/ PollDelete
    PROVE  HoldInv'
<1>1. /\ pc \notin {"idle", "setPhase"} /\ UNCHANGED gkeVars /\ UNCHANGED cr
      /\ UsedBefore
  <2>1. UsedBefore
    BY HandlerUses DEF Handler
  <2>2. QED
    BY <2>1
       DEF ApplyJob, GetPhase, GetStartTime, CollectResults, PollDelete, World, kubeVars
<1>2. OperationsInv' /\ Holders'
  BY <1>1, QuietCloud, HoldParts, CallHolds
<1>3. CASE ApplyJob \/ CollectResults \/ PollDelete
  <2>1. Unconcerned
    BY <1>3, EnterUnconcerned DEF ApplyJob, CollectResults, PollDelete
  <2>2. QED
    BY <1>2, <2>1, HoldStep
<1>4. CASE GetPhase
  <2> DEFINE verdict == Verdict(BackendPhase(job))
  <2>1. verdict # "Ready"
    BY DEF Verdict
  <2> HIDE DEF verdict
  <2>2. \/ Goto("resetStart") \/ FailJob \/ pc' = "getStart"
        \/ MoveTo(verdict) \/ Return(TRUE)
    BY <1>4 DEF GetPhase, verdict
  <2>3. Unconcerned
    BY <2>1, <2>2, EnterUnconcerned DEF Unconcerned
  <2>4. QED
    BY <1>2, <2>3, HoldStep
<1>5. CASE GetStartTime
  <2>1. to # "Ready"
    BY <1>5, LifeParts DEF GetStartTime, WorkerLife, AtWork, CallInv
  <2>2. pc' = "trainStart" \/ Return(TRUE) \/ MoveTo(to)
    BY <1>5 DEF GetStartTime
  <2>3. Unconcerned
    BY <2>1, <2>2, EnterUnconcerned DEF Unconcerned
  <2>4. QED
    BY <1>2, <2>3, HoldStep
<1>6. QED
  BY <1>3, <1>4, <1>5

\* Writes to an object that leave its status alone, or remove it.
LEMMA WritesHold ==
    ASSUME LifeInv, HoldInv, UNCHANGED gkeVars, pc # "setPhase",
           \A k \in Jobs : InUse(k)' => InUse(k) /\ cr'[k].status = cr[k].status
    PROVE  OperationsInv' /\ Holders'
<1>1. OperationsInv' /\ \A k \in Jobs : Undisturbed(k)
  BY QuietCloud, HoldParts
<1>2. \A k \in Jobs : HeldBy(k) /\ ~Abandoned(k)
  BY HoldParts DEF Holders, Abandoned
<1>3. \A k \in Jobs : HeldBy(k)'
  BY <1>1, <1>2, StaysHeld DEF PhaseOf
<1>4. QED
  BY <1>1, <1>3 DEF Holders

\* The finalizer is added; or removed, and the object with it.
LEMMA FinalizersHold ==
    ASSUME TypeOK, ~CacheLag, LifeInv, HoldInv, AddFinalizer \/ RemoveFinalizer
    PROVE  HoldInv'
<1>1. /\ pc \notin {"idle", "setPhase"} /\ UNCHANGED gkeVars /\ job \in Jobs
      /\ Unconcerned /\ UsedBefore
  <2>1. UsedBefore
    BY HandlerUses DEF Handler
  <2>2. QED
    BY <2>1, LifeTypes, EnterUnconcerned DEF AddFinalizer, RemoveFinalizer, World
<1>2. ASSUME NEW o, o \in {[cr[job] EXCEPT !.finalizer = TRUE], NoObject,
                           [cr[job] EXCEPT !.finalizer = FALSE]},
             cr' = [cr EXCEPT ![job] = o], NEW k \in Jobs, InUse(k)'
      PROVE  InUse(k) /\ cr'[k].status = cr[k].status
  BY <1>1, <1>2, LifeTypes DEF UsedBefore, InUse, Object, NoObject
<1>3. \A k \in Jobs : InUse(k)' => InUse(k) /\ cr'[k].status = cr[k].status
  BY <1>1, <1>2 DEF AddFinalizer, RemoveFinalizer, Put, UsedBefore
<1>4. QED
  BY <1>1, <1>3, WritesHold, HoldStep

\* CreateNodePool: whether or not its answer arrives.
LEMMA CreateNodePoolHold ==
    ASSUME TypeOK, PoolsApart, LifeInv, HoldInv, CreateNodePool
    PROVE  HoldInv'
<1> DEFINE Accept == AcceptCreate(PoolOf(job), job, DesiredNodes(spec, obj.nodes))
<1>1. pc = "create" /\ UNCHANGED cr /\ job \in Jobs /\ job' = job /\ UsedBefore
  <2>1. UsedBefore
    BY HandlerUses DEF Handler
  <2>2. QED
    BY <2>1, LifeTypes DEF CreateNodePool, kubeVars, Stay
<1>2. /\ (Accept /\ arg' = lastOp' /\ Goto("createOp")) \/ FailJob
      /\ Accept \/ UNCHANGED gkeVars
  BY DEF CreateNodePool, RejectCreate
<1>3. /\ OperationsInv' /\ \A k \in Jobs : Undisturbed(k)
      /\ Accept => \A i, k : i = lastOp' /\ k = job => Granted(i, k)'
  <2>1. CASE UNCHANGED gkeVars /\ ~Accept
    BY <2>1, QuietCloud, HoldParts
  <2>2. CASE Accept
    <3>1. \A k \in Jobs : k = job =>
             /\ OperationsInv' /\ (\A l \in Jobs : Undisturbed(l))
             /\ Granted(lastOp, k)'
      BY <2>2, CreatedPool, HoldParts
    <3>2. \A i, k : i = lastOp' /\ k = job => Granted(i, k)'
      BY <1>1, <3>1 DEF Granted
    <3>3. QED
      BY <1>1, <3>1, <3>2
  <2>3. QED
    BY <1>2, <2>1, <2>2
<1>4. Holders'
  BY <1>1, <1>3, CallHolds
<1>5. CASE FailJob
  BY <1>3, <1>4, <1>5, EnterUnconcerned, HoldStep
<1>6. CASE Accept /\ arg' = lastOp' /\ Goto("createOp")
  <2>1. pc' = "createOp" /\ \A i, k : i = arg' /\ k = job' => Granted(i, k)'
    BY <1>1, <1>3, <1>6 DEF Goto
  <2>2. HoldWorker'
    BY <2>1 DEF HoldWorker, Granted, OwnRunning, PoolOf
  <2>3. QED
    BY <1>3, <1>4, <2>2, HoldStep
<1>7. QED
  BY <1>2, <1>5, <1>6

\* DeleteNodePool takes the pool of a job that is not waiting for it or using it.
LEMMA DeletesHold ==
    ASSUME TypeOK, PoolsApart, LifeInv, HoldInv, UNCHANGED cr, pc # "setPhase",
           UsedBefore,
           NEW j \in Jobs, AcceptDelete(PoolOf(j)) \/ UNCHANGED gkeVars,
           ~InUse(j) \/ PhaseOf(j) \notin {"Provisioning", "Ready", "Running"}
    PROVE  OperationsInv' /\ Holders'
<1>1. CASE UNCHANGED gkeVars
  BY <1>1, QuietCloud, HoldParts, CallHolds
<1>2. CASE AcceptDelete(PoolOf(j))
  <2>1. OperationsInv' /\ \A k \in Jobs \ {j} : Undisturbed(k)
    BY <1>2, DeletedPool, HoldParts
  <2>2. \A k \in Jobs : HeldBy(k) /\ ~Abandoned(k)
    BY HoldParts DEF Holders, Abandoned
  <2>3. \A k \in Jobs \ {j} : HeldBy(k)'
    BY <2>1, <2>2, StaysHeld DEF PhaseOf, UsedBefore
  <2>4. HeldBy(j)'
    BY DEF HeldBy, UsedBefore, PhaseOf
  <2>5. QED
    BY <2>1, <2>3, <2>4 DEF Holders
<1>3. QED
  BY <1>1, <1>2

\* reconcileCollecting and reconcileDelete do it when the job is done with the pool.
LEMMA ReleasesHold ==
    ASSUME TypeOK, PoolsApart, LifeInv, HoldInv, ReleasePool \/ DeletePool
    PROVE  HoldInv'
<1>1. /\ pc \in {"release", "finalDelete"} /\ UNCHANGED cr /\ AtWork /\ Unconcerned
      /\ AcceptDelete(PoolOf(job)) \/ UNCHANGED gkeVars
      /\ UsedBefore
  <2>1. UsedBefore
    BY HandlerUses DEF Handler
  <2>2. QED
    BY <2>1, EnterUnconcerned DEF ReleasePool, DeletePool, AtWork, kubeVars
<1>2. /\ job \in Jobs
      /\ ~InUse(job) \/ PhaseOf(job) \notin {"Provisioning", "Ready", "Running"}
  BY <1>1, AtWorkFacts DEF CallInv, PhaseKnown, CallsAt, InUse, Handled
<1>3. QED
  BY <1>1, <1>2, DeletesHold, HoldStep

\* The pool of a failed creation is deleted, or of one whose operation could not be
\* read: in both cases the job fails next.
LEMMA CleanUpPoolHold ==
    ASSUME TypeOK, PoolsApart, LifeInv, HoldInv, CleanUpPool
    PROVE  HoldInv'
<1>1. /\ pc = "cleanup" /\ UNCHANGED cr /\ AtWork /\ Unconcerned
      /\ AcceptDelete(PoolOf(job)) \/ UNCHANGED gkeVars
      /\ pc' = "setPhase" /\ to' = "Failed" /\ job' = job
      /\ UsedBefore
  <2>1. UsedBefore
    BY HandlerUses DEF Handler
  <2>2. QED
    BY <2>1, EnterUnconcerned DEF CleanUpPool, AtWork, kubeVars, FailJob, MoveTo, Stay
<1>2. job \in Jobs /\ obj = cr[job].status /\ PhaseOf(job) = "Provisioning"
  BY <1>1, AtWorkFacts DEF CallInv, PhaseKnown, CallsAt
<1>3. CASE UNCHANGED gkeVars
  <2>1. OperationsInv' /\ Holders'
    BY <1>1, <1>3, QuietCloud, HoldParts, CallHolds
  <2>2. QED
    BY <1>1, <2>1, HoldStep
<1>4. ASSUME NEW j \in Jobs, j = job, AcceptDelete(PoolOf(j)) PROVE HoldInv'
  <2>1. /\ OperationsInv' /\ \A k \in Jobs \ {j} : Undisturbed(k)
        /\ \A id : MadeFor(id, j) /\ HasFailed(id) => Granted(id, j)'
    BY <1>4, DeletedPool, HoldParts
  <2>2. \A k \in Jobs : HeldBy(k) /\ ~Abandoned(k)
    BY <1>1, HoldParts DEF Holders, Abandoned
  <2>3. \A k \in Jobs \ {j} : HeldBy(k)'
    BY <1>1, <2>1, <2>2, StaysHeld DEF PhaseOf, UsedBefore
  <2>4. PhaseOf(j)' = "Provisioning"
    BY <1>1, <1>2, <1>4 DEF PhaseOf
  <2>5. "pollCall" \in FaultKinds => Abandoned(j)'
    BY <1>1, <1>4 DEF Abandoned
  <2>6. "pollCall" \notin FaultKinds /\ cr[j].exists => Granted(cr[j].status.op, j)'
    <3>1. SUFFICES ASSUME "pollCall" \notin FaultKinds, cr[j].exists
                   PROVE  Granted(cr[j].status.op, j)'
      OBVIOUS
    <3>2. HasFailed(obj.op) /\ MadeFor(cr[j].status.op, j)
      BY <1>1, <1>2, <1>4, <3>1, HoldParts, ProvisioningOperation DEF HoldWorker
    <3>3. \A i : i = cr[j].status.op => Granted(i, j)'
      BY <1>2, <1>4, <2>1, <3>2
    <3>4. QED
      BY <1>1, <3>3 DEF Granted
  <2>7. InUse(j)' => cr[j].exists
    BY <1>1 DEF InUse
  <2>8. HeldBy(j)'
    BY <2>4, <2>5, <2>6, <2>7 DEF HeldBy
  <2>9. QED
    BY <1>1, <2>1, <2>3, <2>8, HoldStep DEF Holders
<1>5. QED
  BY <1>1, <1>2, <1>3, <1>4

\* A phase handler is entered only for an object that is not being deleted.
LEMMA DequeueUses ==
    ASSUME LifeInv, NEW j \in Jobs, Dequeue(j)
    PROVE  UsedBefore
<1>1. pc = "idle" /\ UNCHANGED cr /\ cache[j] = cr[j]
  BY LifeParts DEF Dequeue, Discard, Reconcile, Take, Lives, LifeOf
<1>2. \A k : Handled(k)' => k = j /\ ~cr[j].deleting
  BY <1>1
     DEF Dequeue, Discard, Reconcile, workerVars, EnterDelete, Goto, Handled, AtWork
<1>3. QED
  BY <1>1, <1>2 DEF UsedBefore, InUse

\* A reconcile begins, or there is nothing to do.
LEMMA DequeueHold ==
    ASSUME TypeOK, LifeInv, HoldInv, NEW j \in Jobs, Dequeue(j)
    PROVE  HoldInv'
<1>1. pc = "idle" /\ UNCHANGED gkeVars /\ UNCHANGED cr
  BY DEF Dequeue, Discard, Reconcile, Take, World
<1>2. OperationsInv' /\ Holders'
  BY <1>1, DequeueUses, WritesHold DEF UsedBefore
<1>3. Unconcerned
  <2>1. CASE Discard(j)
    BY <1>1, <2>1 DEF Discard, workerVars, Unconcerned
  <2>2. CASE Reconcile(j)
    <3> DEFINE o == cache[j]
    <3>1. \/ EnterDelete(o.status.phase)
          \/ Goto("addFinalizer")
          \/ EnterPhase(o.spec, o.status)
      BY <2>2 DEF Reconcile
    <3>2. QED
      BY <3>1, EnterUnconcerned
  <2>3. QED
    BY <2>1, <2>2 DEF Dequeue
<1>4. QED
  BY <1>2, <1>3, HoldStep

\* The process dies: a job that was to fail does not when polls can fail, so then it
\* does not die.
LEMMA CrashHold ==
    ASSUME PollsCount, LifeInv, HoldInv, Crash
    PROVE  HoldInv'
<1>1. UNCHANGED gkeVars /\ UNCHANGED cr /\ pc' = "idle" /\ Fault("crash")
  BY DEF Crash, World
<1>2. OperationsInv' /\ \A k \in Jobs : Undisturbed(k)
  BY <1>1, QuietCloud, HoldParts
<1>3. \A k \in Jobs : HeldBy(k) /\ ~Abandoned(k)
  BY <1>1, HoldParts DEF Holders, Abandoned, PollsCount, Fault
<1>4. Holders' /\ Unconcerned
  BY <1>1, <1>2, <1>3, StaysHeld
     DEF PhaseOf, InUse, Handled, AtWork, Holders, Unconcerned
<1>5. QED
  BY <1>2, <1>4, HoldStep

\* Users.
LEMMA UsersHold ==
    ASSUME TypeOK, LifeInv, HoldInv, NEW j \in Jobs,
           UserCreate(j) \/ UserEdit(j) \/ UserDelete(j)
    PROVE  HoldInv'
<1>1. /\ UNCHANGED gkeVars /\ UNCHANGED workerVars
      /\ OperationsInv' /\ \A k \in Jobs : Undisturbed(k)
      /\ pc # "idle" => job \in Jobs
      /\ \A k : Handled(k)' => Handled(k)
  BY QuietCloud, HoldParts, LifeTypes
     DEF UserCreate, UserEdit, UserDelete, Operator, workerVars, Handled, AtWork
<1>2. ASSUME NEW k \in Jobs, InUse(k)'
      PROVE  \/ InUse(k) /\ cr'[k].status = cr[k].status
             \/ ~cr[k].exists /\ PhaseOf(k)' = ""
  <2>1. CASE UserCreate(j)
    <3>1. PICK s \in Specs[j] :
             cr' = [cr EXCEPT ![j] = [NoObject EXCEPT !.exists = TRUE, !.spec = s]]
      BY <2>1 DEF UserCreate, CreateObject, Put
    <3> DEFINE o == [NoObject EXCEPT !.exists = TRUE, !.spec = s]
    <3>2. o.status.phase = ""
      BY DEF NoObject, EmptyStatus
    <3> HIDE DEF o
    <3>3. ~cr[j].exists /\ cr'[k] = IF k = j THEN o ELSE cr[k]
      BY <2>1, <3>1, LifeTypes DEF UserCreate, CreateObject, o
    <3>4. QED
      BY <1>1, <1>2, <3>2, <3>3 DEF InUse, PhaseOf
  <2>2. CASE UserEdit(j)
    <3>1. PICK s : cr' = [cr EXCEPT ![j] = [cr[j] EXCEPT !.spec = s]]
      BY <2>2 DEF UserEdit, EditObject, Put
    <3>2. QED
      BY <1>1, <1>2, <3>1, LifeTypes DEF InUse, Object
  <2>3. CASE UserDelete(j)
    <3>1. \/ cr' = [cr EXCEPT ![j] = [cr[j] EXCEPT !.deleting = TRUE]]
          \/ cr' = [cr EXCEPT ![j] = NoObject]
      BY <2>3 DEF UserDelete, DeleteObject, Put
    <3>2. ~NoObject.exists
      BY DEF NoObject
    <3>3. CASE cr' = [cr EXCEPT ![j] = [cr[j] EXCEPT !.deleting = TRUE]]
      BY <1>1, <1>2, <3>3, LifeTypes DEF InUse, Object
    <3>4. CASE cr' = [cr EXCEPT ![j] = NoObject]
      BY <1>1, <1>2, <3>2, <3>4, LifeTypes DEF InUse
    <3>5. QED
      BY <3>1, <3>3, <3>4
  <2>4. QED
    BY <2>1, <2>2, <2>3
<1>3. QED
  BY <1>1, <1>2, BesideHold

\* The cloud, the nodes and the backend jobs.
LEMMA WorldHolds ==
    ASSUME TypeOK, LifeInv, HoldInv,
           \/ \E p \in Pools : \/ CloudCreates(p) \/ CloudDeletes(p)
                               \/ NodeJoins(p) \/ NodeLeaves(p)
           \/ \E j \in Jobs : \/ TrainingStarts(j) \/ TrainingEnds(j)
                              \/ CollectGarbage(j) \/ UserDeletesBackendJob(j)
           \/ UNCHANGED vars
    PROVE  HoldInv'
<1>1. OperationsInv' /\ \A k \in Jobs : Undisturbed(k)
  <2>1. CASE UNCHANGED gkeVars
    BY <2>1, QuietCloud, HoldParts
  <2>2. ASSUME NEW p \in Pools,
               CloudCreates(p) \/ CloudDeletes(p) \/ NodeJoins(p) \/ NodeLeaves(p)
        PROVE  OperationsInv' /\ \A k \in Jobs : Undisturbed(k)
    BY <2>2, CloudSteps, HoldParts
  <2>3. QED
    BY <2>1, <2>2
       DEF TrainingStarts, TrainingEnds, CollectGarbage, UserDeletesBackendJob, vars
<1>2. UNCHANGED cr /\ UNCHANGED workerVars /\ (pc # "idle" => job \in Jobs)
  BY LifeTypes
     DEF CloudCreates, CloudDeletes, NodeJoins, NodeLeaves, TrainingStarts,
         TrainingEnds, CollectGarbage, UserDeletesBackendJob, vars, Operator, kubeVars
<1>3. QED
  BY <1>1, <1>2, BesideHold DEF InUse, Handled, AtWork, workerVars

-----------------------------------------------------------------------------
\* Before anything has happened there is no operation and no object.
LEMMA InitHold == ASSUME Init PROVE HoldInv
<1>1. /\ operations = {} /\ pc = "idle"
      /\ \A p \in Pools : pool[p].owner = {}
      /\ \A j \in Jobs : ~cr[j].exists
  BY DEF Init, GKEInit, KubeInit, NoPool, NoObject
<1>2. OperationsInv
  BY <1>1 DEF OperationsInv, CloudInv
<1>3. Holders /\ HoldWorker
  BY <1>1 DEF Holders, HeldBy, InUse, HoldWorker
<1>4. QED
  BY <1>2, <1>3, HoldParts

\* Every step.
LEMMA StepHold ==
    TypeOK /\ HoldAssumption /\ LifeInv /\ HoldInv /\ [Next]_vars => HoldInv'
<1> SUFFICES ASSUME TypeOK, HoldAssumption, LifeInv, HoldInv, [Next]_vars PROVE HoldInv'
  OBVIOUS
<1>1. ~CacheLag /\ PoolsApart /\ PollsCount
  BY DEF HoldAssumption
<1>2. CASE Handler
  BY <1>1, <1>2, PlainPatches, OperationPatches, CountReadyNodesHold, PollCreateHold,
     SetPhaseHold, ReadsHold, FinalizersHold, CreateNodePoolHold, ReleasesHold,
     CleanUpPoolHold
     DEF Handler
<1>3. CASE \E j \in Jobs : Dequeue(j)
  BY <1>3, DequeueHold
<1>4. CASE Environment
  <2>1. ASSUME NEW j \in Jobs, InformerSync(j) PROVE HoldInv'
    BY <1>1, <2>1 DEF InformerSync
  <2>2. QED
    BY <1>1, <1>4, <2>1, CrashHold, UsersHold, WorldHolds DEF Environment
<1>5. CASE UNCHANGED vars
  BY <1>5, WorldHolds
<1>6. QED
  BY <1>2, <1>3, <1>4, <1>5 DEF Next

(***************************************************************************)
(* HoldInv holds for every set of jobs and pools, provided the informer is *)
(* up to date, no two objects name the same pool, and a poll that fails    *)
(* (it makes reconcileProvisioning delete the pool) is the only thing that *)
(* goes wrong until the job has failed.                                    *)
(***************************************************************************)
THEOREM HoldInvariant == HoldAssumption => (Spec => []HoldInv)
<1> SUFFICES ASSUME HoldAssumption PROVE Spec => []HoldInv
  OBVIOUS
<1>1. Init => HoldInv
  BY InitHold
<1>2. TypeOK /\ LifeInv /\ HoldInv /\ [Next]_vars => HoldInv'
  BY StepHold
<1>3. Spec => []LifeInv
  BY LifeInvariant DEF HoldAssumption
<1>4. QED
  BY <1>1, <1>2, <1>3, TypeCorrect, PTL DEF Spec

(***************************************************************************)
(* The backend job is submitted to, and trains on, the job's own running   *)
(* pool: no crash, retry or failed call between CreateNodePool and the     *)
(* patches that end reconcileProvisioning lets a job become Ready without. *)
(***************************************************************************)
THEOREM TrainsOnItsPool == HoldAssumption => (Spec => []TrainsOnOwnPool)
<1> SUFFICES ASSUME HoldAssumption PROVE Spec => []TrainsOnOwnPool
  OBVIOUS
<1>1. HoldInv => TrainsOnOwnPool
  BY DEF HoldInv, HeldBy, InUse, Live, OwnRunning, TrainsOnOwnPool
<1>2. QED
  BY <1>1, HoldInvariant, PTL

-----------------------------------------------------------------------------
\* One step takes no running pool from a job that is still to train on it.
TakesNoPool ==
    \A j \in Jobs :
        /\ pool[PoolOf(j)].state = "running"
        /\ pool'[PoolOf(j)].state = "deleting"
        /\ j \in pool[PoolOf(j)].owner
        => cr[j].deleting \/ PhaseOf(j) \in {"Provisioning", "Collecting"}

\* The calls of the worker that do not touch the cloud.
LEMMA QuietHandlers ==
    ASSUME Handler, ~(CleanUpPool \/ ReleasePool \/ DeletePool \/ CreateNodePool)
    PROVE  UNCHANGED gkeVars
  BY DEF Handler, World, AddFinalizer, SetPhase, SetStartTime, Solve,
         SetProvisioningStartTime, StoreCreateOperation, PollCreate, CountReadyNodes,
         ApplyJob, SetJobName, GetPhase, ResetTrainingStart, GetStartTime,
         SetTrainingStart, StoreDeleteOperation, CollectResults, SetResults,
         PollDelete, ClearOperation, RemoveFinalizer

\* The other steps that do not.
LEMMA QuietOthers ==
    ASSUME \/ \E j \in Jobs : Dequeue(j)
           \/ Crash
           \/ \E j \in Jobs : \/ UserCreate(j) \/ UserEdit(j) \/ UserDelete(j)
                              \/ InformerSync(j)
                              \/ TrainingStarts(j) \/ TrainingEnds(j)
                              \/ CollectGarbage(j) \/ UserDeletesBackendJob(j)
           \/ UNCHANGED vars
    PROVE  UNCHANGED gkeVars
  BY DEF Dequeue, Discard, Reconcile, Take, Crash, World, UserCreate, UserEdit,
         UserDelete, InformerSync, TrainingStarts, TrainingEnds, CollectGarbage,
         UserDeletesBackendJob, vars

\* The three calls of DeleteNodePool.
LEMMA DeletesTakeNone ==
    ASSUME TypeOK, PoolsApart, LifeInv, CleanUpPool \/ ReleasePool \/ DeletePool
    PROVE  TakesNoPool
<1>1. /\ pc \in {"cleanup", "release", "finalDelete"} /\ AtWork
      /\ AcceptDelete(PoolOf(job)) \/ UNCHANGED gkeVars
  BY DEF CleanUpPool, ReleasePool, DeletePool, AtWork
<1>2. /\ job \in Jobs
      /\ cr[job].deleting \/ PhaseOf(job) \in {"Provisioning", "Collecting"}
  BY <1>1, AtWorkFacts DEF CallInv, PhaseKnown, CallsAt
<1>3. \A j \in Jobs : j # job => pool'[PoolOf(j)] = pool[PoolOf(j)]
  BY <1>1, <1>2, CloudTypes DEF AcceptDelete, PoolsApart, gkeVars
<1>4. QED
  BY <1>2, <1>3 DEF TakesNoPool

\* A pool begins to be deleted only by a call.
LEMMA OthersTakeNone ==
    ASSUME TypeOK,
           \/ UNCHANGED gkeVars
           \/ CreateNodePool
           \/ \E p \in Pools : \/ CloudCreates(p) \/ CloudDeletes(p)
                               \/ NodeJoins(p) \/ NodeLeaves(p)
    PROVE  TakesNoPool
<1> SUFFICES ASSUME NEW p \in Pools, pool[p].state = "running"
             PROVE  pool'[p].state # "deleting"
  BY CloudTypes DEF TakesNoPool
<1>1. CASE CreateNodePool
  <2> DEFINE n == DesiredNodes(spec, obj.nodes)
             x == [state |-> "creating", owner |-> {job}, nodes |-> n, ready |-> 0]
  <2>1. x.state = "creating"
    OBVIOUS
  <2>2. (pool' = [pool EXCEPT ![PoolOf(job)] = x]) \/ UNCHANGED pool
    BY <1>1 DEF CreateNodePool, AcceptCreate, RejectCreate, gkeVars
  <2> HIDE DEF x
  <2>3. QED
    BY <2>1, <2>2, CloudTypes
<1>2. ASSUME NEW q \in Pools,
             CloudCreates(q) \/ CloudDeletes(q) \/ NodeJoins(q) \/ NodeLeaves(q)
      PROVE  pool'[p].state # "deleting"
  <2>1. \/ \E s \in {"running", "error"} : pool' = [pool EXCEPT ![q].state = s]
        \/ pool' = [pool EXCEPT ![q] = NoPool]
        \/ \E r : pool' = [pool EXCEPT ![q].ready = r]
    BY <1>2 DEF CloudCreates, CloudDeletes, NodeJoins, NodeLeaves, FinishCreate,
                FailCreate, FinishDelete, FailDelete, NodeReady, NodeLost
  <2>2. NoPool.state = "absent"
    BY DEF NoPool
  <2>3. QED
    BY <2>1, <2>2, CloudTypes DEF NodePool
<1>3. QED
  BY <1>1, <1>2 DEF gkeVars

(***************************************************************************)
(* DeleteNodePool is never called on a running pool whose job is Ready or  *)
(* Running and not being deleted, whatever fails or is retried.            *)
(***************************************************************************)
THEOREM PoolNeverTaken ==
    ~CacheLag /\ PoolsApart => (Spec => NoPoolTakenFromTraining)
<1> SUFFICES ASSUME ~CacheLag, PoolsApart PROVE Spec => NoPoolTakenFromTraining
  OBVIOUS
<1>1. TypeOK /\ LifeInv /\ [Next]_vars => TakesNoPool
  <2> SUFFICES ASSUME TypeOK, LifeInv, [Next]_vars PROVE TakesNoPool
    OBVIOUS
  <2>1. CASE CleanUpPool \/ ReleasePool \/ DeletePool
    BY <2>1, DeletesTakeNone
  <2>2. CASE \/ CreateNodePool
             \/ \E p \in Pools : \/ CloudCreates(p) \/ CloudDeletes(p)
                                 \/ NodeJoins(p) \/ NodeLeaves(p)
    BY <2>2, OthersTakeNone
  <2>3. QED
    BY <2>1, <2>2, OthersTakeNone, QuietHandlers, QuietOthers DEF Next, Environment
<1>2. Spec => [][TakesNoPool]_vars
  BY <1>1, LifeInvariant, TypeCorrect, PTL DEF Spec
<1>3. QED
  BY <1>2 DEF NoPoolTakenFromTraining, TakesNoPool

-----------------------------------------------------------------------------
\* Without edits an object keeps its spec as long as it is there.
SameSpecs ==
    \A j \in Jobs : cr[j].exists /\ cr'[j].exists => cr'[j].spec = cr[j].spec

\* Every step.
LEMMA StepSpecs == ASSUME TypeOK, ~SpecEdits, [Next]_vars PROVE SameSpecs
<1>1. CASE Handler
  BY <1>1, HandlerTouches DEF Untouched, SameSpecs
<1>2. ASSUME NEW j \in Jobs, UserCreate(j) \/ UserDelete(j) PROVE SameSpecs
  <2>1. CASE UserCreate(j)
    <3>1. ~cr[j].exists /\ \E o : cr' = [cr EXCEPT ![j] = o]
      BY <2>1 DEF UserCreate, CreateObject, Put
    <3>2. QED
      BY <3>1, LifeTypes DEF SameSpecs
  <2>2. CASE UserDelete(j)
    <3>1. \/ cr' = [cr EXCEPT ![j] = [cr[j] EXCEPT !.deleting = TRUE]]
          \/ cr' = [cr EXCEPT ![j] = NoObject]
      BY <2>2 DEF UserDelete, DeleteObject, Put
    <3>2. ~NoObject.exists
      BY DEF NoObject
    <3>3. QED
      BY <3>1, <3>2, LifeTypes DEF SameSpecs, Object
  <2>3. QED
    BY <1>2, <2>1, <2>2
<1>3. ASSUME \/ \E j \in Jobs : Dequeue(j)
             \/ Crash
             \/ \E j \in Jobs : \/ UserEdit(j) \/ InformerSync(j)
                                \/ TrainingStarts(j) \/ TrainingEnds(j)
                                \/ CollectGarbage(j) \/ UserDeletesBackendJob(j)
             \/ \E p \in Pools : \/ CloudCreates(p) \/ CloudDeletes(p)
                                 \/ NodeJoins(p) \/ NodeLeaves(p)
             \/ UNCHANGED vars
      PROVE  SameSpecs
  <2>1. UNCHANGED cr
    BY <1>3
       DEF Dequeue, Discard, Reconcile, Take, Crash, UserEdit, EditObject, InformerSync,
           SyncCache, TrainingStarts, TrainingEnds, CollectGarbage,
           UserDeletesBackendJob, CloudCreates, CloudDeletes, NodeJoins, NodeLeaves,
           kubeVars, vars
  <2>2. QED
    BY <2>1 DEF SameSpecs
<1>4. QED
  BY <1>1, <1>2, <1>3 DEF Next, Environment

-----------------------------------------------------------------------------
\* The pool of j, if it has one after the step, is the one it had before.
SamePool(j) ==
    HasPool(j)' => HasPool(j) /\ pool'[PoolOf(j)].nodes = pool[PoolOf(j)].nodes

\* No step of the cloud gives a job a pool; nor does a deletion.
LEMMA CloudSamePool ==
    ASSUME TypeOK, "deleteOp" \notin FaultKinds, NEW j \in Jobs,
           \/ UNCHANGED gkeVars
           \/ \E p \in Pools : \/ AcceptDelete(p)
                               \/ CloudCreates(p) \/ CloudDeletes(p)
                               \/ NodeJoins(p) \/ NodeLeaves(p)
    PROVE  SamePool(j)
<1>1. CASE UNCHANGED gkeVars
  BY <1>1 DEF SamePool, HasPool, Billed, PoolOf, gkeVars
<1>2. ASSUME NEW p \in Pools,
             \/ AcceptDelete(p)
             \/ CloudCreates(p) \/ CloudDeletes(p) \/ NodeJoins(p) \/ NodeLeaves(p)
      PROVE  SamePool(j)
  <2>1. \/ pool' = [pool EXCEPT ![p].state = "deleting"]
        \/ /\ pool[p].state = "creating"
           /\ \E s \in {"running", "error"} : pool' = [pool EXCEPT ![p].state = s]
        \/ pool' = [pool EXCEPT ![p] = NoPool]
        \/ \E r : pool' = [pool EXCEPT ![p].ready = r]
    BY <1>2 DEF AcceptDelete, CloudCreates, CloudDeletes, NodeJoins, NodeLeaves,
                FinishCreate, FailCreate, FinishDelete, FailDelete, NodeReady, NodeLost,
                Fault
  <2>2. NoPool.owner = {}
    BY DEF NoPool
  <2>3. /\ j \in pool'[PoolOf(j)].owner /\ pool'[PoolOf(j)].state # "deleting"
           => /\ j \in pool[PoolOf(j)].owner
              /\ pool'[PoolOf(j)].nodes = pool[PoolOf(j)].nodes
              /\ \/ pool'[PoolOf(j)].state = pool[PoolOf(j)].state
                 \/ pool[PoolOf(j)].state = "creating"
    BY <2>1, <2>2, CloudTypes DEF NodePool
  <2>4. QED
    BY <2>3 DEF SamePool, HasPool, Billed, PoolOf
<1>3. QED
  BY <1>1, <1>2

\* The same pool, spec and node count: the size stays right.
LEMMA SizeStays ==
    ASSUME NEW j \in Jobs, SizeOf(j), ObjectInv(j), LifeStep, SameSpecs, SamePool(j)
    PROVE  SizeOf(j)'
<1> SUFFICES ASSUME cr'[j].exists, HasPool(j)'
             PROVE  /\ PhaseOf(j)' # ""
                    /\ cr'[j].spec.objective =>
                         pool'[PoolOf(j)].nodes = cr'[j].status.nodes
  BY DEF SizeOf, PoolOf
<1>1. /\ HasPool(j) /\ cr[j].exists
      /\ pool'[PoolOf(j)].nodes = pool[PoolOf(j)].nodes
      /\ cr'[j].spec = cr[j].spec
  BY DEF SamePool, ObjectInv, SameSpecs
<1>2. PhaseOf(j) # "" /\ Follows(cr'[j].status.phase, PhaseOf(j))
  BY <1>1 DEF SizeOf, LifeStep
<1>3. cr'[j].status.nodes = cr[j].status.nodes
  BY <1>1, <1>2 DEF LifeStep
<1>4. PhaseOf(j)' # ""
  BY <1>2 DEF Follows, PhaseSteps, PhaseOf
<1>5. QED
  BY <1>1, <1>3, <1>4 DEF SizeOf

\* The pool that CreateNodePool makes has the resolved number of nodes.
LEMMA CreatedSize ==
    ASSUME TypeOK, ~SpecEdits, LifeInv, CreateNodePool, NEW j \in Jobs
    PROVE  SamePool(j) \/ SizeOf(j)'
<1> DEFINE n == DesiredNodes(spec, obj.nodes)
           x == [state |-> "creating", owner |-> {job}, nodes |-> n, ready |-> 0]
<1>1. pc = "create" /\ AtWork /\ UNCHANGED cr
  BY DEF CreateNodePool, AtWork, kubeVars
<1>2. /\ job \in Jobs /\ obj = cr[job].status /\ spec = cr[job].spec
      /\ PhaseOf(job) = "Provisioning"
  BY <1>1, AtWorkFacts DEF CallInv, PhaseKnown, CallsAt
<1>3. x.owner = {job} /\ x.nodes = n
  OBVIOUS
<1>4. (pool' = [pool EXCEPT ![PoolOf(job)] = x]) \/ UNCHANGED pool
  BY DEF CreateNodePool, AcceptCreate, RejectCreate, gkeVars
<1> HIDE DEF x
<1>5. CASE pool'[PoolOf(j)] = pool[PoolOf(j)]
  BY <1>5 DEF SamePool, HasPool, Billed, PoolOf
<1>6. CASE pool'[PoolOf(j)] = x /\ j # job
  BY <1>3, <1>6 DEF SamePool, HasPool, PoolOf
<1>7. CASE pool'[PoolOf(j)] = x /\ j = job
  <2>1. PhaseOf(j)' = "Provisioning" /\ cr'[j] = cr[j]
    BY <1>1, <1>2, <1>7 DEF PhaseOf
  <2>2. cr[j].spec.objective => pool'[PoolOf(j)].nodes = cr[j].status.nodes
    BY <1>2, <1>3, <1>7 DEF DesiredNodes
  <2>3. QED
    BY <2>1, <2>2 DEF SizeOf, PoolOf
<1>8. QED
  BY <1>2, <1>4, <1>5, <1>6, <1>7, CloudTypes

\* Every step.
LEMMA StepSize ==
    TypeOK /\ Reliable /\ ~SpecEdits /\ LifeInv /\ ClaimInv /\ SizeInv /\ [Next]_vars
      => SizeInv'
<1> SUFFICES ASSUME TypeOK, Reliable, ~SpecEdits, LifeInv, ClaimInv, SizeInv,
                    [Next]_vars, NEW j \in Jobs
             PROVE  SizeOf(j)'
  BY DEF SizeInv
<1>1. LifeStep /\ SameSpecs /\ SizeOf(j) /\ ObjectInv(j) /\ "deleteOp" \notin FaultKinds
  BY StepLife, StepSpecs DEF LifeKept, SizeInv, ClaimInv, Reliable
<1>2. SamePool(j) \/ SizeOf(j)'
  <2>1. CASE CreateNodePool
    BY <2>1, CreatedSize
  <2>2. CASE CleanUpPool \/ ReleasePool \/ DeletePool
    <3>1. job \in Jobs
      BY <2>2, LifeTypes DEF CleanUpPool, ReleasePool, DeletePool
    <3>2. QED
      BY <1>1, <2>2, <3>1, CloudSamePool, CloudTypes
         DEF CleanUpPool, ReleasePool, DeletePool
  <2>3. CASE \E p \in Pools : \/ CloudCreates(p) \/ CloudDeletes(p)
                              \/ NodeJoins(p) \/ NodeLeaves(p)
    BY <1>1, <2>3, CloudSamePool
  <2>4. QED
    BY <1>1, <2>1, <2>2, <2>3, CloudSamePool, QuietHandlers, QuietOthers
       DEF Next, Environment
<1>3. QED
  BY <1>1, <1>2, SizeStays

\* At first there are no objects.
LEMMA InitSize == ASSUME Init PROVE SizeInv
<1>1. \A j \in Jobs : ~cr[j].exists
  BY DEF Init, KubeInit, NoObject
<1>2. QED
  BY <1>1 DEF SizeInv, SizeOf

\* Nobody has a pool before it is resolved, and none of another size since.
LEMMA SizeInvariant == Reliable /\ ~SpecEdits => (Spec => []SizeInv)
<1> SUFFICES ASSUME Reliable, ~SpecEdits PROVE Spec => []SizeInv
  OBVIOUS
<1>1. Init => SizeInv
  BY InitSize
<1>2. TypeOK /\ LifeInv /\ ClaimInv /\ SizeInv /\ [Next]_vars => SizeInv'
  BY StepSize
<1>3. Spec => []LifeInv
  BY LifeInvariant DEF Reliable
<1>4. Spec => []ClaimInv
  BY ClaimInvariant
<1>5. QED
  BY <1>1, <1>2, <1>3, <1>4, TypeCorrect, PTL DEF Spec

(***************************************************************************)
(* The pool of a job that the solver sized has the node count that is in   *)
(* status.resolvedTopology: neither a retry of reconcilePending nor a job  *)
(* created again under the same name replaces the answer a pool was made   *)
(* from.                                                                   *)
(***************************************************************************)
THEOREM ResolvedSize == Reliable /\ ~SpecEdits => (Spec => []PoolHasResolvedSize)
<1> SUFFICES ASSUME Reliable, ~SpecEdits PROVE Spec => []PoolHasResolvedSize
  OBVIOUS
<1>1. SizeInv => PoolHasResolvedSize
  BY DEF SizeInv, SizeOf, HasPool, PoolHasResolvedSize
<1>2. QED
  BY <1>1, SizeInvariant, PTL
===============================================================================
