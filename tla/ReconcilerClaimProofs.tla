------------------------- MODULE ReconcilerClaimProofs -------------------------
(***************************************************************************)
(* No pool is orphaned: ClaimInv (module ReconcilerInv) is inductive and   *)
(* implies PoolsAreClaimed.  Lemmas first say what a patch, a read and a   *)
(* call to the cloud do to the objects and to the worker; then there is    *)
(* one lemma per action, and the theorem.                                  *)
(***************************************************************************)
EXTENDS ReconcilerInv, ReconcilerProofs

\* The invariant of all objects.
Objects == \A j \in Jobs : ObjectInv(j)

\* Consequences of TypeOK that the proofs below keep using.
LEMMA TypeFacts ==
    ASSUME TypeOK
    PROVE  /\ obj \in Status /\ to \in Phase
           /\ pc # "idle" => job \in Jobs
           /\ \A j \in Jobs : /\ cr[j] \in Object /\ cr[j].status \in Status
                              /\ cr[j].status.op \in Nat /\ PoolOf(j) \in Pools
           /\ lastOp \in Nat
           /\ \A o \in operations : o.id \in Nat /\ o.id # 0
<1>1. \A j \in Jobs : cr[j] \in Object /\ cr[j].status \in Status
  BY DEF TypeOK, KubeTypeOK, Object
<1>2. \A j \in Jobs : cr[j].status.op \in Nat
  BY <1>1 DEF Status
<1>3. \A j \in Jobs : PoolOf(j) \in Pools
  BY SpecAssumption DEF PoolOf
<1>4. lastOp \in Nat
  BY MaxOpsAssumption DEF TypeOK, GKETypeOK
<1>5. \A o \in operations : o.id \in Nat /\ o.id # 0
  <2>1. operations \subseteq Operation
    BY DEF TypeOK, GKETypeOK
  <2>2. \A o \in Operation : o.id \in OpIds
    BY DEF Operation
  <2>3. \A i \in OpIds : i \in Nat /\ i # 0
    BY MaxOpsAssumption DEF OpIds
  <2>4. QED
    BY <2>1, <2>2, <2>3
<1>6. obj \in Status /\ to \in Phase /\ (pc # "idle" => job \in Jobs)
  BY DEF TypeOK, WorkerTypeOK
<1>7. QED
  BY <1>1, <1>2, <1>3, <1>4, <1>5, <1>6

\* The empty gkeOperationID names no operation.
LEMMA NoOperation ==
    ASSUME TypeOK, NEW j
    PROVE  OwnOperation(0, j) /\ Unfinished(0)
  BY TypeFacts DEF OwnOperation, Unfinished

\* Without a step of the cloud, what is said about pools and operations stays true.
LEMMA SameCloudFacts ==
    ASSUME UNCHANGED gkeVars
    PROVE  /\ \A j : HasPool(j)' <=> HasPool(j)
           /\ \A j : Creating(j)' <=> Creating(j)
           /\ \A i, j : OwnOperation(i, j)' <=> OwnOperation(i, j)
           /\ \A i : Unfinished(i)' <=> Unfinished(i)
           /\ CloudInv' <=> CloudInv
  BY DEF gkeVars, HasPool, Creating, Billed, OwnOperation, Unfinished, CloudInv

\* Writing an object that satisfies ObjectInv again keeps the invariant of all objects.
LEMMA WriteObject ==
    ASSUME TypeOK, ~CacheLag, CloudInv, Objects, UNCHANGED gkeVars,
           NEW j \in Jobs, NEW o \in Object, Put(j, o),
           o.deleting => o.finalizer,
           HasPool(j) => o.exists /\ o.finalizer /\ o.status.phase # "Succeeded",
           Creating(j) => o.status.phase \notin Provisioned /\ Unfinished(o.status.op),
           OwnOperation(o.status.op, j)
    PROVE  CloudInv' /\ Objects' /\ cr' = [cr EXCEPT ![j] = o]
<1>1. cr' = [cr EXCEPT ![j] = o] /\ cache' = [cache EXCEPT ![j] = o]
  BY DEF Put
<1>2. cr \in [Jobs -> Object] /\ cache \in [Jobs -> Object]
  BY DEF TypeOK, KubeTypeOK
<1>3. ASSUME NEW k \in Jobs PROVE ObjectInv(k)'
  <2>1. CASE k = j
    <3>1. cr'[k] = o /\ cache'[k] = o
      BY <1>1, <1>2, <2>1
    <3>2. QED
      BY <2>1, <3>1, SameCloudFacts DEF ObjectInv
  <2>2. CASE k # j
    <3>1. cr'[k] = cr[k] /\ cache'[k] = cache[k]
      BY <1>1, <1>2, <2>2
    <3>2. QED
      BY <3>1, SameCloudFacts DEF ObjectInv, Objects
  <2>3. QED
    BY <2>1, <2>2
<1>4. QED
  BY <1>1, <1>3, SameCloudFacts DEF Objects

\* Without a write, the invariant of the objects stays true.
LEMMA SameObjects ==
    ASSUME CloudInv, Objects, UNCHANGED gkeVars, UNCHANGED <<cr, cache>>
    PROVE  CloudInv' /\ Objects'
  BY SameCloudFacts DEF Objects, ObjectInv

-----------------------------------------------------------------------------
\* The phase a patch may store, and the operation it may store.
SafePhase(new) ==
    \/ new.phase = obj.phase
    \/ /\ new.phase = "Succeeded" => ~HasPool(job)
       /\ new.phase \in Provisioned => ~Creating(job)

SafeOperation(new) ==
    \/ new.op = obj.op
    \/ OwnOperation(new.op, job) /\ (Creating(job) => Unfinished(new.op))

\* A status patch with a safe phase and a safe operation keeps the invariant of the objects.
LEMMA PatchObject ==
    ASSUME TypeOK, ~CacheLag, ClaimInv, AtWork, UNCHANGED gkeVars,
           NEW new \in Status, PatchStatus(job, obj, new),
           SafePhase(new), SafeOperation(new)
    PROVE  /\ CloudInv' /\ Objects'
           /\ cr' = [cr EXCEPT ![job].status = Merged(obj, new, cr[job].status)]
<1> DEFINE merged == Merged(obj, new, cr[job].status)
           o == [cr[job] EXCEPT !.status = merged]
<1>1. /\ job \in Jobs /\ obj \in Status /\ cr[job] \in Object
      /\ cr[job].status \in Status
  BY TypeFacts DEF AtWork
<1>2. CloudInv /\ Objects /\ WorkerInv /\ ObjectInv(job)
  BY <1>1 DEF ClaimInv, Objects
<1>3. cr[job].exists /\ cr[job].finalizer /\ obj.phase = cr[job].status.phase
  BY <1>2 DEF WorkerInv, AtWork
<1>4. merged.phase \in {new.phase, cr[job].status.phase}
  BY DEF Merged
<1>5. new.phase = obj.phase => merged.phase = cr[job].status.phase
  BY DEF Merged
<1>6. merged.op \in {new.op, cr[job].status.op}
  BY DEF Merged
<1>7. new.op = obj.op => merged.op = cr[job].status.op
  BY DEF Merged
<1>8. merged \in Status
  BY <1>1, MergedType
<1> HIDE DEF merged
<1>9. /\ o \in Object /\ o.status = merged /\ o.exists /\ o.finalizer
  BY <1>1, <1>3, <1>8 DEF Object
<1>10. Put(job, o)
  BY DEF PatchStatus, merged
<1>11. cr[job] \in [exists : BOOLEAN, deleting : BOOLEAN, finalizer : BOOLEAN,
                    spec : JobSpecType, status : Status]
       /\ cr \in [Jobs -> Object]
  BY <1>1 DEF Object, TypeOK, KubeTypeOK
<1>12. HasPool(job) => merged.phase # "Succeeded"
  BY <1>2, <1>4, <1>5 DEF ObjectInv, SafePhase
<1>13. Creating(job) => merged.phase \notin Provisioned
  BY <1>2, <1>4, <1>5 DEF ObjectInv, SafePhase
<1>14. Creating(job) => Unfinished(merged.op)
  BY <1>2, <1>6, <1>7 DEF ObjectInv, SafeOperation
<1>15. OwnOperation(merged.op, job)
  BY <1>2, <1>6, <1>7 DEF ObjectInv, SafeOperation
<1> HIDE DEF o
<1>16. CloudInv' /\ Objects' /\ cr' = [cr EXCEPT ![job] = o]
  BY <1>1, <1>2, <1>9, <1>10, <1>12, <1>13, <1>14, <1>15, WriteObject
<1>17. [cr EXCEPT ![job] = o] = [cr EXCEPT ![job].status = merged]
  BY <1>11 DEF o
<1>18. QED
  BY <1>16, <1>17 DEF merged

\* After a patch that leaves the phase alone, memory and server agree on the phase, and on
\* the operation if they did before.
LEMMA PatchMemory ==
    ASSUME TypeOK, ~CacheLag, ClaimInv, AtWork,
           NEW new \in Status, new.phase = obj.phase,
           cr' = [cr EXCEPT ![job].status = Merged(obj, new, cr[job].status)],
           Refreshed(new) \/ obj' = new
    PROVE  /\ cr'[job].exists /\ cr'[job].finalizer
           /\ cr'[job].deleting = cr[job].deleting
           /\ obj'.phase = cr'[job].status.phase
           /\ obj'.phase = obj.phase
           /\ new.op = obj.op /\ obj.op = cr[job].status.op /\ Refreshed(new) =>
                obj'.op = cr'[job].status.op
<1> DEFINE merged == Merged(obj, new, cr[job].status)
<1>1. /\ job \in Jobs /\ cr[job] \in Object /\ cr \in [Jobs -> Object]
  BY TypeFacts DEF AtWork, TypeOK, KubeTypeOK
<1>2. cr[job].exists /\ cr[job].finalizer /\ obj.phase = cr[job].status.phase
  BY DEF ClaimInv, WorkerInv, AtWork
<1>3. /\ cr'[job].status = merged /\ cr'[job].exists = cr[job].exists
      /\ cr'[job].finalizer = cr[job].finalizer
      /\ cr'[job].deleting = cr[job].deleting
  BY <1>1 DEF Object
<1>4. merged.phase = obj.phase
  BY <1>2 DEF Merged
<1>5. new.op = obj.op /\ obj.op = cr[job].status.op => merged.op = new.op
  BY DEF Merged
<1>6. Refreshed(new) => /\ obj'.phase = Decoded(new, merged).phase
                        /\ obj'.op = Decoded(new, merged).op
  <2> DEFINE answer == Decoded(new, merged)
  <2>1. Refreshed(new) => obj' = answer \/ obj' = [answer EXCEPT !.nodes = obj.nodes]
    BY DEF Refreshed
  <2>2. [answer EXCEPT !.nodes = obj.nodes].phase = answer.phase
        /\ [answer EXCEPT !.nodes = obj.nodes].op = answer.op
    BY DEF Decoded
  <2>3. QED
    BY <2>1, <2>2
<1> HIDE DEF merged
<1>7. Decoded(new, merged).phase = obj.phase
  BY <1>4 DEF Decoded
<1>8. merged.op = new.op => Decoded(new, merged).op = merged.op
  BY DEF Decoded
<1>9. QED
  BY <1>2, <1>3, <1>4, <1>5, <1>6, <1>7, <1>8

\* Nothing is asked of an idle worker.
LEMMA IdleWorker == ASSUME pc' = "idle" PROVE WorkerInv'
  BY DEF WorkerInv, PoolIsMade, PoolIsGone

\* The call that follows is one the handler may make: what it relies on is known.
Justified ==
    /\ pc' \notin {"idle", "addFinalizer", "finalDelete", "removeFinalizer",
                   "provStart", "create", "poll", "createOp", "releaseOp",
                   "getStart", "trainStart"}
    /\ pc' \in PoolIsMade => ~Creating(job)
    /\ pc' \in PoolIsGone => ~HasPool(job)
    /\ pc' = "setPhase" /\ to' \in Provisioned => ~Creating(job)
    /\ pc' = "setPhase" /\ to' = "Succeeded" => ~HasPool(job)

\* A justified next call establishes the invariant of the worker.
LEMMA JustifiedWorker ==
    ASSUME UNCHANGED <<gkeVars, job>>, Justified,
           cr'[job].exists, cr'[job].finalizer, obj'.phase = cr'[job].status.phase
    PROVE  WorkerInv'
  BY SameCloudFacts DEF WorkerInv, Justified, PoolIsMade, PoolIsGone

\* A status patch, whatever the handler does after it, preserves the invariant.
LEMMA PatchStep ==
    ASSUME TypeOK, ~CacheLag, ClaimInv, AtWork, UNCHANGED World,
           NEW new \in Status, SafePhase(new), SafeOperation(new),
           Accepted(new) \/ Rejected(new),
           \/ pc' = "idle"
           \/ /\ new.phase = obj.phase /\ Stay /\ Justified
              /\ \/ Accepted(new) /\ Refreshed(new)
                 \/ Rejected(new) /\ obj' = new
    PROVE  ClaimInv'
<1>1. UNCHANGED gkeVars
  BY DEF World
<1>2. PatchStatus(job, obj, new) \/ UNCHANGED <<cr, cache>>
  BY DEF Accepted, Rejected
<1>3. CloudInv' /\ Objects'
  <2>1. CloudInv /\ Objects
    BY DEF ClaimInv, Objects
  <2>2. QED
    BY <1>1, <1>2, <2>1, SameObjects, PatchObject
<1>4. WorkerInv'
  <2>1. CASE pc' = "idle"
    BY <2>1, IdleWorker
  <2>2. CASE /\ new.phase = obj.phase /\ Stay /\ Justified
             /\ Refreshed(new) \/ obj' = new
             /\ PatchStatus(job, obj, new)
    BY <1>1, <2>2, PatchObject, PatchMemory, JustifiedWorker DEF Stay
  <2>3. CASE /\ new.phase = obj.phase /\ Stay /\ Justified
             /\ obj' = new /\ UNCHANGED <<cr, cache>>
    <3>1. cr[job].exists /\ cr[job].finalizer /\ obj.phase = cr[job].status.phase
      BY DEF ClaimInv, WorkerInv, AtWork
    <3>2. QED
      BY <1>1, <2>3, <3>1, JustifiedWorker DEF Stay
  <2>4. QED
    BY <2>1, <2>2, <2>3 DEF Accepted, Rejected
<1>5. QED
  BY <1>3, <1>4 DEF ClaimInv, Objects

-----------------------------------------------------------------------------
\* reconcilePending: the patch of startTime preserves the invariant.
LEMMA SetStartTimeClaims ==
    TypeOK /\ ~CacheLag /\ ClaimInv /\ SetStartTime => ClaimInv'
<1> SUFFICES ASSUME TypeOK, ~CacheLag, ClaimInv, SetStartTime PROVE ClaimInv'
  OBVIOUS
<1> DEFINE new == [obj EXCEPT !.start = TRUE]
<1>1. new \in Status /\ new.phase = obj.phase /\ new.op = obj.op
  BY DEF TypeOK, WorkerTypeOK, Status
<1>2. AtWork /\ UNCHANGED World
  BY DEF SetStartTime, AtWork
<1>3. EnterSolver(spec', obj') => Justified
  BY DEF EnterSolver, Goto, MoveTo, Justified, PoolIsMade, PoolIsGone, Provisioned
<1>4. \/ Accepted(new) /\ Refreshed(new) /\ Justified /\ Stay
      \/ Rejected(new) /\ pc' = "idle"
  BY <1>3 DEF SetStartTime, Persist, Return
<1> HIDE DEF new
<1>5. SafePhase(new) /\ SafeOperation(new)
  BY <1>1 DEF SafePhase, SafeOperation
<1>6. QED
  BY <1>1, <1>2, <1>4, <1>5, PatchStep

\* reconcilePending: the solver and its patch preserve the invariant.
LEMMA SolveClaims ==
    TypeOK /\ ~CacheLag /\ ClaimInv /\ Solve => ClaimInv'
<1> SUFFICES ASSUME TypeOK, ~CacheLag, ClaimInv, Solve PROVE ClaimInv'
  OBVIOUS
<1>1. AtWork /\ UNCHANGED World /\ job \in Jobs /\ obj \in Status /\ spec \in JobSpecType
  BY DEF Solve, AtWork, TypeOK, WorkerTypeOK
<1>2. MoveTo("Provisioning") => Justified
  BY DEF MoveTo, Justified, PoolIsMade, PoolIsGone, Provisioned
<1>3. FailJob => Justified
  BY DEF FailJob, MoveTo, Justified, PoolIsMade, PoolIsGone, Provisioned
<1>4. CASE \E n \in spec.solutions :
             Persist([obj EXCEPT !.nodes = n], MoveTo("Provisioning"))
  <2>1. PICK n \in spec.solutions :
            Persist([obj EXCEPT !.nodes = n], MoveTo("Provisioning"))
    BY <1>4
  <2> DEFINE new == [obj EXCEPT !.nodes = n]
  <2>2. n \in Nat
    BY <1>1 DEF JobSpecType
  <2>3. new \in Status /\ new.phase = obj.phase /\ new.op = obj.op
    BY <1>1, <2>2 DEF Status
  <2>4. \/ Accepted(new) /\ Refreshed(new) /\ Justified /\ Stay
        \/ Rejected(new) /\ pc' = "idle"
    BY <1>2, <2>1 DEF Persist, Return
  <2> HIDE DEF new
  <2>5. SafePhase(new) /\ SafeOperation(new)
    BY <2>3 DEF SafePhase, SafeOperation
  <2>6. QED
    BY <1>1, <2>3, <2>4, <2>5, PatchStep
<1>5. CASE FailJob /\ Stay /\ UNCHANGED <<obj, cr, cache>>
  <2>1. cr[job].exists /\ cr[job].finalizer /\ obj.phase = cr[job].status.phase
    BY <1>1 DEF ClaimInv, WorkerInv, AtWork
  <2>2. WorkerInv'
    BY <1>1, <1>3, <1>5, <2>1, JustifiedWorker DEF Stay, World
  <2>3. CloudInv' /\ Objects'
    BY <1>1, <1>5, SameObjects DEF ClaimInv, Objects, World
  <2>4. QED
    BY <2>2, <2>3 DEF ClaimInv, Objects
<1>6. QED
  BY <1>4, <1>5 DEF Solve

\* A pool being created is a pool.
LEMMA CreatingIsPool == \A j : Creating(j) => HasPool(j)
  BY DEF Creating, HasPool, Billed

\* reconcileReady: the patch of jobName preserves the invariant.
LEMMA SetJobNameClaims ==
    TypeOK /\ ~CacheLag /\ ClaimInv /\ SetJobName => ClaimInv'
<1> SUFFICES ASSUME TypeOK, ~CacheLag, ClaimInv, SetJobName PROVE ClaimInv'
  OBVIOUS
<1> DEFINE new == [obj EXCEPT !.jobName = TRUE]
<1>1. new \in Status /\ new.phase = obj.phase /\ new.op = obj.op
  BY DEF TypeOK, WorkerTypeOK, Status
<1>2. AtWork /\ UNCHANGED World
  BY DEF SetJobName, AtWork
<1>3. MoveTo("Running") => Justified
  BY DEF SetJobName, ClaimInv, WorkerInv, MoveTo, Justified, PoolIsMade, PoolIsGone
<1>4. \/ Accepted(new) /\ Refreshed(new) /\ Justified /\ Stay
      \/ Rejected(new) /\ pc' = "idle"
  BY <1>3 DEF SetJobName, Persist, Return
<1> HIDE DEF new
<1>5. SafePhase(new) /\ SafeOperation(new)
  BY <1>1 DEF SafePhase, SafeOperation
<1>6. QED
  BY <1>1, <1>2, <1>4, <1>5, PatchStep

\* reconcileRunning: the reset of trainingStartTime preserves the invariant.
LEMMA ResetTrainingStartClaims ==
    TypeOK /\ ~CacheLag /\ ClaimInv /\ ResetTrainingStart => ClaimInv'
<1> SUFFICES ASSUME TypeOK, ~CacheLag, ClaimInv, ResetTrainingStart PROVE ClaimInv'
  OBVIOUS
<1> DEFINE new == [obj EXCEPT !.trainStart = FALSE]
<1>1. new \in Status /\ new.phase = obj.phase /\ new.op = obj.op
  BY DEF TypeOK, WorkerTypeOK, Status
<1>2. AtWork /\ UNCHANGED World
  BY DEF ResetTrainingStart, AtWork
<1>3. EnterBackend(spec', "apply") => Justified
  BY DEF ResetTrainingStart, ClaimInv, WorkerInv, EnterBackend, Goto, FailJob, MoveTo,
         Justified, PoolIsMade, PoolIsGone, Provisioned
<1>4. \/ Accepted(new) /\ Refreshed(new) /\ Justified /\ Stay
      \/ Rejected(new) /\ pc' = "idle"
  BY <1>3 DEF ResetTrainingStart, Persist, Return
<1> HIDE DEF new
<1>5. SafePhase(new) /\ SafeOperation(new)
  BY <1>1 DEF SafePhase, SafeOperation
<1>6. QED
  BY <1>1, <1>2, <1>4, <1>5, PatchStep

\* reconcileCollecting: the patch of the results preserves the invariant.
LEMMA SetResultsClaims ==
    TypeOK /\ ~CacheLag /\ ClaimInv /\ SetResults => ClaimInv'
<1> SUFFICES ASSUME TypeOK, ~CacheLag, ClaimInv, SetResults PROVE ClaimInv'
  OBVIOUS
<1> DEFINE new == [obj EXCEPT !.trainTime = timed, !.billed = arg,
                                !.finish = TRUE, !.size = 0]
<1>1. new \in Status /\ new.phase = obj.phase /\ new.op = obj.op
  BY DEF TypeOK, WorkerTypeOK, Status
<1>2. AtWork /\ UNCHANGED World
  BY DEF SetResults, AtWork
<1>3. MoveTo("Succeeded") => Justified
  BY CreatingIsPool
     DEF SetResults, ClaimInv, WorkerInv, MoveTo, Justified, PoolIsMade, PoolIsGone
<1>4. \/ Accepted(new) /\ Refreshed(new) /\ Justified /\ Stay
      \/ Rejected(new) /\ pc' = "idle"
  BY <1>3 DEF SetResults, Persist, Return
<1> HIDE DEF new
<1>5. SafePhase(new) /\ SafeOperation(new)
  BY <1>1 DEF SafePhase, SafeOperation
<1>6. QED
  BY <1>1, <1>2, <1>4, <1>5, PatchStep

\* setPhase and setFailed preserve the invariant.
LEMMA SetPhaseClaims ==
    TypeOK /\ ~CacheLag /\ ClaimInv /\ SetPhase => ClaimInv'
<1> SUFFICES ASSUME TypeOK, ~CacheLag, ClaimInv, SetPhase PROVE ClaimInv'
  OBVIOUS
<1> DEFINE new == [obj EXCEPT !.phase = to]
<1>1. new \in Status /\ new.phase = to /\ new.op = obj.op
  BY DEF TypeOK, WorkerTypeOK, Status
<1>2. AtWork /\ UNCHANGED World
  BY DEF SetPhase, AtWork
<1>3. (Accepted(new) \/ Rejected(new)) /\ pc' = "idle"
  BY DEF SetPhase, PersistAndReturn, Return
<1> HIDE DEF new
<1>4. SafePhase(new) /\ SafeOperation(new)
  BY <1>1 DEF SafePhase, SafeOperation, SetPhase, ClaimInv, WorkerInv
<1>5. QED
  BY <1>1, <1>2, <1>3, <1>4, PatchStep

\* reconcileProvisioning: the patch of gkeOperationID preserves the invariant.
LEMMA StoreCreateOperationClaims ==
    TypeOK /\ ~CacheLag /\ ClaimInv /\ StoreCreateOperation => ClaimInv'
<1> SUFFICES ASSUME TypeOK, ~CacheLag, ClaimInv, StoreCreateOperation PROVE ClaimInv'
  OBVIOUS
<1> DEFINE new == [obj EXCEPT !.op = arg]
<1>1. new \in Status /\ new.phase = obj.phase /\ new.op = arg
  BY DEF TypeOK, WorkerTypeOK, Status, StoreCreateOperation
<1>2. AtWork /\ UNCHANGED World
  BY DEF StoreCreateOperation, AtWork
<1>3. (Accepted(new) \/ Rejected(new)) /\ pc' = "idle"
  BY DEF StoreCreateOperation, PersistAndReturn, Return
<1> HIDE DEF new
<1>4. SafePhase(new) /\ SafeOperation(new)
  BY <1>1 DEF SafePhase, SafeOperation, StoreCreateOperation, ClaimInv, WorkerInv
<1>5. QED
  BY <1>1, <1>2, <1>3, <1>4, PatchStep

\* reconcileSucceeded: the reset of gkeOperationID preserves the invariant.
LEMMA ClearOperationClaims ==
    TypeOK /\ ~CacheLag /\ ClaimInv /\ ClearOperation => ClaimInv'
<1> SUFFICES ASSUME TypeOK, ~CacheLag, ClaimInv, ClearOperation PROVE ClaimInv'
  OBVIOUS
<1> DEFINE new == [obj EXCEPT !.op = 0]
<1>1. new \in Status /\ new.phase = obj.phase /\ new.op = 0
  BY DEF TypeOK, WorkerTypeOK, Status
<1>2. AtWork /\ UNCHANGED World
  BY DEF ClearOperation, AtWork
<1>3. (Accepted(new) \/ Rejected(new)) /\ pc' = "idle"
  BY DEF ClearOperation, PersistAndReturn, Return
<1> HIDE DEF new
<1>4. SafePhase(new) /\ SafeOperation(new)
  BY <1>1, NoOperation DEF SafePhase, SafeOperation
<1>5. QED
  BY <1>1, <1>2, <1>3, <1>4, PatchStep

\* reconcileCollecting: the patch of gkeOperationID preserves the invariant.
LEMMA StoreDeleteOperationClaims ==
    TypeOK /\ ~CacheLag /\ ClaimInv /\ StoreDeleteOperation => ClaimInv'
<1> SUFFICES ASSUME TypeOK, ~CacheLag, ClaimInv, StoreDeleteOperation PROVE ClaimInv'
  OBVIOUS
<1> DEFINE new == [obj EXCEPT !.op = arg]
<1>1. new \in Status /\ new.phase = obj.phase /\ new.op = arg
  BY DEF TypeOK, WorkerTypeOK, Status, StoreDeleteOperation
<1>2. AtWork /\ UNCHANGED World
  BY DEF StoreDeleteOperation, AtWork
<1>3. ~HasPool(job) /\ OwnOperation(arg, job)
  BY DEF StoreDeleteOperation, ClaimInv, WorkerInv, PoolIsGone
<1>4. Goto("history") => Justified
  BY <1>3, CreatingIsPool DEF Goto, Justified, PoolIsMade
<1>5. /\ \/ Accepted(new) /\ Refreshed(new)
         \/ Rejected(new) /\ obj' = new
      /\ Justified /\ Stay
  BY <1>4 DEF StoreDeleteOperation, PersistBestEffort
<1> HIDE DEF new
<1>6. SafePhase(new) /\ SafeOperation(new)
  BY <1>1, <1>3, CreatingIsPool DEF SafePhase, SafeOperation
<1>7. QED
  BY <1>1, <1>2, <1>5, <1>6, PatchStep

\* reconcileRunning: the patch of trainingStartTime preserves the invariant.
LEMMA SetTrainingStartClaims ==
    TypeOK /\ ~CacheLag /\ ClaimInv /\ SetTrainingStart => ClaimInv'
<1> SUFFICES ASSUME TypeOK, ~CacheLag, ClaimInv, SetTrainingStart PROVE ClaimInv'
  OBVIOUS
<1> DEFINE new == [obj EXCEPT !.trainStart = TRUE]
<1>1. new \in Status /\ new.phase = obj.phase /\ new.op = obj.op
  BY DEF TypeOK, WorkerTypeOK, Status
<1>2. AtWork /\ UNCHANGED World
  BY DEF SetTrainingStart, AtWork
<1>3. MoveTo(to) => Justified
  BY DEF SetTrainingStart, ClaimInv, WorkerInv, MoveTo, Justified, PoolIsMade,
         PoolIsGone
<1>4. \/ (Accepted(new) \/ Rejected(new)) /\ pc' = "idle"
      \/ Accepted(new) /\ Refreshed(new) /\ Justified /\ Stay
      \/ Rejected(new) /\ obj' = new /\ Justified /\ Stay
  BY <1>3 DEF SetTrainingStart, PersistAndReturn, PersistBestEffort, Return
<1> HIDE DEF new
<1>5. SafePhase(new) /\ SafeOperation(new)
  BY <1>1 DEF SafePhase, SafeOperation
<1>6. QED
  BY <1>1, <1>2, <1>4, <1>5, PatchStep

\* reconcileProvisioning: the patch of provisioningStartTime preserves the invariant.
LEMMA SetProvisioningStartTimeClaims ==
    TypeOK /\ ~CacheLag /\ ClaimInv /\ SetProvisioningStartTime => ClaimInv'
<1> SUFFICES ASSUME TypeOK, ~CacheLag, ClaimInv, SetProvisioningStartTime
             PROVE  ClaimInv'
  OBVIOUS
<1> DEFINE new == [obj EXCEPT !.provStart = TRUE]
<1>1. new \in Status /\ new.phase = obj.phase /\ new.op = obj.op
  BY DEF TypeOK, WorkerTypeOK, Status
<1>2. AtWork /\ UNCHANGED World /\ UNCHANGED gkeVars
  BY DEF SetProvisioningStartTime, AtWork, World
<1>3. obj.phase = "Provisioning" /\ obj.op = cr[job].status.op
  BY DEF SetProvisioningStartTime, ClaimInv, WorkerInv
<1>4. \/ Accepted(new) /\ Refreshed(new) /\ EnterOperation(obj') /\ Stay
      \/ Rejected(new) /\ pc' = "idle"
  BY DEF SetProvisioningStartTime, Persist, Return
<1> HIDE DEF new
<1>5. SafePhase(new) /\ SafeOperation(new)
  BY <1>1 DEF SafePhase, SafeOperation
<1>6. CASE Rejected(new) /\ pc' = "idle"
  BY <1>1, <1>2, <1>5, <1>6, PatchStep
<1>7. CASE Accepted(new) /\ Refreshed(new) /\ EnterOperation(obj') /\ Stay
  <2>1. PatchStatus(job, obj, new)
    BY <1>7 DEF Accepted
  <2>2. CloudInv' /\ Objects'
        /\ cr' = [cr EXCEPT ![job].status = Merged(obj, new, cr[job].status)]
    BY <1>1, <1>2, <1>5, <2>1, PatchObject
  <2>3. /\ cr'[job].exists /\ cr'[job].finalizer
        /\ obj'.phase = cr'[job].status.phase /\ obj'.phase = "Provisioning"
        /\ obj'.op = cr'[job].status.op
    BY <1>1, <1>2, <1>3, <1>7, <2>2, PatchMemory
  <2>4. job' = job /\ (pc' = "poll" \/ (pc' = "create" /\ obj'.op = 0))
    BY <1>7 DEF EnterOperation, Goto, Stay
  <2>5. WorkerInv'
    BY <2>3, <2>4 DEF WorkerInv, PoolIsMade, PoolIsGone
  <2>6. QED
    BY <2>2, <2>5 DEF ClaimInv, Objects
<1>8. QED
  BY <1>4, <1>6, <1>7

\* reconcileProvisioning: counting the Ready nodes preserves the invariant.
LEMMA CountReadyNodesClaims ==
    TypeOK /\ ~CacheLag /\ ClaimInv /\ CountReadyNodes => ClaimInv'
<1> SUFFICES ASSUME TypeOK, ~CacheLag, ClaimInv, CountReadyNodes PROVE ClaimInv'
  OBVIOUS
<1> DEFINE ready == pool[PoolOf(job)].ready
           few == [obj EXCEPT !.size = ready]
           all == [obj EXCEPT !.op = 0, !.size = ready, !.provTime = TRUE]
<1>1. job \in Jobs /\ obj \in Status /\ AtWork /\ UNCHANGED World
  BY DEF CountReadyNodes, TypeOK, WorkerTypeOK, AtWork
<1>2. ready \in Nat
  BY <1>1, SpecAssumption DEF TypeOK, GKETypeOK, NodePool, PoolOf
<1>3. /\ few \in Status /\ few.phase = obj.phase /\ few.op = obj.op
      /\ all \in Status /\ all.phase = obj.phase /\ all.op = 0
  BY <1>1, <1>2 DEF Status
<1>4. \/ PersistAndReturn(few, TRUE)
      \/ Persist(all, MoveTo("Ready"))
      \/ Return(TRUE) /\ UNCHANGED <<cr, cache>>
  BY DEF CountReadyNodes
<1> HIDE DEF few, all
<1>5. CASE PersistAndReturn(few, TRUE)
  <2>1. (Accepted(few) \/ Rejected(few)) /\ pc' = "idle"
    BY <1>5 DEF PersistAndReturn, Return
  <2>2. SafePhase(few) /\ SafeOperation(few)
    BY <1>3 DEF SafePhase, SafeOperation
  <2>3. QED
    BY <1>1, <1>3, <2>1, <2>2, PatchStep
<1>6. CASE Persist(all, MoveTo("Ready"))
  <2>1. MoveTo("Ready") => Justified
    BY DEF CountReadyNodes, ClaimInv, WorkerInv, MoveTo, Justified, PoolIsMade,
           PoolIsGone
  <2>2. \/ Accepted(all) /\ Refreshed(all) /\ Justified /\ Stay
        \/ Rejected(all) /\ pc' = "idle"
    BY <1>6, <2>1 DEF Persist, Return
  <2>3. SafePhase(all) /\ SafeOperation(all)
    BY <1>3, NoOperation DEF SafePhase, SafeOperation
  <2>4. QED
    BY <1>1, <1>3, <2>2, <2>3, PatchStep
<1>7. CASE Return(TRUE) /\ UNCHANGED <<cr, cache>>
  BY <1>1, <1>7, SameObjects, IdleWorker DEF Return, ClaimInv, Objects, World
<1>8. QED
  BY <1>4, <1>5, <1>6, <1>7

-----------------------------------------------------------------------------
\* A call that only reads preserves the invariant when its outcome justifies the next call.
LEMMA ReadStep ==
    ASSUME TypeOK, ClaimInv, AtWork, UNCHANGED gkeVars, UNCHANGED <<cr, cache>>,
           pc' = "idle" \/ (Stay /\ UNCHANGED obj /\ Justified)
    PROVE  ClaimInv'
<1>1. CloudInv' /\ Objects'
  BY SameObjects DEF ClaimInv, Objects
<1>2. CASE pc' = "idle"
  BY <1>1, <1>2, IdleWorker DEF ClaimInv, Objects
<1>3. CASE Stay /\ UNCHANGED obj /\ Justified
  <2>1. cr[job].exists /\ cr[job].finalizer /\ obj.phase = cr[job].status.phase
    BY DEF ClaimInv, WorkerInv, AtWork
  <2>2. WorkerInv'
    BY <1>3, <2>1, JustifiedWorker DEF Stay
  <2>3. QED
    BY <1>1, <2>2 DEF ClaimInv, Objects
<1>4. QED
  BY <1>2, <1>3

\* reconcileProvisioning: a poll that says "done" finds the pool of this job created.
LEMMA PollCreateClaims == TypeOK /\ ClaimInv /\ PollCreate => ClaimInv'
<1> SUFFICES ASSUME TypeOK, ClaimInv, PollCreate PROVE ClaimInv'
  OBVIOUS
<1>1. AtWork /\ UNCHANGED gkeVars /\ UNCHANGED <<cr, cache>> /\ job \in Jobs
  BY DEF PollCreate, AtWork, World, TypeOK, WorkerTypeOK
<1>2. OperationReply(obj.op) = "done" => ~Creating(job)
  <2>1. obj.op = cr[job].status.op /\ ObjectInv(job)
    BY <1>1 DEF PollCreate, ClaimInv, WorkerInv
  <2>2. Creating(job) => Unfinished(obj.op)
    BY <2>1 DEF ObjectInv
  <2>3. QED
    BY <2>2 DEF OperationReply, Unfinished
<1>3. ~Creating(job) /\ Goto("count") => Justified
  BY DEF Goto, Justified, PoolIsMade, PoolIsGone
<1>4. Goto("cleanup") => Justified
  BY DEF Goto, Justified, PoolIsMade, PoolIsGone
<1>5. pc' = "idle" \/ (Stay /\ UNCHANGED obj /\ Justified)
  BY <1>2, <1>3, <1>4 DEF PollCreate, Return
<1>6. QED
  BY <1>1, <1>5, ReadStep

\* reconcileSucceeded: the poll of the deletion preserves the invariant.
LEMMA PollDeleteClaims == TypeOK /\ ClaimInv /\ PollDelete => ClaimInv'
<1> SUFFICES ASSUME TypeOK, ClaimInv, PollDelete PROVE ClaimInv'
  OBVIOUS
<1>1. AtWork /\ UNCHANGED gkeVars /\ UNCHANGED <<cr, cache>>
  BY DEF PollDelete, AtWork, World
<1>2. Goto("clearOp") => Justified
  BY DEF Goto, Justified, PoolIsMade, PoolIsGone
<1>3. pc' = "idle" \/ (Stay /\ UNCHANGED obj /\ Justified)
  BY <1>2 DEF PollDelete, Return
<1>4. QED
  BY <1>1, <1>3, ReadStep

\* reconcileReady and reconcileRunning: applyJob preserves the invariant.
LEMMA ApplyJobClaims == TypeOK /\ ClaimInv /\ ApplyJob => ClaimInv'
<1> SUFFICES ASSUME TypeOK, ClaimInv, ApplyJob PROVE ClaimInv'
  OBVIOUS
<1>1. AtWork /\ UNCHANGED gkeVars /\ UNCHANGED <<cr, cache>>
  BY DEF ApplyJob, AtWork
<1>2. Goto("jobName") \/ FailJob => Justified
  BY DEF ApplyJob, ClaimInv, WorkerInv, Goto, FailJob, MoveTo, Justified,
         PoolIsMade, PoolIsGone, Provisioned
<1>3. pc' = "idle" \/ (Stay /\ UNCHANGED obj /\ Justified)
  BY <1>2 DEF ApplyJob, Return
<1>4. QED
  BY <1>1, <1>3, ReadStep

\* reconcileCollecting: the metrics and the history entry preserve the invariant.
LEMMA CollectResultsClaims == TypeOK /\ ClaimInv /\ CollectResults => ClaimInv'
<1> SUFFICES ASSUME TypeOK, ClaimInv, CollectResults PROVE ClaimInv'
  OBVIOUS
<1>1. AtWork /\ UNCHANGED gkeVars /\ UNCHANGED <<cr, cache>>
  BY DEF CollectResults, AtWork, kubeVars
<1>2. ~HasPool(job) /\ ~Creating(job)
  BY CreatingIsPool DEF CollectResults, ClaimInv, WorkerInv, PoolIsGone
<1>3. Goto("results") => Justified
  BY <1>2 DEF Goto, Justified, PoolIsMade
<1>4. Stay /\ UNCHANGED obj /\ Justified
  BY <1>3 DEF CollectResults
<1>5. QED
  BY <1>1, <1>4, ReadStep

\* reconcileRunning between its calls preserves the invariant of the worker.
LEMMA TrainingWorker ==
    ASSUME ClaimInv, AtWork, UNCHANGED gkeVars, UNCHANGED <<cr, job, obj>>,
           ~Creating(job), pc' \in {"getStart", "trainStart"}, to' # "Succeeded"
    PROVE  WorkerInv'
  BY SameCloudFacts DEF ClaimInv, WorkerInv, AtWork, PoolIsMade, PoolIsGone

\* reconcileRunning: reading the backend job's phase preserves the invariant.
LEMMA GetPhaseClaims == TypeOK /\ ClaimInv /\ GetPhase => ClaimInv'
<1> SUFFICES ASSUME TypeOK, ClaimInv, GetPhase PROVE ClaimInv'
  OBVIOUS
<1> DEFINE verdict == Verdict(BackendPhase(job))
<1>1. AtWork /\ UNCHANGED gkeVars /\ UNCHANGED <<cr, cache>> /\ ~Creating(job)
  BY DEF GetPhase, AtWork, World, ClaimInv, WorkerInv, PoolIsMade
<1>2. verdict # "Succeeded"
  BY DEF Verdict
<1> HIDE DEF verdict
<1>3. Goto("resetStart") \/ FailJob \/ MoveTo(verdict) => Justified
  BY <1>1, <1>2 DEF Goto, FailJob, MoveTo, Justified, PoolIsMade, PoolIsGone
<1>4. \/ pc' = "idle" \/ (Stay /\ UNCHANGED obj /\ Justified)
      \/ /\ pc' = "getStart" /\ to' = verdict
         /\ Stay /\ UNCHANGED obj
  BY <1>3 DEF GetPhase, verdict, Return
<1>5. CASE pc' = "getStart" /\ to' = verdict /\ Stay /\ UNCHANGED obj
  <2>1. WorkerInv'
    BY <1>1, <1>2, <1>5, TrainingWorker DEF Stay
  <2>2. QED
    BY <1>1, <2>1, SameObjects DEF ClaimInv, Objects
<1>6. QED
  BY <1>1, <1>4, <1>5, ReadStep

\* reconcileRunning: reading the backend job's start preserves the invariant.
LEMMA GetStartTimeClaims == TypeOK /\ ClaimInv /\ GetStartTime => ClaimInv'
<1> SUFFICES ASSUME TypeOK, ClaimInv, GetStartTime PROVE ClaimInv'
  OBVIOUS
<1>1. /\ AtWork /\ UNCHANGED gkeVars /\ UNCHANGED <<cr, cache>>
      /\ ~Creating(job) /\ to # "Succeeded"
  BY DEF GetStartTime, AtWork, World, ClaimInv, WorkerInv, PoolIsMade
<1>2. MoveTo(to) => Justified
  BY <1>1 DEF MoveTo, Justified, PoolIsMade, PoolIsGone
<1>3. \/ pc' = "idle" \/ (Stay /\ UNCHANGED obj /\ Justified)
      \/ pc' = "trainStart" /\ UNCHANGED <<to, obj>> /\ Stay
  BY <1>2 DEF GetStartTime, Return
<1>4. CASE pc' = "trainStart" /\ UNCHANGED <<to, obj>> /\ Stay
  <2>1. WorkerInv'
    BY <1>1, <1>4, TrainingWorker DEF Stay
  <2>2. QED
    BY <1>1, <2>1, SameObjects DEF ClaimInv, Objects
<1>5. QED
  BY <1>1, <1>3, <1>4, ReadStep

-----------------------------------------------------------------------------
\* A started operation has a new number, so nothing known about older ones changes.
LEMMA StartedOperation ==
    ASSUME TypeOK, CloudInv, NEW kind, NEW j \in Jobs, StartOperation(kind, PoolOf(j))
    PROVE  /\ \A o \in operations' : o.id <= lastOp'
           /\ \A k : \A i \in Nat : OwnOperation(i, k) => OwnOperation(i, k)'
           /\ \A i \in Nat : Unfinished(i) => Unfinished(i)'
           /\ OwnOperation(lastOp, j)' /\ Unfinished(lastOp)'
<1> DEFINE new == [id |-> lastOp + 1, kind |-> kind, pool |-> PoolOf(j),
                   status |-> "running"]
<1>1. lastOp \in Nat /\ lastOp' = lastOp + 1 /\ operations' = operations \cup {new}
  BY TypeFacts DEF StartOperation
<1>2. \A o \in operations : o.id \in Nat /\ o.id <= lastOp
  BY TypeFacts DEF CloudInv
<1>3. new.id = lastOp + 1 /\ new.pool = PoolOf(j) /\ new.status = "running"
  OBVIOUS
<1> HIDE DEF new
<1>4. \A o \in operations' : o.id <= lastOp'
  BY <1>1, <1>2, <1>3
<1>5. \A k : \A i \in Nat : OwnOperation(i, k) => OwnOperation(i, k)'
  BY <1>1, <1>3 DEF OwnOperation
<1>6. \A i \in Nat : Unfinished(i) => Unfinished(i)'
  BY <1>1, <1>3 DEF Unfinished
<1>7. OwnOperation(lastOp, j)' /\ Unfinished(lastOp)'
  BY <1>1, <1>2, <1>3 DEF OwnOperation, Unfinished
<1>8. QED
  BY <1>4, <1>5, <1>6, <1>7

\* An accepted DeleteNodePool takes the pool of the job and makes no other.
LEMMA AcceptedDelete ==
    ASSUME TypeOK, CloudInv, Objects, NEW j \in Jobs, AcceptDelete(PoolOf(j)),
           UNCHANGED <<cr, cache>>
    PROVE  /\ CloudInv' /\ Objects' /\ ~HasPool(j)'
           /\ \A k \in Jobs : HasPool(k)' => HasPool(k)
           /\ \A k \in Jobs : Creating(k)' => Creating(k)
           /\ OwnOperation(lastOp, j)'
<1> DEFINE p == PoolOf(j)
<1>1. p \in Pools /\ pool \in [Pools -> NodePool] /\ \A k \in Jobs : PoolOf(k) \in Pools
  BY TypeFacts DEF TypeOK, GKETypeOK
<1>2. pool' = [pool EXCEPT ![p].state = "deleting"] /\ StartOperation("delete", p)
  BY DEF AcceptDelete
<1> HIDE DEF p
<1>3. /\ pool'[p].state = "deleting"
      /\ \A q \in Pools : pool'[q].owner = pool[q].owner
      /\ \A q \in Pools : q # p => pool'[q].state = pool[q].state
  BY <1>1, <1>2 DEF NodePool
<1>4. ~HasPool(j)'
  BY <1>3 DEF HasPool, Billed, p
<1>5. ASSUME NEW k \in Jobs
      PROVE  (HasPool(k)' => HasPool(k)) /\ (Creating(k)' => Creating(k))
  <2>1. CASE PoolOf(k) = p
    BY <1>3, <2>1 DEF HasPool, Creating, Billed
  <2>2. CASE PoolOf(k) # p
    <3>1. /\ pool'[PoolOf(k)].owner = pool[PoolOf(k)].owner
          /\ pool'[PoolOf(k)].state = pool[PoolOf(k)].state
      BY <1>1, <1>3, <2>2
    <3>2. QED
      BY <3>1 DEF HasPool, Creating, Billed
  <2>3. QED
    BY <2>1, <2>2
<1>6. \A q \in Pools : \A k \in pool'[q].owner : PoolOf(k) = q
  BY <1>3 DEF CloudInv
<1>7. /\ \A o \in operations' : o.id <= lastOp'
      /\ \A k : \A i \in Nat : OwnOperation(i, k) => OwnOperation(i, k)'
      /\ \A i \in Nat : Unfinished(i) => Unfinished(i)'
      /\ OwnOperation(lastOp, j)'
  BY <1>2, StartedOperation DEF p
<1>8. CloudInv'
  BY <1>6, <1>7 DEF CloudInv
<1>9. ASSUME NEW k \in Jobs PROVE ObjectInv(k)'
  <2>1. ObjectInv(k) /\ cr[k].status.op \in Nat
    BY TypeFacts DEF Objects
  <2>2. UNCHANGED <<cr, cache>>
    OBVIOUS
  <2>3. /\ OwnOperation(cr[k].status.op, k)'
        /\ Unfinished(cr[k].status.op) => Unfinished(cr[k].status.op)'
    BY <1>7, <2>1, <2>2 DEF ObjectInv
  <2>4. QED
    BY <1>5, <2>1, <2>2, <2>3 DEF ObjectInv
<1>10. QED
  BY <1>4, <1>5, <1>7, <1>8, <1>9 DEF Objects

\* An accepted CreateNodePool makes a pool for an object that will delete it.
LEMMA AcceptedCreate ==
    ASSUME TypeOK, CloudInv, Objects, NEW j \in Jobs, NEW n \in Nat,
           AcceptCreate(PoolOf(j), j, n), UNCHANGED <<cr, cache>>,
           cr[j].exists, cr[j].finalizer, cr[j].status.phase = "Provisioning",
           cr[j].status.op = 0
    PROVE  /\ CloudInv' /\ Objects'
           /\ OwnOperation(lastOp, j)' /\ Unfinished(lastOp)'
<1> DEFINE p == PoolOf(j)
           made == [state |-> "creating", owner |-> {j}, nodes |-> n, ready |-> 0]
<1>1. p \in Pools /\ pool \in [Pools -> NodePool] /\ \A k \in Jobs : PoolOf(k) \in Pools
  BY TypeFacts DEF TypeOK, GKETypeOK
<1>2. pool' = [pool EXCEPT ![p] = made] /\ StartOperation("create", p)
  BY DEF AcceptCreate
<1>3. made.owner = {j}
  OBVIOUS
<1> HIDE DEF p, made
<1>4. pool'[p].owner = {j} /\ \A q \in Pools : q # p => pool'[q] = pool[q]
  BY <1>1, <1>2, <1>3
<1>5. /\ \A k \in Jobs : k # j /\ HasPool(k)' => HasPool(k)
      /\ \A k \in Jobs : k # j /\ Creating(k)' => Creating(k)
  BY <1>1, <1>4 DEF HasPool, Creating, Billed
<1>6. /\ \A o \in operations' : o.id <= lastOp'
      /\ \A k : \A i \in Nat : OwnOperation(i, k) => OwnOperation(i, k)'
      /\ \A i \in Nat : Unfinished(i) => Unfinished(i)'
      /\ OwnOperation(lastOp, j)' /\ Unfinished(lastOp)'
  BY <1>2, StartedOperation DEF p
<1>7. CloudInv'
  BY <1>4, <1>6 DEF CloudInv, p
<1>8. ASSUME NEW k \in Jobs PROVE ObjectInv(k)'
  <2>1. ObjectInv(k) /\ cr[k].status.op \in Nat
    BY TypeFacts DEF Objects
  <2>2. UNCHANGED <<cr, cache>>
    OBVIOUS
  <2>3. CASE k = j
    <3>1. Unfinished(cr[j].status.op)
      BY NoOperation
    <3>2. Unfinished(cr[j].status.op)'
      BY <1>6, <2>1, <2>2, <2>3, <3>1
    <3>3. QED
      BY <1>6, <2>1, <2>2, <2>3, <3>2 DEF ObjectInv, Provisioned
  <2>4. CASE k # j
    <3>1. /\ OwnOperation(cr[k].status.op, k)'
          /\ Unfinished(cr[k].status.op) => Unfinished(cr[k].status.op)'
      BY <1>6, <2>1, <2>2 DEF ObjectInv
    <3>2. QED
      BY <1>5, <2>1, <2>2, <2>4, <3>1 DEF ObjectInv
  <2>5. QED
    BY <2>3, <2>4
<1>9. QED
  BY <1>6, <1>7, <1>8 DEF Objects

\* reconcileProvisioning: CreateNodePool preserves the invariant, also when its answer is
\* lost.
LEMMA CreateNodePoolClaims == TypeOK /\ ClaimInv /\ CreateNodePool => ClaimInv'
<1> SUFFICES ASSUME TypeOK, ClaimInv, CreateNodePool PROVE ClaimInv'
  OBVIOUS
<1> DEFINE n == DesiredNodes(spec, obj.nodes)
<1>1. /\ AtWork /\ job \in Jobs /\ obj \in Status /\ spec \in JobSpecType /\ Stay
      /\ UNCHANGED obj /\ UNCHANGED <<cr, cache>> /\ CloudInv /\ Objects
  BY DEF CreateNodePool, TypeOK, WorkerTypeOK, kubeVars, AtWork, ClaimInv, Objects
<1>2. /\ cr[job].exists /\ cr[job].finalizer /\ obj.phase = cr[job].status.phase
      /\ obj.phase = "Provisioning" /\ cr[job].status.op = 0
  BY DEF CreateNodePool, ClaimInv, WorkerInv
<1>3. n \in Nat
  BY <1>1, SpecFacts
<1>4. \/ AcceptCreate(PoolOf(job), job, n) /\ arg' = lastOp' /\ Goto("createOp")
      \/ AcceptCreate(PoolOf(job), job, n) /\ FailJob
      \/ UNCHANGED gkeVars /\ FailJob
  BY DEF CreateNodePool, RejectCreate
<1> HIDE DEF n
<1>5. CASE AcceptCreate(PoolOf(job), job, n)
  <2>1. CloudInv' /\ Objects' /\ OwnOperation(lastOp, job)' /\ Unfinished(lastOp)'
    <3>1. /\ CloudInv' /\ Objects'
          /\ \A j \in Jobs : j = job => OwnOperation(lastOp, j)' /\ Unfinished(lastOp)'
      BY <1>1, <1>2, <1>3, <1>5, AcceptedCreate
    <3>2. UNCHANGED job
      BY <1>1 DEF Stay
    <3>3. QED
      BY <1>1, <3>1, <3>2
  <2>2. CASE arg' = lastOp' /\ Goto("createOp")
    <3>1. OwnOperation(arg, job)' /\ Unfinished(arg)'
      BY <2>1, <2>2 DEF OwnOperation, Unfinished
    <3>2. WorkerInv'
      BY <1>1, <1>2, <2>2, <3>1 DEF WorkerInv, Goto, Stay, PoolIsMade, PoolIsGone
    <3>3. QED
      BY <2>1, <3>2 DEF ClaimInv, Objects
  <2>3. CASE FailJob
    <3>1. WorkerInv'
      BY <1>1, <1>2, <2>3
         DEF WorkerInv, FailJob, MoveTo, Stay, PoolIsMade, PoolIsGone, Provisioned
    <3>2. QED
      BY <2>1, <3>1 DEF ClaimInv, Objects
  <2>4. QED
    BY <1>4, <2>2, <2>3
<1>6. CASE UNCHANGED gkeVars /\ FailJob
  <2>1. Justified
    BY <1>6 DEF FailJob, MoveTo, Justified, PoolIsMade, PoolIsGone, Provisioned
  <2>2. QED
    BY <1>1, <1>6, <2>1, ReadStep
<1>7. QED
  BY <1>4, <1>5, <1>6

\* reconcileProvisioning: the deletion after a failed poll preserves the invariant.
LEMMA CleanUpPoolClaims == TypeOK /\ ClaimInv /\ CleanUpPool => ClaimInv'
<1> SUFFICES ASSUME TypeOK, ClaimInv, CleanUpPool PROVE ClaimInv'
  OBVIOUS
<1>1. /\ AtWork /\ job \in Jobs /\ Stay /\ UNCHANGED obj /\ FailJob
      /\ UNCHANGED <<cr, cache>> /\ CloudInv /\ Objects
  BY DEF CleanUpPool, TypeOK, WorkerTypeOK, kubeVars, AtWork, ClaimInv, Objects
<1>2. AcceptDelete(PoolOf(job)) \/ UNCHANGED gkeVars
  BY DEF CleanUpPool
<1>3. CASE AcceptDelete(PoolOf(job))
  <2>1. CloudInv' /\ Objects'
    BY <1>1, <1>3, AcceptedDelete
  <2>2. cr[job].exists /\ cr[job].finalizer /\ obj.phase = cr[job].status.phase
    BY <1>1 DEF ClaimInv, WorkerInv, AtWork
  <2>3. WorkerInv'
    BY <1>1, <2>2
       DEF WorkerInv, FailJob, MoveTo, Stay, PoolIsMade, PoolIsGone, Provisioned
  <2>4. QED
    BY <2>1, <2>3 DEF ClaimInv, Objects
<1>4. CASE UNCHANGED gkeVars
  <2>1. Justified
    BY <1>1 DEF FailJob, MoveTo, Justified, PoolIsMade, PoolIsGone, Provisioned
  <2>2. QED
    BY <1>1, <1>4, <2>1, ReadStep
<1>5. QED
  BY <1>2, <1>3, <1>4

\* reconcileCollecting: after DeleteNodePool the pool is gone or on its way out.
LEMMA ReleasePoolClaims ==
    TypeOK /\ "deleteCall" \notin FaultKinds /\ ClaimInv /\ ReleasePool => ClaimInv'
<1> SUFFICES ASSUME TypeOK, "deleteCall" \notin FaultKinds, ClaimInv, ReleasePool
             PROVE  ClaimInv'
  OBVIOUS
<1>1. /\ AtWork /\ job \in Jobs /\ Stay /\ UNCHANGED obj
      /\ UNCHANGED <<cr, cache>> /\ CloudInv /\ Objects
  BY DEF ReleasePool, TypeOK, WorkerTypeOK, kubeVars, AtWork, ClaimInv, Objects
<1>2. \/ AcceptDelete(PoolOf(job)) /\ arg' = lastOp' /\ Goto("releaseOp")
      \/ DeleteReply(PoolOf(job)) # "OK" /\ UNCHANGED gkeVars /\ Goto("history")
  BY DEF ReleasePool, Fault
<1>3. CASE AcceptDelete(PoolOf(job)) /\ arg' = lastOp' /\ Goto("releaseOp")
  <2>1. UNCHANGED job
    BY <1>1 DEF Stay
  <2>2. CloudInv' /\ Objects' /\ ~HasPool(job)' /\ OwnOperation(lastOp, job)'
    <3>1. /\ CloudInv' /\ Objects'
          /\ \A j \in Jobs : j = job => ~HasPool(j)' /\ OwnOperation(lastOp, j)'
      BY <1>1, <1>3, AcceptedDelete
    <3>2. QED
      BY <1>1, <2>1, <3>1
  <2>3. cr[job].exists /\ cr[job].finalizer /\ obj.phase = cr[job].status.phase
    BY <1>1 DEF ClaimInv, WorkerInv, AtWork
  <2>4. OwnOperation(arg, job)'
    BY <1>3, <2>2 DEF OwnOperation
  <2>5. WorkerInv'
    BY <1>1, <1>3, <2>1, <2>2, <2>3, <2>4 DEF WorkerInv, Goto, PoolIsMade, PoolIsGone
  <2>6. QED
    BY <2>2, <2>5 DEF ClaimInv, Objects
<1>4. CASE DeleteReply(PoolOf(job)) # "OK" /\ UNCHANGED gkeVars /\ Goto("history")
  <2>1. ~Creating(job)
    BY DEF ReleasePool, ClaimInv, WorkerInv, PoolIsMade
  <2>2. ~HasPool(job)
    BY <1>4, <2>1 DEF DeleteReply, HasPool, Billed, Creating
  <2>3. Justified
    BY <1>4, <2>1, <2>2 DEF Goto, Justified, PoolIsMade
  <2>4. QED
    BY <1>1, <1>4, <2>3, ReadStep
<1>5. QED
  BY <1>2, <1>3, <1>4

\* reconcileDelete: the finalizer is removed next only if the pool is gone or on its way out.
LEMMA DeletePoolClaims ==
    TypeOK /\ ClaimInv /\ DeletePool => ClaimInv'
<1> SUFFICES ASSUME TypeOK, ClaimInv, DeletePool PROVE ClaimInv'
  OBVIOUS
<1>1. /\ AtWork /\ job \in Jobs /\ UNCHANGED <<cr, cache>> /\ CloudInv /\ Objects
      /\ cr[job].exists /\ cr[job].finalizer /\ obj.phase = cr[job].status.phase
      /\ cr[job].deleting
  BY DEF DeletePool, TypeOK, WorkerTypeOK, AtWork, ClaimInv, WorkerInv, Objects
<1>2. \/ AcceptDelete(PoolOf(job)) /\ Goto("removeFinalizer") /\ Stay /\ UNCHANGED obj
      \/ /\ DeleteReply(PoolOf(job)) = "NotFound" /\ UNCHANGED gkeVars
         /\ Goto("removeFinalizer") /\ Stay /\ UNCHANGED obj
      \/ UNCHANGED gkeVars /\ pc' = "idle"
  BY DEF DeletePool, Return
<1>3. ASSUME Goto("removeFinalizer"), Stay, UNCHANGED obj, ~HasPool(job)'
      PROVE  WorkerInv'
  BY <1>1, <1>3 DEF WorkerInv, Goto, Stay, PoolIsMade, PoolIsGone
<1>4. CASE AcceptDelete(PoolOf(job)) /\ Goto("removeFinalizer") /\ Stay /\ UNCHANGED obj
  <2>1. UNCHANGED job
    BY <1>4 DEF Stay
  <2>2. CloudInv' /\ Objects' /\ ~HasPool(job)'
    <3>1. CloudInv' /\ Objects' /\ \A j \in Jobs : j = job => ~HasPool(j)'
      BY <1>1, <1>4, AcceptedDelete
    <3>2. QED
      BY <1>1, <2>1, <3>1
  <2>3. QED
    BY <1>3, <1>4, <2>2 DEF ClaimInv, Objects
<1>5. CASE /\ DeleteReply(PoolOf(job)) = "NotFound" /\ UNCHANGED gkeVars
           /\ Goto("removeFinalizer") /\ Stay /\ UNCHANGED obj
  <2>1. ~HasPool(job)
    BY <1>5 DEF DeleteReply, HasPool, Billed
  <2>2. ~HasPool(job)'
    BY <1>5, <2>1 DEF Stay, gkeVars, HasPool, Billed
  <2>3. CloudInv' /\ Objects'
    BY <1>1, <1>5, SameObjects
  <2>4. QED
    BY <1>3, <1>5, <2>2, <2>3 DEF ClaimInv, Objects
<1>6. CASE UNCHANGED gkeVars /\ pc' = "idle"
  BY <1>1, <1>6, ReadStep
<1>7. QED
  BY <1>2, <1>4, <1>5, <1>6

\* Reconcile: adding the finalizer preserves the invariant.
LEMMA AddFinalizerClaims ==
    TypeOK /\ ~CacheLag /\ ClaimInv /\ AddFinalizer => ClaimInv'
<1> SUFFICES ASSUME TypeOK, ~CacheLag, ClaimInv, AddFinalizer PROVE ClaimInv'
  OBVIOUS
<1> DEFINE o == [cr[job] EXCEPT !.finalizer = TRUE]
<1>1. /\ job \in Jobs /\ UNCHANGED gkeVars /\ cr[job] \in Object
      /\ CloudInv /\ Objects /\ ObjectInv(job)
  BY TypeFacts DEF AddFinalizer, World, ClaimInv, Objects
<1>2. pc' = "idle"
  BY DEF AddFinalizer, Return
<1>3. \/ Put(job, o) /\ cr[job].exists
      \/ UNCHANGED <<cr, cache>>
  BY DEF AddFinalizer
<1>4. /\ o \in Object /\ o.finalizer /\ o.status = cr[job].status
      /\ o.exists = cr[job].exists
  BY <1>1 DEF Object
<1> HIDE DEF o
<1>5. CASE Put(job, o) /\ cr[job].exists
  <2>1. CloudInv' /\ Objects'
    BY <1>1, <1>4, <1>5, WriteObject DEF ObjectInv
  <2>2. QED
    BY <1>2, <2>1, IdleWorker DEF ClaimInv, Objects
<1>6. CASE UNCHANGED <<cr, cache>>
  BY <1>1, <1>2, <1>6, SameObjects, IdleWorker DEF ClaimInv, Objects
<1>7. QED
  BY <1>3, <1>5, <1>6

\* A missing object has no operation, no phase and no deletion timestamp.
LEMMA NoObjectFacts ==
    /\ ~NoObject.exists /\ ~NoObject.deleting
    /\ NoObject.status.op = 0 /\ NoObject.status.phase = ""
  BY DEF NoObject, EmptyStatus

\* A job without a pool may be written or removed.
LEMMA WriteNoPool ==
    ASSUME TypeOK, ~CacheLag, CloudInv, Objects, UNCHANGED gkeVars,
           NEW j \in Jobs, NEW o \in Object, Put(j, o), ~HasPool(j),
           o.deleting => o.finalizer, OwnOperation(o.status.op, j)
    PROVE  CloudInv' /\ Objects' /\ cr' = [cr EXCEPT ![j] = o]
  BY WriteObject, CreatingIsPool

\* reconcileDelete: the object goes away only without a pool.
LEMMA RemoveFinalizerClaims ==
    TypeOK /\ ~CacheLag /\ ClaimInv /\ RemoveFinalizer => ClaimInv'
<1> SUFFICES ASSUME TypeOK, ~CacheLag, ClaimInv, RemoveFinalizer PROVE ClaimInv'
  OBVIOUS
<1>1. /\ job \in Jobs /\ UNCHANGED gkeVars /\ CloudInv /\ Objects
  BY TypeFacts DEF RemoveFinalizer, World, ClaimInv, Objects
<1>2. pc' = "idle"
  BY DEF RemoveFinalizer, Return
<1>3. ~HasPool(job) /\ cr[job].deleting
  BY DEF RemoveFinalizer, ClaimInv, WorkerInv, PoolIsGone
<1>4. Put(job, NoObject) \/ UNCHANGED <<cr, cache>>
  BY <1>3 DEF RemoveFinalizer
<1>5. CASE Put(job, NoObject)
  <2>1. CloudInv' /\ Objects'
    BY <1>1, <1>3, <1>5, WriteNoPool, NoObjectFacts, NoObjectType, NoOperation
  <2>2. QED
    BY <1>2, <2>1, IdleWorker DEF ClaimInv, Objects
<1>6. CASE UNCHANGED <<cr, cache>>
  BY <1>1, <1>2, <1>6, SameObjects, IdleWorker DEF ClaimInv, Objects
<1>7. QED
  BY <1>4, <1>5, <1>6

-----------------------------------------------------------------------------
\* Reconcile: each phase handler begins with a call that the stored phase justifies.
LEMMA DequeueClaims ==
    ASSUME NEW j \in Jobs PROVE TypeOK /\ ClaimInv /\ Dequeue(j) => ClaimInv'
<1> SUFFICES ASSUME TypeOK, ClaimInv, Dequeue(j) PROVE ClaimInv'
  OBVIOUS
<1>1. /\ UNCHANGED <<cr, cache, gkeVars>> /\ pc = "idle"
      /\ CloudInv /\ Objects /\ ObjectInv(j) /\ cache[j] = cr[j]
  BY DEF Dequeue, Discard, Reconcile, Take, World, ClaimInv, Objects, ObjectInv
<1>2. CloudInv' /\ Objects'
  BY <1>1, SameObjects
<1>3. CASE Discard(j)
  <2>1. pc' = "idle"
    BY <1>1, <1>3 DEF Discard, workerVars
  <2>2. QED
    BY <1>2, <2>1, IdleWorker DEF ClaimInv, Objects
<1>4. CASE Reconcile(j)
  <2> DEFINE o == cache[j]
  <2>1. job' = j /\ obj' = o.status /\ ~NothingToDo(o)
    BY <1>4 DEF Reconcile
  <2>2. o = cr'[j] /\ o.exists
    BY <1>1, <2>1 DEF NothingToDo
  <2>3. CASE ~o.deleting /\ ~o.finalizer
    <3>1. pc' = "addFinalizer"
      BY <1>4, <2>3 DEF Reconcile, Goto
    <3>2. WorkerInv'
      BY <3>1 DEF WorkerInv, PoolIsMade, PoolIsGone
    <3>3. QED
      BY <1>2, <3>2 DEF ClaimInv, Objects
  <2>4. CASE o.deleting
    <3>1. EnterDelete(o.status.phase)
      BY <1>4, <2>4 DEF Reconcile
    <3>2. o.finalizer
      BY <1>1, <2>4 DEF ObjectInv
    <3>3. /\ pc' \in {"finalDelete", "removeFinalizer"}
          /\ pc' = "removeFinalizer" => o.status.phase = "Succeeded"
      BY <3>1 DEF EnterDelete, Goto
    <3>4. pc' = "removeFinalizer" => ~HasPool(j)
      BY <1>1, <3>3 DEF ObjectInv
    <3>5. pc' = "removeFinalizer" => ~HasPool(job)'
      BY <1>1, <2>1, <3>4 DEF HasPool, Billed, gkeVars
    <3>6. WorkerInv'
      BY <2>1, <2>2, <2>4, <3>2, <3>3, <3>5 DEF WorkerInv, PoolIsMade, PoolIsGone
    <3>7. QED
      BY <1>2, <3>6 DEF ClaimInv, Objects
  <2>5. CASE ~o.deleting /\ o.finalizer
    <3>1. EnterPhase(o.spec, o.status)
      BY <1>4, <2>5 DEF Reconcile
    <3>2. Creating(j) => o.status.phase \notin Provisioned
      BY <1>1 DEF ObjectInv
    <3>3. Creating(job)' <=> Creating(j)
      BY <1>1, <2>1 DEF Creating, gkeVars
    <3>4. \/ pc' \in {"startTime", "solve"}
          \/ pc' = "setPhase" /\ to' \in {"Failed", "Provisioning"}
          \/ pc' = "provStart" /\ o.status.phase = "Provisioning"
          \/ pc' = "poll" /\ o.status.phase = "Provisioning"
          \/ pc' = "create" /\ o.status.phase = "Provisioning" /\ o.status.op = 0
          \/ pc' \in {"apply", "getPhase", "release"} /\ o.status.phase \in Provisioned
          \/ pc' = "pollDelete"
      BY <3>1
         DEF EnterPhase, EnterPending, EnterSolver, EnterProvisioning, EnterOperation,
             EnterBackend, FailJob, MoveTo, Goto, Provisioned
    <3>5. WorkerInv'
      BY <2>1, <2>2, <2>5, <3>2, <3>3, <3>4
         DEF WorkerInv, PoolIsMade, PoolIsGone, Provisioned
    <3>6. QED
      BY <1>2, <3>5 DEF ClaimInv, Objects
  <2>6. QED
    BY <2>3, <2>4, <2>5
<1>5. QED
  BY <1>3, <1>4 DEF Dequeue

\* A restart of the operator at any call preserves the invariant.
LEMMA CrashClaims == TypeOK /\ ClaimInv /\ Crash => ClaimInv'
<1> SUFFICES ASSUME TypeOK, ClaimInv, Crash PROVE ClaimInv'
  OBVIOUS
<1>1. /\ pc' = "idle" /\ cr' = cr /\ cache' = cr /\ UNCHANGED gkeVars
      /\ CloudInv /\ Objects
  BY DEF Crash, World, ClaimInv, Objects
<1>2. CloudInv' /\ Objects'
  BY <1>1, SameCloudFacts DEF Objects, ObjectInv
<1>3. QED
  BY <1>1, <1>2, IdleWorker DEF ClaimInv, Objects

\* Users creating, editing and deleting objects preserve the invariant.
LEMMA UserClaims ==
    ASSUME NEW j \in Jobs
    PROVE  TypeOK /\ ~CacheLag /\ ClaimInv
             /\ (UserCreate(j) \/ UserEdit(j) \/ UserDelete(j) \/ InformerSync(j))
           => ClaimInv'
<1> SUFFICES ASSUME TypeOK, ~CacheLag, ClaimInv,
                    UserCreate(j) \/ UserEdit(j) \/ UserDelete(j)
             PROVE  ClaimInv'
  BY DEF InformerSync
<1>1. /\ UNCHANGED gkeVars /\ UNCHANGED <<pc, job, obj, to, arg>>
      /\ CloudInv /\ Objects /\ ObjectInv(j) /\ cr[j] \in Object
      /\ cr \in [Jobs -> Object]
  BY TypeFacts
     DEF UserCreate, UserEdit, UserDelete, Operator, workerVars, ClaimInv, Objects, TypeOK,
         KubeTypeOK
<1>2. WorkerInv /\ (AtWork => cr[job].exists /\ cr[job].finalizer)
  BY DEF ClaimInv, WorkerInv, AtWork
<1>3. ~AtWork => ClaimInv' \/ ~(CloudInv' /\ Objects')
  BY <1>1 DEF AtWork, WorkerInv, ClaimInv, Objects, PoolIsMade, PoolIsGone
<1>4. ASSUME cr'[job].exists, cr'[job].finalizer, cr'[job].status = cr[job].status,
             cr[job].deleting => cr'[job].deleting, CloudInv', Objects', AtWork
      PROVE  ClaimInv'
  <2>1. WorkerInv'
    BY <1>1, <1>2, <1>4, SameCloudFacts DEF WorkerInv, AtWork, PoolIsMade, PoolIsGone
  <2>2. QED
    BY <1>4, <2>1 DEF ClaimInv, Objects
<1>5. CASE UserCreate(j)
  <2>0. PICK s \in Specs[j] : Put(j, [NoObject EXCEPT !.exists = TRUE, !.spec = s])
    BY <1>5 DEF UserCreate, CreateObject
  <2> DEFINE o == [NoObject EXCEPT !.exists = TRUE, !.spec = s]
  <2>1. ~cr[j].exists /\ Put(j, o)
    BY <1>5, <2>0 DEF UserCreate, CreateObject
  <2>2. ~HasPool(j)
    BY <1>1, <2>1 DEF ObjectInv
  <2>3. /\ o \in Object /\ ~o.deleting /\ o.status.op = 0
    BY NoObjectType, NoObjectFacts, SpecAssumption DEF Object
  <2> HIDE DEF o
  <2>4. CloudInv' /\ Objects' /\ cr' = [cr EXCEPT ![j] = o]
    BY <1>1, <2>1, <2>2, <2>3, WriteNoPool, NoOperation
  <2>5. AtWork => cr'[job] = cr[job]
    BY <1>1, <1>2, <2>1, <2>4
  <2>6. QED
    BY <1>1, <1>2, <1>3, <1>4, <2>4, <2>5
<1>6. CASE UserDelete(j)
  <2> DEFINE o == [cr[j] EXCEPT !.deleting = TRUE]
  <2>1. CASE cr[j].finalizer
    <3>1. Put(j, o) /\ cr[j].exists
      BY <1>6, <2>1 DEF UserDelete, DeleteObject
    <3>2. /\ o \in Object /\ o.deleting /\ o.finalizer /\ o.exists
          /\ o.status = cr[j].status
      BY <1>1, <2>1, <3>1 DEF Object
    <3> HIDE DEF o
    <3>3. CloudInv' /\ Objects' /\ cr' = [cr EXCEPT ![j] = o]
      BY <1>1, <3>1, <3>2, WriteObject DEF ObjectInv
    <3>4. AtWork => /\ cr'[job].exists /\ cr'[job].finalizer
                    /\ cr'[job].status = cr[job].status
                    /\ cr[job].deleting => cr'[job].deleting
      <4>1. CASE job = j
        BY <1>1, <3>2, <3>3, <4>1
      <4>2. CASE job # j
        <5>1. cr'[job] = cr[job]
          BY <1>1, <3>3, <4>2
        <5>2. QED
          BY <1>2, <5>1
      <4>3. QED
        BY <4>1, <4>2
    <3>5. QED
      BY <1>3, <1>4, <3>3, <3>4
  <2>2. CASE ~cr[j].finalizer
    <3>1. Put(j, NoObject)
      BY <1>6, <2>2 DEF UserDelete, DeleteObject
    <3>2. ~HasPool(j)
      BY <1>1, <2>2 DEF ObjectInv
    <3>3. CloudInv' /\ Objects' /\ cr' = [cr EXCEPT ![j] = NoObject]
      BY <1>1, <3>1, <3>2, WriteNoPool, NoObjectFacts, NoObjectType, NoOperation
    <3>4. AtWork => cr'[job] = cr[job]
      BY <1>1, <1>2, <2>2, <3>3
    <3>5. QED
      BY <1>1, <1>2, <1>3, <1>4, <3>3, <3>4
  <2>3. QED
    BY <2>1, <2>2
<1>7. CASE UserEdit(j)
  <2>1. PICK s \in Specs[j] : Put(j, [cr[j] EXCEPT !.spec = s])
    BY <1>7 DEF UserEdit, EditObject
  <2> DEFINE o == [cr[j] EXCEPT !.spec = s]
  <2>2. /\ o \in Object /\ o.deleting = cr[j].deleting /\ o.finalizer = cr[j].finalizer
        /\ o.exists = cr[j].exists /\ o.status = cr[j].status /\ Put(j, o)
    BY <1>1, <2>1, SpecAssumption DEF Object
  <2> HIDE DEF o
  <2>3. CloudInv' /\ Objects' /\ cr' = [cr EXCEPT ![j] = o]
    BY <1>1, <2>2, WriteObject DEF ObjectInv
  <2>4. AtWork => /\ cr'[job].exists /\ cr'[job].finalizer
                  /\ cr'[job].status = cr[job].status
                  /\ cr[job].deleting => cr'[job].deleting
    <3>1. CASE job = j
      BY <1>1, <1>2, <2>2, <2>3, <3>1
    <3>2. CASE job # j
      BY <1>1, <1>2, <2>3, <3>2
    <3>3. QED
      BY <3>1, <3>2
  <2>5. QED
    BY <1>3, <1>4, <2>3, <2>4
<1>8. QED
  BY <1>5, <1>6, <1>7

\* When an operation on pool p ends, operations on other pools stay as they are.
LEMMA EndedOperation ==
    ASSUME CloudInv, NEW kind, NEW status, NEW p, EndOperation(kind, p, status)
    PROVE  /\ \A o \in operations' : o.id <= lastOp'
           /\ \A i, j : OwnOperation(i, j) => OwnOperation(i, j)'
           /\ \A i, j : /\ OwnOperation(i, j) /\ PoolOf(j) # p /\ Unfinished(i)
                        => Unfinished(i)'
<1>1. PICK o \in operations :
        /\ o.kind = kind /\ o.pool = p /\ o.status = "running"
        /\ operations' = (operations \ {o}) \cup {[o EXCEPT !.status = status]}
  BY DEF EndOperation
<1> DEFINE new == [o EXCEPT !.status = status]
<1>2. lastOp' = lastOp
  BY DEF EndOperation
<1>3. new.id = o.id /\ new.pool = o.pool
  OBVIOUS
<1>4. operations' = (operations \ {o}) \cup {new}
  BY <1>1
<1> HIDE DEF new
<1>5. \A q \in operations' : q.id <= lastOp'
  BY <1>2, <1>3, <1>4 DEF CloudInv
<1>6. \A i, j : OwnOperation(i, j) => OwnOperation(i, j)'
  BY <1>2, <1>3, <1>4 DEF OwnOperation
<1>7. ASSUME NEW i, NEW j, OwnOperation(i, j), PoolOf(j) # p, Unfinished(i)
      PROVE  Unfinished(i)'
  BY <1>1, <1>3, <1>4, <1>7 DEF OwnOperation, Unfinished
<1>8. QED
  BY <1>5, <1>6, <1>7

\* A step of the cloud: it makes no pool, and ends at most operations on p.
CloudMoves(p) ==
    /\ \A q \in Pools : q # p => pool'[q] = pool[q]
    /\ pool'[p].owner \subseteq pool[p].owner
    /\ Billed(p)' => Billed(p)
    /\ pool'[p].state # "creating"

\* A step of the cloud that makes no pool preserves the invariant.
LEMMA CloudMovesClaims ==
    ASSUME TypeOK, ClaimInv, NEW p \in Pools, UNCHANGED <<Operator, kubeVars>>,
           CloudMoves(p),
           \A o \in operations' : o.id <= lastOp',
           \A i, j : OwnOperation(i, j) => OwnOperation(i, j)',
           \A i, j : OwnOperation(i, j) /\ PoolOf(j) # p /\ Unfinished(i) => Unfinished(i)'
    PROVE  ClaimInv'
<1>1. /\ CloudInv /\ Objects /\ WorkerInv
      /\ UNCHANGED <<cr, cache, pc, job, obj, to, arg>>
  BY DEF ClaimInv, Objects, Operator, workerVars, kubeVars
<1>2. \A j \in Jobs : PoolOf(j) \in Pools
  BY TypeFacts
<1>3. ASSUME NEW j \in Jobs
      PROVE  /\ HasPool(j)' => HasPool(j)
             /\ Creating(j)' => Creating(j) /\ PoolOf(j) # p
  <2>1. CASE PoolOf(j) = p
    BY <2>1 DEF CloudMoves, HasPool, Creating
  <2>2. CASE PoolOf(j) # p
    <3>1. pool'[PoolOf(j)] = pool[PoolOf(j)]
      BY <1>2, <2>2 DEF CloudMoves
    <3>2. QED
      BY <2>2, <3>1 DEF HasPool, Creating, Billed
  <2>3. QED
    BY <2>1, <2>2
<1>4. CloudInv'
  <2>1. \A q \in Pools : pool'[q].owner \subseteq pool[q].owner
    BY DEF CloudMoves
  <2>2. QED
    BY <1>1, <2>1 DEF CloudInv
<1>5. ASSUME NEW j \in Jobs PROVE ObjectInv(j)'
  <2>1. ObjectInv(j)
    BY <1>1 DEF Objects
  <2>2. /\ OwnOperation(cr[j].status.op, j)'
        /\ PoolOf(j) # p /\ Unfinished(cr[j].status.op) => Unfinished(cr[j].status.op)'
    BY <1>1, <2>1 DEF ObjectInv
  <2>3. QED
    BY <1>1, <1>3, <2>1, <2>2 DEF ObjectInv
<1>6. WorkerInv'
  <2>1. CASE pc = "idle"
    BY <1>1, <2>1, IdleWorker
  <2>2. CASE pc # "idle"
    <3>1. /\ HasPool(job)' => HasPool(job)
          /\ Creating(job)' => Creating(job) /\ PoolOf(job) # p
      <4>1. job \in Jobs /\ UNCHANGED job
        BY <1>1, <2>2, TypeFacts
      <4>2. \A j \in Jobs : j = job =>
              /\ HasPool(j)' => HasPool(j)
              /\ Creating(j)' => Creating(j) /\ PoolOf(j) # p
        BY <1>3
      <4>3. QED
        BY <4>1, <4>2 DEF HasPool, Creating, Billed
    <3>2. pc \in {"createOp", "releaseOp"} => OwnOperation(arg, job)'
      BY <1>1 DEF WorkerInv, OwnOperation
    <3>3. pc = "createOp" /\ Creating(job)' => Unfinished(arg)'
      <4>1. pc = "createOp" /\ Creating(job) => OwnOperation(arg, job) /\ Unfinished(arg)
        BY <1>1 DEF WorkerInv
      <4>2. UNCHANGED arg
        BY <1>1
      <4>3. QED
        BY <3>1, <4>1, <4>2 DEF Unfinished
    <3>4. QED
      BY <1>1, <3>1, <3>2, <3>3 DEF WorkerInv
  <2>3. QED
    BY <2>1, <2>2
<1>7. QED
  BY <1>4, <1>5, <1>6 DEF ClaimInv

\* The ends of creations and deletions preserve the invariant.
LEMMA CloudClaims ==
    ASSUME NEW p \in Pools
    PROVE  TypeOK /\ "deleteOp" \notin FaultKinds /\ ClaimInv
             /\ (CloudCreates(p) \/ CloudDeletes(p)) => ClaimInv'
<1> SUFFICES ASSUME TypeOK, "deleteOp" \notin FaultKinds, ClaimInv,
                    CloudCreates(p) \/ CloudDeletes(p)
             PROVE  ClaimInv'
  OBVIOUS
<1>1. /\ UNCHANGED <<Operator, kubeVars>> /\ CloudInv
      /\ FinishCreate(p) \/ FailCreate(p) \/ FinishDelete(p)
  BY DEF CloudCreates, CloudDeletes, Fault, ClaimInv
<1>2. pool \in [Pools -> NodePool] /\ pool[p] \in NodePool
  BY DEF TypeOK, GKETypeOK
<1>3. \E kind, status : EndOperation(kind, p, status)
  BY <1>1 DEF FinishCreate, FailCreate, FinishDelete
<1>4. /\ \A q \in Pools : q # p => pool'[q] = pool[q]
      /\ \/ pool'[p] = NoPool
         \/ /\ pool[p].state = "creating" /\ pool'[p].owner = pool[p].owner
            /\ pool'[p].state \in {"running", "error"}
  BY <1>1, <1>2 DEF FinishCreate, FailCreate, FinishDelete, NodePool
<1>5. CloudMoves(p)
  BY <1>4 DEF CloudMoves, NoPool, Billed
<1>6. QED
  BY <1>1, <1>3, <1>5, EndedOperation, CloudMovesClaims

\* Nodes that join and leave preserve the invariant.
LEMMA NodeClaims ==
    ASSUME NEW p \in Pools
    PROVE  TypeOK /\ ClaimInv /\ (NodeJoins(p) \/ NodeLeaves(p)) => ClaimInv'
<1> SUFFICES ASSUME TypeOK, ClaimInv, NodeJoins(p) \/ NodeLeaves(p) PROVE ClaimInv'
  OBVIOUS
<1>1. /\ UNCHANGED <<Operator, kubeVars, operations, lastOp>>
      /\ UNCHANGED <<cr, cache, pc, job, obj, to, arg>>
  BY DEF NodeJoins, NodeLeaves, NodeReady, NodeLost, Operator, workerVars, kubeVars
<1>2. pool \in [Pools -> NodePool] /\ \A j \in Jobs : PoolOf(j) \in Pools
  BY TypeFacts DEF TypeOK, GKETypeOK
<1>3. \A q \in Pools : pool'[q].owner = pool[q].owner /\ pool'[q].state = pool[q].state
  BY <1>2 DEF NodeJoins, NodeLeaves, NodeReady, NodeLost, NodePool
<1>4. \A j \in Jobs : (HasPool(j)' <=> HasPool(j)) /\ (Creating(j)' <=> Creating(j))
  BY <1>2, <1>3 DEF HasPool, Creating, Billed
<1>5. /\ \A i, j : OwnOperation(i, j)' <=> OwnOperation(i, j)
      /\ \A i : Unfinished(i)' <=> Unfinished(i)
  BY <1>1 DEF OwnOperation, Unfinished
<1>6. CloudInv'
  BY <1>1, <1>3 DEF ClaimInv, CloudInv
<1>7. ASSUME NEW j \in Jobs PROVE ObjectInv(j)'
  BY <1>1, <1>4, <1>5 DEF ClaimInv, ObjectInv
<1>8. WorkerInv'
  <2>1. CASE pc = "idle"
    BY <1>1, <2>1, IdleWorker
  <2>2. CASE pc # "idle"
    <3>1. job \in Jobs
      BY <2>2, TypeFacts
    <3>2. (HasPool(job)' <=> HasPool(job)) /\ (Creating(job)' <=> Creating(job))
      BY <1>1, <1>3, <1>2, <3>1 DEF HasPool, Creating, Billed
    <3>3. QED
      BY <1>1, <1>5, <3>2 DEF ClaimInv, WorkerInv, OwnOperation, Unfinished
  <2>3. QED
    BY <2>1, <2>2
<1>9. QED
  BY <1>6, <1>7, <1>8 DEF ClaimInv

\* A step that touches neither worker, objects nor pools preserves the invariant.
LEMMA SameClaims ==
    ASSUME ClaimInv, UNCHANGED <<workerVars, kubeVars, gkeVars>>
    PROVE  ClaimInv'
<1>1. UNCHANGED <<cr, cache, pc, job, obj, to, arg, pool, operations, lastOp>>
  BY DEF workerVars, kubeVars, gkeVars
<1>2. QED
  BY <1>1
     DEF ClaimInv, CloudInv, ObjectInv, WorkerInv, HasPool, Creating, Billed,
         OwnOperation, Unfinished

-----------------------------------------------------------------------------
\* The invariant holds initially.
LEMMA InitClaims == ASSUME ~CacheLag, Init PROVE ClaimInv
<1>1. \A j \in Jobs : cr[j] = NoObject /\ cache[j] = NoObject
  BY DEF Init, KubeInit
<1>2. \A p \in Pools : pool[p].owner = {}
  BY DEF Init, GKEInit, NoPool
<1>3. operations = {} /\ lastOp = 0 /\ pc = "idle"
  BY DEF Init, GKEInit
<1>4. CloudInv
  BY <1>2, <1>3 DEF CloudInv
<1>5. \A j \in Jobs : ~HasPool(j) /\ ~Creating(j)
  BY <1>2, SpecAssumption DEF HasPool, Creating, PoolOf
<1>6. \A j \in Jobs : OwnOperation(0, j)
  BY <1>3 DEF OwnOperation
<1>7. \A j \in Jobs : ObjectInv(j)
  BY <1>1, <1>5, <1>6, NoObjectFacts DEF ObjectInv
<1>8. WorkerInv
  BY <1>3 DEF WorkerInv, PoolIsMade, PoolIsGone
<1>9. QED
  BY <1>4, <1>7, <1>8 DEF ClaimInv

\* The invariant is inductive, relative to type correctness.
LEMMA StepClaims ==
    TypeOK /\ Reliable /\ ClaimInv /\ [Next]_vars => ClaimInv'
<1> SUFFICES ASSUME TypeOK, Reliable, ClaimInv, [Next]_vars PROVE ClaimInv'
  OBVIOUS
<1>1. ~CacheLag /\ "deleteCall" \notin FaultKinds /\ "deleteOp" \notin FaultKinds
  BY DEF Reliable
<1>2. CASE Handler
  BY <1>1, <1>2, AddFinalizerClaims, SetPhaseClaims, SetStartTimeClaims, SolveClaims,
     SetProvisioningStartTimeClaims, CreateNodePoolClaims, StoreCreateOperationClaims,
     PollCreateClaims, CleanUpPoolClaims, CountReadyNodesClaims, ApplyJobClaims,
     SetJobNameClaims, GetPhaseClaims, ResetTrainingStartClaims, GetStartTimeClaims,
     SetTrainingStartClaims, ReleasePoolClaims, StoreDeleteOperationClaims,
     CollectResultsClaims, SetResultsClaims, PollDeleteClaims, ClearOperationClaims,
     DeletePoolClaims, RemoveFinalizerClaims
     DEF Handler
<1>3. CASE \E j \in Jobs : Dequeue(j)
  BY <1>3, DequeueClaims
<1>4. CASE Environment
  <2>1. ASSUME NEW j \in Jobs,
               \/ TrainingStarts(j) \/ TrainingEnds(j) \/ CollectGarbage(j)
               \/ UserDeletesBackendJob(j)
        PROVE  ClaimInv'
    BY <2>1, SameClaims
       DEF TrainingStarts, TrainingEnds, CollectGarbage, UserDeletesBackendJob, Operator
  <2>2. QED
    BY <1>1, <1>4, <2>1, CrashClaims, UserClaims, CloudClaims, NodeClaims
       DEF Environment
<1>5. CASE UNCHANGED vars
  BY <1>5, SameClaims DEF vars
<1>6. QED
  BY <1>2, <1>3, <1>4, <1>5 DEF Next

\* The invariant implies that every pool is claimed.
LEMMA ClaimsImply == ASSUME TypeOK, ClaimInv PROVE PoolsAreClaimed
<1> SUFFICES ASSUME NEW p \in Pools, Billed(p), NEW j \in pool[p].owner
             PROVE  cr[j].exists /\ cr[j].finalizer
  BY DEF PoolsAreClaimed
<1>1. PoolOf(j) = p
  BY DEF ClaimInv, CloudInv
<1>2. j \in Jobs
  BY DEF TypeOK, GKETypeOK, NodePool
<1>3. HasPool(j) /\ ObjectInv(j)
  BY <1>1, <1>2 DEF HasPool, ClaimInv
<1>4. QED
  BY <1>3 DEF ObjectInv

(***************************************************************************)
(* ClaimInv holds for every set of jobs, pools and specs: an object whose  *)
(* pool may exist keeps its finalizer (reconcileDelete, phases.go), and    *)
(* no poll mistakes an unfinished creation for a finished one.             *)
(***************************************************************************)
THEOREM ClaimInvariant == Reliable => (Spec => []ClaimInv)
<1> SUFFICES ASSUME Reliable PROVE Spec => []ClaimInv
  OBVIOUS
<1>1. Init => ClaimInv
  BY InitClaims DEF Reliable
<1>2. TypeOK /\ ClaimInv /\ [Next]_vars => ClaimInv'
  BY StepClaims
<1>3. QED
  BY <1>1, <1>2, TypeCorrect, PTL DEF Spec

(***************************************************************************)
(* No orphaned infrastructure, for every set of jobs, pools and specs,     *)
(* also for jobs that share a pool, whatever crashes and whichever calls   *)
(* to the API server, polls and creations fail: provided the informer is   *)
(* up to date and a deletion of a pool fails neither at once nor later.    *)
(***************************************************************************)
THEOREM PoolsClaimed == Reliable => (Spec => []PoolsAreClaimed)
<1> SUFFICES ASSUME Reliable PROVE Spec => []PoolsAreClaimed
  OBVIOUS
<1>1. TypeOK /\ ClaimInv => PoolsAreClaimed
  BY ClaimsImply
<1>2. QED
  BY <1>1, ClaimInvariant, TypeCorrect, PTL
================================================================================
