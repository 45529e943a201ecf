----------------------- MODULE ReconcilerContractProofs ------------------------
(***************************************************************************)
(* The control loop implements JobContract.  Every step, seen through the  *)
(* stages, pools and backend jobs of module ReconcilerContract, is a step  *)
(* of one job or none.  That the step is allowed follows from ClaimInv (no *)
(* pool is left behind), LifeInv (the order of the phases) and HoldInv     *)
(* (the pool a job has meanwhile).                                         *)
(***************************************************************************)
EXTENDS ReconcilerContract, ReconcilerPoolProofs

\* A pool has an owner as long as GKE knows it.
Owned == \A p \in Pools : pool[p].state # "absent" => pool[p].owner # {}

\* The hypotheses of what follows.
ContractAssumption == Reliable /\ HoldAssumption

\* What is known of a state.
Known ==
    TypeOK /\ LifeInv /\ ClaimInv /\ HoldInv /\ Owned

\* A step of the control loop is one of JobContract, or changes nothing there.
Allowed == [Contract!Next]_(Contract!vars)

\* No step of the cloud, and no call, leaves a pool without its owner.
LEMMA StepOwned == TypeOK /\ Owned /\ [Next]_vars => Owned'
<1> SUFFICES ASSUME TypeOK, Owned, [Next]_vars PROVE Owned'
  OBVIOUS
<1>1. CASE UNCHANGED gkeVars
  BY <1>1 DEF Owned, gkeVars
<1>2. CASE CreateNodePool
  <2> DEFINE n == DesiredNodes(spec, obj.nodes)
             x == [state |-> "creating", owner |-> {job}, nodes |-> n, ready |-> 0]
  <2>1. x.owner # {}
    OBVIOUS
  <2>2. (pool' = [pool EXCEPT ![PoolOf(job)] = x]) \/ UNCHANGED pool
    BY <1>2 DEF CreateNodePool, AcceptCreate, RejectCreate, gkeVars
  <2> HIDE DEF x
  <2>3. QED
    BY <2>1, <2>2, CloudTypes DEF Owned
<1>3. CASE CleanUpPool \/ ReleasePool \/ DeletePool
  <2>1. \/ UNCHANGED gkeVars
        \/ \E p \in Pools : /\ pool[p].state # "absent"
                            /\ pool' = [pool EXCEPT ![p].state = "deleting"]
    BY <1>3, LifeTypes, CloudTypes
       DEF CleanUpPool, ReleasePool, DeletePool, AcceptDelete, DeleteReply
  <2>2. QED
    BY <1>1, <2>1, CloudTypes DEF Owned, NodePool
<1>4. ASSUME NEW p \in Pools,
             CloudCreates(p) \/ CloudDeletes(p) \/ NodeJoins(p) \/ NodeLeaves(p)
      PROVE  Owned'
  <2>1. \/ /\ pool[p].state # "absent"
           /\ \E s : pool' = [pool EXCEPT ![p].state = s]
        \/ pool' = [pool EXCEPT ![p] = NoPool]
        \/ /\ pool[p].state # "absent"
           /\ \E r : pool' = [pool EXCEPT ![p].ready = r]
    BY <1>4 DEF CloudCreates, CloudDeletes, NodeJoins, NodeLeaves, FinishCreate,
                FailCreate, FinishDelete, FailDelete, NodeReady, NodeLost
  <2>2. NoPool.state = "absent"
    BY DEF NoPool
  <2>3. QED
    BY <2>1, <2>2, CloudTypes DEF Owned, NodePool
<1>5. QED
  BY <1>1, <1>2, <1>3, <1>4, QuietHandlers, QuietOthers DEF Next, Environment

-----------------------------------------------------------------------------
\* What is left alone looks the same.
LEMMA SameViews ==
    /\ UNCHANGED cr => UNCHANGED <<Stage, Leaving>>
    /\ UNCHANGED pool => UNCHANGED Lease
    /\ UNCHANGED bj => UNCHANGED Work
  BY DEF Stage, PhaseOf, Leaving, Lease, PoolOf, Work

\* Two functions that differ at j.
LEMMA ChangedAt ==
    ASSUME NEW S, NEW j \in S, NEW v,
           NEW f, f = [k \in S |-> f[k]], NEW g, g = [k \in S |-> g[k]],
           \A k \in S : g[k] = IF k = j THEN v ELSE f[k]
    PROVE  g = [f EXCEPT ![j] = v]
<1>1. DOMAIN f = S /\ [f EXCEPT ![j] = v] = [k \in S |-> IF k = j THEN v ELSE f[k]]
  OBVIOUS
<1>2. QED
  BY <1>1

\* A write to the API server, seen as a stage.
LEMMA WriteStage ==
    ASSUME TypeOK, NEW j \in Jobs, NEW o, cr' = [cr EXCEPT ![j] = o]
    PROVE  /\ Stage' = [Stage EXCEPT ![j] = IF o.exists THEN o.status.phase ELSE "none"]
           /\ Leaving' = [Leaving EXCEPT ![j] = o.exists /\ o.deleting]
<1>1. \A k \in Jobs : cr'[k] = IF k = j THEN o ELSE cr[k]
  BY LifeTypes
<1>2. /\ \A k \in Jobs :
            Stage'[k] = IF k = j THEN (IF o.exists THEN o.status.phase ELSE "none")
                        ELSE Stage[k]
      /\ Stage = [k \in Jobs |-> Stage[k]] /\ Stage' = [k \in Jobs |-> Stage'[k]]
  BY <1>1 DEF Stage, PhaseOf
<1>3. /\ \A k \in Jobs :
            Leaving'[k] = IF k = j THEN o.exists /\ o.deleting ELSE Leaving[k]
      /\ Leaving = [k \in Jobs |-> Leaving[k]]
      /\ Leaving' = [k \in Jobs |-> Leaving'[k]]
  BY <1>1 DEF Leaving
<1>4. QED
  BY <1>2, <1>3, ChangedAt

\* A step of a pool, seen as a lease.
LEMMA WriteLease ==
    ASSUME TypeOK, PoolsApart, NEW j \in Jobs, NEW x,
           pool' = [pool EXCEPT ![PoolOf(j)] = x]
    PROVE  Lease' = [Lease EXCEPT ![j] = LeaseOf(x.state)]
<1>1. \A k \in Jobs : pool'[PoolOf(k)] = IF k = j THEN x ELSE pool[PoolOf(k)]
  BY CloudTypes DEF PoolsApart
<1>2. /\ \A k \in Jobs : Lease'[k] = IF k = j THEN LeaseOf(x.state) ELSE Lease[k]
      /\ Lease = [k \in Jobs |-> Lease[k]] /\ Lease' = [k \in Jobs |-> Lease'[k]]
  BY <1>1 DEF Lease, PoolOf
<1>3. QED
  BY <1>2, ChangedAt

\* A step of a backend job, seen as work.
LEMMA WriteWork ==
    ASSUME TypeOK, NEW j \in Jobs, NEW x, bj' = [bj EXCEPT ![j] = x]
    PROVE  Work' = [Work EXCEPT ![j] = x.state]
<1>1. \A k \in Jobs : bj'[k] = IF k = j THEN x ELSE bj[k]
  BY DEF TypeOK, BackendTypeOK
<1>2. /\ \A k \in Jobs : Work'[k] = IF k = j THEN x.state ELSE Work[k]
      /\ Work = [k \in Jobs |-> Work[k]] /\ Work' = [k \in Jobs |-> Work'[k]]
  BY <1>1 DEF Work
<1>3. QED
  BY <1>2, ChangedAt

\* The views of one job.
LEMMA Views ==
    ASSUME NEW j \in Jobs
    PROVE  /\ Stage[j] = IF cr[j].exists THEN PhaseOf(j) ELSE "none"
           /\ Leaving[j] <=> cr[j].exists /\ cr[j].deleting
           /\ Lease[j] = LeaseOf(pool[PoolOf(j)].state)
           /\ Work[j] = bj[j].state
           /\ OwnRunning(j) => Lease[j] = "held"
  BY DEF Stage, Leaving, Lease, LeaseOf, Work, OwnRunning

\* Of a job without a pool, nothing is paid.
LEMMA NothingPaid ==
    ASSUME Known, PoolsApart, NEW j \in Jobs, ~HasPool(j)
    PROVE  Lease[j] \in Contract!NotPaid
<1>1. pool[PoolOf(j)] \in NodePool /\ PoolOf(j) \in Pools
  BY CloudTypes DEF Known
<1>2. pool[PoolOf(j)].owner \subseteq {j}
  BY <1>1, CloudTypes DEF Known, ClaimInv, CloudInv, PoolsApart, NodePool
<1>3. pool[PoolOf(j)].state \in {"absent", "deleting"}
  BY <1>1, <1>2 DEF Known, Owned, HasPool, Billed, NodePool, PoolState
<1>4. QED
  BY <1>3 DEF Lease, LeaseOf, Contract!NotPaid

-----------------------------------------------------------------------------
\* A step that touches nothing the contract sees.
LEMMA NothingSeen ==
    ASSUME UNCHANGED <<Stage, Leaving, Lease, Work>>
    PROVE  Allowed
  BY DEF Allowed, Contract!vars

\* A step of one job.
LEMMA OneStep == ASSUME NEW j \in Jobs, Contract!Step(j) PROVE Allowed
  BY DEF Allowed, Contract!Next

\* A status patch that keeps the phase.
LEMMA PatchSeen ==
    ASSUME Known, AtWork, UNCHANGED World, NEW new, Accepted(new) \/ Rejected(new),
           new.phase = obj.phase
    PROVE  Allowed
<1> DEFINE s == Merged(obj, new, cr[job].status)
           o == [cr[job] EXCEPT !.status = s]
<1>1. s.phase = PhaseOf(job)
  BY DEF Merged, PhaseOf
<1>2. job \in Jobs /\ cr[job] \in Object
  BY LifeTypes DEF Known, AtWork
<1>3. cr' = [cr EXCEPT ![job] = o] \/ UNCHANGED cr
  BY DEF Accepted, Rejected, PatchStatus, Put
<1>4. o.status = s /\ o.exists = cr[job].exists /\ o.deleting = cr[job].deleting
  BY <1>2 DEF Object
<1> HIDE DEF s, o
<1>5. CASE cr' = [cr EXCEPT ![job] = o]
  <2>1. /\ Stage' = [Stage EXCEPT ![job] = Stage[job]]
        /\ Leaving' = [Leaving EXCEPT ![job] = Leaving[job]]
    BY <1>1, <1>2, <1>4, <1>5, WriteStage DEF Known, Stage, Leaving
  <2>2. UNCHANGED <<Stage, Leaving>>
    BY <1>2, <2>1 DEF Stage, Leaving
  <2>3. QED
    BY <2>2, SameViews, NothingSeen DEF World, gkeVars
<1>6. QED
  BY <1>3, <1>5, SameViews, NothingSeen DEF World, gkeVars

\* All patches but that of setPhase keep the phase.
LEMMA PatchesSeen ==
    ASSUME Known,
           \/ SetStartTime \/ Solve \/ SetProvisioningStartTime \/ StoreCreateOperation
           \/ CountReadyNodes \/ SetJobName \/ ResetTrainingStart \/ SetTrainingStart
           \/ StoreDeleteOperation \/ SetResults \/ ClearOperation
    PROVE  Allowed
<1>1. AtWork /\ UNCHANGED World
  BY DEF AtWork, SetStartTime, Solve, SetProvisioningStartTime, StoreCreateOperation,
         CountReadyNodes, SetJobName, ResetTrainingStart, SetTrainingStart,
         StoreDeleteOperation, SetResults, ClearOperation
<1>2. obj \in Status
  BY LifeTypes DEF Known
<1>3. UNCHANGED cr \/ \E new : new.phase = obj.phase /\ (Accepted(new) \/ Rejected(new))
  <2>1. CASE SetStartTime
    <3>1. [obj EXCEPT !.start = TRUE].phase = obj.phase
      BY <1>2 DEF Status
    <3>2. QED
      BY <2>1, <3>1 DEF SetStartTime, Persist
  <2>2. CASE Solve
    <3>1. \A n : [obj EXCEPT !.nodes = n].phase = obj.phase
      BY <1>2 DEF Status
    <3>2. QED
      BY <2>2, <3>1 DEF Solve, Persist
  <2>3. CASE SetProvisioningStartTime
    <3>1. [obj EXCEPT !.provStart = TRUE].phase = obj.phase
      BY <1>2 DEF Status
    <3>2. QED
      BY <2>3, <3>1 DEF SetProvisioningStartTime, Persist
  <2>4. CASE StoreCreateOperation \/ StoreDeleteOperation \/ ClearOperation
    <3>1. \A n : [obj EXCEPT !.op = n].phase = obj.phase
      BY <1>2 DEF Status
    <3>2. QED
      BY <2>4, <3>1 DEF StoreCreateOperation, StoreDeleteOperation, ClearOperation,
                        PersistAndReturn, PersistBestEffort
  <2>5. CASE CountReadyNodes
    <3>1. /\ \A n : [obj EXCEPT !.size = n].phase = obj.phase
          /\ \A n : [obj EXCEPT !.op = 0, !.size = n, !.provTime = TRUE].phase = obj.phase
      BY <1>2 DEF Status
    <3>2. QED
      BY <2>5, <3>1 DEF CountReadyNodes, Persist, PersistAndReturn
  <2>6. CASE SetJobName
    <3>1. [obj EXCEPT !.jobName = TRUE].phase = obj.phase
      BY <1>2 DEF Status
    <3>2. QED
      BY <2>6, <3>1 DEF SetJobName, Persist
  <2>7. CASE ResetTrainingStart \/ SetTrainingStart
    <3>1. \A b : [obj EXCEPT !.trainStart = b].phase = obj.phase
      BY <1>2 DEF Status
    <3>2. QED
      BY <2>7, <3>1
         DEF ResetTrainingStart, SetTrainingStart, Persist, PersistAndReturn,
             PersistBestEffort
  <2>8. CASE SetResults
    <3>1. [obj EXCEPT !.trainTime = timed, !.billed = arg,
                      !.finish = TRUE, !.size = 0].phase = obj.phase
      BY <1>2 DEF Status
    <3>2. QED
      BY <2>8, <3>1 DEF SetResults, Persist
  <2>9. QED
    BY <2>1, <2>2, <2>3, <2>4, <2>5, <2>6, <2>7, <2>8
<1>4. QED
  BY <1>1, <1>3, PatchSeen, SameViews, NothingSeen DEF World, gkeVars

-----------------------------------------------------------------------------
\* The phase of an object is written, as the contract sees it.
LEMMA PhaseSeen ==
    ASSUME Known, NEW j \in Jobs, cr[j].exists, NEW s,
           cr' = [cr EXCEPT ![j] = [@ EXCEPT !.status = s]], UNCHANGED World
    PROVE  Contract!StageTo(j, s.phase)
<1> DEFINE o == [cr[j] EXCEPT !.status = s]
<1>1. cr' = [cr EXCEPT ![j] = o]
  OBVIOUS
<1>2. o.status = s /\ o.exists /\ o.deleting = cr[j].deleting
  BY LifeTypes DEF Known, Object
<1> HIDE DEF o
<1>3. Stage' = [Stage EXCEPT ![j] = s.phase]
  BY <1>1, <1>2, WriteStage DEF Known
<1>4. Leaving' = [Leaving EXCEPT ![j] = Leaving[j]]
  BY <1>1, <1>2, WriteStage DEF Known, Leaving
<1>5. UNCHANGED Leaving
  BY <1>4 DEF Leaving
<1>6. QED
  BY <1>3, <1>5, SameViews DEF Contract!StageTo, World, gkeVars

\* setPhase and setFailed: the job enters the stage it is in for.
LEMMA SetPhaseSeen == ASSUME Known, PoolsApart, SetPhase PROVE Allowed
<1> DEFINE new == [obj EXCEPT !.phase = to]
           s == Merged(obj, new, cr[job].status)
<1>1. /\ pc = "setPhase" /\ UNCHANGED World /\ AtWork
      /\ Accepted(new) \/ Rejected(new)
  BY DEF SetPhase, AtWork, PersistAndReturn
<1>2. /\ job \in Jobs /\ obj.phase = PhaseOf(job) /\ cr[job].exists /\ obj \in Status
      /\ NextPhaseInv
  BY <1>1, AtWorkFacts, LifeParts DEF Known, MemoryInv, WorkerLife
<1>3. s.phase = to
  BY <1>2 DEF Merged, PhaseOf, Status
<1> HIDE DEF new
<1>4. cr' = [cr EXCEPT ![job] = [@ EXCEPT !.status = s]] \/ UNCHANGED cr
  BY <1>1 DEF Accepted, Rejected, PatchStatus, Put
<1> HIDE DEF s
<1>5. CASE UNCHANGED cr
  BY <1>1, <1>5, SameViews, NothingSeen DEF World, gkeVars
<1>6. CASE cr' = [cr EXCEPT ![job] = [@ EXCEPT !.status = s]]
  <2>1. Contract!StageTo(job, to)
    BY <1>1, <1>2, <1>3, <1>6, PhaseSeen
  <2>2. Stage[job] = PhaseOf(job)
    BY <1>2, Views
  <2>3. CASE to = PhaseOf(job)
    <3>1. Stage' = [Stage EXCEPT ![job] = Stage[job]]
      BY <2>1, <2>2, <2>3 DEF Contract!StageTo
    <3>2. UNCHANGED Stage
      BY <3>1 DEF Stage
    <3>3. QED
      BY <2>1, <3>2, NothingSeen DEF Contract!StageTo
  <2>4. CASE to # PhaseOf(job)
    <3>1. <<PhaseOf(job), to>> \in PhaseSteps
      BY <1>2, <2>4 DEF NextPhaseInv, Follows, PhaseOf
    <3>2. CASE to = "Provisioning"
      BY <1>2, <2>1, <2>2, <3>1, <3>2, OneStep
         DEF PhaseSteps, Contract!Step, Contract!Provision
    <3>3. InUse(job)
      BY <1>1, <1>2 DEF InUse, Handled
    <3>4. CASE to = "Ready"
      <4>1. Lease[job] = "held"
        BY <1>1, <1>2, <3>4, Views DEF Known, HoldInv, OwnRunning
      <4>2. QED
        BY <1>2, <2>1, <2>2, <3>1, <3>4, <4>1, OneStep
           DEF PhaseSteps, Contract!Step, Contract!BeReady
    <3>5. CASE to = "Running"
      <4>1. PhaseOf(job) = "Ready"
        BY <3>1, <3>5 DEF PhaseSteps
      <4>2. Lease[job] = "held"
        BY <1>1, <1>2, <3>3, <4>1, Views DEF Known, HoldInv, HeldBy, OwnRunning
      <4>3. QED
        BY <1>2, <2>1, <2>2, <3>5, <4>1, <4>2, OneStep DEF Contract!Step, Contract!Run
    <3>6. CASE to = "Collecting"
      <4>1. bj[job].state \in {"succeeded", "none"}
        <5>1. [cr[job].status EXCEPT !.phase = to].phase = to
          BY <1>2, LifeTypes DEF Known, Status
        <5>2. QED
          BY <1>2, <3>6, <5>1 DEF NextPhaseInv, Fits, TrainingFits, Past
      <4>2. Work[job] \in {"succeeded", "none"}
        BY <1>2, <4>1, Views
      <4>3. QED
        BY <1>2, <2>1, <2>2, <3>1, <3>6, <4>2, OneStep
           DEF PhaseSteps, Contract!Step, Contract!Collect
    <3>7. CASE to = "Succeeded"
      <4>1. Lease[job] \in Contract!NotPaid
        BY <1>1, <1>2, <3>7, NothingPaid DEF Known, ClaimInv, WorkerInv
      <4>2. QED
        BY <1>2, <2>1, <2>2, <3>1, <3>7, <4>1, OneStep
           DEF PhaseSteps, Contract!Step, Contract!Succeed
    <3>8. CASE to = "Failed"
      BY <1>2, <2>1, <2>2, <3>1, <3>8, OneStep
         DEF PhaseSteps, Contract!Step, Contract!Fail
    <3>9. QED
      BY <3>1, <3>2, <3>4, <3>5, <3>6, <3>7, <3>8 DEF PhaseSteps
  <2>5. QED
    BY <2>3, <2>4
<1>7. QED
  BY <1>4, <1>5, <1>6

\* An object goes away: nothing is paid for.
LEMMA GoneSeen ==
    ASSUME Known, PoolsApart, NEW j \in Jobs, cr[j].exists, ~HasPool(j),
           cr' = [cr EXCEPT ![j] = NoObject], UNCHANGED <<pool, bj>>
    PROVE  Allowed
<1>1. ~NoObject.exists
  BY DEF NoObject
<1>2. /\ Stage' = [Stage EXCEPT ![j] = "none"]
      /\ Leaving' = [Leaving EXCEPT ![j] = FALSE]
  BY <1>1, WriteStage DEF Known
<1>3. Stage[j] # "none"
  <2>1. PhaseOf(j) \in Phase
    BY LifeTypes DEF Known, PhaseOf, Status
  <2>2. QED
    BY <2>1, Views DEF Phase
<1>4. Contract!Vanish(j)
  BY <1>2, <1>3, NothingPaid, SameViews DEF Contract!Vanish
<1>5. QED
  BY <1>4, OneStep DEF Contract!Step

\* The finalizer is added or removed.
LEMMA FinalizersSeen ==
    ASSUME Known, PoolsApart, AddFinalizer \/ RemoveFinalizer
    PROVE  Allowed
<1>1. job \in Jobs /\ UNCHANGED <<pool, bj>>
  BY LifeTypes DEF Known, AddFinalizer, RemoveFinalizer, World, gkeVars
<1>2. CASE UNCHANGED cr
  BY <1>1, <1>2, SameViews, NothingSeen
<1>3. ASSUME NEW b, cr' = [cr EXCEPT ![job] = [cr[job] EXCEPT !.finalizer = b]]
      PROVE  Allowed
  <2> DEFINE o == [cr[job] EXCEPT !.finalizer = b]
  <2>1. /\ o.status = cr[job].status /\ o.exists = cr[job].exists
        /\ o.deleting = cr[job].deleting
    BY <1>1, LifeTypes DEF Known, Object
  <2> HIDE DEF o
  <2>2. /\ Stage' = [Stage EXCEPT ![job] = Stage[job]]
        /\ Leaving' = [Leaving EXCEPT ![job] = Leaving[job]]
    BY <1>1, <1>3, <2>1, WriteStage DEF o, Known, Stage, Leaving, PhaseOf
  <2>3. UNCHANGED <<Stage, Leaving>>
    BY <2>2 DEF Stage, Leaving
  <2>4. QED
    BY <1>1, <2>3, SameViews, NothingSeen
<1>4. CASE cr[job].exists /\ cr' = [cr EXCEPT ![job] = NoObject] /\ RemoveFinalizer
  <2>1. ~HasPool(job)
    BY <1>4 DEF Known, ClaimInv, WorkerInv, RemoveFinalizer, PoolIsGone
  <2>2. QED
    BY <1>1, <1>4, <2>1, GoneSeen
<1>5. QED
  BY <1>2, <1>3, <1>4 DEF AddFinalizer, RemoveFinalizer, Put

\* Users create, edit and delete objects.
LEMMA UsersSeen ==
    ASSUME Known, PoolsApart, NEW j \in Jobs,
           UserCreate(j) \/ UserEdit(j) \/ UserDelete(j)
    PROVE  Allowed
<1>1. UNCHANGED <<pool, bj>> /\ cr[j] \in Object
  BY LifeTypes DEF Known, UserCreate, UserEdit, UserDelete, gkeVars
<1>2. CASE UserCreate(j)
  <2>1. PICK s : cr' = [cr EXCEPT ![j] = [NoObject EXCEPT !.exists = TRUE, !.spec = s]]
    BY <1>2 DEF UserCreate, CreateObject, Put
  <2> DEFINE o == [NoObject EXCEPT !.exists = TRUE, !.spec = s]
  <2>2. o.exists /\ ~o.deleting /\ o.status.phase = ""
    BY DEF NoObject, EmptyStatus
  <2> HIDE DEF o
  <2>3. ~cr[j].exists
    BY <1>2 DEF UserCreate, CreateObject
  <2>4. /\ Stage' = [Stage EXCEPT ![j] = ""]
        /\ Leaving' = [Leaving EXCEPT ![j] = FALSE]
    BY <2>1, <2>2, WriteStage DEF Known, o
  <2>5. Stage[j] = "none" /\ Leaving[j] = FALSE
    BY <2>3 DEF Stage, Leaving
  <2>6. UNCHANGED Leaving
    BY <2>4, <2>5 DEF Leaving
  <2>7. ~HasPool(j)
    BY <2>3 DEF Known, ClaimInv, ObjectInv
  <2>8. Contract!Submit(j)
    BY <1>1, <2>4, <2>5, <2>6, <2>7, NothingPaid, SameViews
       DEF Contract!Submit, Contract!StageTo
  <2>9. QED
    BY <2>8, OneStep DEF Contract!Step
<1>3. CASE UserEdit(j)
  <2>1. PICK s : cr' = [cr EXCEPT ![j] = [cr[j] EXCEPT !.spec = s]]
    BY <1>3 DEF UserEdit, EditObject, Put
  <2> DEFINE o == [cr[j] EXCEPT !.spec = s]
  <2>2. /\ o.status = cr[j].status /\ o.exists = cr[j].exists
        /\ o.deleting = cr[j].deleting
    BY <1>1 DEF Object
  <2> HIDE DEF o
  <2>3. /\ Stage' = [Stage EXCEPT ![j] = Stage[j]]
        /\ Leaving' = [Leaving EXCEPT ![j] = Leaving[j]]
    BY <2>1, <2>2, WriteStage DEF o, Known, Stage, Leaving, PhaseOf
  <2>4. UNCHANGED <<Stage, Leaving>>
    BY <2>3 DEF Stage, Leaving
  <2>5. QED
    BY <1>1, <2>4, SameViews, NothingSeen
<1>4. CASE UserDelete(j)
  <2>1. cr[j].exists /\ ~cr[j].deleting
    BY <1>4 DEF UserDelete, DeleteObject
  <2>2. CASE cr[j].finalizer
    <3> DEFINE o == [cr[j] EXCEPT !.deleting = TRUE]
    <3>1. o.status = cr[j].status /\ o.exists /\ o.deleting
      BY <1>1, <2>1 DEF Object
    <3>2. cr' = [cr EXCEPT ![j] = o]
      BY <1>4, <2>2 DEF UserDelete, DeleteObject, Put
    <3> HIDE DEF o
    <3>3. /\ Stage' = [Stage EXCEPT ![j] = Stage[j]]
          /\ Leaving' = [Leaving EXCEPT ![j] = TRUE]
      BY <2>1, <3>1, <3>2, WriteStage DEF Known, Stage, PhaseOf
    <3>4. UNCHANGED Stage
      BY <3>3 DEF Stage
    <3>5. Stage[j] # "none" /\ ~Leaving[j]
      BY <1>1, <2>1, Views DEF PhaseOf, Object, Status, Phase
    <3>6. Contract!Leave(j)
      BY <1>1, <3>3, <3>4, <3>5, SameViews DEF Contract!Leave
    <3>7. QED
      BY <3>6, OneStep DEF Contract!Step
  <2>3. CASE ~cr[j].finalizer
    <3>1. cr' = [cr EXCEPT ![j] = NoObject]
      BY <1>4, <2>3 DEF UserDelete, DeleteObject, Put
    <3>2. ~HasPool(j)
      BY <2>3 DEF Known, ClaimInv, ObjectInv
    <3>3. QED
      BY <1>1, <2>1, <3>1, <3>2, GoneSeen
  <2>4. QED
    BY <2>2, <2>3
<1>5. QED
  BY <1>2, <1>3, <1>4

-----------------------------------------------------------------------------
\* What the cloud calls, seen as leases.
LEMMA Leases ==
    /\ LeaseOf("absent") = "none" /\ LeaseOf("creating") = "ordered"
    /\ LeaseOf("running") = "held" /\ LeaseOf("error") = "broken"
    /\ LeaseOf("deleting") = "returned"
  BY DEF LeaseOf

\* CreateNodePool: a pool is ordered.
LEMMA CreateNodePoolSeen ==
    ASSUME Known, PoolsApart, CreateNodePool
    PROVE  Allowed
<1> DEFINE n == DesiredNodes(spec, obj.nodes)
           x == [state |-> "creating", owner |-> {job}, nodes |-> n, ready |-> 0]
<1>1. /\ AtWork /\ pc = "create" /\ UNCHANGED <<cr, bj>>
      /\ \/ /\ pool[PoolOf(job)].state = "absent"
            /\ pool' = [pool EXCEPT ![PoolOf(job)] = x]
         \/ UNCHANGED pool
  BY DEF CreateNodePool, AcceptCreate, RejectCreate, AtWork, kubeVars, gkeVars
<1>2. /\ job \in Jobs /\ cr[job].exists /\ PhaseOf(job) = "Provisioning"
  BY <1>1, AtWorkFacts DEF Known, MemoryInv, CallInv, PhaseKnown, CallsAt
<1>3. x.state = "creating"
  OBVIOUS
<1> HIDE DEF x
<1>4. CASE UNCHANGED pool
  BY <1>1, <1>4, SameViews, NothingSeen
<1>5. CASE /\ pool[PoolOf(job)].state = "absent"
           /\ pool' = [pool EXCEPT ![PoolOf(job)] = x]
  <2>1. Lease' = [Lease EXCEPT ![job] = "ordered"] /\ Lease[job] = "none"
    <3>1. Lease' = [Lease EXCEPT ![job] = LeaseOf(x.state)]
      BY <1>2, <1>5, WriteLease DEF Known
    <3>2. Lease[job] = LeaseOf(pool[PoolOf(job)].state)
      BY <1>2, Views
    <3>3. QED
      BY <1>3, <1>5, <3>1, <3>2, Leases
  <2>2. Stage[job] = "Provisioning"
    BY <1>2, Views
  <2>3. Contract!Order(job)
    BY <1>1, <2>1, <2>2, SameViews DEF Contract!Order, Contract!LeaseTo
  <2>4. QED
    BY <1>2, <2>3, OneStep DEF Contract!Step
<1>6. QED
  BY <1>1, <1>4, <1>5

\* The three calls of DeleteNodePool: the pool is given back.
LEMMA DeletesSeen ==
    ASSUME Known, PoolsApart, CleanUpPool \/ ReleasePool \/ DeletePool
    PROVE  Allowed
<1>1. /\ pc \in {"cleanup", "release", "finalDelete"} /\ AtWork /\ UNCHANGED <<cr, bj>>
      /\ AcceptDelete(PoolOf(job)) \/ UNCHANGED pool
  BY DEF CleanUpPool, ReleasePool, DeletePool, AtWork, kubeVars, gkeVars
<1>2. /\ job \in Jobs /\ cr[job].exists
      /\ cr[job].deleting \/ PhaseOf(job) \in {"Provisioning", "Collecting"}
  BY <1>1, AtWorkFacts DEF Known, MemoryInv, CallInv, PhaseKnown, CallsAt
<1>3. CASE UNCHANGED pool
  BY <1>1, <1>3, SameViews, NothingSeen
<1>4. CASE AcceptDelete(PoolOf(job))
  <2> DEFINE x == [pool[PoolOf(job)] EXCEPT !.state = "deleting"]
  <2>1. /\ pool[PoolOf(job)].state \in {"running", "error"}
        /\ pool' = [pool EXCEPT ![PoolOf(job)] = x]
    BY <1>2, <1>4, CloudTypes DEF Known, AcceptDelete, DeleteReply, NodePool, PoolState
  <2>2. x.state = "deleting"
    BY <1>2, CloudTypes DEF Known, NodePool
  <2> HIDE DEF x
  <2>3. /\ Lease' = [Lease EXCEPT ![job] = "returned"]
        /\ Lease[job] \in {"held", "broken"}
    <3>1. Lease' = [Lease EXCEPT ![job] = LeaseOf(x.state)]
      BY <1>2, <2>1, WriteLease DEF Known
    <3>2. Lease[job] = LeaseOf(pool[PoolOf(job)].state)
      BY <1>2, Views
    <3>3. QED
      BY <2>1, <2>2, <3>1, <3>2, Leases
  <2>4. Leaving[job] \/ Stage[job] \in {"Provisioning", "Collecting"}
    BY <1>2, Views
  <2>5. Contract!GiveBack(job)
    BY <1>1, <2>3, <2>4, SameViews DEF Contract!GiveBack, Contract!LeaseTo
  <2>6. QED
    BY <1>2, <2>5, OneStep DEF Contract!Step
<1>5. QED
  BY <1>1, <1>3, <1>4

\* A pool changes its state by itself: of at most one job, and as the contract says.
LEMMA PoolSeen ==
    ASSUME Known, PoolsApart, NEW p \in Pools, NEW x,
           pool' = [pool EXCEPT ![p] = x], UNCHANGED <<cr, bj>>,
           \/ x.state = pool[p].state
           \/ pool[p].state = "creating" /\ x.state \in {"running", "error", "absent"}
           \/ pool[p].state = "deleting" /\ x.state = "absent"
    PROVE  Allowed
<1>1. CASE \E j \in Jobs : PoolOf(j) = p
  <2>1. PICK j \in Jobs : PoolOf(j) = p
    BY <1>1
  <2>2. /\ Lease' = [Lease EXCEPT ![j] = LeaseOf(x.state)]
        /\ Lease[j] = LeaseOf(pool[p].state)
    BY <2>1, WriteLease, Views DEF Known
  <2>3. CASE x.state = pool[p].state
    <3>1. UNCHANGED Lease
      BY <2>2, <2>3 DEF Lease
    <3>2. QED
      BY <3>1, SameViews, NothingSeen
  <2>4. CASE pool[p].state = "creating" /\ x.state \in {"running", "error", "absent"}
    <3>1. Contract!Deliver(j)
      BY <2>2, <2>4, Leases, SameViews DEF Contract!Deliver, Contract!LeaseTo
    <3>2. QED
      BY <3>1, OneStep DEF Contract!Step
  <2>5. CASE pool[p].state = "deleting" /\ x.state = "absent"
    <3>1. Contract!Expire(j)
      BY <2>2, <2>5, Leases, SameViews DEF Contract!Expire, Contract!LeaseTo
    <3>2. QED
      BY <3>1, OneStep DEF Contract!Step
  <2>6. QED
    BY <2>3, <2>4, <2>5
<1>2. CASE \A j \in Jobs : PoolOf(j) # p
  <2>1. \A j \in Jobs : pool'[PoolOf(j)] = pool[PoolOf(j)]
    BY <1>2, CloudTypes DEF Known
  <2>2. UNCHANGED Lease
    BY <2>1 DEF Lease, PoolOf
  <2>3. QED
    BY <2>2, SameViews, NothingSeen
<1>3. QED
  BY <1>1, <1>2

\* What the cloud does by itself, when no accepted deletion fails.
LEMMA CloudSeen ==
    ASSUME Known, PoolsApart, "deleteOp" \notin FaultKinds, NEW p \in Pools,
           CloudCreates(p) \/ CloudDeletes(p) \/ NodeJoins(p) \/ NodeLeaves(p)
    PROVE  Allowed
<1>1. pool[p] \in NodePool /\ UNCHANGED <<cr, bj>>
  BY CloudTypes
     DEF Known, CloudCreates, CloudDeletes, NodeJoins, NodeLeaves, kubeVars
<1>2. \/ /\ pool[p].state = "creating"
         /\ \E s \in {"running", "error"} :
              pool' = [pool EXCEPT ![p] = [pool[p] EXCEPT !.state = s]]
      \/ /\ pool[p].state \in {"creating", "deleting"}
         /\ pool' = [pool EXCEPT ![p] = NoPool]
      \/ \E r : pool' = [pool EXCEPT ![p] = [pool[p] EXCEPT !.ready = r]]
  BY DEF CloudCreates, CloudDeletes, NodeJoins, NodeLeaves, FinishCreate, FailCreate,
         FinishDelete, Fault, NodeReady, NodeLost
<1>3. NoPool.state = "absent"
  BY DEF NoPool
<1>4. /\ \A s : [pool[p] EXCEPT !.state = s].state = s
      /\ \A r : [pool[p] EXCEPT !.ready = r].state = pool[p].state
  BY <1>1 DEF NodePool
<1>5. QED
  BY <1>1, <1>2, <1>3, <1>4, PoolSeen

-----------------------------------------------------------------------------
\* The backend job is applied: it starts once, on the job's own pool.
LEMMA ApplySeen == ASSUME Known, PoolsApart, ApplyJob PROVE Allowed
<1> DEFINE x == [state |-> IF bj[job].state = "none" THEN "pending" ELSE bj[job].state,
                 owner |-> uid[job]]
<1>1. /\ AtWork /\ pc = "apply" /\ UNCHANGED <<cr, pool>>
      /\ bj' = [bj EXCEPT ![job] = x] \/ UNCHANGED bj
  BY DEF ApplyJob, Apply, AtWork, gkeVars
<1>2. /\ job \in Jobs /\ cr[job].exists /\ PhaseOf(job) \in {"Ready", "Running"}
  BY <1>1, AtWorkFacts DEF Known, MemoryInv, CallInv, PhaseKnown
<1>3. x.state = IF bj[job].state = "none" THEN "pending" ELSE bj[job].state
  OBVIOUS
<1> HIDE DEF x
<1>4. CASE UNCHANGED bj
  BY <1>1, <1>4, SameViews, NothingSeen
<1>5. CASE bj' = [bj EXCEPT ![job] = x]
  <2>1. Work' = [Work EXCEPT ![job] = x.state]
    BY <1>2, <1>5, WriteWork DEF Known
  <2>2. CASE bj[job].state = "none"
    <3>1. InUse(job)
      BY <1>1, <1>2 DEF InUse, Handled
    <3>2. Lease[job] = "held"
      BY <1>2, <3>1, Views DEF Known, HoldInv, HeldBy, OwnRunning
    <3>3. Stage[job] \in {"Ready", "Running"} /\ Work[job] = "none"
      BY <1>2, <2>2, Views
    <3>4. Contract!Start(job)
      BY <1>1, <1>3, <2>1, <2>2, <3>2, <3>3, SameViews
         DEF Contract!Start, Contract!WorkTo
    <3>5. QED
      BY <1>2, <3>4, OneStep DEF Contract!Step
  <2>3. CASE bj[job].state # "none"
    <3>1. Work' = [Work EXCEPT ![job] = Work[job]]
      BY <1>2, <1>3, <2>1, <2>3, Views
    <3>2. UNCHANGED Work
      BY <3>1 DEF Work
    <3>3. QED
      BY <1>1, <3>2, SameViews, NothingSeen
  <2>4. QED
    BY <2>2, <2>3
<1>6. QED
  BY <1>1, <1>4, <1>5

\* The backend job runs, ends and goes away.
LEMMA BackendSeen ==
    ASSUME Known, NEW j \in Jobs,
           \/ TrainingStarts(j) \/ TrainingEnds(j) \/ CollectGarbage(j)
           \/ UserDeletesBackendJob(j)
    PROVE  Allowed
<1>1. UNCHANGED <<cr, pool>> /\ bj[j] \in BackendJob
  BY DEF TrainingStarts, TrainingEnds, CollectGarbage, UserDeletesBackendJob,
         kubeVars, gkeVars, Known, TypeOK, BackendTypeOK
<1>2. \A s : [bj[j] EXCEPT !.state = s].state = s
  BY <1>1 DEF BackendJob
<1>3. ASSUME NEW s, bj' = [bj EXCEPT ![j] = [bj[j] EXCEPT !.state = s]]
      PROVE  Work' = [Work EXCEPT ![j] = s]
  <2> DEFINE x == [bj[j] EXCEPT !.state = s]
  <2>1. x.state = s /\ bj' = [bj EXCEPT ![j] = x]
    BY <1>2, <1>3
  <2> HIDE DEF x
  <2>2. QED
    BY <2>1, WriteWork DEF Known
<1>4. CASE TrainingStarts(j)
  <2>1. /\ bj[j].state = "pending" /\ pool[PoolOf(j)].state = "running"
        /\ bj' = [bj EXCEPT ![j] = [bj[j] EXCEPT !.state = "running"]]
    BY <1>4 DEF TrainingStarts, BackendStart
  <2>2. Contract!Train(j)
    BY <1>1, <1>3, <2>1, Views, Leases, SameViews DEF Contract!Train, Contract!WorkTo
  <2>3. QED
    BY <2>2, OneStep DEF Contract!Step
<1>5. CASE TrainingEnds(j)
  <2>1. /\ bj[j].state = "running"
        /\ \E s \in {"succeeded", "failed"} :
             bj' = [bj EXCEPT ![j] = [bj[j] EXCEPT !.state = s]]
    BY <1>5 DEF TrainingEnds, BackendFinish
  <2>2. Contract!End(j)
    BY <1>1, <1>3, <2>1, Views, SameViews DEF Contract!End, Contract!WorkTo
  <2>3. QED
    BY <2>2, OneStep DEF Contract!Step
<1>6. CASE CollectGarbage(j) \/ UserDeletesBackendJob(j)
  <2>1. bj[j].state # "none" /\ bj' = [bj EXCEPT ![j] = NoBackendJob]
    BY <1>6 DEF CollectGarbage, UserDeletesBackendJob, BackendVanish
  <2>2. Work' = [Work EXCEPT ![j] = "none"]
    <3>1. NoBackendJob.state = "none"
      BY DEF NoBackendJob
    <3>2. QED
      BY <2>1, <3>1, WriteWork DEF Known
  <2>3. Contract!Drop(j)
    BY <1>1, <2>1, <2>2, Views, SameViews DEF Contract!Drop, Contract!WorkTo
  <2>4. QED
    BY <2>3, OneStep DEF Contract!Step
<1>7. QED
  BY <1>4, <1>5, <1>6

\* The rest is not seen: reads, the history, the work queue, a crash.
LEMMA RestSeen ==
    ASSUME \/ PollCreate \/ GetPhase \/ GetStartTime \/ CollectResults \/ PollDelete
           \/ Crash \/ UNCHANGED vars
           \/ \E j \in Jobs : Dequeue(j)
    PROVE  Allowed
<1>1. UNCHANGED <<cr, pool, bj>>
  BY DEF PollCreate, GetPhase, GetStartTime, CollectResults, PollDelete, Crash, vars,
         Dequeue, Discard, Reconcile, Take, World, gkeVars, kubeVars
<1>2. QED
  BY <1>1, SameViews, NothingSeen

-----------------------------------------------------------------------------
\* At first there are no jobs.
LEMMA ContractStarts == Init => Contract!Init
<1> SUFFICES ASSUME Init PROVE Contract!Init
  OBVIOUS
<1>1. \A j \in Jobs :
         /\ ~cr[j].exists /\ bj[j].state = "none"
         /\ pool[PoolOf(j)].state = "absent"
  BY SpecAssumption
     DEF Init, GKEInit, KubeInit, BackendInit, NoPool, NoObject, NoBackendJob, PoolOf
<1>2. QED
  BY <1>1, Leases DEF Contract!Init, Stage, Leaving, Lease, Work

\* Every step is one that the contract allows.
LEMMA StepAllowed == Known /\ ContractAssumption /\ [Next]_vars => Allowed
<1> SUFFICES ASSUME Known, ContractAssumption, [Next]_vars PROVE Allowed
  OBVIOUS
<1>1. ~CacheLag /\ PoolsApart /\ "deleteOp" \notin FaultKinds
  BY DEF ContractAssumption, Reliable, HoldAssumption
<1>2. CASE Handler
  BY <1>1, <1>2, PatchesSeen, SetPhaseSeen, FinalizersSeen, CreateNodePoolSeen,
     DeletesSeen, ApplySeen, RestSeen
     DEF Handler
<1>3. CASE (\E j \in Jobs : Dequeue(j)) \/ UNCHANGED vars
  BY <1>3, RestSeen
<1>4. CASE Environment
  <2>1. ASSUME NEW j \in Jobs, InformerSync(j) PROVE Allowed
    BY <1>1, <2>1 DEF InformerSync
  <2>2. QED
    BY <1>1, <1>4, <2>1, UsersSeen, BackendSeen, CloudSeen, RestSeen DEF Environment
<1>5. QED
  BY <1>2, <1>3, <1>4 DEF Next

(***************************************************************************)
(* The control loop implements JobContract, for every set of jobs and      *)
(* pools and whatever their specs, edits of them included, as long as the  *)
(* informer is up to date, no two objects name the same pool, GKE deletes  *)
(* a pool when it says so, and, if polls may get no answer, patches and    *)
(* the process do not fail besides.  Everything else may go wrong as often *)
(* as it likes.                                                            *)
(***************************************************************************)
THEOREM JobContractKept == ContractAssumption => (Spec => KeepsJobContract)
<1> SUFFICES ASSUME ContractAssumption PROVE Spec => KeepsJobContract
  OBVIOUS
<1>1. Reliable /\ ~CacheLag /\ HoldAssumption
  BY DEF ContractAssumption, Reliable
<1>2. Spec => []TypeOK
  BY TypeCorrect
<1>3. Spec => []LifeInv
  BY <1>1, LifeInvariant
<1>4. Spec => []ClaimInv
  BY <1>1, ClaimInvariant
<1>5. Spec => []HoldInv
  BY <1>1, HoldInvariant
<1>6. Spec => []Owned
  <2>1. Init => Owned
    <3>1. NoPool.state = "absent"
      BY DEF NoPool
    <3>2. QED
      BY <3>1 DEF Init, GKEInit, Owned
  <2>2. QED
    BY <1>2, <2>1, StepOwned, PTL DEF Spec
<1>7. TypeOK /\ LifeInv /\ ClaimInv /\ HoldInv /\ Owned /\ [Next]_vars
        => [Contract!Next]_(Contract!vars)
  BY StepAllowed DEF Known, Allowed
<1>8. QED
  BY <1>2, <1>3, <1>4, <1>5, <1>6, <1>7, ContractStarts, PTL
     DEF Spec, KeepsJobContract, Contract!Spec
===============================================================================
