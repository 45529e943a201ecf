--------------------------- MODULE ReconcilerProofs ---------------------------
(***************************************************************************)
(* Type correctness of the Reconciler: lemmas about the building blocks of *)
(* a handler (patches, calls, returns), one lemma per action, the theorem. *)
(***************************************************************************)
EXTENDS ReconcilerProps, TLAPS

\* A merge patch (client.MergeFrom) leaves a well-formed status on the server.
LEMMA MergedType ==
    ASSUME NEW base \in Status, NEW new \in Status, NEW server \in Status
    PROVE  Merged(base, new, server) \in Status
  BY DEF Merged, Status

\* The server's answer decoded over the object in memory is a well-formed status.
LEMMA DecodedType ==
    ASSUME NEW memory \in Status, NEW answer \in Status
    PROVE  Decoded(memory, answer) \in Status
  BY DEF Decoded, Status

\* The status of a new object is well-formed.
LEMMA EmptyStatusType == EmptyStatus \in Status
  BY DEF EmptyStatus, Status, Phase, NoCost

\* So is the spec in memory of an idle worker.
LEMMA EmptySpecType == EmptySpec \in JobSpecType
<1>1. {} \in SUBSET (Nat \ {0}) /\ 0 \in Nat
  OBVIOUS
<1>2. QED
  BY <1>1 DEF EmptySpec, JobSpecType

\* The spec decoded over the one in memory is a well-formed spec.
LEMMA DecodedSpecType ==
    ASSUME NEW memory \in JobSpecType, NEW answer \in JobSpecType
    PROVE  DecodedSpec(memory, answer) \in JobSpecType
<1> DEFINE complete  == answer.complete \/ memory.complete
           objective == answer.objective \/ memory.objective
           solutions == IF answer.objective THEN answer.solutions ELSE memory.solutions
           nodes     == IF answer.nodes = 0 THEN memory.nodes ELSE answer.nodes
<1>1. complete \in BOOLEAN /\ objective \in BOOLEAN
  BY DEF JobSpecType
<1>2. solutions \in SUBSET (Nat \ {0}) /\ nodes \in Nat
  BY DEF JobSpecType
<1>3. DecodedSpec(memory, answer)
        = [answer EXCEPT !.complete = complete, !.objective = objective,
                         !.solutions = solutions, !.nodes = nodes]
  BY DEF DecodedSpec, JobSpecType
<1> HIDE DEF complete, objective, solutions, nodes
<1>4. QED
  BY <1>1, <1>2, <1>3 DEF JobSpecType

\* The count of faults stays a natural number.
LEMMA FaultType ==
    ASSUME faults \in Nat, NEW k, Fault(k) \/ NoFault
    PROVE  faults' \in Nat
  BY DEF Fault, NoFault

\* A handler that returns leaves an idle, well-typed worker.
LEMMA ReturnType ==
    ASSUME KubeTypeOK, job \in Jobs, NEW b \in BOOLEAN, Return(b)
    PROVE  WorkerTypeOK' /\ queue' \in SUBSET Jobs /\ timed' \in BOOLEAN
<1>1. queue' \in SUBSET Jobs
  BY DEF KubeTypeOK, Return
<1>2. /\ pc' = "idle" /\ job' = NoJob /\ to' = ""
      /\ obj' \in Status /\ spec' \in JobSpecType
  BY EmptyStatusType, EmptySpecType DEF Return
<1>3. arg' \in Int /\ arg' \in Nat
  <2>1. arg' = 0
    BY DEF Return
  <2>2. QED
    BY <2>1
<1>4. timed' \in BOOLEAN
  BY Zenon DEF Return
<1>5. WorkerTypeOK'
  BY <1>2, <1>3 DEF WorkerTypeOK, Label, Phase
<1>6. QED
  BY <1>1, <1>4, <1>5

\* Writing a well-formed object keeps server and cache well-typed.
LEMMA PutType ==
    ASSUME KubeTypeOK, NEW j \in Jobs, NEW o \in Object, Put(j, o)
    PROVE  cr' \in [Jobs -> Object] /\ cache' \in [Jobs -> Object]
  BY DEF KubeTypeOK, Put

\* Patching a status keeps server and cache well-typed.
LEMMA PatchType ==
    ASSUME KubeTypeOK, NEW j \in Jobs, NEW base \in Status, NEW new \in Status,
           PatchStatus(j, base, new)
    PROVE  cr' \in [Jobs -> Object] /\ cache' \in [Jobs -> Object]
<1> DEFINE merged == Merged(base, new, cr[j].status)
<1>1. cr[j] \in Object /\ cr[j].status \in Status
  BY DEF KubeTypeOK, Object
<1>2. merged \in Status
  BY <1>1, MergedType
<1> HIDE DEF merged
<1>3. [cr[j] EXCEPT !.status = merged] \in Object
  BY <1>1, <1>2 DEF Object
<1>4. QED
  BY <1>3, PutType DEF PatchStatus, merged

\* So does every outcome of a patch, accepted or not.
LEMMA AnswerType ==
    ASSUME KubeTypeOK, faults \in Nat, job \in Jobs, obj \in Status,
           NEW new \in Status, Accepted(new) \/ Rejected(new)
    PROVE  /\ cr' \in [Jobs -> Object] /\ cache' \in [Jobs -> Object]
           /\ faults' \in Nat
<1>1. CASE PatchStatus(job, obj, new) /\ (NoFault \/ Fault("api"))
  BY <1>1, PatchType, FaultType
<1>2. CASE UNCHANGED <<cr, cache>> /\ (NoFault \/ Fault("api"))
  BY <1>2, FaultType DEF KubeTypeOK
<1>3. QED
  BY <1>1, <1>2 DEF Accepted, Rejected

\* After an accepted patch the object in memory is well-formed.
LEMMA RefreshedType ==
    ASSUME KubeTypeOK, job \in Jobs, obj \in Status, spec \in JobSpecType,
           NEW new \in Status, Refreshed(new)
    PROVE  obj' \in Status /\ spec' \in JobSpecType
<1>1. cr[job].status \in Status /\ cr[job].spec \in JobSpecType
  BY DEF KubeTypeOK, Object
<1>2. obj' \in Status
  <2> DEFINE answer == Decoded(new, Merged(obj, new, cr[job].status))
  <2>1. answer \in Status
    BY <1>1, MergedType, DecodedType
  <2>2. obj' = answer \/ obj' = [answer EXCEPT !.nodes = obj.nodes]
    BY DEF Refreshed
  <2> HIDE DEF answer
  <2>3. QED
    BY <2>1, <2>2 DEF Status
<1>3. DecodedSpec(spec, cr[job].spec) \in JobSpecType
  BY <1>1, DecodedSpecType
<1>4. QED
  BY <1>2, <1>3 DEF Refreshed

-----------------------------------------------------------------------------
\* The worker makes another call of the same reconcile, one without an argument.
Proceeds == pc' \in Label \ {"idle", "createOp", "releaseOp"} /\ to' \in Phase

\* A handler that goes on keeps the worker well-typed.
LEMMA ProceedType ==
    ASSUME WorkerTypeOK, pc # "idle", Proceeds, obj' \in Status,
           spec' \in JobSpecType, UNCHANGED <<job, arg>>
    PROVE  WorkerTypeOK'
  BY DEF WorkerTypeOK, Proceeds

\* The beginning of every phase handler goes on with a call that needs no argument.
LEMMA EnterType ==
    ASSUME NEW s, NEW status
    PROVE  /\ EnterSolver(s, status) => Proceeds
           /\ EnterPending(s, status) => Proceeds
           /\ EnterOperation(status) => Proceeds
           /\ EnterProvisioning(s, status) => Proceeds
           /\ EnterBackend(s, "apply") => Proceeds
           /\ EnterBackend(s, "getPhase") => Proceeds
           /\ EnterDelete(status.phase) => Proceeds
           /\ EnterPhase(s, status) => Proceeds
<1>1. \A label \in Label \ {"idle", "createOp", "releaseOp"} : Goto(label) => Proceeds
  BY DEF Goto, Proceeds, Phase
<1>2. \A phase \in Phase : MoveTo(phase) => Proceeds
  BY DEF MoveTo, Proceeds, Label
<1>3. FailJob => Proceeds
  BY <1>2 DEF FailJob, Phase
<1>4. EnterSolver(s, status) => Proceeds
  BY <1>1, <1>2 DEF EnterSolver, Label, Phase
<1>5. EnterPending(s, status) => Proceeds
  BY <1>1, <1>3, <1>4 DEF EnterPending, Label
<1>6. EnterOperation(status) => Proceeds
  BY <1>1 DEF EnterOperation, Label
<1>7. EnterProvisioning(s, status) => Proceeds
  BY <1>1, <1>3, <1>6 DEF EnterProvisioning, Label
<1>8. /\ EnterBackend(s, "apply") => Proceeds
      /\ EnterBackend(s, "getPhase") => Proceeds
  BY <1>1, <1>3 DEF EnterBackend, Label
<1>9. EnterDelete(status.phase) => Proceeds
  BY <1>1 DEF EnterDelete, Label
<1>10. EnterPhase(s, status) => Proceeds
  BY <1>1, <1>5, <1>7, <1>8 DEF EnterPhase, Label
<1>11. QED
  BY <1>4, <1>5, <1>6, <1>7, <1>8, <1>9, <1>10

\* A status patch, whatever the handler does after it, preserves the types.
LEMMA PatchStepType ==
    ASSUME TypeOK, pc # "idle", NEW new \in Status, UNCHANGED <<uid, World>>,
           \/ Accepted(new) /\ Refreshed(new) /\ Stay /\ UNCHANGED arg /\ Proceeds
           \/ /\ Rejected(new) /\ obj' = new /\ UNCHANGED spec
              /\ Stay /\ UNCHANGED arg /\ Proceeds
           \/ Accepted(new) /\ (Return(TRUE) \/ Return(FALSE))
           \/ Rejected(new) /\ Return(TRUE)
    PROVE  TypeOK'
<1>1. /\ job \in Jobs /\ obj \in Status /\ spec \in JobSpecType
      /\ KubeTypeOK /\ faults \in Nat
  BY DEF TypeOK, WorkerTypeOK
<1>2. /\ cr' \in [Jobs -> Object] /\ cache' \in [Jobs -> Object]
      /\ faults' \in Nat
  BY <1>1, AnswerType
<1>3. WorkerTypeOK' /\ queue' \in SUBSET Jobs /\ timed' \in BOOLEAN
  <2>1. CASE obj' \in Status /\ spec' \in JobSpecType /\ Stay /\ UNCHANGED arg
             /\ Proceeds
    BY <2>1, ProceedType DEF Stay, TypeOK, KubeTypeOK
  <2>2. CASE Return(TRUE) \/ Return(FALSE)
    BY <1>1, <2>2, ReturnType
  <2>3. Refreshed(new) => obj' \in Status /\ spec' \in JobSpecType
    BY <1>1, RefreshedType
  <2>4. QED
    BY <1>1, <2>1, <2>2, <2>3
<1>4. KubeTypeOK'
  BY <1>1, <1>2, <1>3 DEF KubeTypeOK
<1>5. QED
  BY <1>2, <1>3, <1>4 DEF TypeOK, World, gkeVars, GKETypeOK, BackendTypeOK

\* A call that only reads preserves the types.
LEMMA ReadStepType ==
    ASSUME TypeOK, pc # "idle", UNCHANGED <<cr, cache, uid, World>>,
           NoFault \/ \E k \in FaultKinds : Fault(k),
           Return(TRUE) \/ (Proceeds /\ Stay /\ UNCHANGED <<obj, spec, arg>>)
    PROVE  TypeOK'
<1>1. job \in Jobs /\ KubeTypeOK /\ faults \in Nat
  BY DEF TypeOK, WorkerTypeOK
<1>2. faults' \in Nat
  BY <1>1, FaultType
<1>3. WorkerTypeOK' /\ queue' \in SUBSET Jobs /\ timed' \in BOOLEAN
  <2>1. CASE Proceeds /\ Stay /\ UNCHANGED <<obj, spec, arg>>
    BY <2>1, ProceedType DEF Stay, TypeOK, KubeTypeOK, WorkerTypeOK
  <2>2. CASE Return(TRUE)
    BY <1>1, <2>2, ReturnType
  <2>3. QED
    BY <2>1, <2>2
<1>4. KubeTypeOK'
  BY <1>1, <1>3 DEF KubeTypeOK
<1>5. QED
  BY <1>2, <1>3, <1>4 DEF TypeOK, World, gkeVars, GKETypeOK, BackendTypeOK

\* Goto and MoveTo go on with a call that needs no argument.
LEMMA MoveType ==
    /\ \A phase \in Phase : MoveTo(phase) => Proceeds
    /\ \A label \in Label \ {"idle", "createOp", "releaseOp"} : Goto(label) => Proceeds
    /\ MoveTo("Provisioning") => Proceeds
    /\ MoveTo("Ready") => Proceeds
    /\ MoveTo("Running") => Proceeds
    /\ MoveTo("Succeeded") => Proceeds
    /\ FailJob => Proceeds
<1>1. \A phase \in Phase : MoveTo(phase) => Proceeds
  BY DEF MoveTo, Proceeds, Label
<1>2. \A label \in Label \ {"idle", "createOp", "releaseOp"} : Goto(label) => Proceeds
  BY DEF Goto, Proceeds, Phase
<1>3. QED
  BY <1>1, <1>2 DEF FailJob, Phase

\* A handler returns with a requeue or without.
LEMMA ReturnCases ==
    ASSUME NEW b \in BOOLEAN, Return(b)
    PROVE  Return(TRUE) \/ Return(FALSE)
<1>1. CASE b = TRUE
  BY <1>1
<1>2. CASE b = FALSE
  BY <1>2
<1>3. QED
  BY <1>1, <1>2

\* reconcilePending: the patch of startTime preserves the types.
LEMMA SetStartTimeType == TypeOK /\ SetStartTime => TypeOK'
<1> SUFFICES ASSUME TypeOK, SetStartTime PROVE TypeOK'
  OBVIOUS
<1> DEFINE new == [obj EXCEPT !.start = TRUE]
<1>1. new \in Status
  BY DEF TypeOK, WorkerTypeOK, Status
<1>2. /\ pc # "idle" /\ UNCHANGED <<uid, World>>
      /\ \/ Accepted(new) /\ Refreshed(new) /\ Stay /\ UNCHANGED arg /\ Proceeds
         \/ Rejected(new) /\ Return(TRUE)
  BY EnterType DEF SetStartTime, Persist
<1> HIDE DEF new
<1>3. QED
  BY <1>1, <1>2, PatchStepType

\* reconcileProvisioning: the patch of provisioningStartTime preserves the types.
LEMMA SetProvisioningStartTimeType == TypeOK /\ SetProvisioningStartTime => TypeOK'
<1> SUFFICES ASSUME TypeOK, SetProvisioningStartTime PROVE TypeOK'
  OBVIOUS
<1> DEFINE new == [obj EXCEPT !.provStart = TRUE]
<1>1. new \in Status
  BY DEF TypeOK, WorkerTypeOK, Status
<1>2. /\ pc # "idle" /\ UNCHANGED <<uid, World>>
      /\ \/ Accepted(new) /\ Refreshed(new) /\ Stay /\ UNCHANGED arg /\ Proceeds
         \/ Rejected(new) /\ Return(TRUE)
  BY EnterType DEF SetProvisioningStartTime, Persist
<1> HIDE DEF new
<1>3. QED
  BY <1>1, <1>2, PatchStepType

\* reconcileReady: the patch of jobName preserves the types.
LEMMA SetJobNameType == TypeOK /\ SetJobName => TypeOK'
<1> SUFFICES ASSUME TypeOK, SetJobName PROVE TypeOK'
  OBVIOUS
<1> DEFINE new == [obj EXCEPT !.jobName = TRUE]
<1>1. new \in Status
  BY DEF TypeOK, WorkerTypeOK, Status
<1>2. /\ pc # "idle" /\ UNCHANGED <<uid, World>>
      /\ \/ Accepted(new) /\ Refreshed(new) /\ Stay /\ UNCHANGED arg /\ Proceeds
         \/ Rejected(new) /\ Return(TRUE)
  BY MoveType DEF SetJobName, Persist
<1> HIDE DEF new
<1>3. QED
  BY <1>1, <1>2, PatchStepType

\* reconcileRunning: the reset of trainingStartTime preserves the types.
LEMMA ResetTrainingStartType == TypeOK /\ ResetTrainingStart => TypeOK'
<1> SUFFICES ASSUME TypeOK, ResetTrainingStart PROVE TypeOK'
  OBVIOUS
<1> DEFINE new == [obj EXCEPT !.trainStart = FALSE]
<1>1. new \in Status
  BY DEF TypeOK, WorkerTypeOK, Status
<1>2. /\ pc # "idle" /\ UNCHANGED <<uid, World>>
      /\ \/ Accepted(new) /\ Refreshed(new) /\ Stay /\ UNCHANGED arg /\ Proceeds
         \/ Rejected(new) /\ Return(TRUE)
  BY EnterType DEF ResetTrainingStart, Persist
<1> HIDE DEF new
<1>3. QED
  BY <1>1, <1>2, PatchStepType

\* reconcileCollecting: the patch of the results preserves the types.
LEMMA SetResultsType == TypeOK /\ SetResults => TypeOK'
<1> SUFFICES ASSUME TypeOK, SetResults PROVE TypeOK'
  OBVIOUS
<1> DEFINE new == [obj EXCEPT !.trainTime = timed, !.billed = arg,
                                !.finish = TRUE, !.size = 0]
<1>1. new \in Status
  BY DEF TypeOK, WorkerTypeOK, Status
<1>2. /\ pc # "idle" /\ UNCHANGED <<uid, World>>
      /\ \/ Accepted(new) /\ Refreshed(new) /\ Stay /\ UNCHANGED arg /\ Proceeds
         \/ Rejected(new) /\ Return(TRUE)
  BY MoveType DEF SetResults, Persist
<1> HIDE DEF new
<1>3. QED
  BY <1>1, <1>2, PatchStepType

\* setPhase and setFailed preserve the types.
LEMMA SetPhaseType == TypeOK /\ SetPhase => TypeOK'
<1> SUFFICES ASSUME TypeOK, SetPhase PROVE TypeOK'
  OBVIOUS
<1> DEFINE new == [obj EXCEPT !.phase = to]
<1>1. new \in Status
  BY DEF TypeOK, WorkerTypeOK, Status
<1>2. /\ pc # "idle" /\ UNCHANGED <<uid, World>>
      /\ \/ Accepted(new) /\ (Return(TRUE) \/ Return(FALSE))
         \/ Rejected(new) /\ Return(TRUE)
  BY ReturnCases DEF SetPhase, PersistAndReturn
<1> HIDE DEF new
<1>3. QED
  BY <1>1, <1>2, PatchStepType

\* reconcileProvisioning: the patch of gkeOperationID preserves the types.
LEMMA StoreCreateOperationType == TypeOK /\ StoreCreateOperation => TypeOK'
<1> SUFFICES ASSUME TypeOK, StoreCreateOperation PROVE TypeOK'
  OBVIOUS
<1> DEFINE new == [obj EXCEPT !.op = arg]
<1>1. new \in Status
  BY DEF TypeOK, WorkerTypeOK, Status, StoreCreateOperation
<1>2. /\ pc # "idle" /\ UNCHANGED <<uid, World>>
      /\ (Accepted(new) \/ Rejected(new)) /\ Return(TRUE)
  BY DEF StoreCreateOperation, PersistAndReturn
<1> HIDE DEF new
<1>3. QED
  BY <1>1, <1>2, PatchStepType

\* reconcileSucceeded: the reset of gkeOperationID preserves the types.
LEMMA ClearOperationType == TypeOK /\ ClearOperation => TypeOK'
<1> SUFFICES ASSUME TypeOK, ClearOperation PROVE TypeOK'
  OBVIOUS
<1> DEFINE new == [obj EXCEPT !.op = 0]
<1>1. new \in Status
  BY DEF TypeOK, WorkerTypeOK, Status
<1>2. /\ pc # "idle" /\ UNCHANGED <<uid, World>>
      /\ \/ Accepted(new) /\ Return(FALSE)
         \/ Rejected(new) /\ Return(TRUE)
  BY DEF ClearOperation, PersistAndReturn
<1> HIDE DEF new
<1>3. QED
  BY <1>1, <1>2, PatchStepType

\* A fault is of a kind that may occur.
LEMMA FaultKind ==
    ASSUME NEW k, Fault(k)
    PROVE  \E kind \in FaultKinds : Fault(kind)
  BY DEF Fault

\* reconcilePending: the solver and its patch preserve the types.
LEMMA SolveType == TypeOK /\ Solve => TypeOK'
<1> SUFFICES ASSUME TypeOK, Solve PROVE TypeOK'
  OBVIOUS
<1>1. /\ pc # "idle" /\ job \in Jobs /\ obj \in Status /\ spec \in JobSpecType
      /\ UNCHANGED World
  BY DEF Solve, TypeOK, WorkerTypeOK
<1>2. CASE \E n \in spec.solutions :
             Persist([obj EXCEPT !.nodes = n], MoveTo("Provisioning"))
  <2>1. PICK n \in spec.solutions :
            Persist([obj EXCEPT !.nodes = n], MoveTo("Provisioning"))
    BY <1>2
  <2> DEFINE new == [obj EXCEPT !.nodes = n]
  <2>2. n \in Nat
    BY <1>1 DEF JobSpecType
  <2>3. new \in Status
    BY <1>1, <2>2 DEF Status
  <2>4. /\ UNCHANGED uid
        /\ \/ Accepted(new) /\ Refreshed(new) /\ Stay /\ UNCHANGED arg /\ Proceeds
           \/ Rejected(new) /\ Return(TRUE)
    BY <2>1, MoveType DEF Persist
  <2> HIDE DEF new
  <2>5. QED
    BY <1>1, <2>3, <2>4, PatchStepType
<1>3. CASE /\ NoFault \/ Fault("api")
           /\ FailJob /\ Stay /\ UNCHANGED <<obj, spec, arg, cr, cache, uid>>
  BY <1>1, <1>3, MoveType, FaultKind, ReadStepType
<1>4. QED
  BY <1>2, <1>3 DEF Solve

\* reconcileProvisioning: counting the Ready nodes preserves the types.
LEMMA CountReadyNodesType == TypeOK /\ CountReadyNodes => TypeOK'
<1> SUFFICES ASSUME TypeOK, CountReadyNodes PROVE TypeOK'
  OBVIOUS
<1> DEFINE ready == pool[PoolOf(job)].ready
           few == [obj EXCEPT !.size = ready]
           all == [obj EXCEPT !.op = 0, !.size = ready, !.provTime = TRUE]
<1>1. pc # "idle" /\ job \in Jobs /\ obj \in Status /\ UNCHANGED World
  BY DEF CountReadyNodes, TypeOK, WorkerTypeOK
<1>2. ready \in Nat
  BY <1>1, SpecAssumption DEF TypeOK, GKETypeOK, NodePool, PoolOf
<1>3. few \in Status /\ all \in Status
  BY <1>1, <1>2 DEF Status
<1>4. \/ PersistAndReturn(few, TRUE)
      \/ Persist(all, MoveTo("Ready"))
      \/ Fault("api") /\ Return(TRUE) /\ UNCHANGED <<cr, cache, uid>>
  BY DEF CountReadyNodes
<1> HIDE DEF few, all
<1>5. CASE PersistAndReturn(few, TRUE)
  BY <1>1, <1>3, <1>5, PatchStepType DEF PersistAndReturn
<1>6. CASE Persist(all, MoveTo("Ready"))
  BY <1>1, <1>3, <1>6, MoveType, PatchStepType DEF Persist
<1>7. CASE Fault("api") /\ Return(TRUE) /\ UNCHANGED <<cr, cache, uid>>
  BY <1>1, <1>7, FaultKind, ReadStepType
<1>8. QED
  BY <1>4, <1>5, <1>6, <1>7

\* reconcileRunning: the patch of trainingStartTime preserves the types.
LEMMA SetTrainingStartType == TypeOK /\ SetTrainingStart => TypeOK'
<1> SUFFICES ASSUME TypeOK, SetTrainingStart PROVE TypeOK'
  OBVIOUS
<1> DEFINE new == [obj EXCEPT !.trainStart = TRUE]
<1>1. /\ pc # "idle" /\ new \in Status /\ UNCHANGED World
      /\ MoveTo(to) => Proceeds
  BY MoveType DEF SetTrainingStart, TypeOK, WorkerTypeOK, Status
<1>2. PersistAndReturn(new, TRUE) \/ PersistBestEffort(new, MoveTo(to))
  BY DEF SetTrainingStart
<1> HIDE DEF new
<1>3. CASE PersistAndReturn(new, TRUE)
  BY <1>1, <1>3, PatchStepType DEF PersistAndReturn
<1>4. CASE PersistBestEffort(new, MoveTo(to))
  BY <1>1, <1>4, PatchStepType DEF PersistBestEffort
<1>5. QED
  BY <1>2, <1>3, <1>4

\* reconcileCollecting: the patch of gkeOperationID preserves the types.
LEMMA StoreDeleteOperationType == TypeOK /\ StoreDeleteOperation => TypeOK'
<1> SUFFICES ASSUME TypeOK, StoreDeleteOperation PROVE TypeOK'
  OBVIOUS
<1> DEFINE new == [obj EXCEPT !.op = arg]
<1>1. /\ pc # "idle" /\ new \in Status /\ UNCHANGED World
      /\ Goto("history") => Proceeds
  BY MoveType DEF StoreDeleteOperation, TypeOK, WorkerTypeOK, Status, Label
<1>2. PersistBestEffort(new, Goto("history"))
  BY DEF StoreDeleteOperation
<1> HIDE DEF new
<1>3. QED
  BY <1>1, <1>2, PatchStepType DEF PersistBestEffort

-----------------------------------------------------------------------------
\* reconcileProvisioning: the poll of the creation preserves the types.
LEMMA PollCreateType == TypeOK /\ PollCreate => TypeOK'
<1> SUFFICES ASSUME TypeOK, PollCreate PROVE TypeOK'
  OBVIOUS
<1>1. pc # "idle" /\ UNCHANGED <<cr, cache, uid, World>>
  BY DEF PollCreate
<1>2. NoFault \/ \E k \in FaultKinds : Fault(k)
  BY FaultKind DEF PollCreate
<1>3. Return(TRUE) \/ (Proceeds /\ Stay /\ UNCHANGED <<obj, spec, arg>>)
  BY MoveType DEF PollCreate, Label
<1>4. QED
  BY <1>1, <1>2, <1>3, ReadStepType

\* reconcileSucceeded: the poll of the deletion preserves the types.
LEMMA PollDeleteType == TypeOK /\ PollDelete => TypeOK'
<1> SUFFICES ASSUME TypeOK, PollDelete PROVE TypeOK'
  OBVIOUS
<1>1. pc # "idle" /\ UNCHANGED <<cr, cache, uid, World>>
  BY DEF PollDelete
<1>2. NoFault \/ \E k \in FaultKinds : Fault(k)
  BY FaultKind DEF PollDelete
<1>3. Return(TRUE) \/ (Proceeds /\ Stay /\ UNCHANGED <<obj, spec, arg>>)
  BY MoveType DEF PollDelete, Label
<1>4. QED
  BY <1>1, <1>2, <1>3, ReadStepType

\* The verdict on a backend job is a phase.
LEMMA VerdictType == \A phase : Verdict(phase) \in Phase
  BY DEF Verdict, Phase

\* reconcileRunning: reading the backend job's phase preserves the types.
LEMMA GetPhaseType == TypeOK /\ GetPhase => TypeOK'
<1> SUFFICES ASSUME TypeOK, GetPhase PROVE TypeOK'
  OBVIOUS
<1> DEFINE verdict == Verdict(BackendPhase(job))
<1>1. pc # "idle" /\ UNCHANGED <<cr, cache, uid, World>>
  BY DEF GetPhase
<1>2. NoFault \/ \E k \in FaultKinds : Fault(k)
  BY FaultKind DEF GetPhase
<1>3. verdict \in Phase
  BY VerdictType
<1> HIDE DEF verdict
<1>4. Return(TRUE) \/ (Proceeds /\ Stay /\ UNCHANGED <<obj, spec, arg>>)
  <2>1. pc' = "getStart" /\ to' = verdict => Proceeds
    BY <1>3 DEF Proceeds, Label
  <2>2. MoveTo(verdict) => Proceeds
    BY <1>3, MoveType
  <2>3. QED
    BY <2>1, <2>2, MoveType DEF GetPhase, verdict, Label
<1>5. QED
  BY <1>1, <1>2, <1>4, ReadStepType

\* reconcileRunning: reading the backend job's start preserves the types.
LEMMA GetStartTimeType == TypeOK /\ GetStartTime => TypeOK'
<1> SUFFICES ASSUME TypeOK, GetStartTime PROVE TypeOK'
  OBVIOUS
<1>1. pc # "idle" /\ to \in Phase /\ UNCHANGED <<cr, cache, uid, World>>
  BY DEF GetStartTime, TypeOK, WorkerTypeOK
<1>2. NoFault \/ \E k \in FaultKinds : Fault(k)
  BY FaultKind DEF GetStartTime
<1>3. Return(TRUE) \/ (Proceeds /\ Stay /\ UNCHANGED <<obj, spec, arg>>)
  <2>1. pc' = "trainStart" /\ UNCHANGED to => Proceeds
    BY <1>1 DEF Proceeds, Label
  <2>2. MoveTo(to) => Proceeds
    BY <1>1, MoveType
  <2>3. QED
    BY <2>1, <2>2 DEF GetStartTime
<1>4. QED
  BY <1>1, <1>2, <1>3, ReadStepType

-----------------------------------------------------------------------------
\* A started operation is well-formed and has the next number.
LEMMA StartOperationType ==
    ASSUME GKETypeOK, NEW kind \in {"create", "delete"}, NEW p \in Pools,
           StartOperation(kind, p)
    PROVE  operations' \in SUBSET Operation /\ lastOp' \in 0 .. MaxOps /\ lastOp' \in Nat
  BY MaxOpsAssumption DEF GKETypeOK, StartOperation, Operation, OpIds

\* An accepted CreateNodePool or DeleteNodePool keeps the cloud well-typed.
LEMMA CloudCallType ==
    ASSUME GKETypeOK, NEW j \in Jobs, NEW p \in Pools, NEW n \in Nat,
           AcceptCreate(p, j, n) \/ AcceptDelete(p)
    PROVE  GKETypeOK' /\ lastOp' \in Nat
<1>1. CASE AcceptCreate(p, j, n)
  <2>1. [state |-> "creating", owner |-> {j}, nodes |-> n, ready |-> 0] \in NodePool
    BY DEF NodePool, PoolState
  <2>2. pool' \in [Pools -> NodePool]
    BY <1>1, <2>1 DEF GKETypeOK, AcceptCreate
  <2>3. QED
    BY <1>1, <2>2, StartOperationType DEF GKETypeOK, AcceptCreate
<1>2. CASE AcceptDelete(p)
  <2>1. [pool[p] EXCEPT !.state = "deleting"] \in NodePool
    BY DEF GKETypeOK, NodePool, PoolState
  <2>2. pool' \in [Pools -> NodePool]
    BY <1>2, <2>1 DEF GKETypeOK, AcceptDelete
  <2>3. QED
    BY <1>2, <2>2, StartOperationType DEF GKETypeOK, AcceptDelete
<1>3. QED
  BY <1>1, <1>2

\* A job's pool is a pool and the number of nodes it asks for a natural number.
LEMMA SpecFacts ==
    ASSUME NEW j \in Jobs, NEW s \in JobSpecType, NEW status \in Status
    PROVE  PoolOf(j) \in Pools /\ DesiredNodes(s, status.nodes) \in Nat
  BY SpecAssumption DEF PoolOf, DesiredNodes, JobSpecType, Status

\* A call to the cloud, whatever the handler does after it, preserves the types.
LEMMA CloudStepType ==
    ASSUME TypeOK, pc # "idle", GKETypeOK', UNCHANGED <<cr, cache, uid, bj, hist>>,
           NoFault \/ \E k \in FaultKinds : Fault(k),
           \/ Return(TRUE)
           \/ Proceeds /\ Stay /\ UNCHANGED <<obj, spec, arg>>
           \/ /\ pc' \in {"createOp", "releaseOp"} /\ to' \in Phase
              /\ Stay /\ UNCHANGED <<obj, spec>> /\ arg' \in Nat
    PROVE  TypeOK'
<1>1. job \in Jobs /\ KubeTypeOK /\ faults \in Nat
  BY DEF TypeOK, WorkerTypeOK
<1>2. faults' \in Nat
  BY <1>1, FaultType
<1>3. WorkerTypeOK' /\ queue' \in SUBSET Jobs /\ timed' \in BOOLEAN
  <2>1. CASE Proceeds /\ Stay /\ UNCHANGED <<obj, spec, arg>>
    BY <2>1, ProceedType DEF Stay, TypeOK, KubeTypeOK, WorkerTypeOK
  <2>2. CASE Return(TRUE)
    BY <1>1, <2>2, ReturnType
  <2>3. CASE /\ pc' \in {"createOp", "releaseOp"} /\ to' \in Phase
             /\ Stay /\ UNCHANGED <<obj, spec>> /\ arg' \in Nat
    <3>1. WorkerTypeOK'
      BY <2>3 DEF Stay, TypeOK, WorkerTypeOK, Label
    <3>2. queue' \in SUBSET Jobs /\ timed' \in BOOLEAN
      BY <2>3 DEF Stay, TypeOK, KubeTypeOK
    <3>3. QED
      BY <3>1, <3>2
  <2>4. QED
    BY <2>1, <2>2, <2>3
<1>4. KubeTypeOK'
  BY <1>1, <1>3 DEF KubeTypeOK
<1>5. QED
  BY <1>2, <1>3, <1>4 DEF TypeOK, BackendTypeOK

\* A cloud that does not move stays well-typed.
LEMMA SameCloud == ASSUME GKETypeOK, UNCHANGED gkeVars PROVE GKETypeOK'
  BY DEF GKETypeOK, gkeVars

\* reconcileProvisioning: CreateNodePool preserves the types.
LEMMA CreateNodePoolType == TypeOK /\ CreateNodePool => TypeOK'
<1> SUFFICES ASSUME TypeOK, CreateNodePool PROVE TypeOK'
  OBVIOUS
<1> DEFINE p == PoolOf(job)
           n == DesiredNodes(spec, obj.nodes)
<1>1. /\ pc # "idle" /\ job \in Jobs /\ obj \in Status /\ spec \in JobSpecType /\ GKETypeOK /\ Stay
      /\ UNCHANGED <<obj, spec, cr, cache, uid, bj, hist>>
  BY DEF CreateNodePool, TypeOK, WorkerTypeOK, kubeVars
<1>2. p \in Pools /\ n \in Nat
  BY <1>1, SpecFacts
<1>3. \/ AcceptCreate(p, job, n) /\ NoFault /\ arg' = lastOp' /\ Goto("createOp")
      \/ UNCHANGED gkeVars /\ NoFault /\ UNCHANGED arg /\ FailJob
      \/ /\ Fault("createCall") /\ UNCHANGED arg /\ FailJob
         /\ AcceptCreate(p, job, n) \/ UNCHANGED gkeVars
  BY DEF CreateNodePool, RejectCreate
<1>4. NoFault \/ \E k \in FaultKinds : Fault(k)
  BY <1>3, FaultKind
<1> HIDE DEF p, n
<1>5. GKETypeOK' /\ (AcceptCreate(p, job, n) => lastOp' \in Nat)
  BY <1>1, <1>2, <1>3, CloudCallType, SameCloud
<1>6. Goto("createOp") => pc' \in {"createOp", "releaseOp"} /\ to' \in Phase
  BY DEF Goto, Phase
<1>7. \/ Proceeds /\ Stay /\ UNCHANGED <<obj, spec, arg>>
      \/ /\ pc' \in {"createOp", "releaseOp"} /\ to' \in Phase
         /\ Stay /\ UNCHANGED <<obj, spec>> /\ arg' \in Nat
  BY <1>1, <1>3, <1>5, <1>6, MoveType
<1>8. QED
  BY <1>1, <1>4, <1>5, <1>7, CloudStepType

\* reconcileProvisioning: the deletion after a failed poll preserves the types.
LEMMA CleanUpPoolType == TypeOK /\ CleanUpPool => TypeOK'
<1> SUFFICES ASSUME TypeOK, CleanUpPool PROVE TypeOK'
  OBVIOUS
<1>1. /\ pc # "idle" /\ job \in Jobs /\ obj \in Status /\ spec \in JobSpecType /\ GKETypeOK
      /\ UNCHANGED <<cr, cache, uid, bj, hist>>
  BY DEF CleanUpPool, TypeOK, WorkerTypeOK, kubeVars
<1>2. AcceptDelete(PoolOf(job)) \/ UNCHANGED gkeVars
  BY DEF CleanUpPool
<1>3. GKETypeOK'
  BY <1>1, <1>2, SpecFacts, CloudCallType, SameCloud
<1>4. NoFault \/ \E k \in FaultKinds : Fault(k)
  BY FaultKind DEF CleanUpPool
<1>5. Proceeds /\ Stay /\ UNCHANGED <<obj, spec, arg>>
  BY MoveType DEF CleanUpPool
<1>6. QED
  BY <1>1, <1>3, <1>4, <1>5, CloudStepType

\* reconcileCollecting: DeleteNodePool preserves the types.
LEMMA ReleasePoolType == TypeOK /\ ReleasePool => TypeOK'
<1> SUFFICES ASSUME TypeOK, ReleasePool PROVE TypeOK'
  OBVIOUS
<1>1. /\ pc # "idle" /\ job \in Jobs /\ obj \in Status /\ spec \in JobSpecType /\ GKETypeOK /\ Stay
      /\ UNCHANGED <<obj, spec, cr, cache, uid, bj, hist>>
  BY DEF ReleasePool, TypeOK, WorkerTypeOK, kubeVars
<1>2. \/ /\ AcceptDelete(PoolOf(job)) /\ NoFault
         /\ arg' = lastOp' /\ Goto("releaseOp")
      \/ /\ NoFault \/ Fault("deleteCall")
         /\ UNCHANGED <<gkeVars, arg>> /\ Goto("history")
  BY DEF ReleasePool
<1>3. NoFault \/ \E k \in FaultKinds : Fault(k)
  BY <1>2, FaultKind
<1>4. GKETypeOK' /\ (AcceptDelete(PoolOf(job)) => lastOp' \in Nat)
  BY <1>1, <1>2, SpecFacts, CloudCallType, SameCloud
<1>5. Goto("releaseOp") => pc' \in {"createOp", "releaseOp"} /\ to' \in Phase
  BY DEF Goto, Phase
<1>6. Goto("history") => Proceeds
  BY MoveType DEF Label
<1>7. \/ Proceeds /\ Stay /\ UNCHANGED <<obj, spec, arg>>
      \/ /\ pc' \in {"createOp", "releaseOp"} /\ to' \in Phase
         /\ Stay /\ UNCHANGED <<obj, spec>> /\ arg' \in Nat
  BY <1>1, <1>2, <1>4, <1>5, <1>6
<1>8. QED
  BY <1>1, <1>3, <1>4, <1>7, CloudStepType

\* reconcileDelete: DeleteNodePool preserves the types.
LEMMA DeletePoolType == TypeOK /\ DeletePool => TypeOK'
<1> SUFFICES ASSUME TypeOK, DeletePool PROVE TypeOK'
  OBVIOUS
<1>1. /\ pc # "idle" /\ job \in Jobs /\ obj \in Status /\ spec \in JobSpecType /\ GKETypeOK
      /\ UNCHANGED <<cr, cache, uid, bj, hist>>
  BY DEF DeletePool, TypeOK, WorkerTypeOK
<1>2. AcceptDelete(PoolOf(job)) \/ UNCHANGED gkeVars
  BY DEF DeletePool
<1>3. GKETypeOK'
  BY <1>1, <1>2, SpecFacts, CloudCallType, SameCloud
<1>4. NoFault \/ \E k \in FaultKinds : Fault(k)
  BY FaultKind DEF DeletePool
<1>5. Return(TRUE) \/ (Proceeds /\ Stay /\ UNCHANGED <<obj, spec, arg>>)
  BY MoveType DEF DeletePool, Label
<1>6. QED
  BY <1>1, <1>3, <1>4, <1>5, CloudStepType

\* Server-side apply leaves a well-formed backend job.
LEMMA ApplyType ==
    ASSUME BackendTypeOK, NEW j \in Jobs, NEW owner \in Nat, Apply(j, owner)
    PROVE  BackendTypeOK'
<1> DEFINE state == IF bj[j].state = "none" THEN "pending" ELSE bj[j].state
<1>1. [state |-> state, owner |-> owner] \in BackendJob
  BY DEF BackendTypeOK, BackendJob, BackendState
<1>2. bj' = [bj EXCEPT ![j] = [state |-> state, owner |-> owner]]
  BY DEF Apply
<1> HIDE DEF state
<1>3. QED
  BY <1>1, <1>2 DEF BackendTypeOK

\* reconcileReady and reconcileRunning: applyJob preserves the types.
LEMMA ApplyJobType == TypeOK /\ ApplyJob => TypeOK'
<1> SUFFICES ASSUME TypeOK, ApplyJob PROVE TypeOK'
  OBVIOUS
<1>1. /\ pc # "idle" /\ job \in Jobs /\ KubeTypeOK /\ faults \in Nat
      /\ GKETypeOK /\ BackendTypeOK
      /\ UNCHANGED <<cr, cache, uid, gkeVars, hist>>
  BY DEF ApplyJob, TypeOK, WorkerTypeOK
<1>2. uid[job] \in Nat
  BY <1>1, MaxIncarnationsAssumption DEF KubeTypeOK
<1>3. Apply(job, uid[job]) \/ UNCHANGED bj
  BY DEF ApplyJob
<1>4. BackendTypeOK'
  BY <1>1, <1>2, <1>3, ApplyType DEF BackendTypeOK
<1>5. faults' \in Nat
  BY <1>1, FaultType DEF ApplyJob
<1>6. Return(TRUE) \/ (Proceeds /\ Stay /\ UNCHANGED <<obj, spec, arg>>)
  BY MoveType DEF ApplyJob, Label
<1>7. WorkerTypeOK' /\ queue' \in SUBSET Jobs /\ timed' \in BOOLEAN
  <2>1. CASE Proceeds /\ Stay /\ UNCHANGED <<obj, spec, arg>>
    BY <2>1, ProceedType DEF Stay, TypeOK, KubeTypeOK, ApplyJob, WorkerTypeOK
  <2>2. CASE Return(TRUE)
    BY <1>1, <2>2, ReturnType
  <2>3. QED
    BY <1>6, <2>1, <2>2
<1>8. KubeTypeOK' /\ GKETypeOK' /\ hist' = hist
  BY <1>1, <1>7, SameCloud DEF KubeTypeOK
<1>9. QED
  BY <1>4, <1>5, <1>7, <1>8 DEF TypeOK

\* reconcileCollecting: the metrics and the history entry preserve the types.
LEMMA CollectResultsType == TypeOK /\ CollectResults => TypeOK'
<1> SUFFICES ASSUME TypeOK, CollectResults PROVE TypeOK'
  OBVIOUS
<1> DEFINE cost == IF spec.priced THEN obj.size ELSE NoCost
           written == [entries |-> hist[job].entries + 1,
                       priced  |-> IF obj.billed = NoCost THEN hist[job].priced
                                   ELSE hist[job].priced + 1]
<1>1. /\ pc # "idle" /\ job \in Jobs /\ obj \in Status /\ spec \in JobSpecType
      /\ faults \in Nat
      /\ hist \in [Jobs -> [entries : Nat, priced : Nat]]
      /\ Stay /\ UNCHANGED <<obj, spec, kubeVars, gkeVars, bj>>
  BY DEF CollectResults, TypeOK, WorkerTypeOK
<1>2. cost \in Int /\ NoCost \in Int
  BY <1>1 DEF Status, NoCost
<1>3. written \in [entries : Nat, priced : Nat]
  BY <1>1
<1>4. hist' = hist \/ hist' = [hist EXCEPT ![job] = written]
  BY DEF CollectResults
<1>5. arg' \in {cost, NoCost}
  BY DEF CollectResults
<1> HIDE DEF cost, written
<1>6. hist' \in [Jobs -> [entries : Nat, priced : Nat]]
  BY <1>1, <1>3, <1>4
<1>7. arg' \in Int
  BY <1>2, <1>5
<1>8. pc' = "results" /\ to' = ""
  BY DEF CollectResults, Goto
<1>9. faults' \in Nat
  BY <1>1, FaultType DEF CollectResults
<1>10. WorkerTypeOK'
  BY <1>1, <1>7, <1>8 DEF WorkerTypeOK, Stay, Label, Phase
<1>11. GKETypeOK' /\ KubeTypeOK' /\ BackendTypeOK' /\ timed' \in BOOLEAN
  BY <1>1, SameCloud DEF TypeOK, KubeTypeOK, BackendTypeOK, kubeVars, Stay
<1>12. QED
  BY <1>6, <1>9, <1>10, <1>11 DEF TypeOK

\* Reconcile: adding the finalizer preserves the types.
LEMMA AddFinalizerType == TypeOK /\ AddFinalizer => TypeOK'
<1> SUFFICES ASSUME TypeOK, AddFinalizer PROVE TypeOK'
  OBVIOUS
<1>1. /\ job \in Jobs /\ KubeTypeOK /\ faults \in Nat /\ Return(TRUE)
      /\ UNCHANGED <<uid, World>>
  BY DEF AddFinalizer, TypeOK, WorkerTypeOK
<1>2. [cr[job] EXCEPT !.finalizer = TRUE] \in Object
  BY <1>1 DEF KubeTypeOK, Object
<1>3. cr' \in [Jobs -> Object] /\ cache' \in [Jobs -> Object]
  BY <1>1, <1>2, PutType DEF AddFinalizer, KubeTypeOK
<1>4. faults' \in Nat
  BY <1>1, FaultType DEF AddFinalizer
<1>5. WorkerTypeOK' /\ KubeTypeOK' /\ timed' \in BOOLEAN
  BY <1>1, <1>3, ReturnType DEF KubeTypeOK
<1>6. QED
  BY <1>1, <1>4, <1>5 DEF TypeOK, World, gkeVars, GKETypeOK, BackendTypeOK

\* A missing object is well-formed.
LEMMA NoObjectType == NoObject \in Object
  BY EmptyStatusType, EmptySpecType DEF NoObject, Object

\* reconcileDelete: removing the finalizer preserves the types.
LEMMA RemoveFinalizerType == TypeOK /\ RemoveFinalizer => TypeOK'
<1> SUFFICES ASSUME TypeOK, RemoveFinalizer PROVE TypeOK'
  OBVIOUS
<1> DEFINE rest == IF cr[job].deleting THEN NoObject
                   ELSE [cr[job] EXCEPT !.finalizer = FALSE]
<1>1. /\ job \in Jobs /\ KubeTypeOK /\ faults \in Nat
      /\ UNCHANGED <<uid, World>>
  BY DEF RemoveFinalizer, TypeOK, WorkerTypeOK
<1>2. rest \in Object
  BY <1>1, NoObjectType DEF KubeTypeOK, Object
<1>3. \/ Put(job, rest) /\ NoFault /\ Return(~CacheLag)
      \/ (NoFault \/ Fault("api")) /\ UNCHANGED <<cr, cache>> /\ Return(TRUE)
  BY DEF RemoveFinalizer
<1> HIDE DEF rest
<1>4. cr' \in [Jobs -> Object] /\ cache' \in [Jobs -> Object]
  BY <1>1, <1>2, <1>3, PutType DEF KubeTypeOK
<1>5. faults' \in Nat
  BY <1>1, <1>3, FaultType
<1>6. WorkerTypeOK' /\ KubeTypeOK' /\ timed' \in BOOLEAN
  BY <1>1, <1>3, <1>4, ReturnType, CacheLagAssumption DEF KubeTypeOK
<1>7. QED
  BY <1>1, <1>5, <1>6 DEF TypeOK, World, gkeVars, GKETypeOK, BackendTypeOK

-----------------------------------------------------------------------------
\* Reconcile: taking a name from the work queue preserves the types.
LEMMA DequeueType == ASSUME NEW j \in Jobs PROVE TypeOK /\ Dequeue(j) => TypeOK'
<1> SUFFICES ASSUME TypeOK, Dequeue(j) PROVE TypeOK'
  OBVIOUS
<1>1. /\ KubeTypeOK /\ cache[j].status \in Status /\ cache[j].spec \in JobSpecType
      /\ UNCHANGED <<cr, cache, uid, World, faults>> /\ queue' = queue \ {j}
  BY DEF Dequeue, Discard, Reconcile, Take, TypeOK, KubeTypeOK, Object
<1>2. KubeTypeOK'
  BY <1>1 DEF KubeTypeOK
<1>3. CASE Discard(j)
  BY <1>1, <1>2, <1>3
     DEF Discard, TypeOK, WorkerTypeOK, workerVars, World, gkeVars, GKETypeOK,
         BackendTypeOK
<1>4. CASE Reconcile(j)
  <2>1. Proceeds
    <3>1. Goto("addFinalizer") => Proceeds
      BY MoveType DEF Label
    <3>2. QED
      BY <1>4, <3>1, EnterType DEF Reconcile
  <2>2. job' = j /\ obj' = cache[j].status /\ spec' = cache[j].spec /\ UNCHANGED arg
    BY <1>4 DEF Reconcile
  <2>3. WorkerTypeOK'
    BY <1>1, <2>1, <2>2 DEF TypeOK, WorkerTypeOK, Proceeds
  <2>4. timed' \in BOOLEAN
    <3>1. cache[j].status.trainStart \in BOOLEAN
      BY <1>1 DEF Status
    <3>2. timed' = cache[j].status.trainStart
      BY <1>4 DEF Reconcile
    <3>3. QED
      BY <3>1, <3>2, Zenon
  <2>5. QED
    BY <1>1, <1>2, <2>3, <2>4
       DEF TypeOK, World, gkeVars, GKETypeOK, BackendTypeOK
<1>5. QED
  BY <1>3, <1>4 DEF Dequeue

-----------------------------------------------------------------------------
\* A restart of the operator preserves the types.
LEMMA CrashType == TypeOK /\ Crash => TypeOK'
<1> SUFFICES ASSUME TypeOK, Crash PROVE TypeOK'
  OBVIOUS
<1>1. arg' \in Int /\ arg' \in Nat
  <2>1. arg' = 0
    BY DEF Crash
  <2>2. QED
    BY <2>1
<1>2. /\ pc' = "idle" /\ job' = NoJob /\ to' = ""
      /\ obj' \in Status /\ spec' \in JobSpecType
  BY EmptyStatusType, EmptySpecType DEF Crash
<1>3. WorkerTypeOK'
  BY <1>1, <1>2 DEF WorkerTypeOK, Label, Phase
<1>4. timed' \in BOOLEAN
  BY Zenon DEF Crash
<1>5. KubeTypeOK' /\ faults' \in Nat /\ UNCHANGED World
  BY FaultType DEF Crash, TypeOK, KubeTypeOK
<1>6. QED
  BY <1>3, <1>4, <1>5 DEF TypeOK, World, gkeVars, GKETypeOK, BackendTypeOK

\* A worker that does not move stays well-typed.
LEMMA SameWorker ==
    ASSUME TypeOK, UNCHANGED <<Operator>>
    PROVE  WorkerTypeOK' /\ timed' \in BOOLEAN
           /\ hist' \in [Jobs -> [entries : Nat, priced : Nat]]
  BY DEF TypeOK, WorkerTypeOK, Operator, workerVars

\* Users and the informer preserve the types.
LEMMA UserType ==
    ASSUME NEW j \in Jobs
    PROVE  TypeOK /\ (UserCreate(j) \/ UserEdit(j) \/ UserDelete(j) \/ InformerSync(j))
             => TypeOK'
<1> SUFFICES ASSUME TypeOK,
                    UserCreate(j) \/ UserEdit(j) \/ UserDelete(j) \/ InformerSync(j)
             PROVE  TypeOK'
  OBVIOUS
<1>1. KubeTypeOK /\ UNCHANGED <<workerVars, gkeVars, bj, faults>>
  BY DEF TypeOK, UserCreate, UserEdit, UserDelete, InformerSync, Operator
<1>2. hist' \in [Jobs -> [entries : Nat, priced : Nat]]
  BY DEF TypeOK, UserCreate, UserEdit, UserDelete, InformerSync, Operator
<1>3. KubeTypeOK'
  <2>1. CASE CreateObject(j)
    <3>1. \A s \in Specs[j] : [NoObject EXCEPT !.exists = TRUE, !.spec = s] \in Object
      BY NoObjectType, SpecAssumption DEF Object
    <3>2. cr' \in [Jobs -> Object] /\ cache' \in [Jobs -> Object]
      BY <1>1, <2>1, <3>1, PutType DEF CreateObject
    <3>3. uid' \in [Jobs -> 0 .. MaxIncarnations] /\ queue' \in SUBSET Jobs
      BY <1>1, <2>1, MaxIncarnationsAssumption DEF CreateObject, Notify, KubeTypeOK
    <3>4. QED
      BY <3>2, <3>3 DEF KubeTypeOK
  <2>2. CASE DeleteObject(j)
    <3> DEFINE rest == IF cr[j].finalizer THEN [cr[j] EXCEPT !.deleting = TRUE]
                       ELSE NoObject
    <3>1. rest \in Object
      BY <1>1, NoObjectType DEF KubeTypeOK, Object
    <3>2. Put(j, rest) /\ Notify(j) /\ UNCHANGED uid
      BY <2>2 DEF DeleteObject
    <3> HIDE DEF rest
    <3>3. cr' \in [Jobs -> Object] /\ cache' \in [Jobs -> Object]
      BY <1>1, <3>1, <3>2, PutType
    <3>4. QED
      BY <1>1, <3>2, <3>3 DEF KubeTypeOK, Notify
  <2>3. CASE SyncCache(j)
    BY <1>1, <2>3 DEF SyncCache, KubeTypeOK
  <2>4. CASE EditObject(j)
    <3>1. \A s \in Specs[j] : [cr[j] EXCEPT !.spec = s] \in Object
      BY <1>1, SpecAssumption DEF KubeTypeOK, Object
    <3>2. cr' \in [Jobs -> Object] /\ cache' \in [Jobs -> Object]
      BY <1>1, <2>4, <3>1, PutType DEF EditObject
    <3>3. QED
      BY <1>1, <2>4, <3>2 DEF EditObject, KubeTypeOK, Notify
  <2>5. QED
    BY <2>1, <2>2, <2>3, <2>4 DEF UserCreate, UserEdit, UserDelete, InformerSync
<1>4. QED
  BY <1>1, <1>2, <1>3
     DEF TypeOK, WorkerTypeOK, workerVars, gkeVars, GKETypeOK, BackendTypeOK

\* What the cloud does by itself preserves the types.
LEMMA CloudType ==
    ASSUME NEW p \in Pools
    PROVE  TypeOK /\ (CloudCreates(p) \/ CloudDeletes(p) \/ NodeJoins(p) \/ NodeLeaves(p))
             => TypeOK'
<1> SUFFICES ASSUME TypeOK,
                    CloudCreates(p) \/ CloudDeletes(p) \/ NodeJoins(p) \/ NodeLeaves(p)
             PROVE  TypeOK'
  OBVIOUS
<1>1. /\ GKETypeOK /\ faults \in Nat /\ pool[p] \in NodePool
      /\ UNCHANGED <<Operator, kubeVars, bj>>
  BY DEF TypeOK, GKETypeOK, CloudCreates, CloudDeletes, NodeJoins, NodeLeaves
<1>2. faults' \in Nat
  BY <1>1, FaultType DEF CloudCreates, CloudDeletes, NodeJoins, NodeLeaves, NoFault
<1>3. pool' \in [Pools -> NodePool]
  <2>1. \A state \in PoolState : [pool[p] EXCEPT !.state = state] \in NodePool
    BY <1>1 DEF NodePool
  <2>2. NoPool \in NodePool
    BY DEF NoPool, NodePool, PoolState
  <2>3. [pool[p] EXCEPT !.ready = @ + 1] \in NodePool
    BY <1>1 DEF NodePool
  <2>4. pool[p].ready > 0 => [pool[p] EXCEPT !.ready = @ - 1] \in NodePool
    BY <1>1 DEF NodePool
  <2>5. CASE CloudCreates(p)
    BY <1>1, <2>1, <2>2, <2>5
       DEF CloudCreates, FinishCreate, FailCreate, GKETypeOK, PoolState
  <2>6. CASE CloudDeletes(p)
    BY <1>1, <2>1, <2>2, <2>6
       DEF CloudDeletes, FinishDelete, FailDelete, GKETypeOK, PoolState
  <2>7. CASE NodeJoins(p)
    BY <1>1, <2>3, <2>7 DEF NodeJoins, NodeReady, GKETypeOK
  <2>8. CASE NodeLeaves(p)
    BY <1>1, <2>4, <2>8 DEF NodeLeaves, NodeLost, GKETypeOK
  <2>9. QED
    BY <2>5, <2>6, <2>7, <2>8
<1>4. operations' \in SUBSET Operation /\ lastOp' \in 0 .. MaxOps
  <2>1. \A o \in Operation : \A status \in {"done", "failed"} :
          [o EXCEPT !.status = status] \in Operation
    BY DEF Operation
  <2>2. ASSUME NEW kind, NEW status \in {"done", "failed"},
               EndOperation(kind, p, status)
        PROVE  operations' \in SUBSET Operation /\ lastOp' = lastOp
    BY <1>1, <2>1, <2>2 DEF EndOperation, GKETypeOK
  <2>3. QED
    BY <1>1, <2>2
       DEF CloudCreates, CloudDeletes, NodeJoins, NodeLeaves, FinishCreate,
           FailCreate, FinishDelete, FailDelete, NodeReady, NodeLost, GKETypeOK
<1>5. KubeTypeOK' /\ BackendTypeOK'
  BY <1>1 DEF TypeOK, KubeTypeOK, BackendTypeOK, kubeVars
<1>6. QED
  BY <1>1, <1>2, <1>3, <1>4, <1>5, SameWorker DEF TypeOK, GKETypeOK

\* What happens to backend jobs preserves the types.
LEMMA BackendType ==
    ASSUME NEW j \in Jobs
    PROVE  TypeOK /\ (TrainingStarts(j) \/ TrainingEnds(j) \/ CollectGarbage(j)
                        \/ UserDeletesBackendJob(j)) => TypeOK'
<1> SUFFICES ASSUME TypeOK,
                    \/ TrainingStarts(j) \/ TrainingEnds(j) \/ CollectGarbage(j)
                    \/ UserDeletesBackendJob(j)
             PROVE  TypeOK'
  OBVIOUS
<1>1. BackendTypeOK /\ faults \in Nat /\ UNCHANGED <<Operator, kubeVars, gkeVars>>
  BY DEF TypeOK, TrainingStarts, TrainingEnds, CollectGarbage, UserDeletesBackendJob
<1>2. faults' \in Nat
  BY <1>1, FaultType
     DEF TrainingStarts, TrainingEnds, CollectGarbage, UserDeletesBackendJob, NoFault
<1>3. BackendTypeOK'
  <2>1. \A state \in BackendState : [bj[j] EXCEPT !.state = state] \in BackendJob
    BY <1>1 DEF BackendTypeOK, BackendJob
  <2>2. NoBackendJob \in BackendJob
    BY DEF NoBackendJob, BackendJob, BackendState
  <2>3. QED
    BY <1>1, <2>1, <2>2
       DEF TrainingStarts, TrainingEnds, CollectGarbage, UserDeletesBackendJob,
           BackendStart, BackendFinish, BackendVanish, BackendTypeOK, BackendState
<1>4. GKETypeOK' /\ KubeTypeOK'
  BY <1>1, SameCloud DEF TypeOK, KubeTypeOK, kubeVars
<1>5. QED
  BY <1>1, <1>2, <1>3, <1>4, SameWorker DEF TypeOK

-----------------------------------------------------------------------------
(***************************************************************************)
(* Type correctness, for every set of jobs, pools and specs, every choice  *)
(* of faults and every bound.                                              *)
(***************************************************************************)
THEOREM TypeCorrect == Spec => []TypeOK
<1>1. Init => TypeOK
  <2> SUFFICES ASSUME Init PROVE TypeOK
    OBVIOUS
  <2>1. GKETypeOK
    <3>1. NoPool \in NodePool
      BY DEF NoPool, NodePool, PoolState
    <3>2. pool \in [Pools -> NodePool] /\ operations \in SUBSET Operation
      BY <3>1 DEF Init, GKEInit
    <3>3. lastOp = 0
      BY DEF Init, GKEInit
    <3>4. lastOp \in 0 .. MaxOps
      BY <3>3, MaxOpsAssumption
    <3>5. QED
      BY <3>2, <3>4 DEF GKETypeOK
  <2>2. KubeTypeOK
    <3>1. cr \in [Jobs -> Object] /\ cache \in [Jobs -> Object] /\ queue \in SUBSET Jobs
      BY NoObjectType DEF Init, KubeInit
    <3>2. uid = [j \in Jobs |-> 0]
      BY DEF Init, KubeInit
    <3>3. uid \in [Jobs -> 0 .. MaxIncarnations]
      BY <3>2, MaxIncarnationsAssumption
    <3>4. QED
      BY <3>1, <3>3 DEF KubeTypeOK
  <2>3. BackendTypeOK
    BY DEF Init, BackendInit, BackendTypeOK, NoBackendJob, BackendJob, BackendState
  <2>4. WorkerTypeOK
    <3>1. arg \in Int /\ arg \in Nat
      <4>1. arg = 0
        BY DEF Init
      <4>2. QED
        BY <4>1
    <3>2. pc = "idle" /\ job = NoJob /\ obj \in Status /\ spec \in JobSpecType /\ to = ""
      BY EmptyStatusType, EmptySpecType DEF Init
    <3>3. QED
      BY <3>1, <3>2 DEF WorkerTypeOK, Label, Phase
  <2>5. timed \in BOOLEAN
    BY Zenon DEF Init
  <2>6. hist \in [Jobs -> [entries : Nat, priced : Nat]] /\ faults \in Nat
    <3>1. /\ hist = [j \in Jobs |-> [entries |-> 0, priced |-> 0]]
          /\ faults = 0
      BY DEF Init
    <3>2. QED
      BY <3>1
  <2>7. QED
    BY <2>1, <2>2, <2>3, <2>4, <2>5, <2>6 DEF TypeOK
<1>2. TypeOK /\ [Next]_vars => TypeOK'
  <2> SUFFICES ASSUME TypeOK, [Next]_vars PROVE TypeOK'
    OBVIOUS
  <2>1. CASE Handler
    BY <2>1, AddFinalizerType, SetPhaseType, SetStartTimeType, SolveType,
       SetProvisioningStartTimeType, CreateNodePoolType, StoreCreateOperationType,
       PollCreateType, CleanUpPoolType, CountReadyNodesType, ApplyJobType,
       SetJobNameType, GetPhaseType, ResetTrainingStartType, GetStartTimeType,
       SetTrainingStartType, ReleasePoolType, StoreDeleteOperationType,
       CollectResultsType, SetResultsType, PollDeleteType, ClearOperationType,
       DeletePoolType, RemoveFinalizerType
       DEF Handler
  <2>2. CASE \E j \in Jobs : Dequeue(j)
    BY <2>2, DequeueType
  <2>3. CASE Environment
    BY <2>3, CrashType, UserType, CloudType, BackendType DEF Environment
  <2>4. CASE UNCHANGED vars
    BY <2>4, SameCloud
       DEF vars, TypeOK, KubeTypeOK, kubeVars, BackendTypeOK, WorkerTypeOK, workerVars
  <2>5. QED
    BY <2>1, <2>2, <2>3, <2>4 DEF Next
<1>3. QED
  BY <1>1, <1>2, PTL DEF Spec
===============================================================================
