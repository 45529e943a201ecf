------------------------- MODULE ReconcilerLifeProofs -------------------------
(***************************************************************************)
(* The life of one job: LifeInv (module ReconcilerLife) is inductive when  *)
(* the informer is up to date, whatever else fails, and whatever users do. *)
(* Lemmas first say what may change around an object without disturbing    *)
(* it, and what a patch, a read and a call do; then there is one lemma per *)
(* action, and the theorems.                                               *)
(***************************************************************************)
EXTENDS ReconcilerLife, ReconcilerProofs

Lives == \A j \in Jobs : LifeOf(j)

\* What LifeInv says of the worker.
WorkerLife ==
    /\ AtWork => MemoryInv /\ CallInv
    /\ pc = "setPhase" => NextPhaseInv

\* What is shown of every step.
LifeKept == LifeInv' /\ LifeStep

\* The invariant is what holds of the objects and what holds of the worker.
LEMMA LifeParts == LifeInv <=> Lives /\ WorkerLife
  BY DEF LifeInv, Lives, WorkerLife

\* The types the proofs below go by.
LEMMA LifeTypes ==
    ASSUME TypeOK
    PROVE  /\ obj \in Status /\ spec \in JobSpecType /\ to \in Phase
           /\ pc # "idle" => job \in Jobs
           /\ cr \in [Jobs -> Object] /\ cache \in [Jobs -> Object]
           /\ \A j \in Jobs : /\ cr[j] \in Object /\ cr[j].status \in Status
                              /\ cr[j].spec \in JobSpecType
<1>1. cr \in [Jobs -> Object] /\ cache \in [Jobs -> Object]
  BY DEF TypeOK, KubeTypeOK
<1>2. \A j \in Jobs : /\ cr[j] \in Object /\ cr[j].status \in Status
                      /\ cr[j].spec \in JobSpecType
  BY <1>1 DEF Object
<1>3. QED
  BY <1>1, <1>2 DEF TypeOK, WorkerTypeOK

-----------------------------------------------------------------------------
\* A merge patch computed from the status the server holds stores what was
\* computed, and its answer tells the client nothing new.
LEMMA ExactPatch ==
    ASSUME NEW base \in Status, NEW new \in Status
    PROVE  Merged(base, new, base) = new /\ Decoded(new, new) = new
  BY DEF Merged, Decoded, Status

\* Statuses a and b differ in nothing but gkeOperationID and trainingStartTime.
Drifted(a, b) == a = [b EXCEPT !.op = a.op, !.trainStart = a.trainStart]

\* What the server stores of a patch that computed neither of the two.
Kernel(new, server) == [new EXCEPT !.op = server.op, !.trainStart = server.trainStart]

\* A patch from a status that has drifted stores what it computed, and the status in
\* memory is no further from the stored one than before.
LEMMA DriftedPatch ==
    ASSUME NEW base \in Status, NEW new \in Status, NEW server \in Status,
           Drifted(base, server), new.op = base.op, new.trainStart = base.trainStart
    PROVE  /\ Kernel(new, server) \in Status
           /\ Merged(base, new, server) = Kernel(new, server)
           /\ Drifted(Decoded(new, Kernel(new, server)), Kernel(new, server))
<1> DEFINE s == Kernel(new, server)
<1>1. s \in Status
  BY DEF Kernel, Status
<1>2. /\ s.phase = new.phase /\ s.start = new.start /\ s.nodes = new.nodes
      /\ s.provStart = new.provStart /\ s.size = new.size
      /\ s.provTime = new.provTime /\ s.jobName = new.jobName
      /\ s.trainTime = new.trainTime /\ s.billed = new.billed /\ s.finish = new.finish
      /\ s.op = server.op /\ s.trainStart = server.trainStart
  BY DEF Kernel, Status
<1>3. /\ base.phase = server.phase /\ base.start = server.start
      /\ base.nodes = server.nodes /\ base.provStart = server.provStart
      /\ base.size = server.size /\ base.provTime = server.provTime
      /\ base.jobName = server.jobName /\ base.trainTime = server.trainTime
      /\ base.billed = server.billed /\ base.finish = server.finish
  BY DEF Drifted, Status
<1> HIDE DEF s
<1>4. Merged(base, new, server) = s
  <2> DEFINE m == Merged(base, new, server)
  <2>1. /\ m.phase = new.phase /\ m.start = new.start /\ m.nodes = new.nodes
        /\ m.provStart = new.provStart /\ m.size = new.size
        /\ m.provTime = new.provTime /\ m.jobName = new.jobName
        /\ m.trainTime = new.trainTime /\ m.billed = new.billed
        /\ m.finish = new.finish /\ m.op = server.op
        /\ m.trainStart = server.trainStart
    BY <1>3 DEF Merged
  <2>2. m \in Status
    BY MergedType
  <2> HIDE DEF m
  <2>3. m = s
    BY <1>1, <1>2, <2>1, <2>2 DEF Status
  <2>4. QED
    BY <2>3 DEF m
<1>5. Drifted(Decoded(new, s), s)
  <2> DEFINE d == Decoded(new, s)
  <2>1. /\ d.phase = s.phase /\ d.start = s.start /\ d.nodes = s.nodes
        /\ d.provStart = s.provStart /\ d.size = s.size /\ d.provTime = s.provTime
        /\ d.jobName = s.jobName /\ d.trainTime = s.trainTime
        /\ d.billed = s.billed /\ d.finish = s.finish
    BY <1>1, <1>2 DEF Decoded, Status
  <2>2. d \in Status
    BY <1>1, DecodedType
  <2> HIDE DEF d
  <2>3. Drifted(d, s)
    BY <1>1, <2>1, <2>2 DEF Drifted, Status
  <2>4. QED
    BY <2>3 DEF d
<1>6. QED
  BY <1>1, <1>4, <1>5 DEF s

\* The same spec decoded again changes nothing.
LEMMA ExactSpec ==
    ASSUME NEW s \in JobSpecType
    PROVE  DecodedSpec(s, s) = s
  BY DEF DecodedSpec, JobSpecType

\* Around j, nothing happened that could make a fitting status unfit.
Kept(j) ==
    /\ \A id, kind : Started(id, kind, j) => Started(id, kind, j)'
    /\ bj'[j].state = "pending" => bj[j].state = "pending"
    /\ bj[j].state \in {"succeeded", "none"} => bj'[j].state \in {"succeeded", "none"}
    /\ hist'[j].entries > 0 => hist[j].entries > 0

\* What is kept around j keeps every status of j fitting.
LEMMA KeptFits ==
    ASSUME NEW j, Kept(j)
    PROVE  \A d, s : Fits(j, d, s) => Fits(j, d, s)'
<1> SUFFICES ASSUME NEW d, NEW s, Fits(j, d, s) PROVE Fits(j, d, s)'
  OBVIOUS
<1>1. OperationFits(j, s)'
  BY DEF Kept, Fits, OperationFits
<1>2. RecordFits(s)' /\ NodesFit(d, s)'
  BY DEF Fits, RecordFits, NodesFit
<1>3. TrainingFits(j, s)'
  BY DEF Kept, Fits, TrainingFits
<1>4. QED
  BY <1>1, <1>2, <1>3 DEF Fits

\* Operations, backend jobs and histories that stay as they are keep everything.
LEMMA SameKept ==
    ASSUME UNCHANGED <<operations, bj, hist>>
    PROVE  \A j : Kept(j)
  BY DEF Kept, Started

\* So does a patch, which touches none of them.
LEMMA WorldKept ==
    ASSUME UNCHANGED World
    PROVE  \A j : Kept(j)
  BY SameKept DEF World, gkeVars

-----------------------------------------------------------------------------
\* Writing an object that satisfies LifeOf again keeps the invariant of all objects.
LEMMA WriteLives ==
    ASSUME TypeOK, ~CacheLag, Lives, \A k \in Jobs : Kept(k),
           NEW j \in Jobs, NEW o \in Object, Put(j, o),
           o.deleting => o.finalizer,
           o.exists => /\ o.spec \in Specs[j]
                       /\ Fits(j, o.spec, o.status) \/ Fits(j, o.spec, o.status)'
    PROVE  Lives' /\ cr' = [cr EXCEPT ![j] = o]
<1>1. cr' = [cr EXCEPT ![j] = o] /\ cache' = [cache EXCEPT ![j] = o]
  BY DEF Put
<1>2. cr \in [Jobs -> Object] /\ cache \in [Jobs -> Object]
  BY LifeTypes
<1>3. ASSUME NEW k \in Jobs PROVE LifeOf(k)'
  <2>1. CASE k = j
    <3>1. cr'[k] = o /\ cache'[k] = o
      BY <1>1, <1>2, <2>1
    <3>2. o.exists => Fits(k, o.spec, o.status)'
      BY <2>1, KeptFits
    <3>3. QED
      BY <2>1, <3>1, <3>2 DEF LifeOf
  <2>2. CASE k # j
    <3>1. cr'[k] = cr[k] /\ cache'[k] = cache[k]
      BY <1>1, <1>2, <2>2
    <3>2. LifeOf(k)
      BY DEF Lives
    <3>3. cr[k].exists => Fits(k, cr[k].spec, cr[k].status)'
      BY <3>1, <3>2, KeptFits DEF LifeOf
    <3>4. QED
      BY <3>1, <3>2, <3>3 DEF LifeOf
  <2>3. QED
    BY <2>1, <2>2
<1>4. QED
  BY <1>1, <1>3 DEF Lives

\* Without a write, the objects stay as they are.
LEMMA SameLives ==
    ASSUME Lives, UNCHANGED <<cr, cache>>,
           \A j \in Jobs : cr[j].exists /\ Fits(j, cr[j].spec, cr[j].status)
                             => Kept(j) \/ Fits(j, cr[j].spec, cr[j].status)'
    PROVE  Lives' /\ LifeStep
<1>1. ASSUME NEW j \in Jobs PROVE LifeOf(j)'
  <2>1. LifeOf(j)
    BY DEF Lives
  <2>2. cr[j].exists => Fits(j, cr[j].spec, cr[j].status)'
    BY <2>1, KeptFits DEF LifeOf
  <2>3. QED
    BY <2>1, <2>2 DEF LifeOf
<1>2. LifeStep
  BY DEF LifeStep, Follows, PhaseOf
<1>3. QED
  BY <1>1, <1>2 DEF Lives

\* Nothing is asked of an idle worker.
LEMMA IdleLife == ASSUME pc' \in {"idle", "addFinalizer"} PROVE WorkerLife'
  BY DEF WorkerLife, AtWork

\* A step of the environment that leaves the worker and its object alone.
LEMMA BystanderLife ==
    ASSUME TypeOK, WorkerLife, UNCHANGED workerVars, \A j \in Jobs : Kept(j),
           AtWork => /\ cr'[job].exists /\ cr'[job].finalizer
                     /\ cr'[job].status = cr[job].status
                     /\ cr[job].deleting => cr'[job].deleting
                     /\ ~SpecEdits => cr'[job].spec = cr[job].spec
    PROVE  WorkerLife'
<1>1. UNCHANGED <<pc, job, obj, spec, to, arg>> /\ (AtWork' <=> AtWork)
  BY DEF workerVars, AtWork
<1>2. ASSUME AtWork PROVE MemoryInv' /\ CallInv'
  <2>1. MemoryInv /\ CallInv /\ job \in Jobs /\ Kept(job)
    BY <1>2, LifeTypes DEF WorkerLife, AtWork
  <2>2. MemoryInv'
    BY <1>1, <1>2, <2>1 DEF MemoryInv
  <2>3. PhaseKnown'
    BY <1>1, <2>1 DEF CallInv, PhaseKnown
  <2>4. /\ pc = "createOp" => Started(arg, "create", job)'
        /\ pc = "releaseOp" => Started(arg, "delete", job)'
        /\ bj'[job].state = "pending" => bj[job].state = "pending"
        /\ bj[job].state \in {"succeeded", "none"}
             => bj'[job].state \in {"succeeded", "none"}
    BY <1>1, <2>1 DEF Kept, CallInv
  <2>5. CallInv'
    BY <1>1, <1>2, <2>1, <2>3, <2>4 DEF CallInv
  <2>6. QED
    BY <2>2, <2>5
<1>3. ASSUME pc = "setPhase" PROVE NextPhaseInv'
  <2> DEFINE next == [cr[job].status EXCEPT !.phase = to]
  <2>1. AtWork /\ NextPhaseInv /\ job \in Jobs /\ Kept(job)
    BY <1>3, LifeTypes DEF WorkerLife, AtWork
  <2>2. Fits(job, cr'[job].spec, next)
    BY <2>1 DEF NextPhaseInv, Fits, NodesFit
  <2>3. job' = job /\ next' = next /\ Follows(to, cr[job].status.phase)'
    BY <1>1, <2>1 DEF NextPhaseInv, Follows
  <2> HIDE DEF next
  <2>4. Fits(job, cr[job].spec, next)'
    BY <2>1, <2>2, <2>3, KeptFits
  <2>5. QED
    BY <2>3, <2>4 DEF NextPhaseInv, next
<1>4. QED
  BY <1>1, <1>2, <1>3 DEF WorkerLife

-----------------------------------------------------------------------------
(***************************************************************************)
(* The steps of the worker.                                                *)
(***************************************************************************)
\* The phases a job may fail from: no result has been recorded.
Open == {"", "Provisioning", "Ready", "Running"}

\* A status that fits and is still open may be failed.
LEMMA FailFits ==
    ASSUME NEW j, NEW d, NEW s \in Status, Fits(j, d, s), s.phase \in Open
    PROVE  /\ Fits(j, d, [s EXCEPT !.phase = "Failed"])
           /\ Follows("Failed", s.phase)
<1> DEFINE f == [s EXCEPT !.phase = "Failed"]
<1>1. /\ f.phase = "Failed" /\ f.op = s.op /\ f.nodes = s.nodes
      /\ f.trainStart = s.trainStart
  BY DEF Status
<1> HIDE DEF f
<1>2. OperationFits(j, f) /\ RecordFits(f)
  BY <1>1 DEF OperationFits, RecordFits, Past
<1>3. NodesFit(d, f)
  BY <1>1 DEF Fits, NodesFit, Past
<1>4. TrainingFits(j, f)
  BY <1>1 DEF Fits, TrainingFits, Past, Open
<1>5. QED
  BY <1>2, <1>3, <1>4 DEF Fits, f, Follows, PhaseSteps, Open

\* What a handler relies on while it works: the object, the types, the invariant.
LEMMA AtWorkFacts ==
    ASSUME TypeOK, LifeInv, AtWork
    PROVE  /\ job \in Jobs /\ obj \in Status /\ spec \in JobSpecType
           /\ cr[job] \in Object /\ cr[job].status \in Status
           /\ cr[job].spec \in JobSpecType /\ cr[job].spec \in Specs[job]
           /\ Lives /\ LifeOf(job) /\ MemoryInv /\ CallInv
           /\ Fits(job, cr[job].spec, cr[job].status)
           /\ obj.phase = PhaseOf(job) /\ obj.nodes = cr[job].status.nodes
           /\ pc \notin {"history", "results", "setPhase"} => obj = cr[job].status
           /\ ~SpecEdits => spec = cr[job].spec
           /\ Kept(job) \/ ~UNCHANGED World
<1>1. job \in Jobs /\ Lives /\ LifeOf(job) /\ MemoryInv /\ CallInv
  BY LifeTypes, LifeParts DEF AtWork, WorkerLife, Lives
<1>2. obj.phase = PhaseOf(job) /\ obj.nodes = cr[job].status.nodes
  BY <1>1, LifeTypes DEF MemoryInv, PhaseOf, Status
<1>3. QED
  BY <1>1, <1>2, LifeTypes, WorldKept DEF LifeOf, MemoryInv

\* The worker goes on: what LifeInv says of it after the step.
Onward ==
    /\ MemoryInv' /\ CallInv'
    /\ pc' = "setPhase" => NextPhaseInv'

\* A worker that is done, or that goes on in order, satisfies its part.
LEMMA OnwardLife ==
    ASSUME pc' \in {"idle", "addFinalizer"} \/ Onward
    PROVE  WorkerLife'
  BY IdleLife DEF Onward, WorkerLife

\* The two parts together.
LEMMA KeptLife ==
    ASSUME Lives', LifeStep, pc' \in {"idle", "addFinalizer"} \/ Onward
    PROVE  LifeKept
  BY OnwardLife DEF LifeKept, LifeInv, Lives, WorkerLife

\* A status patch stores s and keeps the invariant of the objects.
LEMMA PatchLives ==
    ASSUME TypeOK, ~CacheLag, LifeInv, AtWork, UNCHANGED World,
           NEW new \in Status, Accepted(new) \/ Rejected(new),
           NEW s \in Status, s = Merged(obj, new, cr[job].status),
           Fits(job, cr[job].spec, s), Follows(s.phase, PhaseOf(job)),
           \/ s.nodes = cr[job].status.nodes
           \/ cr[job].status.nodes = 0 /\ PhaseOf(job) = ""
    PROVE  /\ Lives' /\ LifeStep
           /\ Accepted(new) => cr' = [cr EXCEPT ![job].status = s]
           /\ cr' = [cr EXCEPT ![job].status = s] \/ UNCHANGED cr
<1> DEFINE o == [cr[job] EXCEPT !.status = s]
<1>1. \A k : Kept(k)
  BY WorldKept
<1>2. CASE PatchStatus(job, obj, new)
  <2>1. o \in Object /\ o.status = s /\ o.spec = cr[job].spec
        /\ o.deleting = cr[job].deleting /\ o.finalizer = cr[job].finalizer
    BY AtWorkFacts DEF Object
  <2>2. Put(job, o)
    BY <1>2 DEF PatchStatus
  <2>3. o.deleting => o.finalizer
    BY <2>1, AtWorkFacts DEF LifeOf
  <2>4. cr' = [cr EXCEPT ![job].status = s]
    BY <2>2 DEF Put
  <2> HIDE DEF o
  <2>5. Lives'
    BY <1>1, <2>1, <2>2, <2>3, AtWorkFacts, WriteLives
  <2>6. LifeStep
    <3>1. ASSUME NEW j \in Jobs
          PROVE  /\ j = job => cr'[j].status = s
                 /\ j # job => cr'[j].status = cr[j].status
      BY <2>4, LifeTypes, AtWorkFacts DEF Object
    <3>2. QED
      BY <3>1 DEF LifeStep, Follows, PhaseOf
  <2>7. QED
    BY <2>4, <2>5, <2>6
<1>3. CASE UNCHANGED <<cr, cache>> /\ ~Accepted(new)
  BY <1>1, <1>3, AtWorkFacts, SameLives
<1>4. QED
  BY <1>2, <1>3 DEF Accepted, Rejected

\* After an accepted patch that began from the stored status, memory and server
\* hold what was computed.
LEMMA PatchedMemory ==
    ASSUME TypeOK, LifeInv, AtWork, obj = cr[job].status, NEW new \in Status,
           new.nodes = obj.nodes \/ (obj.nodes = 0 /\ obj.phase = ""),
           Accepted(new), Refreshed(new), Stay,
           cr' = [cr EXCEPT ![job].status = new]
    PROVE  /\ job' = job /\ obj' = new /\ cr'[job].status = new
           /\ cr'[job].spec = cr[job].spec /\ MemoryInv'
           /\ ~SpecEdits => spec' = cr[job].spec
<1>1. obj' = new
  <2>1. Decoded(new, Merged(obj, new, cr[job].status)) = new
    BY AtWorkFacts, ExactPatch
  <2>2. pc = "provStart" => new = [new EXCEPT !.nodes = obj.nodes]
    BY AtWorkFacts DEF CallInv, PhaseKnown, CallsAt, Status
  <2>3. QED
    BY <2>1, <2>2 DEF Refreshed
<1>2. /\ cr'[job].status = new /\ cr'[job].spec = cr[job].spec
      /\ cr'[job].exists = cr[job].exists /\ cr'[job].finalizer = cr[job].finalizer
  BY AtWorkFacts, LifeTypes DEF Object
<1>3. ~SpecEdits => spec' = cr[job].spec
  BY AtWorkFacts, ExactSpec DEF Refreshed, MemoryInv
<1>4. \E s \in Specs[job] : s.backend = spec'.backend
  <2>1. spec' = spec \/ spec'.backend = cr[job].spec.backend
    BY AtWorkFacts DEF Refreshed, DecodedSpec, JobSpecType
  <2>2. QED
    BY <2>1, AtWorkFacts DEF MemoryInv
<1>5. MemoryInv'
  <2>1. job' = job
    BY DEF Stay
  <2>2. obj' = [new EXCEPT !.op = obj'.op, !.trainStart = obj'.trainStart]
    BY <1>1 DEF Status
  <2>3. QED
    BY <1>1, <1>2, <1>3, <1>4, <2>1, <2>2, AtWorkFacts DEF MemoryInv
<1>6. QED
  BY <1>1, <1>2, <1>3, <1>5 DEF Stay

\* A patch, begun from the stored status, that leaves the phase alone.
LEMMA ExactStep ==
    ASSUME TypeOK, ~CacheLag, LifeInv, AtWork, UNCHANGED World,
           obj = cr[job].status, NEW new \in Status,
           Fits(job, cr[job].spec, new), new.phase = obj.phase,
           new.nodes = obj.nodes \/ (obj.nodes = 0 /\ obj.phase = ""),
           \/ Accepted(new) /\ Refreshed(new) /\ Stay
           \/ (Accepted(new) \/ Rejected(new)) /\ pc' = "idle"
    PROVE  /\ Lives' /\ LifeStep
           /\ pc' # "idle" =>
                /\ job' = job /\ obj' = new /\ cr'[job].status = new
                /\ cr'[job].spec = cr[job].spec /\ MemoryInv'
                /\ ~SpecEdits => spec' = cr[job].spec
<1>1. new = Merged(obj, new, cr[job].status)
  BY AtWorkFacts, ExactPatch
<1>2. Follows(new.phase, PhaseOf(job))
  BY DEF Follows, PhaseOf
<1>3. /\ Lives' /\ LifeStep
      /\ Accepted(new) => cr' = [cr EXCEPT ![job].status = new]
  BY <1>1, <1>2, PatchLives DEF PhaseOf
<1>4. QED
  BY <1>3, PatchedMemory

\* A patch whose error is ignored: memory may be ahead of the server.
LEMMA BestEffortStep ==
    ASSUME TypeOK, ~CacheLag, LifeInv, AtWork, UNCHANGED World,
           obj = cr[job].status, NEW new \in Status,
           new = [obj EXCEPT !.op = new.op, !.trainStart = new.trainStart],
           Fits(job, cr[job].spec, new),
           \/ Accepted(new) /\ Refreshed(new)
           \/ Rejected(new) /\ obj' = new /\ UNCHANGED spec,
           Stay, pc' \in {"history", "setPhase"}
    PROVE  /\ Lives' /\ LifeStep /\ job' = job /\ MemoryInv'
           /\ cr'[job].status \in {obj, new} /\ cr'[job].spec = cr[job].spec
           /\ obj'.phase = obj.phase
<1>1. /\ new = Merged(obj, new, cr[job].status) /\ Follows(new.phase, PhaseOf(job))
      /\ new.nodes = cr[job].status.nodes
  BY AtWorkFacts, ExactPatch DEF Follows, PhaseOf, Status
<1>2. /\ Lives' /\ LifeStep
      /\ Accepted(new) => cr' = [cr EXCEPT ![job].status = new]
      /\ cr' = [cr EXCEPT ![job].status = new] \/ UNCHANGED cr
  BY <1>1, PatchLives
<1>3. /\ cr'[job].status \in {obj, new} /\ cr'[job].spec = cr[job].spec
      /\ cr'[job].exists = cr[job].exists /\ cr'[job].finalizer = cr[job].finalizer
  BY <1>2, AtWorkFacts, LifeTypes DEF Object
<1>4. /\ obj' = new /\ job' = job
  BY <1>1, <1>2, AtWorkFacts, PatchedMemory DEF Stay
<1>5. MemoryInv'
  <2>1. CASE Accepted(new) /\ Refreshed(new)
    BY <1>1, <1>2, <2>1, AtWorkFacts, PatchedMemory
  <2>2. CASE UNCHANGED spec
    <3>1. obj' = [cr'[job].status EXCEPT !.op = obj'.op, !.trainStart = obj'.trainStart]
      BY <1>3, <1>4, AtWorkFacts DEF Status
    <3>2. QED
      BY <1>3, <1>4, <2>2, <3>1, AtWorkFacts DEF MemoryInv
  <2>3. QED
    BY <2>1, <2>2
<1>6. QED
  BY <1>2, <1>3, <1>4, <1>5 DEF Status

\* The worker goes on to store phase p, which follows the stored one and fits.
LEMMA MoveLife ==
    ASSUME NEW p, MoveTo(p), NEW j, job' = j, MemoryInv', Kept(j),
           NEW d, NEW s, cr'[j].spec = d, cr'[j].status = s,
           Follows(p, s.phase), Fits(j, d, [s EXCEPT !.phase = p])
    PROVE  Onward
<1>1. pc' = "setPhase" /\ to' = p
  BY DEF MoveTo
<1>2. CallInv'
  BY <1>1 DEF CallInv, PhaseKnown, CallsAt
<1>3. NextPhaseInv'
  <2> DEFINE next == [s EXCEPT !.phase = p]
  <2> HIDE DEF next
  <2>1. Fits(j, d, next)'
    BY KeptFits DEF next
  <2>2. QED
    BY <1>1, <2>1 DEF NextPhaseInv, next, Follows
<1>4. QED
  BY <1>1, <1>2, <1>3 DEF Onward

\* The worker goes on to fail a job that is still open.
LEMMA FailLife ==
    ASSUME FailJob, NEW j, job' = j, MemoryInv', Kept(j),
           NEW d, NEW s \in Status, cr'[j].spec = d, cr'[j].status = s,
           s.phase \in Open, Fits(j, d, s)
    PROVE  Onward
  BY FailFits, MoveLife DEF FailJob

\* The worker goes on with another call.
LEMMA CallLife ==
    ASSUME MemoryInv', CallInv', pc' # "setPhase"
    PROVE  Onward
  BY DEF Onward

\* A call that writes no object, and leaves everything around the objects fitting.
LEMMA CallStep ==
    ASSUME TypeOK, LifeInv, AtWork, UNCHANGED <<cr, cache>>, \A j \in Jobs : Kept(j)
    PROVE  /\ Lives' /\ LifeStep
           /\ UNCHANGED <<job, obj, spec>> /\ obj = cr[job].status => MemoryInv'
  BY AtWorkFacts, SameLives DEF MemoryInv

\* Such a call, after which the handler fails the job.
LEMMA FailStep ==
    ASSUME TypeOK, LifeInv, AtWork, UNCHANGED <<cr, cache>>, \A j \in Jobs : Kept(j),
           FailJob, UNCHANGED <<job, obj, spec>>,
           obj = cr[job].status, obj.phase \in Open
    PROVE  LifeKept
<1>1. Lives' /\ LifeStep /\ MemoryInv'
  BY CallStep
<1>2. Onward
  BY <1>1, AtWorkFacts, FailLife
<1>3. QED
  BY <1>1, <1>2, KeptLife

\* Such a call, after which the handler returns.
LEMMA ReturnStep ==
    ASSUME TypeOK, LifeInv, AtWork, UNCHANGED <<cr, cache>>, \A j \in Jobs : Kept(j),
           pc' = "idle"
    PROVE  LifeKept
  BY CallStep, KeptLife

\* A job that was resolved, or needs no solver, fits into Provisioning.
LEMMA ProvisioningFits ==
    ASSUME NEW j, NEW d, NEW s \in Status, Fits(j, d, s), s.phase = "", s.start,
           ~SpecEdits => ~(d.objective /\ s.nodes = 0)
    PROVE  /\ Fits(j, d, [s EXCEPT !.phase = "Provisioning"])
           /\ Follows("Provisioning", s.phase)
<1> DEFINE f == [s EXCEPT !.phase = "Provisioning"]
<1>1. /\ f.phase = "Provisioning" /\ f.op = s.op /\ f.nodes = s.nodes
      /\ f.trainStart = s.trainStart /\ f.start = s.start
  BY DEF Status
<1> HIDE DEF f
<1>2. OperationFits(j, f) /\ RecordFits(f)
  BY <1>1 DEF Fits, OperationFits, RecordFits, Past
<1>3. NodesFit(d, f)
  BY <1>1 DEF Fits, NodesFit, Past
<1>4. TrainingFits(j, f)
  BY <1>1 DEF Fits, TrainingFits, Past
<1>5. QED
  BY <1>2, <1>3, <1>4 DEF Fits, f, Follows, PhaseSteps

\* reconcilePending goes on to the solver or to Provisioning.
LEMMA SolverLife ==
    ASSUME EnterSolver(spec', obj'), NEW j, job' = j, MemoryInv', Kept(j),
           NEW d, NEW s \in Status, cr'[j].spec = d, cr'[j].status = s,
           obj' = s, ~SpecEdits => spec' = d,
           Fits(j, d, s), s.phase = "", s.start
    PROVE  Onward
<1>1. CASE Goto("solve") /\ obj'.nodes = 0
  BY <1>1, CallLife DEF Goto, CallInv, PhaseKnown, CallsAt
<1>2. CASE MoveTo("Provisioning") /\ ~(spec'.objective /\ obj'.nodes = 0)
  <2>1. /\ Fits(j, d, [s EXCEPT !.phase = "Provisioning"])
        /\ Follows("Provisioning", s.phase)
    BY <1>2, ProvisioningFits
  <2>2. QED
    BY <1>2, <2>1, MoveLife
<1>3. QED
  BY <1>1, <1>2 DEF EnterSolver

\* reconcilePending: the patch of startTime.
LEMMA SetStartTimeLife ==
    TypeOK /\ ~CacheLag /\ LifeInv /\ SetStartTime => LifeKept
<1> SUFFICES ASSUME TypeOK, ~CacheLag, LifeInv, SetStartTime PROVE LifeKept
  OBVIOUS
<1> DEFINE new == [obj EXCEPT !.start = TRUE]
<1>1. AtWork /\ UNCHANGED World
  BY DEF SetStartTime, AtWork
<1>2. obj = cr[job].status /\ obj.phase = ""
  BY <1>1, AtWorkFacts DEF SetStartTime, CallInv, PhaseKnown, CallsAt
<1>3. new \in Status /\ new.phase = obj.phase /\ new.nodes = obj.nodes /\ new.start
      /\ new.op = obj.op /\ new.trainStart = obj.trainStart
  BY <1>1, AtWorkFacts DEF Status
<1>4. \/ Accepted(new) /\ Refreshed(new) /\ Stay /\ EnterSolver(spec', obj')
      \/ Rejected(new) /\ pc' = "idle"
  BY DEF SetStartTime, Persist, Return
<1> HIDE DEF new
<1>5. Fits(job, cr[job].spec, new)
  BY <1>1, <1>2, <1>3, AtWorkFacts
     DEF Fits, OperationFits, RecordFits, NodesFit, TrainingFits, Past
<1>6. /\ Lives' /\ LifeStep
      /\ pc' # "idle" =>
           /\ job' = job /\ obj' = new /\ cr'[job].status = new
           /\ cr'[job].spec = cr[job].spec /\ MemoryInv'
           /\ ~SpecEdits => spec' = cr[job].spec
  BY <1>1, <1>2, <1>3, <1>4, <1>5, ExactStep
<1>7. pc' = "idle" \/ Onward
  BY <1>1, <1>2, <1>3, <1>4, <1>5, <1>6, AtWorkFacts, SolverLife
<1>8. QED
  BY <1>6, <1>7, KeptLife

\* reconcilePending: the solver and the patch of its answer.
LEMMA SolveLife ==
    TypeOK /\ ~CacheLag /\ LifeInv /\ Solve => LifeKept
<1> SUFFICES ASSUME TypeOK, ~CacheLag, LifeInv, Solve PROVE LifeKept
  OBVIOUS
<1>1. AtWork /\ UNCHANGED World
  BY DEF Solve, AtWork
<1>2. obj = cr[job].status /\ obj.phase = "" /\ obj.start /\ obj.nodes = 0
  BY <1>1, AtWorkFacts DEF Solve, CallInv, PhaseKnown, CallsAt
<1>3. CASE \E n \in spec.solutions :
             Persist([obj EXCEPT !.nodes = n], MoveTo("Provisioning"))
  <2>1. PICK n \in spec.solutions :
            Persist([obj EXCEPT !.nodes = n], MoveTo("Provisioning"))
    BY <1>3
  <2> DEFINE new == [obj EXCEPT !.nodes = n]
  <2>2. n \in Nat /\ n # 0
    BY <1>1, AtWorkFacts DEF JobSpecType
  <2>3. new \in Status /\ new.phase = "" /\ new.nodes = n /\ new.start
        /\ new.op = obj.op /\ new.trainStart = obj.trainStart
    BY <1>1, <1>2, <2>2, AtWorkFacts DEF Status
  <2>4. \/ Accepted(new) /\ Refreshed(new) /\ Stay /\ MoveTo("Provisioning")
        \/ Rejected(new) /\ pc' = "idle"
    BY <2>1 DEF Persist, Return
  <2> HIDE DEF new
  <2>5. Fits(job, cr[job].spec, new)
    BY <1>1, <1>2, <2>3, AtWorkFacts
       DEF Fits, OperationFits, RecordFits, NodesFit, TrainingFits, Past
  <2>6. /\ Lives' /\ LifeStep
        /\ pc' # "idle" =>
             /\ job' = job /\ obj' = new /\ cr'[job].status = new
             /\ cr'[job].spec = cr[job].spec /\ MemoryInv'
    BY <1>1, <1>2, <2>3, <2>4, <2>5, ExactStep
  <2>7. Fits(job, cr[job].spec, [new EXCEPT !.phase = "Provisioning"])
        /\ Follows("Provisioning", new.phase)
    BY <2>2, <2>3, <2>5, ProvisioningFits
  <2>8. pc' = "idle" \/ Onward
    BY <1>1, <2>4, <2>6, <2>7, AtWorkFacts, MoveLife
  <2>9. QED
    BY <2>6, <2>8, KeptLife
<1>4. CASE FailJob /\ Stay /\ UNCHANGED <<obj, spec, arg, cr, cache, uid>>
  BY <1>1, <1>2, <1>4, WorldKept, FailStep DEF Stay, Open
<1>5. QED
  BY <1>3, <1>4 DEF Solve

\* reconcileProvisioning goes on to create the pool or to poll its operation.
LEMMA OperationLife ==
    ASSUME EnterOperation(obj'), MemoryInv',
           obj'.phase = "Provisioning", obj'.provStart
    PROVE  Onward
<1>1. pc' \in {"create", "poll"} /\ (pc' = "create" => obj'.op = 0)
  BY DEF EnterOperation, Goto
<1>2. CallInv'
  BY <1>1 DEF CallInv, PhaseKnown, CallsAt
<1>3. QED
  BY <1>1, <1>2, CallLife

\* reconcileProvisioning: the patch of provisioningStartTime.
LEMMA SetProvisioningStartTimeLife ==
    TypeOK /\ ~CacheLag /\ LifeInv /\ SetProvisioningStartTime => LifeKept
<1> SUFFICES ASSUME TypeOK, ~CacheLag, LifeInv, SetProvisioningStartTime PROVE LifeKept
  OBVIOUS
<1> DEFINE new == [obj EXCEPT !.provStart = TRUE]
<1>1. AtWork /\ UNCHANGED World
  BY DEF SetProvisioningStartTime, AtWork
<1>2. obj = cr[job].status /\ obj.phase = "Provisioning"
  BY <1>1, AtWorkFacts DEF SetProvisioningStartTime, CallInv, PhaseKnown, CallsAt
<1>3. new \in Status /\ new.phase = obj.phase /\ new.nodes = obj.nodes /\ new.provStart
      /\ new.op = obj.op /\ new.trainStart = obj.trainStart /\ new.start = obj.start
  BY <1>1, AtWorkFacts DEF Status
<1>4. \/ Accepted(new) /\ Refreshed(new) /\ Stay /\ EnterOperation(obj')
      \/ Rejected(new) /\ pc' = "idle"
  BY DEF SetProvisioningStartTime, Persist, Return
<1> HIDE DEF new
<1>5. Fits(job, cr[job].spec, new)
  BY <1>1, <1>2, <1>3, AtWorkFacts
     DEF Fits, OperationFits, RecordFits, NodesFit, TrainingFits, Past
<1>6. /\ Lives' /\ LifeStep
      /\ pc' # "idle" => job' = job /\ obj' = new /\ MemoryInv'
  BY <1>1, <1>2, <1>3, <1>4, <1>5, ExactStep
<1>7. pc' = "idle" \/ Onward
  BY <1>2, <1>3, <1>4, <1>6, OperationLife
<1>8. QED
  BY <1>6, <1>7, KeptLife

\* reconcileProvisioning: the patch of gkeOperationID.
LEMMA StoreCreateOperationLife ==
    TypeOK /\ ~CacheLag /\ LifeInv /\ StoreCreateOperation => LifeKept
<1> SUFFICES ASSUME TypeOK, ~CacheLag, LifeInv, StoreCreateOperation PROVE LifeKept
  OBVIOUS
<1> DEFINE new == [obj EXCEPT !.op = arg]
<1>1. AtWork /\ UNCHANGED World
  BY DEF StoreCreateOperation, AtWork
<1>2. /\ obj = cr[job].status /\ obj.phase = "Provisioning"
      /\ Started(arg, "create", job) /\ arg \in Nat
  BY <1>1, AtWorkFacts
     DEF StoreCreateOperation, CallInv, PhaseKnown, CallsAt, TypeOK, WorkerTypeOK
<1>3. new \in Status /\ new.phase = obj.phase /\ new.nodes = obj.nodes
      /\ new.op = arg /\ new.trainStart = obj.trainStart /\ new.start = obj.start
  BY <1>1, <1>2, AtWorkFacts DEF Status
<1>4. (Accepted(new) \/ Rejected(new)) /\ pc' = "idle"
  BY DEF StoreCreateOperation, PersistAndReturn, Return
<1> HIDE DEF new
<1>5. Fits(job, cr[job].spec, new)
  BY <1>1, <1>2, <1>3, AtWorkFacts
     DEF Fits, OperationFits, RecordFits, NodesFit, TrainingFits, Past
<1>6. QED
  BY <1>1, <1>2, <1>3, <1>4, <1>5, ExactStep, KeptLife

\* A pool with its nodes takes the job from Provisioning to Ready.
LEMMA ReadyFits ==
    ASSUME NEW j, NEW d, NEW s \in Status, Fits(j, d, s),
           s.phase = "Provisioning", s.op = 0, s.provStart, s.provTime
    PROVE  /\ Fits(j, d, [s EXCEPT !.phase = "Ready"])
           /\ Follows("Ready", s.phase)
<1> DEFINE f == [s EXCEPT !.phase = "Ready"]
<1>1. /\ f.phase = "Ready" /\ f.op = 0 /\ f.nodes = s.nodes /\ f.provStart
      /\ f.provTime /\ f.trainStart = s.trainStart /\ f.start = s.start
  BY DEF Status
<1> HIDE DEF f
<1>2. QED
  BY <1>1 DEF Fits, OperationFits, RecordFits, NodesFit, TrainingFits, Past, f,
              Follows, PhaseSteps

\* reconcileProvisioning: the node count, and the patch that ends the operation.
LEMMA CountReadyNodesLife ==
    TypeOK /\ ~CacheLag /\ LifeInv /\ CountReadyNodes => LifeKept
<1> SUFFICES ASSUME TypeOK, ~CacheLag, LifeInv, CountReadyNodes PROVE LifeKept
  OBVIOUS
<1> DEFINE ready == pool[PoolOf(job)].ready
           few == [obj EXCEPT !.size = ready]
           new == [obj EXCEPT !.op = 0, !.size = ready, !.provTime = TRUE]
<1>1. AtWork /\ UNCHANGED World
  BY DEF CountReadyNodes, AtWork
<1>2. obj = cr[job].status /\ obj.phase = "Provisioning" /\ obj.provStart
  BY <1>1, AtWorkFacts DEF CountReadyNodes, CallInv, PhaseKnown, CallsAt
<1>3. ready \in Nat
  BY <1>1, AtWorkFacts, SpecAssumption DEF TypeOK, GKETypeOK, NodePool, PoolOf
<1>4. /\ few \in Status /\ few.phase = obj.phase /\ few.nodes = obj.nodes
      /\ few.op = obj.op /\ few.trainStart = obj.trainStart /\ few.start = obj.start
      /\ few.provStart = obj.provStart
  BY <1>1, <1>3, AtWorkFacts DEF Status
<1>5. /\ new \in Status /\ new.phase = obj.phase /\ new.nodes = obj.nodes
      /\ new.op = 0 /\ new.trainStart = obj.trainStart /\ new.start = obj.start
      /\ new.provStart = obj.provStart /\ new.provTime
  BY <1>1, <1>3, AtWorkFacts DEF Status
<1>6. \/ (Accepted(few) \/ Rejected(few)) /\ pc' = "idle"
      \/ Accepted(new) /\ Refreshed(new) /\ Stay /\ MoveTo("Ready")
      \/ Rejected(new) /\ pc' = "idle"
      \/ pc' = "idle" /\ UNCHANGED <<cr, cache>>
  BY DEF CountReadyNodes, PersistAndReturn, Persist, Return
<1> HIDE DEF few, new, ready
<1>7. Fits(job, cr[job].spec, few) /\ Fits(job, cr[job].spec, new)
  BY <1>1, <1>2, <1>4, <1>5, AtWorkFacts
     DEF Fits, OperationFits, RecordFits, NodesFit, TrainingFits, Past
<1>8. CASE (Accepted(few) \/ Rejected(few)) /\ pc' = "idle"
  BY <1>1, <1>2, <1>4, <1>7, <1>8, ExactStep, KeptLife
<1>9. CASE \/ Accepted(new) /\ Refreshed(new) /\ Stay /\ MoveTo("Ready")
           \/ Rejected(new) /\ pc' = "idle"
  <2>1. /\ Lives' /\ LifeStep
        /\ pc' # "idle" =>
             /\ job' = job /\ obj' = new /\ cr'[job].status = new
             /\ cr'[job].spec = cr[job].spec /\ MemoryInv'
    BY <1>1, <1>2, <1>5, <1>7, <1>9, ExactStep
  <2>2. /\ Fits(job, cr[job].spec, [new EXCEPT !.phase = "Ready"])
        /\ Follows("Ready", new.phase)
    BY <1>2, <1>5, <1>7, ReadyFits
  <2>3. pc' = "idle" \/ Onward
    BY <1>1, <1>9, <2>1, <2>2, AtWorkFacts, MoveLife
  <2>4. QED
    BY <2>1, <2>3, KeptLife
<1>10. CASE pc' = "idle" /\ UNCHANGED <<cr, cache>>
  BY <1>1, <1>10, WorldKept, ReturnStep
<1>11. QED
  BY <1>6, <1>8, <1>9, <1>10

\* A job with a backend job goes from Ready to Running, or stays there.
LEMMA RunningFits ==
    ASSUME NEW j, NEW d, NEW s \in Status, Fits(j, d, s),
           s.phase \in {"Ready", "Running"}, s.jobName
    PROVE  /\ Fits(j, d, [s EXCEPT !.phase = "Running"])
           /\ Follows("Running", s.phase)
<1> DEFINE f == [s EXCEPT !.phase = "Running"]
<1>1. /\ f.phase = "Running" /\ f.op = s.op /\ f.nodes = s.nodes
      /\ f.provStart = s.provStart /\ f.provTime = s.provTime /\ f.jobName
      /\ f.trainStart = s.trainStart /\ f.start = s.start
  BY DEF Status
<1> HIDE DEF f
<1>2. OperationFits(j, f) /\ RecordFits(f)
  BY <1>1 DEF Fits, OperationFits, RecordFits, Past
<1>3. NodesFit(d, f) /\ TrainingFits(j, f)
  BY <1>1 DEF Fits, NodesFit, TrainingFits, Past
<1>4. QED
  BY <1>2, <1>3 DEF Fits, f, Follows, PhaseSteps

\* reconcileReady: the patch of jobName.
LEMMA SetJobNameLife ==
    TypeOK /\ ~CacheLag /\ LifeInv /\ SetJobName => LifeKept
<1> SUFFICES ASSUME TypeOK, ~CacheLag, LifeInv, SetJobName PROVE LifeKept
  OBVIOUS
<1> DEFINE new == [obj EXCEPT !.jobName = TRUE]
<1>1. AtWork /\ UNCHANGED World
  BY DEF SetJobName, AtWork
<1>2. obj = cr[job].status /\ obj.phase \in {"Ready", "Running"}
  BY <1>1, AtWorkFacts DEF SetJobName, CallInv, PhaseKnown
<1>3. /\ new \in Status /\ new.phase = obj.phase /\ new.nodes = obj.nodes
      /\ new.op = obj.op /\ new.trainStart = obj.trainStart /\ new.start = obj.start
      /\ new.provStart = obj.provStart /\ new.provTime = obj.provTime /\ new.jobName
  BY <1>1, AtWorkFacts DEF Status
<1>4. \/ Accepted(new) /\ Refreshed(new) /\ Stay /\ MoveTo("Running")
      \/ Rejected(new) /\ pc' = "idle"
  BY DEF SetJobName, Persist, Return
<1> HIDE DEF new
<1>5. Fits(job, cr[job].spec, new)
  BY <1>1, <1>2, <1>3, AtWorkFacts
     DEF Fits, OperationFits, RecordFits, NodesFit, TrainingFits, Past
<1>6. /\ Lives' /\ LifeStep
      /\ pc' # "idle" =>
           /\ job' = job /\ obj' = new /\ cr'[job].status = new
           /\ cr'[job].spec = cr[job].spec /\ MemoryInv'
  BY <1>1, <1>2, <1>3, <1>4, <1>5, ExactStep
<1>7. pc' = "idle" \/ Onward
  BY <1>1, <1>2, <1>3, <1>4, <1>5, <1>6, AtWorkFacts, RunningFits, MoveLife
<1>8. QED
  BY <1>6, <1>7, KeptLife

\* A backend that is registered is called next; with another one the job fails.
LEMMA ApplyLife ==
    ASSUME NEW b, EnterBackend(b, "apply"), NEW j, job' = j, MemoryInv', Kept(j),
           NEW d, NEW s \in Status, cr'[j].spec = d, cr'[j].status = s, obj' = s,
           s.phase \in {"Ready", "Running"}, ~s.trainStart, Fits(j, d, s)
    PROVE  Onward
<1>1. CASE Goto("apply")
  <2>1. CallInv'
    BY <1>1 DEF Goto, CallInv, PhaseKnown, CallsAt
  <2>2. QED
    BY <1>1, <2>1, CallLife DEF Goto
<1>2. CASE FailJob
  BY <1>2, FailLife DEF Open
<1>3. QED
  BY <1>1, <1>2 DEF EnterBackend

\* reconcileRunning: the reset of trainingStartTime.
LEMMA ResetTrainingStartLife ==
    TypeOK /\ ~CacheLag /\ LifeInv /\ ResetTrainingStart => LifeKept
<1> SUFFICES ASSUME TypeOK, ~CacheLag, LifeInv, ResetTrainingStart PROVE LifeKept
  OBVIOUS
<1> DEFINE new == [obj EXCEPT !.trainStart = FALSE]
<1>1. AtWork /\ UNCHANGED World
  BY DEF ResetTrainingStart, AtWork
<1>2. obj = cr[job].status /\ obj.phase = "Running"
  BY <1>1, AtWorkFacts DEF ResetTrainingStart, CallInv, PhaseKnown, CallsAt
<1>3. /\ new \in Status /\ new.phase = obj.phase /\ new.nodes = obj.nodes
      /\ new.op = obj.op /\ ~new.trainStart /\ new.start = obj.start
      /\ new.provStart = obj.provStart /\ new.provTime = obj.provTime
      /\ new.jobName = obj.jobName
  BY <1>1, AtWorkFacts DEF Status
<1>4. \/ Accepted(new) /\ Refreshed(new) /\ Stay /\ EnterBackend(spec', "apply")
      \/ Rejected(new) /\ pc' = "idle"
  BY DEF ResetTrainingStart, Persist, Return
<1> HIDE DEF new
<1>5. Fits(job, cr[job].spec, new)
  BY <1>1, <1>2, <1>3, AtWorkFacts
     DEF Fits, OperationFits, RecordFits, NodesFit, TrainingFits, Past
<1>6. /\ Lives' /\ LifeStep
      /\ pc' # "idle" =>
           /\ job' = job /\ obj' = new /\ cr'[job].status = new
           /\ cr'[job].spec = cr[job].spec /\ MemoryInv'
  BY <1>1, <1>2, <1>3, <1>4, <1>5, ExactStep
<1>7. pc' = "idle" \/ Onward
  BY <1>1, <1>2, <1>3, <1>4, <1>5, <1>6, AtWorkFacts, ApplyLife
<1>8. QED
  BY <1>6, <1>7, KeptLife

\* A job whose backend job has succeeded goes from Running to Collecting.
LEMMA CollectingFits ==
    ASSUME NEW j, NEW d, NEW s \in Status, Fits(j, d, s), s.phase = "Running",
           bj[j].state \in {"succeeded", "none"}
    PROVE  /\ Fits(j, d, [s EXCEPT !.phase = "Collecting"])
           /\ Follows("Collecting", s.phase)
<1> DEFINE f == [s EXCEPT !.phase = "Collecting"]
<1>1. /\ f.phase = "Collecting" /\ f.op = s.op /\ f.nodes = s.nodes
      /\ f.provStart = s.provStart /\ f.provTime = s.provTime
      /\ f.jobName = s.jobName
      /\ f.trainStart = s.trainStart /\ f.start = s.start
  BY DEF Status
<1> HIDE DEF f
<1>2. OperationFits(j, f) /\ RecordFits(f)
  BY <1>1 DEF Fits, OperationFits, RecordFits, Past
<1>3. NodesFit(d, f) /\ TrainingFits(j, f)
  BY <1>1 DEF Fits, NodesFit, TrainingFits, Past
<1>4. QED
  BY <1>2, <1>3 DEF Fits, f, Follows, PhaseSteps

\* What reconcileRunning ends with fits.
LEMMA VerdictFits ==
    ASSUME NEW j, NEW d, NEW s \in Status, Fits(j, d, s), s.phase = "Running",
           NEW p \in {"Collecting", "Failed"},
           p = "Collecting" => bj[j].state \in {"succeeded", "none"}
    PROVE  Fits(j, d, [s EXCEPT !.phase = p]) /\ Follows(p, s.phase)
  BY CollectingFits, FailFits DEF Open

\* reconcileRunning: the patch of trainingStartTime.
LEMMA SetTrainingStartLife ==
    TypeOK /\ ~CacheLag /\ LifeInv /\ SetTrainingStart => LifeKept
<1> SUFFICES ASSUME TypeOK, ~CacheLag, LifeInv, SetTrainingStart PROVE LifeKept
  OBVIOUS
<1> DEFINE new == [obj EXCEPT !.trainStart = TRUE]
<1>1. AtWork /\ UNCHANGED World
  BY DEF SetTrainingStart, AtWork
<1>2. /\ obj = cr[job].status /\ obj.phase = "Running"
      /\ to \in {"Running", "Collecting", "Failed"}
      /\ to = "Collecting" => bj[job].state \in {"succeeded", "none"}
      /\ NeverSpark(job) => bj[job].state # "pending"
  BY <1>1, AtWorkFacts DEF SetTrainingStart, CallInv, PhaseKnown, CallsAt
<1>3. /\ new \in Status /\ new.phase = obj.phase /\ new.nodes = obj.nodes
      /\ new.op = obj.op /\ new.start = obj.start
      /\ new.provStart = obj.provStart /\ new.provTime = obj.provTime
      /\ new.jobName = obj.jobName
      /\ new = [obj EXCEPT !.op = new.op, !.trainStart = new.trainStart]
  BY <1>1, AtWorkFacts DEF Status
<1>4. \/ (Accepted(new) \/ Rejected(new)) /\ pc' = "idle"
      \/ /\ to # "Running" /\ MoveTo(to) /\ Stay
         /\ \/ Accepted(new) /\ Refreshed(new)
            \/ Rejected(new) /\ obj' = new /\ UNCHANGED spec
  BY DEF SetTrainingStart, PersistAndReturn, PersistBestEffort, Return
<1> HIDE DEF new
<1>5. Fits(job, cr[job].spec, new)
  BY <1>1, <1>2, <1>3, AtWorkFacts
     DEF Fits, OperationFits, RecordFits, NodesFit, TrainingFits, Past
<1>6. CASE pc' = "idle" /\ (Accepted(new) \/ Rejected(new))
  BY <1>1, <1>2, <1>3, <1>5, <1>6, ExactStep, KeptLife
<1>7. CASE /\ to # "Running" /\ MoveTo(to) /\ Stay
           /\ \/ Accepted(new) /\ Refreshed(new)
              \/ Rejected(new) /\ obj' = new /\ UNCHANGED spec
  <2>1. /\ Lives' /\ LifeStep /\ job' = job /\ MemoryInv'
        /\ cr'[job].status \in {obj, new} /\ cr'[job].spec = cr[job].spec
    BY <1>1, <1>2, <1>3, <1>5, <1>7, BestEffortStep DEF MoveTo
  <2>2. ASSUME NEW s \in {obj, new}
        PROVE  /\ Fits(job, cr[job].spec, [s EXCEPT !.phase = to])
               /\ Follows(to, s.phase)
    <3>1. s \in Status /\ s.phase = "Running" /\ Fits(job, cr[job].spec, s)
      BY <1>1, <1>2, <1>3, <1>5, AtWorkFacts
    <3>2. to \in {"Collecting", "Failed"}
      BY <1>2, <1>7
    <3>3. QED
      BY <1>2, <3>1, <3>2, VerdictFits
  <2>3. Onward
    BY <1>1, <1>7, <2>1, <2>2, AtWorkFacts, MoveLife
  <2>4. QED
    BY <2>1, <2>3, KeptLife
<1>8. QED
  BY <1>4, <1>6, <1>7

\* reconcileCollecting: the patch of gkeOperationID.
LEMMA StoreDeleteOperationLife ==
    TypeOK /\ ~CacheLag /\ LifeInv /\ StoreDeleteOperation => LifeKept
<1> SUFFICES ASSUME TypeOK, ~CacheLag, LifeInv, StoreDeleteOperation PROVE LifeKept
  OBVIOUS
<1> DEFINE new == [obj EXCEPT !.op = arg]
<1>1. AtWork /\ UNCHANGED World
  BY DEF StoreDeleteOperation, AtWork
<1>2. /\ obj = cr[job].status /\ obj.phase = "Collecting"
      /\ Started(arg, "delete", job) /\ arg \in Nat
  BY <1>1, AtWorkFacts
     DEF StoreDeleteOperation, CallInv, PhaseKnown, CallsAt, TypeOK, WorkerTypeOK
<1>3. /\ new \in Status /\ new.phase = obj.phase /\ new.nodes = obj.nodes
      /\ new.op = arg /\ new.trainStart = obj.trainStart /\ new.start = obj.start
      /\ new.provStart = obj.provStart /\ new.provTime = obj.provTime
      /\ new.jobName = obj.jobName
      /\ new = [obj EXCEPT !.op = new.op, !.trainStart = new.trainStart]
  BY <1>1, <1>2, AtWorkFacts DEF Status
<1>4. /\ pc' = "history" /\ Stay
      /\ \/ Accepted(new) /\ Refreshed(new)
         \/ Rejected(new) /\ obj' = new /\ UNCHANGED spec
  BY DEF StoreDeleteOperation, PersistBestEffort, Goto
<1> HIDE DEF new
<1>5. Fits(job, cr[job].spec, new)
  <2>1. OperationFits(job, new) /\ RecordFits(new)
    BY <1>1, <1>2, <1>3, AtWorkFacts DEF Fits, OperationFits, RecordFits, Past
  <2>2. NodesFit(cr[job].spec, new) /\ TrainingFits(job, new)
    BY <1>1, <1>2, <1>3, AtWorkFacts DEF Fits, NodesFit, TrainingFits, Past
  <2>3. QED
    BY <2>1, <2>2 DEF Fits
<1>6. Lives' /\ LifeStep /\ job' = job /\ MemoryInv' /\ obj'.phase = obj.phase
  BY <1>1, <1>2, <1>3, <1>4, <1>5, BestEffortStep
<1>7. CallInv'
  BY <1>2, <1>4, <1>6 DEF CallInv, PhaseKnown, CallsAt
<1>8. Onward
  BY <1>4, <1>6, <1>7, CallLife
<1>9. QED
  BY <1>6, <1>8, KeptLife

\* A job that is finished goes from Collecting to Succeeded.
LEMMA SucceededFits ==
    ASSUME NEW j, NEW d, NEW s \in Status, Fits(j, d, s), s.phase = "Collecting",
           s.finish, s.size = 0
    PROVE  /\ Fits(j, d, [s EXCEPT !.phase = "Succeeded"])
           /\ Follows("Succeeded", s.phase)
<1> DEFINE f == [s EXCEPT !.phase = "Succeeded"]
<1>1. /\ f.phase = "Succeeded" /\ f.op = s.op /\ f.nodes = s.nodes
      /\ f.provStart = s.provStart /\ f.provTime = s.provTime
      /\ f.jobName = s.jobName /\ f.finish /\ f.size = 0
      /\ f.trainStart = s.trainStart /\ f.start = s.start
  BY DEF Status
<1> HIDE DEF f
<1>2. OperationFits(j, f) /\ RecordFits(f)
  BY <1>1 DEF Fits, OperationFits, RecordFits, Past
<1>3. NodesFit(d, f) /\ TrainingFits(j, f)
  BY <1>1 DEF Fits, NodesFit, TrainingFits, Past
<1>4. QED
  BY <1>2, <1>3 DEF Fits, f, Follows, PhaseSteps

\* reconcileCollecting: the patch of the results.
LEMMA SetResultsLife ==
    TypeOK /\ ~CacheLag /\ LifeInv /\ SetResults => LifeKept
<1> SUFFICES ASSUME TypeOK, ~CacheLag, LifeInv, SetResults PROVE LifeKept
  OBVIOUS
<1> DEFINE old == cr[job].status
           new == [obj EXCEPT !.trainTime = timed, !.billed = arg,
                              !.finish = TRUE, !.size = 0]
           s == Kernel(new, old)
<1>1. AtWork /\ UNCHANGED World /\ Kept(job)
  BY WorldKept DEF SetResults, AtWork
<1>2. obj.phase = "Collecting" /\ old.phase = "Collecting" /\ old \in Status
      /\ Drifted(obj, old)
  BY <1>1, AtWorkFacts DEF SetResults, CallInv, PhaseKnown, CallsAt, PhaseOf, MemoryInv,
                           Drifted
<1>3. new \in Status /\ new.op = obj.op /\ new.trainStart = obj.trainStart
  BY <1>1, AtWorkFacts DEF Status, TypeOK, WorkerTypeOK
<1>4. /\ s \in Status /\ s = Merged(obj, new, old)
      /\ Drifted(Decoded(new, s), s)
  <2> HIDE DEF new
  <2>1. QED
    BY <1>1, <1>2, <1>3, AtWorkFacts, DriftedPatch
<1>5. /\ s.phase = "Collecting" /\ s.nodes = old.nodes /\ s.op = old.op
      /\ s.trainStart = old.trainStart /\ s.start = old.start
      /\ s.provStart = old.provStart /\ s.provTime = old.provTime
      /\ s.jobName = old.jobName /\ s.finish /\ s.size = 0
  BY <1>1, <1>2, AtWorkFacts DEF Status, Kernel, Drifted
<1>6. \/ Accepted(new) /\ Refreshed(new) /\ Stay /\ MoveTo("Succeeded")
      \/ Rejected(new) /\ pc' = "idle"
  BY DEF SetResults, Persist, Return
<1> HIDE DEF new, s
<1>0. pc # "provStart"
  BY DEF SetResults
<1>7. Fits(job, cr[job].spec, s)
  <2>1. OperationFits(job, s) /\ RecordFits(s)
    BY <1>1, <1>2, <1>5, AtWorkFacts DEF Fits, OperationFits, RecordFits, Past
  <2>2. NodesFit(cr[job].spec, s) /\ TrainingFits(job, s)
    BY <1>1, <1>2, <1>5, AtWorkFacts DEF Fits, NodesFit, TrainingFits, Past
  <2>3. QED
    BY <2>1, <2>2 DEF Fits
<1>8. /\ Lives' /\ LifeStep
      /\ Accepted(new) => cr' = [cr EXCEPT ![job].status = s]
  <2>1. Follows(s.phase, PhaseOf(job))
    BY <1>2, <1>5 DEF Follows, PhaseOf
  <2>2. QED
    BY <1>1, <1>3, <1>4, <1>5, <1>6, <1>7, <2>1, PatchLives
<1>9. CASE Accepted(new) /\ Refreshed(new) /\ Stay /\ MoveTo("Succeeded")
  <2>1. /\ cr'[job].status = s /\ cr'[job].spec = cr[job].spec
        /\ cr'[job].exists = cr[job].exists /\ cr'[job].finalizer = cr[job].finalizer
    BY <1>1, <1>8, <1>9, AtWorkFacts, LifeTypes DEF Object
  <2>2. obj' = Decoded(new, s) /\ job' = job
    BY <1>4, <1>9, <1>0 DEF Refreshed, Stay
  <2>3. obj' = [cr'[job].status EXCEPT !.op = obj'.op, !.trainStart = obj'.trainStart]
    BY <1>4, <2>1, <2>2 DEF Drifted
  <2>4. /\ ~SpecEdits => spec' = cr[job].spec
        /\ spec' = spec \/ spec'.backend = cr[job].spec.backend
    <3>1. spec' = DecodedSpec(spec, cr[job].spec)
      BY <1>0, <1>9 DEF Refreshed
    <3>2. ~SpecEdits => spec' = cr[job].spec
      BY <1>1, <3>1, AtWorkFacts, ExactSpec
    <3>3. spec'.backend = cr[job].spec.backend
      BY <1>1, <3>1, AtWorkFacts DEF DecodedSpec, JobSpecType
    <3>4. QED
      BY <3>2, <3>3
  <2>5. MemoryInv'
    BY <1>1, <1>9, <2>1, <2>2, <2>3, <2>4, AtWorkFacts DEF MemoryInv, MoveTo
  <2>6. Onward
    BY <1>1, <1>4, <1>5, <1>7, <1>9, <2>1, <2>2, <2>5, SucceededFits, MoveLife
  <2>7. QED
    BY <1>8, <2>6, KeptLife
<1>10. QED
  BY <1>6, <1>8, <1>9, KeptLife

\* reconcileSucceeded: the reset of gkeOperationID.
LEMMA ClearOperationLife ==
    TypeOK /\ ~CacheLag /\ LifeInv /\ ClearOperation => LifeKept
<1> SUFFICES ASSUME TypeOK, ~CacheLag, LifeInv, ClearOperation PROVE LifeKept
  OBVIOUS
<1> DEFINE new == [obj EXCEPT !.op = 0]
<1>1. AtWork /\ UNCHANGED World
  BY DEF ClearOperation, AtWork
<1>2. obj = cr[job].status
  BY <1>1, AtWorkFacts DEF ClearOperation
<1>3. /\ new \in Status /\ new.phase = obj.phase /\ new.nodes = obj.nodes
      /\ new.op = 0 /\ new.trainStart = obj.trainStart /\ new.start = obj.start
      /\ new.provStart = obj.provStart /\ new.provTime = obj.provTime
      /\ new.jobName = obj.jobName /\ new.finish = obj.finish /\ new.size = obj.size
  BY <1>1, AtWorkFacts DEF Status
<1>4. (Accepted(new) \/ Rejected(new)) /\ pc' = "idle"
  BY DEF ClearOperation, PersistAndReturn, Return
<1> HIDE DEF new
<1>5. Fits(job, cr[job].spec, new)
  BY <1>1, <1>2, <1>3, AtWorkFacts
     DEF Fits, OperationFits, RecordFits, NodesFit, TrainingFits
<1>6. QED
  BY <1>1, <1>2, <1>3, <1>4, <1>5, ExactStep, KeptLife

\* setPhase and setFailed.
LEMMA SetPhaseLife ==
    TypeOK /\ ~CacheLag /\ LifeInv /\ SetPhase => LifeKept
<1> SUFFICES ASSUME TypeOK, ~CacheLag, LifeInv, SetPhase PROVE LifeKept
  OBVIOUS
<1> DEFINE old == cr[job].status
           new == [obj EXCEPT !.phase = to]
           s == [old EXCEPT !.phase = to]
<1>1. AtWork /\ UNCHANGED World /\ NextPhaseInv /\ job \in Jobs /\ obj \in Status
      /\ to \in Phase /\ old \in Status
  BY LifeTypes, AtWorkFacts DEF SetPhase, AtWork, LifeInv
<1>2. Drifted(obj, old)
  BY <1>1, AtWorkFacts DEF MemoryInv, Drifted
<1>3. new \in Status /\ new.op = obj.op /\ new.trainStart = obj.trainStart
  BY <1>1 DEF Status
<1>4. s \in Status /\ s.nodes = old.nodes /\ s.phase = to
  BY <1>1 DEF Status
<1>5. s = Kernel(new, old)
  BY <1>1, <1>2 DEF Status, Kernel, Drifted
<1>6. (Accepted(new) \/ Rejected(new)) /\ pc' = "idle"
  BY DEF SetPhase, PersistAndReturn, Return
<1>7. Fits(job, cr[job].spec, s) /\ Follows(to, PhaseOf(job))
  BY <1>1 DEF NextPhaseInv, PhaseOf
<1> HIDE DEF new, s
<1>8. s = Merged(obj, new, cr[job].status)
  BY <1>1, <1>2, <1>3, <1>5, DriftedPatch
<1>9. QED
  BY <1>1, <1>3, <1>4, <1>6, <1>7, <1>8, PatchLives, KeptLife

-----------------------------------------------------------------------------
(***************************************************************************)
(* The handlers' other calls.                                              *)
(***************************************************************************)
\* A write that leaves the status of an object alone, creates it or removes it.
LEMMA PutStep ==
    ASSUME TypeOK, ~CacheLag, Lives, \A k \in Jobs : Kept(k),
           NEW j \in Jobs, NEW o \in Object, Put(j, o),
           o.deleting => o.finalizer,
           o.exists => /\ o.spec \in Specs[j]
                       /\ Fits(j, o.spec, o.status) \/ Fits(j, o.spec, o.status)',
           o.exists /\ cr[j].exists => o.status = cr[j].status
    PROVE  Lives' /\ LifeStep /\ cr' = [cr EXCEPT ![j] = o]
<1>1. Lives' /\ cr' = [cr EXCEPT ![j] = o]
  BY WriteLives
<1>2. ASSUME NEW k \in Jobs
      PROVE  /\ k = j => cr'[k] = o
             /\ k # j => cr'[k] = cr[k]
  BY <1>1, LifeTypes
<1>3. LifeStep
  BY <1>2 DEF LifeStep, Follows, PhaseOf
<1>4. QED
  BY <1>1, <1>3

\* A new operation leaves the ones before it in place.
LEMMA StartKept ==
    ASSUME NEW kind, NEW p, StartOperation(kind, p), UNCHANGED <<bj, hist>>
    PROVE  /\ \A j : Kept(j)
           /\ \A i, j : i = lastOp' /\ PoolOf(j) = p => Started(i, kind, j)'
<1> DEFINE o == [id |-> lastOp + 1, kind |-> kind, pool |-> p, status |-> "running"]
<1>1. /\ operations' = operations \cup {o} /\ lastOp' = o.id
      /\ o.kind = kind /\ o.pool = p
  BY DEF StartOperation
<1> HIDE DEF o
<1>2. \A j, id, k : Started(id, k, j) => Started(id, k, j)'
  BY <1>1 DEF Started, PoolOf
<1>3. QED
  BY <1>1, <1>2 DEF Kept, Started, PoolOf

\* An operation that ends keeps its number, its kind and its pool.
LEMMA EndKept ==
    ASSUME TypeOK, NEW kind, NEW p, NEW status, EndOperation(kind, p, status),
           UNCHANGED <<bj, hist>>
    PROVE  \A j : Kept(j)
<1>1. PICK o \in operations :
          operations' = (operations \ {o}) \cup {[o EXCEPT !.status = status]}
  BY DEF EndOperation
<1> DEFINE e == [o EXCEPT !.status = status]
<1>2. o \in Operation
  BY DEF TypeOK, GKETypeOK
<1>3. e.id = o.id /\ e.kind = o.kind /\ e.pool = o.pool
  BY <1>2 DEF Operation
<1> HIDE DEF e
<1>4. \A j, id, k : Started(id, k, j) => Started(id, k, j)'
  BY <1>1, <1>3 DEF Started, PoolOf, e
<1>5. QED
  BY <1>4 DEF Kept

\* The worker adds the finalizer.
LEMMA AddFinalizerLife ==
    TypeOK /\ ~CacheLag /\ LifeInv /\ AddFinalizer => LifeKept
<1> SUFFICES ASSUME TypeOK, ~CacheLag, LifeInv, AddFinalizer PROVE LifeKept
  OBVIOUS
<1>1. job \in Jobs /\ Lives /\ LifeOf(job) /\ (\A k : Kept(k)) /\ pc' = "idle"
  BY LifeTypes, LifeParts, WorldKept DEF AddFinalizer, Return, Lives
<1>2. CASE UNCHANGED <<cr, cache>>
  BY <1>1, <1>2, SameLives, KeptLife
<1>3. CASE cr[job].exists /\ Put(job, [cr[job] EXCEPT !.finalizer = TRUE])
  <2> DEFINE o == [cr[job] EXCEPT !.finalizer = TRUE]
  <2>1. /\ o \in Object /\ o.finalizer /\ o.spec = cr[job].spec
        /\ o.status = cr[job].status
    BY <1>1, LifeTypes DEF Object
  <2> HIDE DEF o
  <2>2. Lives' /\ LifeStep
    BY <1>1, <1>3, <2>1, PutStep DEF LifeOf, o
  <2>3. QED
    BY <1>1, <2>2, KeptLife
<1>4. QED
  BY <1>2, <1>3 DEF AddFinalizer

\* The worker removes the finalizer, and the object goes away.
LEMMA RemoveFinalizerLife ==
    TypeOK /\ ~CacheLag /\ LifeInv /\ RemoveFinalizer => LifeKept
<1> SUFFICES ASSUME TypeOK, ~CacheLag, LifeInv, RemoveFinalizer PROVE LifeKept
  OBVIOUS
<1>1. /\ AtWork /\ UNCHANGED World /\ pc' = "idle"
      /\ \/ UNCHANGED <<cr, cache>>
         \/ cr[job].deleting => Put(job, NoObject)
  BY DEF RemoveFinalizer, AtWork, Return
<1>2. cr[job].deleting
  BY <1>1, AtWorkFacts DEF RemoveFinalizer, CallInv
<1>3. CASE UNCHANGED <<cr, cache>>
  BY <1>1, <1>3, WorldKept, ReturnStep
<1>4. CASE Put(job, NoObject)
  <2>1. NoObject \in Object /\ ~NoObject.exists /\ ~NoObject.deleting
    BY EmptyStatusType, EmptySpecType DEF NoObject, Object
  <2>2. Lives' /\ LifeStep
    BY <1>1, <1>4, <2>1, AtWorkFacts, WorldKept, PutStep
  <2>3. QED
    BY <1>1, <2>2, KeptLife
<1>5. QED
  BY <1>1, <1>2, <1>3, <1>4

\* reconcileProvisioning: CreateNodePool.
LEMMA CreateNodePoolLife ==
    TypeOK /\ ~CacheLag /\ LifeInv /\ CreateNodePool => LifeKept
<1> SUFFICES ASSUME TypeOK, ~CacheLag, LifeInv, CreateNodePool PROVE LifeKept
  OBVIOUS
<1> DEFINE Accept == AcceptCreate(PoolOf(job), job, DesiredNodes(spec, obj.nodes))
<1>1. /\ AtWork /\ UNCHANGED <<job, obj, spec, cr, cache, bj, hist>>
      /\ \/ Accept /\ arg' = lastOp' /\ Goto("createOp")
         \/ FailJob /\ (Accept \/ UNCHANGED gkeVars)
  BY DEF CreateNodePool, AtWork, Stay, kubeVars, RejectCreate
<1>2. obj = cr[job].status /\ obj.phase = "Provisioning" /\ obj.provStart
  BY <1>1, AtWorkFacts DEF CreateNodePool, CallInv, PhaseKnown, CallsAt
<1>3. Accept => /\ \A j : Kept(j)
               /\ \A i, j : i = lastOp' /\ j = job => Started(i, "create", j)'
  BY <1>1, StartKept DEF AcceptCreate
<1>4. UNCHANGED gkeVars => \A j : Kept(j)
  BY <1>1, SameKept DEF gkeVars
<1> HIDE DEF Accept
<1>5. CASE FailJob /\ (Accept \/ UNCHANGED gkeVars)
  BY <1>1, <1>2, <1>3, <1>4, <1>5, FailStep DEF Open
<1>6. CASE Accept /\ arg' = lastOp' /\ Goto("createOp")
  <2>1. Lives' /\ LifeStep /\ MemoryInv'
    BY <1>1, <1>2, <1>3, <1>6, CallStep
  <2>2. Started(arg, "create", job)'
    BY <1>1, <1>3, <1>6
  <2>3. CallInv'
    BY <1>1, <1>2, <1>6, <2>2 DEF Goto, CallInv, PhaseKnown, CallsAt
  <2>4. Onward
    BY <1>1, <1>6, <2>1, <2>3, CallLife DEF Goto
  <2>5. QED
    BY <2>1, <2>4, KeptLife
<1>7. QED
  BY <1>1, <1>5, <1>6

\* A call that changes nothing but the worker, which goes on with label.
LEMMA GotoStep ==
    ASSUME TypeOK, LifeInv, AtWork, UNCHANGED <<cr, cache>>, \A j \in Jobs : Kept(j),
           UNCHANGED <<job, obj, spec>>,
           obj = cr[job].status, CallInv', pc' # "setPhase"
    PROVE  LifeKept
  BY CallStep, CallLife, KeptLife

\* reconcileProvisioning: the poll of the creation.
LEMMA PollCreateLife ==
    TypeOK /\ ~CacheLag /\ LifeInv /\ PollCreate => LifeKept
<1> SUFFICES ASSUME TypeOK, ~CacheLag, LifeInv, PollCreate PROVE LifeKept
  OBVIOUS
<1>1. /\ AtWork /\ UNCHANGED <<cr, cache>> /\ UNCHANGED World
      /\ \/ pc' = "idle"
         \/ /\ Goto("count") \/ Goto("cleanup")
            /\ UNCHANGED <<job, obj, spec>>
  BY DEF PollCreate, AtWork, Stay, Return
<1>2. obj = cr[job].status /\ obj.phase = "Provisioning" /\ obj.provStart
  BY <1>1, AtWorkFacts DEF PollCreate, CallInv, PhaseKnown, CallsAt
<1>3. CASE pc' = "idle"
  BY <1>1, <1>3, WorldKept, ReturnStep
<1>4. CASE /\ Goto("count") \/ Goto("cleanup")
           /\ UNCHANGED <<job, obj, spec>>
  <2>1. CallInv' /\ pc' # "setPhase"
    BY <1>2, <1>4 DEF Goto, CallInv, PhaseKnown, CallsAt
  <2>2. QED
    BY <1>1, <1>2, <1>4, <2>1, WorldKept, GotoStep
<1>5. QED
  BY <1>1, <1>3, <1>4

\* reconcileProvisioning: the deletion after a failed creation.
LEMMA CleanUpPoolLife ==
    TypeOK /\ ~CacheLag /\ LifeInv /\ CleanUpPool => LifeKept
<1> SUFFICES ASSUME TypeOK, ~CacheLag, LifeInv, CleanUpPool PROVE LifeKept
  OBVIOUS
<1>1. /\ AtWork /\ UNCHANGED <<job, obj, spec, cr, cache, bj, hist>> /\ FailJob
      /\ AcceptDelete(PoolOf(job)) \/ UNCHANGED gkeVars
  BY DEF CleanUpPool, AtWork, Stay, kubeVars
<1>2. obj = cr[job].status /\ obj.phase = "Provisioning"
  BY <1>1, AtWorkFacts DEF CleanUpPool, CallInv, PhaseKnown, CallsAt
<1>3. \A j : Kept(j)
  BY <1>1, StartKept, SameKept DEF AcceptDelete, gkeVars
<1>4. QED
  BY <1>1, <1>2, <1>3, FailStep DEF Open

\* Server-side apply can make a backend job that is gone pending again.
LEMMA ApplyKept ==
    ASSUME TypeOK, LifeInv, AtWork, UNCHANGED <<cr, cache, operations, hist>>,
           UNCHANGED bj \/ Apply(job, uid[job]),
           obj = cr[job].status, obj.phase \in {"Ready", "Running"}, ~obj.trainStart
    PROVE  Lives' /\ LifeStep
<1>1. ASSUME NEW j \in Jobs, j # job PROVE Kept(j)
  <2>1. bj'[j] = bj[j]
    BY <1>1, AtWorkFacts DEF Apply, TypeOK, BackendTypeOK
  <2>2. QED
    BY <2>1 DEF Kept, Started
<1>2. ASSUME NEW j \in Jobs, j = job PROVE Fits(j, cr[j].spec, cr[j].status)'
  <2>1. ASSUME NEW d, NEW s, Fits(j, d, s), s.phase \in {"Ready", "Running"},
               ~s.trainStart
        PROVE  Fits(j, d, s)'
    <3>1. s.phase \notin Past("Collecting")
      BY <2>1 DEF Past
    <3>2. OperationFits(j, s)' /\ RecordFits(s)' /\ NodesFit(d, s)'
      BY <2>1 DEF Fits, OperationFits, Started, RecordFits, NodesFit
    <3>3. TrainingFits(j, s)'
      BY <2>1, <3>1 DEF Fits, TrainingFits
    <3>4. QED
      BY <3>2, <3>3 DEF Fits
  <2>2. QED
    BY <1>2, <2>1, AtWorkFacts
<1>3. QED
  BY <1>1, <1>2, AtWorkFacts, SameLives

\* reconcileReady: the manifest is applied.
LEMMA ApplyJobLife ==
    TypeOK /\ ~CacheLag /\ LifeInv /\ ApplyJob => LifeKept
<1> SUFFICES ASSUME TypeOK, ~CacheLag, LifeInv, ApplyJob PROVE LifeKept
  OBVIOUS
<1>1. /\ AtWork /\ UNCHANGED <<cr, cache, operations, hist>>
      /\ \/ /\ Apply(job, uid[job]) /\ Goto("jobName")
            /\ UNCHANGED <<job, obj, spec>>
         \/ FailJob /\ UNCHANGED <<job, obj, spec, bj>>
         \/ pc' = "idle" /\ (UNCHANGED bj \/ Apply(job, uid[job]))
  BY DEF ApplyJob, AtWork, Stay, Return, gkeVars
<1>2. obj = cr[job].status /\ obj.phase \in {"Ready", "Running"} /\ ~obj.trainStart
  BY <1>1, AtWorkFacts DEF ApplyJob, CallInv, PhaseKnown
<1>3. Lives' /\ LifeStep
  BY <1>1, <1>2, ApplyKept
<1>4. CASE pc' = "idle"
  BY <1>3, <1>4, KeptLife
<1>5. CASE FailJob /\ UNCHANGED <<job, obj, spec, bj>>
  BY <1>1, <1>2, <1>5, SameKept, FailStep DEF Open
<1>6. CASE Goto("jobName") /\ UNCHANGED <<job, obj, spec>>
  <2>1. MemoryInv'
    BY <1>1, <1>2, <1>6, AtWorkFacts DEF MemoryInv
  <2>2. CallInv'
    BY <1>2, <1>6 DEF Goto, CallInv, PhaseKnown, CallsAt
  <2>3. QED
    BY <1>3, <1>6, <2>1, <2>2, CallLife, KeptLife DEF Goto
<1>7. QED
  BY <1>1, <1>4, <1>5, <1>6

\* What GetPhase reports decides what reconcileRunning ends with.
LEMMA VerdictFacts ==
    \A j : /\ Verdict(BackendPhase(j)) \in {"Running", "Collecting", "Failed"}
           /\ Verdict(BackendPhase(j)) = "Collecting" => bj[j].state = "succeeded"
<1>1. \A phase : /\ Verdict(phase) \in {"Running", "Collecting", "Failed"}
                 /\ Verdict(phase) = "Collecting" => phase = "Succeeded"
  BY DEF Verdict
<1>2. \A j : BackendPhase(j) = "Succeeded" => bj[j].state = "succeeded"
  BY DEF BackendPhase
<1>3. QED
  BY <1>1, <1>2

\* reconcileRunning: the phase of the backend job is read.
LEMMA GetPhaseLife ==
    TypeOK /\ ~CacheLag /\ LifeInv /\ GetPhase => LifeKept
<1> SUFFICES ASSUME TypeOK, ~CacheLag, LifeInv, GetPhase PROVE LifeKept
  OBVIOUS
<1> DEFINE verdict == Verdict(BackendPhase(job))
<1>1. /\ AtWork /\ UNCHANGED <<cr, cache>> /\ UNCHANGED World
      /\ \/ pc' = "idle"
         \/ /\ UNCHANGED <<job, obj, spec>>
            /\ \/ Goto("resetStart") \/ FailJob
               \/ pc' = "getStart" /\ to' = verdict
               \/ verdict # "Running" /\ MoveTo(verdict)
  BY DEF GetPhase, AtWork, Stay, Return
<1>2. obj = cr[job].status /\ obj.phase = "Running"
  BY <1>1, AtWorkFacts DEF GetPhase, CallInv, PhaseKnown, CallsAt
<1>3. /\ verdict \in {"Running", "Collecting", "Failed"}
      /\ verdict = "Collecting" => bj[job].state = "succeeded"
  BY VerdictFacts
<1> HIDE DEF verdict
<1>4. CASE pc' = "idle"
  BY <1>1, <1>4, WorldKept, ReturnStep
<1>5. CASE FailJob /\ UNCHANGED <<job, obj, spec>>
  BY <1>1, <1>2, <1>5, WorldKept, FailStep DEF Open
<1>6. CASE Goto("resetStart") /\ UNCHANGED <<job, obj, spec>>
  <2>1. CallInv' /\ pc' # "setPhase"
    BY <1>2, <1>6 DEF Goto, CallInv, PhaseKnown, CallsAt
  <2>2. QED
    BY <1>1, <1>2, <1>6, <2>1, WorldKept, GotoStep
<1>7. CASE pc' = "getStart" /\ to' = verdict /\ UNCHANGED <<job, obj, spec>>
  <2>1. CallInv' /\ pc' # "setPhase"
    BY <1>1, <1>2, <1>3, <1>7 DEF CallInv, PhaseKnown, CallsAt, World
  <2>2. QED
    BY <1>1, <1>2, <1>7, <2>1, WorldKept, GotoStep
<1>8. CASE verdict # "Running" /\ MoveTo(verdict) /\ UNCHANGED <<job, obj, spec>>
  <2>1. Lives' /\ LifeStep /\ MemoryInv'
    BY <1>1, <1>2, <1>8, WorldKept, CallStep
  <2>2. /\ Fits(job, cr[job].spec, [cr[job].status EXCEPT !.phase = verdict])
        /\ Follows(verdict, cr[job].status.phase)
    BY <1>1, <1>2, <1>3, <1>8, AtWorkFacts, VerdictFits
  <2>3. Onward
    BY <1>1, <1>8, <2>1, <2>2, WorldKept, MoveLife
  <2>4. QED
    BY <2>1, <2>3, KeptLife
<1>9. QED
  BY <1>1, <1>4, <1>5, <1>6, <1>7, <1>8

\* reconcileRunning: the start time of the backend job is read.
LEMMA GetStartTimeLife ==
    TypeOK /\ ~CacheLag /\ LifeInv /\ GetStartTime => LifeKept
<1> SUFFICES ASSUME TypeOK, ~CacheLag, LifeInv, GetStartTime PROVE LifeKept
  OBVIOUS
<1>1. /\ AtWork /\ UNCHANGED <<cr, cache>> /\ UNCHANGED World
      /\ \/ pc' = "idle"
         \/ /\ UNCHANGED <<job, obj, spec>>
            /\ \/ StartTimeKnown(job, spec.backend) /\ pc' = "trainStart" /\ to' = to
               \/ to # "Running" /\ MoveTo(to)
  BY DEF GetStartTime, AtWork, Stay, Return
<1>2. /\ obj = cr[job].status /\ obj.phase = "Running"
      /\ to \in {"Running", "Collecting", "Failed"}
      /\ to = "Collecting" => bj[job].state \in {"succeeded", "none"}
  BY <1>1, AtWorkFacts DEF GetStartTime, CallInv, PhaseKnown, CallsAt
<1>3. CASE pc' = "idle"
  BY <1>1, <1>3, WorldKept, ReturnStep
<1>4. CASE /\ StartTimeKnown(job, spec.backend) /\ pc' = "trainStart" /\ to' = to
           /\ UNCHANGED <<job, obj, spec>>
  <2>1. NeverSpark(job) => bj[job].state # "pending"
    BY <1>1, <1>4, AtWorkFacts DEF MemoryInv, NeverSpark, StartTimeKnown
  <2>2. CallInv' /\ pc' # "setPhase"
    BY <1>1, <1>2, <1>4, <2>1 DEF CallInv, PhaseKnown, CallsAt, World, NeverSpark
  <2>3. QED
    BY <1>1, <1>2, <1>4, <2>2, WorldKept, GotoStep
<1>5. CASE to # "Running" /\ MoveTo(to) /\ UNCHANGED <<job, obj, spec>>
  <2>1. Lives' /\ LifeStep /\ MemoryInv'
    BY <1>1, <1>2, <1>5, WorldKept, CallStep
  <2>2. /\ Fits(job, cr[job].spec, [cr[job].status EXCEPT !.phase = to])
        /\ Follows(to, cr[job].status.phase)
    BY <1>1, <1>2, <1>5, AtWorkFacts, VerdictFits
  <2>3. Onward
    BY <1>1, <1>5, <2>1, <2>2, WorldKept, MoveLife
  <2>4. QED
    BY <2>1, <2>3, KeptLife
<1>6. QED
  BY <1>1, <1>3, <1>4, <1>5

\* reconcileCollecting: DeleteNodePool.
LEMMA ReleasePoolLife ==
    TypeOK /\ ~CacheLag /\ LifeInv /\ ReleasePool => LifeKept
<1> SUFFICES ASSUME TypeOK, ~CacheLag, LifeInv, ReleasePool PROVE LifeKept
  OBVIOUS
<1>1. /\ AtWork /\ UNCHANGED <<job, obj, spec, cr, cache, bj, hist>>
      /\ \/ /\ AcceptDelete(PoolOf(job))
            /\ arg' = lastOp' /\ Goto("releaseOp")
         \/ UNCHANGED gkeVars /\ Goto("history")
  BY DEF ReleasePool, AtWork, Stay, kubeVars
<1>2. obj = cr[job].status /\ obj.phase = "Collecting"
  BY <1>1, AtWorkFacts DEF ReleasePool, CallInv, PhaseKnown, CallsAt
<1>3. CASE AcceptDelete(PoolOf(job)) /\ arg' = lastOp' /\ Goto("releaseOp")
  <2>1. /\ \A j : Kept(j)
        /\ \A i, j : i = lastOp' /\ j = job => Started(i, "delete", j)'
    BY <1>1, <1>3, StartKept DEF AcceptDelete
  <2>2. Started(arg, "delete", job)'
    BY <1>1, <1>3, <2>1
  <2>3. CallInv' /\ pc' # "setPhase"
    BY <1>1, <1>2, <1>3, <2>2 DEF Goto, CallInv, PhaseKnown, CallsAt
  <2>4. QED
    BY <1>1, <1>2, <2>1, <2>3, GotoStep
<1>4. CASE UNCHANGED gkeVars /\ Goto("history")
  <2>1. \A j : Kept(j)
    BY <1>1, <1>4, SameKept DEF gkeVars
  <2>2. CallInv' /\ pc' # "setPhase"
    BY <1>1, <1>2, <1>4 DEF Goto, CallInv, PhaseKnown, CallsAt
  <2>3. QED
    BY <1>1, <1>2, <2>1, <2>2, GotoStep
<1>5. QED
  BY <1>1, <1>3, <1>4

\* reconcileCollecting: the results, the cost and the history entry.
LEMMA CollectResultsLife ==
    TypeOK /\ ~CacheLag /\ LifeInv /\ CollectResults => LifeKept
<1> SUFFICES ASSUME TypeOK, ~CacheLag, LifeInv, CollectResults PROVE LifeKept
  OBVIOUS
<1>1. /\ AtWork /\ UNCHANGED <<job, obj, spec, cr, cache, bj, operations>>
      /\ Goto("results")
      /\ UNCHANGED hist \/ \E w : hist' = [hist EXCEPT ![job] = w]
  BY DEF CollectResults, AtWork, Stay, kubeVars, gkeVars
<1>2. obj.phase = "Collecting" /\ cr[job].status.phase = "Collecting"
  BY <1>1, AtWorkFacts DEF CollectResults, CallInv, PhaseKnown, CallsAt, PhaseOf
<1>3. ASSUME NEW j \in Jobs, j # job PROVE Kept(j)
  <2>1. hist'[j] = hist[j]
    BY <1>1, <1>3, AtWorkFacts DEF TypeOK
  <2>2. QED
    BY <1>1, <2>1 DEF Kept, Started
<1>4. ASSUME NEW j \in Jobs, j = job PROVE Fits(j, cr[j].spec, cr[j].status)'
  <2>1. ASSUME NEW d, NEW s, Fits(j, d, s), s.phase = "Collecting"
        PROVE  Fits(j, d, s)'
    <3>1. OperationFits(j, s)' /\ RecordFits(s)' /\ NodesFit(d, s)'
      BY <1>1, <2>1 DEF Fits, OperationFits, Started, RecordFits, NodesFit
    <3>2. TrainingFits(j, s)'
      BY <1>1, <2>1 DEF Fits, TrainingFits, Past
    <3>3. QED
      BY <3>1, <3>2 DEF Fits
  <2>2. QED
    BY <1>1, <1>2, <1>4, <2>1, AtWorkFacts
<1>5. Lives' /\ LifeStep
  BY <1>1, <1>3, <1>4, AtWorkFacts, SameLives
<1>6. MemoryInv'
  BY <1>1, AtWorkFacts DEF MemoryInv, Goto
<1>7. CallInv' /\ pc' # "setPhase"
  BY <1>1, <1>2 DEF Goto, CallInv, PhaseKnown, CallsAt
<1>8. QED
  BY <1>1, <1>5, <1>6, <1>7, CallLife, KeptLife

\* reconcileSucceeded: the poll of the deletion.
LEMMA PollDeleteLife ==
    TypeOK /\ ~CacheLag /\ LifeInv /\ PollDelete => LifeKept
<1> SUFFICES ASSUME TypeOK, ~CacheLag, LifeInv, PollDelete PROVE LifeKept
  OBVIOUS
<1>1. /\ AtWork /\ UNCHANGED <<cr, cache>> /\ UNCHANGED World
      /\ pc' = "idle" \/ (Goto("clearOp") /\ UNCHANGED <<job, obj, spec>>)
  BY DEF PollDelete, AtWork, Stay, Return
<1>2. obj = cr[job].status /\ obj.phase = "Succeeded"
  BY <1>1, AtWorkFacts DEF PollDelete, CallInv, PhaseKnown, CallsAt
<1>3. CASE pc' = "idle"
  BY <1>1, <1>3, WorldKept, ReturnStep
<1>4. CASE Goto("clearOp") /\ UNCHANGED <<job, obj, spec>>
  <2>1. CallInv' /\ pc' # "setPhase"
    BY <1>2, <1>4 DEF Goto, CallInv, PhaseKnown, CallsAt
  <2>2. QED
    BY <1>1, <1>2, <1>4, <2>1, WorldKept, GotoStep
<1>5. QED
  BY <1>1, <1>3, <1>4

\* reconcileDelete: DeleteNodePool.
LEMMA DeletePoolLife ==
    TypeOK /\ ~CacheLag /\ LifeInv /\ DeletePool => LifeKept
<1> SUFFICES ASSUME TypeOK, ~CacheLag, LifeInv, DeletePool PROVE LifeKept
  OBVIOUS
<1>1. /\ AtWork /\ UNCHANGED <<cr, cache, bj, hist>>
      /\ AcceptDelete(PoolOf(job)) \/ UNCHANGED gkeVars
      /\ pc' = "idle" \/ (Goto("removeFinalizer") /\ UNCHANGED <<job, obj, spec>>)
  BY DEF DeletePool, AtWork, Stay, Return
<1>2. obj = cr[job].status /\ cr[job].deleting
  BY <1>1, AtWorkFacts DEF DeletePool, CallInv
<1>3. \A j : Kept(j)
  BY <1>1, StartKept, SameKept DEF AcceptDelete, gkeVars
<1>4. CASE pc' = "idle"
  BY <1>1, <1>3, <1>4, ReturnStep
<1>5. CASE Goto("removeFinalizer") /\ UNCHANGED <<job, obj, spec>>
  <2>1. CallInv' /\ pc' # "setPhase"
    BY <1>1, <1>2, <1>5 DEF Goto, CallInv, PhaseKnown, CallsAt
  <2>2. QED
    BY <1>1, <1>2, <1>3, <1>5, <2>1, GotoStep
<1>6. QED
  BY <1>1, <1>4, <1>5

-----------------------------------------------------------------------------
(***************************************************************************)
(* A reconcile begins.                                                     *)
(***************************************************************************)
\* The phase handler that is entered knows what its first call relies on.
LEMMA EnterLife ==
    ASSUME EnterPhase(spec', obj'), NEW j, job' = j, MemoryInv', Kept(j),
           NEW d, NEW s \in Status, cr'[j].spec = d, cr'[j].status = s,
           obj' = s, ~SpecEdits => spec' = d, Fits(j, d, s)
    PROVE  Onward
<1>1. s.phase # "Pending"
  BY DEF Fits, RecordFits
<1>2. CASE s.phase = "" /\ EnterPending(spec', obj')
  <2>1. CASE FailJob
    BY <1>2, <2>1, FailLife DEF Open
  <2>2. CASE Goto("startTime")
    <3>1. CallInv' /\ pc' # "setPhase"
      BY <1>2, <2>2 DEF Goto, CallInv, PhaseKnown, CallsAt
    <3>2. QED
      BY <3>1, CallLife
  <2>3. CASE s.start /\ EnterSolver(spec', obj')
    BY <1>2, <2>3, SolverLife
  <2>4. QED
    BY <1>2, <2>1, <2>2, <2>3 DEF EnterPending
<1>3. CASE s.phase = "Provisioning" /\ EnterProvisioning(spec', obj')
  <2>1. CASE FailJob
    BY <1>3, <2>1, FailLife DEF Open
  <2>2. CASE Goto("provStart")
    <3>1. CallInv' /\ pc' # "setPhase"
      BY <1>3, <2>2 DEF Goto, CallInv, PhaseKnown, CallsAt
    <3>2. QED
      BY <3>1, CallLife
  <2>3. CASE s.provStart /\ EnterOperation(obj')
    BY <1>3, <2>3, OperationLife
  <2>4. QED
    BY <1>3, <2>1, <2>2, <2>3 DEF EnterProvisioning
<1>4. CASE s.phase = "Ready" /\ EnterBackend(spec', "apply")
  <2>1. ~s.trainStart
    BY <1>4 DEF Fits, TrainingFits
  <2>2. QED
    BY <1>4, <2>1, ApplyLife
<1>5. CASE s.phase = "Running" /\ EnterBackend(spec', "getPhase")
  <2>1. CASE FailJob
    BY <1>5, <2>1, FailLife DEF Open
  <2>2. CASE Goto("getPhase")
    <3>1. CallInv' /\ pc' # "setPhase"
      BY <1>5, <2>2 DEF Goto, CallInv, PhaseKnown, CallsAt
    <3>2. QED
      BY <3>1, CallLife
  <2>3. QED
    BY <1>5, <2>1, <2>2 DEF EnterBackend
<1>6. CASE s.phase = "Collecting" /\ Goto("release")
  <2>1. CallInv' /\ pc' # "setPhase"
    BY <1>6 DEF Goto, CallInv, PhaseKnown, CallsAt
  <2>2. QED
    BY <2>1, CallLife
<1>7. CASE s.phase = "Succeeded" /\ Goto("pollDelete")
  <2>1. CallInv' /\ pc' # "setPhase"
    BY <1>7 DEF Goto, CallInv, PhaseKnown, CallsAt
  <2>2. QED
    BY <2>1, CallLife
<1>8. QED
  BY <1>1, <1>2, <1>3, <1>4, <1>5, <1>6, <1>7 DEF EnterPhase

\* A reconcile begins with what the informer holds, which is what the server holds.
LEMMA ReconcileLife ==
    ASSUME TypeOK, ~CacheLag, LifeInv, NEW j \in Jobs, Reconcile(j)
    PROVE  LifeKept
<1> DEFINE o == cache[j]
<1>1. /\ UNCHANGED <<cr, cache>> /\ UNCHANGED World /\ ~NothingToDo(o)
      /\ job' = j /\ obj' = o.status /\ spec' = o.spec
      /\ \/ o.deleting /\ EnterDelete(o.status.phase)
         \/ ~o.deleting /\ ~o.finalizer /\ Goto("addFinalizer")
         \/ ~o.deleting /\ o.finalizer /\ EnterPhase(o.spec, o.status)
  BY DEF Reconcile, Take
<1>2. Lives /\ LifeOf(j) /\ o = cr[j] /\ o.exists /\ Kept(j)
  BY <1>1, LifeParts, WorldKept DEF Lives, LifeOf, NothingToDo
<1>3. Lives' /\ LifeStep
  BY <1>1, <1>2, WorldKept, SameLives
<1>4. /\ cr[j].status \in Status /\ cr[j].spec \in Specs[j]
      /\ Fits(j, cr[j].spec, cr[j].status)
  BY <1>2, LifeTypes DEF LifeOf
<1>5. o.finalizer => MemoryInv'
  <2>1. obj' = [cr'[j].status EXCEPT !.op = obj'.op, !.trainStart = obj'.trainStart]
    BY <1>1, <1>2, <1>4 DEF Status
  <2>2. QED
    BY <1>1, <1>2, <1>4, <2>1 DEF MemoryInv
<1>6. CASE Goto("addFinalizer")
  BY <1>3, <1>6, KeptLife DEF Goto
<1>7. CASE o.deleting /\ EnterDelete(o.status.phase)
  <2>1. o.finalizer
    BY <1>2, <1>7 DEF LifeOf
  <2>2. CallInv' /\ pc' # "setPhase"
    BY <1>1, <1>2, <1>7 DEF EnterDelete, Goto, CallInv, PhaseKnown, CallsAt
  <2>3. QED
    BY <1>3, <1>5, <2>1, <2>2, CallLife, KeptLife
<1>8. CASE o.finalizer /\ EnterPhase(o.spec, o.status)
  <2>1. EnterPhase(spec', obj')
    BY <1>1, <1>8
  <2>2. Onward
    BY <1>1, <1>2, <1>4, <1>5, <1>8, <2>1, EnterLife
  <2>3. QED
    BY <1>3, <2>2, KeptLife
<1>9. QED
  BY <1>1, <1>6, <1>7, <1>8

-----------------------------------------------------------------------------
(***************************************************************************)
(* The actors around the operator.                                         *)
(***************************************************************************)
\* A step that leaves worker and objects alone, and what is around them fitting.
LEMMA BesideLife ==
    ASSUME TypeOK, LifeInv, UNCHANGED workerVars, UNCHANGED <<cr, cache>>,
           \A j \in Jobs : Kept(j)
    PROVE  LifeKept
<1>1. Lives' /\ LifeStep
  BY LifeParts, SameLives
<1>2. AtWork => MemoryInv
  BY LifeParts DEF WorkerLife
<1>3. WorkerLife'
  BY <1>2, LifeParts, BystanderLife DEF MemoryInv
<1>4. QED
  BY <1>1, <1>3 DEF LifeKept, LifeInv, Lives, WorkerLife

\* A name is taken from the queue and there is nothing to do.
LEMMA DiscardLife ==
    ASSUME TypeOK, LifeInv, NEW j \in Jobs, Discard(j)
    PROVE  LifeKept
  BY WorldKept, BesideLife DEF Discard, Take

\* The process dies; the next one lists the objects first.
LEMMA CrashLife ==
    ASSUME TypeOK, LifeInv, Crash
    PROVE  LifeKept
<1>1. Lives /\ UNCHANGED cr /\ cache' = cr /\ UNCHANGED World /\ pc' = "idle"
  BY LifeParts DEF Crash
<1>2. cache = cr
  BY <1>1, LifeTypes DEF Lives, LifeOf
<1>3. QED
  BY <1>1, <1>2, WorldKept, SameLives, KeptLife

\* A user's write to another object, or one that the worker may bear.
LEMMA UserLife ==
    ASSUME TypeOK, ~CacheLag, LifeInv, UNCHANGED workerVars,
           \A k \in Jobs : Kept(k), NEW j \in Jobs, NEW o \in Object, Put(j, o),
           o.deleting => o.finalizer,
           o.exists => /\ o.spec \in Specs[j]
                       /\ Fits(j, o.spec, o.status) \/ Fits(j, o.spec, o.status)',
           o.exists /\ cr[j].exists => o.status = cr[j].status,
           cr[j].exists /\ cr[j].finalizer =>
               /\ o.exists /\ o.finalizer
               /\ cr[j].deleting => o.deleting
               /\ ~SpecEdits => o.spec = cr[j].spec
    PROVE  LifeKept
<1>1. Lives' /\ LifeStep /\ cr' = [cr EXCEPT ![j] = o]
  BY LifeParts, PutStep
<1>2. ASSUME AtWork
      PROVE  /\ cr'[job].exists /\ cr'[job].finalizer
             /\ cr'[job].status = cr[job].status
             /\ cr[job].deleting => cr'[job].deleting
             /\ ~SpecEdits => cr'[job].spec = cr[job].spec
  <2>1. cr[job].exists /\ cr[job].finalizer /\ job \in Jobs
    BY <1>2, AtWorkFacts DEF MemoryInv
  <2>2. cr'[job] = IF job = j THEN o ELSE cr[job]
    BY <1>1, <2>1, LifeTypes
  <2>3. QED
    BY <2>1, <2>2
<1>3. WorkerLife'
  BY <1>2, LifeParts, BystanderLife
<1>4. QED
  BY <1>1, <1>3 DEF LifeKept, LifeInv, Lives, WorkerLife

\* An object is created, again perhaps.
LEMMA UserCreateLife ==
    ASSUME TypeOK, ~CacheLag, LifeInv, NEW j \in Jobs, UserCreate(j)
    PROVE  LifeKept
<1>1. PICK s \in Specs[j] : Put(j, [NoObject EXCEPT !.exists = TRUE, !.spec = s])
  BY DEF UserCreate, CreateObject
<1> DEFINE o == [NoObject EXCEPT !.exists = TRUE, !.spec = s]
<1>2. /\ ~cr[j].exists /\ UNCHANGED workerVars /\ UNCHANGED <<operations, bj>>
      /\ hist' = [hist EXCEPT ![j] = [entries |-> 0, priced |-> 0]]
  BY DEF UserCreate, CreateObject, gkeVars
<1>3. s \in JobSpecType
  BY SpecAssumption
<1>4. /\ o \in Object /\ o.exists /\ ~o.deleting /\ o.spec = s /\ o.status = EmptyStatus
  BY <1>3, EmptyStatusType, EmptySpecType DEF NoObject, Object
<1> HIDE DEF o
<1>5. \A k \in Jobs : hist'[k] = hist[k] \/ hist'[k].entries = 0
  BY <1>2 DEF TypeOK
<1>6. \A k \in Jobs : Kept(k)
  BY <1>2, <1>5 DEF Kept, Started
<1>7. hist'[j].entries = 0
  BY <1>2 DEF TypeOK
<1>8. Fits(j, o.spec, o.status)'
  <2> DEFINE e == EmptyStatus
  <2>1. e.phase = "" /\ e.op = 0 /\ e.nodes = 0 /\ ~e.trainStart
    BY DEF EmptyStatus
  <2> HIDE DEF e
  <2>2. OperationFits(j, e)' /\ RecordFits(e)' /\ NodesFit(o.spec, e)'
    BY <2>1 DEF OperationFits, RecordFits, NodesFit, Past
  <2>3. ~(hist'[j].entries > 0) /\ e.phase \notin Past("Collecting")
    <3>1. ~(hist'[j].entries > 0)
      BY <1>7
    <3>2. e.phase \notin Past("Collecting")
      BY <2>1 DEF Past
    <3>3. QED
      BY <3>1, <3>2
  <2>4. TrainingFits(j, e)'
    BY <2>1, <2>3, Zenon DEF TrainingFits
  <2>5. Fits(j, o.spec, e)'
    BY <2>2, <2>4 DEF Fits
  <2>6. QED
    BY <1>4, <2>5 DEF e
<1>9. QED
  BY <1>1, <1>2, <1>4, <1>6, <1>8, UserLife DEF o

\* A spec is edited.
LEMMA UserEditLife ==
    ASSUME TypeOK, ~CacheLag, LifeInv, NEW j \in Jobs, UserEdit(j)
    PROVE  LifeKept
<1>1. PICK s \in Specs[j] : Put(j, [cr[j] EXCEPT !.spec = s])
  BY DEF UserEdit, EditObject
<1> DEFINE o == [cr[j] EXCEPT !.spec = s]
<1>2. /\ SpecEdits /\ cr[j].exists /\ UNCHANGED workerVars
      /\ UNCHANGED <<operations, bj, hist>>
  BY DEF UserEdit, EditObject, gkeVars, Operator
<1>3. LifeOf(j) /\ cr[j] \in Object /\ s \in JobSpecType
  BY LifeParts, LifeTypes, SpecAssumption DEF Lives
<1>4. /\ o \in Object /\ o.exists /\ o.deleting = cr[j].deleting
      /\ o.finalizer = cr[j].finalizer /\ o.spec = s /\ o.status = cr[j].status
  BY <1>2, <1>3 DEF Object
<1> HIDE DEF o
<1>5. Fits(j, o.spec, o.status)
  BY <1>2, <1>3, <1>4 DEF LifeOf, Fits, NodesFit
<1>6. QED
  BY <1>1, <1>2, <1>3, <1>4, <1>5, SameKept, UserLife DEF LifeOf, o

\* An object is deleted, or marked for deletion.
LEMMA UserDeleteLife ==
    ASSUME TypeOK, ~CacheLag, LifeInv, NEW j \in Jobs, UserDelete(j)
    PROVE  LifeKept
<1> DEFINE m == [cr[j] EXCEPT !.deleting = TRUE]
<1>1. /\ cr[j].exists /\ Put(j, IF cr[j].finalizer THEN m ELSE NoObject)
      /\ UNCHANGED workerVars /\ UNCHANGED <<operations, bj, hist>>
  BY DEF UserDelete, DeleteObject, gkeVars, Operator
<1>2. LifeOf(j) /\ cr[j] \in Object
  BY LifeParts, LifeTypes DEF Lives
<1>3. /\ m \in Object /\ m.exists = cr[j].exists /\ m.deleting
      /\ m.finalizer = cr[j].finalizer /\ m.spec = cr[j].spec /\ m.status = cr[j].status
  BY <1>2 DEF Object
<1>4. /\ NoObject \in Object /\ ~NoObject.exists /\ ~NoObject.deleting
  BY EmptyStatusType, EmptySpecType DEF NoObject, Object
<1> HIDE DEF m
<1>5. CASE cr[j].finalizer
  BY <1>1, <1>2, <1>3, <1>5, SameKept, UserLife DEF LifeOf
<1>6. CASE ~cr[j].finalizer
  BY <1>1, <1>2, <1>4, <1>6, SameKept, UserLife
<1>7. QED
  BY <1>5, <1>6

\* The cloud ends an operation.
LEMMA CloudLife ==
    ASSUME TypeOK, LifeInv, NEW p \in Pools, CloudCreates(p) \/ CloudDeletes(p)
    PROVE  LifeKept
<1>1. /\ UNCHANGED <<cr, cache, bj, hist>> /\ UNCHANGED workerVars
      /\ \E kind, status : EndOperation(kind, p, status)
  BY DEF CloudCreates, CloudDeletes, FinishCreate, FailCreate, FinishDelete, FailDelete,
         Operator, kubeVars
<1>2. \A j : Kept(j)
  BY <1>1, EndKept
<1>3. QED
  BY <1>1, <1>2, BesideLife

\* Nodes join and leave.
LEMMA NodeLife ==
    ASSUME TypeOK, LifeInv, NEW p \in Pools, NodeJoins(p) \/ NodeLeaves(p)
    PROVE  LifeKept
  BY SameKept, BesideLife
     DEF NodeJoins, NodeLeaves, NodeReady, NodeLost, Operator, kubeVars

\* The backend job starts, ends or goes away: none of this makes it pending, and one
\* that has succeeded stays so until it is gone.
LEMMA BackendLife ==
    ASSUME TypeOK, LifeInv, NEW j \in Jobs,
           \/ TrainingStarts(j) \/ TrainingEnds(j) \/ CollectGarbage(j)
           \/ UserDeletesBackendJob(j)
    PROVE  LifeKept
<1>1. /\ UNCHANGED <<cr, cache, hist, operations>> /\ UNCHANGED workerVars
      /\ BackendStart(j) \/ BackendFinish(j) \/ BackendVanish(j)
  BY DEF TrainingStarts, TrainingEnds, CollectGarbage, UserDeletesBackendJob, Operator,
         kubeVars, gkeVars
<1>2. bj \in [Jobs -> BackendJob]
  BY DEF TypeOK, BackendTypeOK
<1>3. ASSUME NEW k \in Jobs
      PROVE  /\ bj'[k].state = "pending" => bj[k].state = "pending"
             /\ bj[k].state \in {"succeeded", "none"}
                  => bj'[k].state \in {"succeeded", "none"}
  BY <1>1, <1>2 DEF BackendStart, BackendFinish, BackendVanish, NoBackendJob, BackendJob
<1>4. \A k \in Jobs : Kept(k)
  BY <1>1, <1>3 DEF Kept, Started
<1>5. QED
  BY <1>1, <1>4, BesideLife

-----------------------------------------------------------------------------
\* Before anything has happened there is no object.
LEMMA InitLife == ASSUME Init PROVE LifeInv
<1>1. \A j \in Jobs : cr[j] = NoObject /\ cache[j] = cr[j]
  BY DEF Init, KubeInit
<1>2. ~NoObject.exists /\ ~NoObject.deleting
  BY DEF NoObject
<1>3. \A j \in Jobs : LifeOf(j)
  BY <1>1, <1>2 DEF LifeOf
<1>4. ~AtWork /\ pc # "setPhase"
  BY DEF Init, AtWork
<1>5. QED
  BY <1>3, <1>4 DEF LifeInv

\* Every call of the worker.
LEMMA HandlerLife == TypeOK /\ ~CacheLag /\ LifeInv /\ Handler => LifeKept
  BY AddFinalizerLife, SetPhaseLife, SetStartTimeLife, SolveLife,
     SetProvisioningStartTimeLife, CreateNodePoolLife, StoreCreateOperationLife,
     PollCreateLife, CleanUpPoolLife, CountReadyNodesLife, ApplyJobLife,
     SetJobNameLife, GetPhaseLife, ResetTrainingStartLife, GetStartTimeLife,
     SetTrainingStartLife, ReleasePoolLife, StoreDeleteOperationLife,
     CollectResultsLife, SetResultsLife, PollDeleteLife, ClearOperationLife,
     DeletePoolLife, RemoveFinalizerLife
     DEF Handler

\* Every step, of the worker or around it.
LEMMA StepLife == TypeOK /\ ~CacheLag /\ LifeInv /\ [Next]_vars => LifeKept
<1> SUFFICES ASSUME TypeOK, ~CacheLag, LifeInv, [Next]_vars PROVE LifeKept
  OBVIOUS
<1>1. CASE Handler
  BY <1>1, HandlerLife
<1>2. CASE \E j \in Jobs : Dequeue(j)
  BY <1>2, DiscardLife, ReconcileLife DEF Dequeue
<1>3. CASE Environment
  <2>1. ASSUME NEW j \in Jobs,
               \/ UserCreate(j) \/ UserEdit(j) \/ UserDelete(j) \/ InformerSync(j)
               \/ TrainingStarts(j) \/ TrainingEnds(j)
               \/ CollectGarbage(j) \/ UserDeletesBackendJob(j)
        PROVE  LifeKept
    <3>1. ~InformerSync(j)
      BY DEF InformerSync
    <3>2. QED
      BY <2>1, <3>1, UserCreateLife, UserEditLife, UserDeleteLife, BackendLife
  <2>2. ASSUME NEW p \in Pools,
               \/ CloudCreates(p) \/ CloudDeletes(p) \/ NodeJoins(p) \/ NodeLeaves(p)
        PROVE  LifeKept
    BY <2>2, CloudLife, NodeLife
  <2>3. QED
    BY <1>3, <2>1, <2>2, CrashLife DEF Environment
<1>4. CASE UNCHANGED vars
  <2>1. UNCHANGED workerVars /\ UNCHANGED <<cr, cache>> /\ UNCHANGED <<operations, bj, hist>>
    BY <1>4 DEF vars, gkeVars, kubeVars
  <2>2. QED
    BY <2>1, SameKept, BesideLife
<1>5. QED
  BY <1>1, <1>2, <1>3, <1>4 DEF Next

(***************************************************************************)
(* With an informer that is up to date, LifeInv holds for every set of     *)
(* jobs, pools and specs, whatever crashes and whichever calls fail: what  *)
(* each phase may rely on (reconcilePending to reconcileSucceeded in       *)
(* phases.go) is there when the phase is entered and when it is retried.   *)
(***************************************************************************)
THEOREM LifeInvariant == ~CacheLag => (Spec => []LifeInv)
<1> SUFFICES ASSUME ~CacheLag PROVE Spec => []LifeInv
  OBVIOUS
<1>1. Init => LifeInv
  BY InitLife
<1>2. TypeOK /\ LifeInv /\ [Next]_vars => LifeInv'
  BY StepLife DEF LifeKept
<1>3. QED
  BY <1>1, <1>2, TypeCorrect, PTL DEF Spec

\* And every step is a LifeStep.
LEMMA LifeSteps == ~CacheLag => (Spec => [][LifeStep]_vars)
<1> SUFFICES ASSUME ~CacheLag PROVE Spec => [][LifeStep]_vars
  OBVIOUS
<1>1. TypeOK /\ LifeInv /\ [Next]_vars => LifeStep
  BY StepLife DEF LifeKept
<1>2. QED
  BY <1>1, LifeInvariant, TypeCorrect, PTL DEF Spec

-----------------------------------------------------------------------------
(***************************************************************************)
(* The operation in status.gkeOperationID is one that GKE has started on   *)
(* the job's own pool: a creation in Provisioning, a deletion after it.    *)
(***************************************************************************)
THEOREM OperationsMatch == ~CacheLag => (Spec => []OperationMatchesPhase)
<1> SUFFICES ASSUME ~CacheLag PROVE Spec => []OperationMatchesPhase
  OBVIOUS
<1>1. LifeInv => OperationMatchesPhase
  BY DEF LifeInv, LifeOf, Fits, OperationFits, Past, Started, OperationMatchesPhase, PhaseOf
<1>2. QED
  BY <1>1, LifeInvariant, PTL

(***************************************************************************)
(* The phases follow one another as phases.go has them, and Succeeded and  *)
(* Failed are final.                                                       *)
(***************************************************************************)
THEOREM PhasesOrdered == ~CacheLag => (Spec => PhasesInOrder)
<1> SUFFICES ASSUME ~CacheLag PROVE Spec => PhasesInOrder
  OBVIOUS
<1> DEFINE InOrder == \A j \in Jobs :
                         cr[j].exists /\ cr'[j].exists =>
                            \/ cr'[j].status.phase = PhaseOf(j)
                            \/ <<PhaseOf(j), cr'[j].status.phase>> \in PhaseSteps
<1>1. LifeStep => InOrder
  BY DEF LifeStep, Follows
<1>2. Spec => [][InOrder]_vars
  BY <1>1, LifeSteps, PTL
<1>3. QED
  BY <1>2 DEF PhasesInOrder

(***************************************************************************)
(* resolvedTopology is written once (reconcilePending, phases.go), however *)
(* often the handler is run again.                                         *)
(***************************************************************************)
THEOREM ResolvedOnlyOnce == ~CacheLag => (Spec => ResolvedOnce)
<1> SUFFICES ASSUME ~CacheLag PROVE Spec => ResolvedOnce
  OBVIOUS
<1> DEFINE Once == \A j \in Jobs :
                      cr[j].exists /\ cr'[j].exists /\ cr[j].status.nodes # 0 =>
                         cr'[j].status.nodes = cr[j].status.nodes
<1>1. LifeStep => Once
  BY DEF LifeStep
<1>2. Spec => [][Once]_vars
  BY <1>1, LifeSteps, PTL
<1>3. QED
  BY <1>2 DEF ResolvedOnce

(***************************************************************************)
(* Results are collected of a backend job that ended with success, or that *)
(* somebody deleted since.                                                 *)
(***************************************************************************)
THEOREM CollectedSucceeded == ~CacheLag => (Spec => []CollectsOnlySuccess)
<1> SUFFICES ASSUME ~CacheLag PROVE Spec => []CollectsOnlySuccess
  OBVIOUS
<1>1. LifeInv => CollectsOnlySuccess
  BY DEF LifeInv, LifeOf, Fits, TrainingFits, Past, CollectsOnlySuccess, PhaseOf
<1>2. QED
  BY <1>1, LifeInvariant, PTL

(***************************************************************************)
(* Only a job past its training has history entries (writeHistoryEntry is  *)
(* called in reconcileCollecting), and such a job never fails.             *)
(***************************************************************************)
THEOREM HistorySucceeded == ~CacheLag => (Spec => []HistoryOnlyOfSuccess)
<1> SUFFICES ASSUME ~CacheLag PROVE Spec => []HistoryOnlyOfSuccess
  OBVIOUS
<1>1. LifeInv => HistoryOnlyOfSuccess
  BY DEF LifeInv, LifeOf, Fits, TrainingFits, Past, HistoryOnlyOfSuccess, PhaseOf
<1>2. QED
  BY <1>1, LifeInvariant, PTL

(***************************************************************************)
(* A start time is that of the PyTorchJob which is there, also after it    *)
(* was recreated: reconcileRunning has forgotten the one of the job before.*)
(***************************************************************************)
THEOREM StartIsOfThisRun == ~CacheLag => (Spec => []StartBelongsToThisRun)
<1> SUFFICES ASSUME ~CacheLag PROVE Spec => []StartBelongsToThisRun
  OBVIOUS
<1>1. ASSUME NEW j \in Jobs, NEW s \in Specs[j], s.backend = "pytorch"
      PROVE  NeverSpark(j)
  BY <1>1, SpecAssumption DEF NeverSpark
<1>2. LifeInv => StartBelongsToThisRun
  BY <1>1 DEF LifeInv, LifeOf, Fits, TrainingFits, StartBelongsToThisRun
<1>3. QED
  BY <1>2, LifeInvariant, PTL

(***************************************************************************)
(* A Succeeded job has all that the phases before record: no patch between *)
(* them can be skipped by a failure.  An edited spec may want what was not *)
(* resolved, so nobody edits it.                                           *)
(***************************************************************************)
THEOREM SucceededComplete ==
    ~CacheLag /\ ~SpecEdits => (Spec => []SucceededIsComplete)
<1> SUFFICES ASSUME ~CacheLag, ~SpecEdits PROVE Spec => []SucceededIsComplete
  OBVIOUS
<1>1. LifeInv => SucceededIsComplete
  BY DEF LifeInv, LifeOf, Fits, RecordFits, NodesFit, Past, SucceededIsComplete
<1>2. QED
  BY <1>1, LifeInvariant, PTL
====
