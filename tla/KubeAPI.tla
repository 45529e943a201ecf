------------------------------- MODULE KubeAPI -------------------------------
(***************************************************************************)
(* What the operator sees of the Kubernetes API server: the                *)
(* DistributedTraining objects, the informer cache it reads them from, the *)
(* work queue fed by watch events, and the JSON merge patches by which it  *)
(* writes a status (client.MergeFrom: api/v1/distributedtraining_types.go, *)
(* internal/controller/*.go).                                              *)
(*                                                                         *)
(* A status keeps what decides the control flow or what a property needs:  *)
(* a timestamp or a duration is the BOOLEAN "it is set", a GKE operation   *)
(* name is its number (0 for the empty string), the cost is the number of  *)
(* nodes it was computed with.                                             *)
(***************************************************************************)
EXTENDS JobSpecs

CONSTANTS
    CacheLag,         \* TRUE: the informer cache may be behind the server
    SpecEdits,        \* TRUE: users may edit the spec of an object
    MaxIncarnations   \* bound: how often an object of one name is created

ASSUME CacheLagAssumption == CacheLag \in BOOLEAN
ASSUME SpecEditsAssumption == SpecEdits \in BOOLEAN
ASSUME MaxIncarnationsAssumption == MaxIncarnations \in Nat

VARIABLES
    cr,     \* cr[j]: the object called j on the API server
    cache,  \* cache[j]: the object called j as the operator's informer has it
    queue,  \* the work queue: names waiting for a reconcile
    uid     \* uid[j]: how many objects called j were created so far

kubeVars == <<cr, cache, queue, uid>>

Phase == {"", "Pending", "Provisioning", "Ready", "Running", "Collecting",
          "Succeeded", "Failed"}

NoCost == -1   \* results.estimatedCostUSD is empty

Status == [phase      : Phase,
           start      : BOOLEAN,   \* startTime
           nodes      : Nat,       \* resolvedTopology.nodes, 0 is "unresolved"
           provStart  : BOOLEAN,   \* provisioningStartTime
           op         : Nat,       \* gkeOperationID
           size       : Nat,       \* nodePoolSize
           provTime   : BOOLEAN,   \* results.provisioningTime
           jobName    : BOOLEAN,   \* jobName
           trainStart : BOOLEAN,   \* trainingStartTime
           trainTime  : BOOLEAN,   \* results.trainingTime
           billed     : Int,       \* results.estimatedCostUSD
           finish     : BOOLEAN]   \* finishTime

EmptyStatus ==
    [phase |-> "", start |-> FALSE, nodes |-> 0, provStart |-> FALSE, op |-> 0,
     size |-> 0, provTime |-> FALSE, jobName |-> FALSE, trainStart |-> FALSE,
     trainTime |-> FALSE, billed |-> NoCost, finish |-> FALSE]

Object == [exists : BOOLEAN, deleting : BOOLEAN, finalizer : BOOLEAN,
           spec : JobSpecType, status : Status]

NoObject == [exists |-> FALSE, deleting |-> FALSE, finalizer |-> FALSE,
             spec |-> EmptySpec, status |-> EmptyStatus]

KubeTypeOK ==
    /\ cr \in [Jobs -> Object]
    /\ cache \in [Jobs -> Object]
    /\ queue \in SUBSET Jobs
    /\ uid \in [Jobs -> 0 .. MaxIncarnations]

KubeInit ==
    /\ cr = [j \in Jobs |-> NoObject]
    /\ cache = [j \in Jobs |-> NoObject]
    /\ queue = {}
    /\ uid = [j \in Jobs |-> 0]

-----------------------------------------------------------------------------
(***************************************************************************)
(* The patch MergeFrom(base) -> new carries the fields in which new        *)
(* differs from base; the server writes these over what it holds now.      *)
(***************************************************************************)
Merged(base, new, server) ==
    LET Pick(b, n, s) == IF n = b THEN s ELSE n IN
    [phase      |-> Pick(base.phase, new.phase, server.phase),
     start      |-> Pick(base.start, new.start, server.start),
     nodes      |-> Pick(base.nodes, new.nodes, server.nodes),
     provStart  |-> Pick(base.provStart, new.provStart, server.provStart),
     op         |-> Pick(base.op, new.op, server.op),
     size       |-> Pick(base.size, new.size, server.size),
     provTime   |-> Pick(base.provTime, new.provTime, server.provTime),
     jobName    |-> Pick(base.jobName, new.jobName, server.jobName),
     trainStart |-> Pick(base.trainStart, new.trainStart, server.trainStart),
     trainTime  |-> Pick(base.trainTime, new.trainTime, server.trainTime),
     billed     |-> Pick(base.billed, new.billed, server.billed),
     finish     |-> Pick(base.finish, new.finish, server.finish)]

\* The client decodes the server's answer into the object in memory: a field
\* the answer omits (omitempty) keeps what memory holds.  resolvedTopology.nodes
\* is never omitted.
Decoded(memory, answer) ==
    [phase      |-> IF answer.phase = "" THEN memory.phase ELSE answer.phase,
     start      |-> answer.start \/ memory.start,
     nodes      |-> answer.nodes,
     provStart  |-> answer.provStart \/ memory.provStart,
     op         |-> IF answer.op = 0 THEN memory.op ELSE answer.op,
     size       |-> IF answer.size = 0 THEN memory.size ELSE answer.size,
     provTime   |-> answer.provTime \/ memory.provTime,
     jobName    |-> answer.jobName \/ memory.jobName,
     trainStart |-> answer.trainStart \/ memory.trainStart,
     trainTime  |-> answer.trainTime \/ memory.trainTime,
     billed     |-> IF answer.billed = NoCost THEN memory.billed ELSE answer.billed,
     finish     |-> answer.finish \/ memory.finish]

\* A write to object j.  Without lag the informer has it at once.
Put(j, object) ==
    /\ cr' = [cr EXCEPT ![j] = object]
    /\ cache' = IF CacheLag THEN cache ELSE [cache EXCEPT ![j] = object]

PatchStatus(j, base, new) ==
    Put(j, [cr[j] EXCEPT !.status = Merged(base, new, cr[j].status)])

\* The watch event of a write passes GenerationChangedPredicate when the object
\* appears, is edited, gets its deletion timestamp or disappears; a status or a
\* finalizer patch does not change the generation.
Generation(object) == <<object.exists, object.deleting, object.spec>>

Notify(j) == queue' = IF CacheLag THEN queue ELSE queue \cup {j}

-----------------------------------------------------------------------------
(***************************************************************************)
(* Users, and the informer.                                                *)
(***************************************************************************)
CreateObject(j) ==
    /\ ~cr[j].exists
    /\ uid[j] < MaxIncarnations
    /\ \E spec \in Specs[j] :
         Put(j, [NoObject EXCEPT !.exists = TRUE, !.spec = spec])
    /\ uid' = [uid EXCEPT ![j] = @ + 1]
    /\ Notify(j)

\* kubectl delete: an object with a finalizer is only marked, one without
\* goes away.
DeleteObject(j) ==
    /\ cr[j].exists
    /\ ~cr[j].deleting
    /\ Put(j, IF cr[j].finalizer THEN [cr[j] EXCEPT !.deleting = TRUE] ELSE NoObject)
    /\ Notify(j)
    /\ UNCHANGED uid

\* kubectl edit: no rule of the CRD makes a field of the spec immutable.
EditObject(j) ==
    /\ SpecEdits
    /\ cr[j].exists
    /\ \E spec \in Specs[j] \ {cr[j].spec} :
         Put(j, [cr[j] EXCEPT !.spec = spec])
    /\ Notify(j)
    /\ UNCHANGED uid

\* The informer catches up with the server and enqueues what passes the filter.
SyncCache(j) ==
    /\ cache[j] # cr[j]
    /\ cache' = [cache EXCEPT ![j] = cr[j]]
    /\ queue' = IF Generation(cr[j]) # Generation(cache[j]) THEN queue \cup {j}
                ELSE queue
    /\ UNCHANGED <<cr, uid>>
=============================================================================
