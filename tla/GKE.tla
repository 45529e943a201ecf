--------------------------------- MODULE GKE ---------------------------------
(***************************************************************************)
(* The node-pool API of Google Kubernetes Engine, seen through the three   *)
(* calls of cloud.Provider (internal/cloud/provider.go, gke/gke.go).       *)
(*                                                                         *)
(* CreateNodePool and DeleteNodePool only start a long-running operation   *)
(* and return its name; the caller polls IsOperationDone.  The calls are   *)
(* operators that the module of the caller conjoins with what it does with *)
(* the reply.  What the cloud does by itself between two calls (finishing  *)
(* or failing an operation, nodes joining and leaving) are the actions at  *)
(* the end.                                                                *)
(***************************************************************************)
EXTENDS JobSpecs

CONSTANT
    MaxOps    \* bound: operations the cloud ever starts

ASSUME MaxOpsAssumption == MaxOps \in Nat

VARIABLES
    pool,        \* pool[p]: the node pool called p
    operations,  \* the long-running operations started so far
    lastOp       \* the id of the youngest one, 0 when there is none

gkeVars == <<pool, operations, lastOp>>

PoolState == {"absent", "creating", "running", "error", "deleting"}

\* The label job-name of an absent pool is the empty set of owners.
NodePool == [state : PoolState, owner : SUBSET Jobs, nodes : Nat, ready : Nat]

OpIds == 1 .. MaxOps

Operation == [id : OpIds, kind : {"create", "delete"}, pool : Pools,
              status : {"running", "done", "failed"}]

NoPool == [state |-> "absent", owner |-> {}, nodes |-> 0, ready |-> 0]

GKETypeOK ==
    /\ pool \in [Pools -> NodePool]
    /\ operations \in SUBSET Operation
    /\ lastOp \in 0 .. MaxOps

GKEInit ==
    /\ pool = [p \in Pools |-> NoPool]
    /\ operations = {}
    /\ lastOp = 0

-----------------------------------------------------------------------------
(***************************************************************************)
(* The three calls.                                                        *)
(***************************************************************************)
StartOperation(kind, p) ==
    /\ lastOp < MaxOps
    /\ lastOp' = lastOp + 1
    /\ operations' = operations \cup
         {[id |-> lastOp + 1, kind |-> kind, pool |-> p, status |-> "running"]}

\* A creation is accepted when no pool of that name is left: the new pool
\* carries the job's labels and the requested number of nodes.
AcceptCreate(p, j, n) ==
    /\ pool[p].state = "absent"
    /\ pool' = [pool EXCEPT ![p] = [state |-> "creating", owner |-> {j},
                                    nodes |-> n, ready |-> 0]]
    /\ StartOperation("create", p)

\* AlreadyExists: GKE knows the name, whatever the state of the pool.
RejectCreate(p) ==
    /\ pool[p].state # "absent"
    /\ UNCHANGED gkeVars

\* Reply to DeleteNodePool: a pool with an operation in flight cannot be
\* deleted, a missing one is NotFound.
DeleteReply(p) ==
    IF pool[p].state = "absent" THEN "NotFound"
    ELSE IF pool[p].state \in {"creating", "deleting"} THEN "FailedPrecondition"
    ELSE "OK"

AcceptDelete(p) ==
    /\ DeleteReply(p) = "OK"
    /\ pool' = [pool EXCEPT ![p].state = "deleting"]
    /\ StartOperation("delete", p)

\* Mutant of OperationReply: op.Error is not looked at.
DoneMeansEnded(id) ==
    IF \E o \in operations : o.id = id /\ o.status # "running" THEN "done"
    ELSE "running"

\* Reply of IsOperationDone: an operation that ended in an error, or is
\* aborting, is an error of the poll (gke.go:117-127).
OperationReply(id) ==
    IF \E o \in operations : o.id = id /\ o.status = "done" THEN "done"
    ELSE IF \E o \in operations : o.id = id /\ o.status = "failed" THEN "error"
    ELSE "running"

-----------------------------------------------------------------------------
(***************************************************************************)
(* What the cloud does by itself.                                          *)
(***************************************************************************)
EndOperation(kind, p, status) ==
    /\ \E o \in operations :
         /\ o.kind = kind /\ o.pool = p /\ o.status = "running"
         /\ operations' = (operations \ {o}) \cup {[o EXCEPT !.status = status]}
    /\ UNCHANGED lastOp

FinishCreate(p) ==
    /\ pool[p].state = "creating"
    /\ EndOperation("create", p, "done")
    /\ pool' = [pool EXCEPT ![p].state = "running"]

\* A creation fails (no quota, no capacity, aborted): the pool stays behind
\* in the ERROR state, or is rolled back.
FailCreate(p) ==
    /\ pool[p].state = "creating"
    /\ EndOperation("create", p, "failed")
    /\ \/ pool' = [pool EXCEPT ![p].state = "error"]
       \/ pool' = [pool EXCEPT ![p] = NoPool]

FinishDelete(p) ==
    /\ pool[p].state = "deleting"
    /\ EndOperation("delete", p, "done")
    /\ pool' = [pool EXCEPT ![p] = NoPool]

\* A deletion that was accepted fails later: the pool is still there.
FailDelete(p) ==
    /\ pool[p].state = "deleting"
    /\ EndOperation("delete", p, "failed")
    /\ pool' = [pool EXCEPT ![p].state = "running"]

\* A node registers and its Ready condition becomes True.
NodeReady(p) ==
    /\ pool[p].state \in {"creating", "running"}
    /\ pool[p].ready < pool[p].nodes
    /\ pool' = [pool EXCEPT ![p].ready = @ + 1]
    /\ UNCHANGED <<operations, lastOp>>

\* A node is preempted or turns NotReady.
NodeLost(p) ==
    /\ pool[p].state = "running"
    /\ pool[p].ready > 0
    /\ pool' = [pool EXCEPT ![p].ready = @ - 1]
    /\ UNCHANGED <<operations, lastOp>>
=============================================================================
