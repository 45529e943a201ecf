-------------------------- MODULE ReconcilerContract ---------------------------
(***************************************************************************)
(* The control loop implements JobContract: what is in the API server, the *)
(* cloud and the backend, seen as the stages of the jobs.                  *)
(***************************************************************************)
EXTENDS ReconcilerLife

Stage == [j \in Jobs |-> IF cr[j].exists THEN PhaseOf(j) ELSE "none"]

Leaving == [j \in Jobs |-> cr[j].exists /\ cr[j].deleting]

LeaseOf(state) ==
    CASE state = "absent"   -> "none"
      [] state = "creating" -> "ordered"
      [] state = "running"  -> "held"
      [] state = "error"    -> "broken"
      [] state = "deleting" -> "returned"

Lease == [j \in Jobs |-> LeaseOf(pool[PoolOf(j)].state)]

Work == [j \in Jobs |-> bj[j].state]

Contract == INSTANCE JobContract
    WITH stage <- Stage, leaving <- Leaving, lease <- Lease, work <- Work

\* Crashes, lost patches and replies, polls and retries, cut into single calls, are
\* one of the jobs' lives that JobContract allows: each stage is entered with the
\* pool and the backend job it needs, and a pool is given back, and only then.
KeepsJobContract == Contract!Spec
===============================================================================
