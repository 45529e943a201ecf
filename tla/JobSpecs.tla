------------------------------- MODULE JobSpecs -------------------------------
(***************************************************************************)
(* The specs of the DistributedTraining objects, as far as they steer the  *)
(* operator (api/v1/distributedtraining_types.go), and what the controller *)
(* computes from a spec alone: validation and the name of the node pool.   *)
(***************************************************************************)
EXTENDS NodeCounts

CONSTANTS
    Jobs,      \* names of DistributedTraining objects
    Pools,     \* names of node pools
    PoolName,  \* PoolName[j]: nodePoolName of the object called j
    Specs      \* Specs[j]: the specs users give the object called j

(***************************************************************************)
(* backend    spec.backend                                                 *)
(* complete   the fields the backend and the objective need are there      *)
(* manifestOk the API server accepts the generated manifest                *)
(* objective  spec.objective is set; then the solver picks one of solutions *)
(* nodes      spec.topology.nodes                                          *)
(* onFailure  spec.restartPolicy = OnFailure                               *)
(* priced     the machine type is in the cost ConfigMap                    *)
(***************************************************************************)
JobSpecType ==
    [backend : {"pytorch", "spark", "job"}, complete : BOOLEAN,
     manifestOk : BOOLEAN, objective : BOOLEAN,
     solutions : SUBSET (Nat \ {0}), nodes : Nat,
     onFailure : BOOLEAN, priced : BOOLEAN]

\* What is in memory while no object is being reconciled.
EmptySpec ==
    [backend |-> "pytorch", complete |-> FALSE, manifestOk |-> FALSE,
     objective |-> FALSE, solutions |-> {}, nodes |-> 0,
     onFailure |-> FALSE, priced |-> FALSE]

\* The CRD's validation rule (distributedtraining_types.go:416).
Admitted(spec) == spec.objective \/ spec.nodes >= 1

\* A name stands for one kind of backend job: a PyTorchJob and a
\* SparkApplication of the same object have different names and would live side
\* by side.
ASSUME SpecAssumption ==
    /\ Specs \in [Jobs -> SUBSET JobSpecType]
    /\ \A j \in Jobs : \A s, t \in Specs[j] :
         /\ Admitted(s)
         /\ s.backend = t.backend \/ "job" \in {s.backend, t.backend}
    /\ PoolName \in [Jobs -> Pools]

\* The backends main.go registers; the CRD and validateSpec also accept "job".
Registered == {"pytorch", "spark"}

\* Mutant of PoolOf: the name does not depend on the job.
OnePoolName(j) == CHOOSE p \in Pools : TRUE

\* An edit of spec.hardware.nodePoolName is not modelled.
PoolOf(j) == PoolName[j]

\* A Spark job takes its node count from the topology or from the objective,
\* never from both.
ValidSpec(spec) ==
    /\ spec.complete
    /\ spec.backend = "spark" => (spec.objective <=> spec.nodes = 0)

\* A spec the API server has sent, decoded over the one in memory: an optional
\* field that is missing in the answer keeps its value.
DecodedSpec(memory, answer) ==
    [answer EXCEPT
        !.complete  = @ \/ memory.complete,
        !.objective = @ \/ memory.objective,
        !.solutions = IF answer.objective THEN @ ELSE memory.solutions,
        !.nodes     = IF @ = 0 THEN memory.nodes ELSE @]
=============================================================================
