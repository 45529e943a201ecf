------------------------------ MODULE JobManifest ------------------------------
(***************************************************************************)
(* The node pool a DistributedTraining asks for and the pods that are to   *)
(* run on it.  Three pieces of code derive them from the same spec without *)
(* a common value: nodePoolConfig and effectiveMachineType                 *)
(* (internal/controller/distributedtraining_controller.go) and the         *)
(* manifests of the backends (internal/backend/pytorch, spark).            *)
(***************************************************************************)
EXTENDS NodeCounts

CONSTANTS
    MachineTypes,   \* GCE machine types
    DefaultCPU,     \* --default-cpu-machine-type
    DefaultGPU,     \* --default-gpu-machine-type
    Unset           \* an optional field that is empty

ASSUME MachineAssumption ==
    {DefaultCPU, DefaultGPU} \subseteq MachineTypes /\ Unset \notin MachineTypes

(***************************************************************************)
(* type      spec.hardware.type                                            *)
(* machine   spec.hardware.machineType                                     *)
(* gpuType   spec.hardware.gpuType is set                                  *)
(* gpuLimit  spec.pytorchSpec.resources.limits names nvidia.com/gpu        *)
(* nodes     spec.topology.nodes                                           *)
(* masters   spec.pytorchSpec.masterReplicas                               *)
(* objective spec.objective is set                                         *)
(* total     the training script reports the number of samples             *)
(***************************************************************************)
Request ==
    [backend : {"pytorch", "spark"}, type : {"cpu", "gpu", Unset},
     machine : MachineTypes \cup {Unset}, gpuType : BOOLEAN,
     gpuLimit : BOOLEAN, nodes : Nat, masters : Nat, objective : BOOLEAN,
     total : BOOLEAN]

-----------------------------------------------------------------------------
(***************************************************************************)
(* The node pool.                                                          *)
(***************************************************************************)
\* Only PyTorch jobs say in their resources that they need a GPU.
InferredHardware(r) == IF r.type = "gpu" \/ r.gpuLimit THEN "gpu" ELSE "cpu"

PoolHardware(r) ==
    IF r.backend = "pytorch" /\ r.type = Unset THEN InferredHardware(r) ELSE r.type

PoolMachine(r) ==
    IF r.machine # Unset THEN r.machine
    ELSE IF PoolHardware(r) = "gpu" THEN DefaultGPU
    ELSE DefaultCPU

\* Mutant of EffectiveMachine: the GPU limit is not looked at.
EffectiveMachineOfType(r) ==
    IF r.machine # Unset THEN r.machine
    ELSE IF r.type = "gpu" THEN DefaultGPU
    ELSE DefaultCPU

\* effectiveMachineType: what the history and the cost are computed for.
EffectiveMachine(r) ==
    IF r.machine # Unset THEN r.machine
    ELSE IF \/ r.type = "gpu"
            \/ r.type = Unset /\ r.backend = "pytorch" /\ r.gpuLimit
         THEN DefaultGPU
         ELSE DefaultCPU

\* GKE puts a taint of its own on the nodes of a pool with accelerators.
PoolTaints(r) ==
    {"reserved-pool"} \cup
        (IF PoolHardware(r) = "gpu" /\ r.gpuType THEN {"nvidia.com/gpu"} ELSE {})

-----------------------------------------------------------------------------
(***************************************************************************)
(* The pods.                                                               *)
(***************************************************************************)
AsksForGPU(r) == r.type = "gpu" \/ r.gpuLimit   \* hasGPUFromSpec

Tolerated(r) ==
    {"reserved-pool"} \cup
        (IF r.backend = "pytorch" /\ AsksForGPU(r) THEN {"nvidia.com/gpu"} ELSE {})

\* The solver always resolves to one master.
Masters(r) == IF r.objective \/ r.masters = 0 THEN 1 ELSE r.masters

\* Mutant of Workers: the master is not counted.
WorkersBesideMaster(r, resolved) ==
    IF r.objective THEN resolved ELSE IF r.nodes > 1 THEN r.nodes ELSE 0

\* May be negative: buildReplicaSpecs adds Worker replicas only when it is not.
Workers(r, resolved) ==
    IF r.objective THEN resolved - 1
    ELSE IF r.nodes > 1 THEN r.nodes - Masters(r)
    ELSE 0

Executors(r, resolved) ==
    LET n == IF r.objective THEN resolved ELSE r.nodes IN
    IF n = 0 THEN 1 ELSE n

\* How many pods train.  The driver of a Spark job does not.
Trainers(r, resolved) ==
    LET workers == Workers(r, resolved) IN
    IF r.backend = "spark" THEN Executors(r, resolved)
    ELSE Masters(r) + (IF workers > 0 THEN workers ELSE 0)
================================================================================
