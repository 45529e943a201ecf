---------------------------- MODULE SolverInputs -----------------------------
(***************************************************************************)
(* What runSolver (internal/controller/solver.go) reads: the objective of  *)
(* the job, the history of its config hash and the price of its machine.   *)
(***************************************************************************)
EXTENDS NodeChoice

CONSTANTS
    Objectives,        \* the objectives users ask for
    Histories,         \* what may be in the history: sets of points
    Works,             \* the work per job, averaged at the smallest node count
    Provisionings,     \* provisioning times, averaged
    Prices,            \* entries of the cost ConfigMap
    CalibrationNodes   \* --default-calibration-nodes

\* validateSpec wants one of the constraints, the CRD two nodes at least.
ASSUME ObjectivesAssumption ==
    /\ Objectives \subseteq [time : Int, budget : Int, maxNodes : Nat \ {0, 1}]
    /\ \A o \in Objectives : o.time # NotGiven \/ o.budget # NotGiven
\* A list of objects; groupByN and average make one point per node count.
ASSUME HistoriesAssumption ==
    /\ Histories \subseteq SUBSET Point
    /\ \A S \in Histories : IsFiniteSet(S)
    /\ \A S \in Histories : \A p, q \in S : p.nodes = q.nodes => p = q
ASSUME InputsAssumption ==
    /\ Works \subseteq Nat /\ Provisionings \subseteq Nat
    /\ Prices \subseteq Nat \cup {NotGiven}
    /\ CalibrationNodes \in Nat

\* A constraint is parsed by the branch that needs it: the budget is not when the
\* price is unknown.
Unparsable(o, price) ==
    \/ o.time = Malformed
    \/ Known(price) /\ o.budget = Malformed
===============================================================================
