--------------------------- MODULE TopologyContract ---------------------------
(***************************************************************************)
(* What the topology solver promises (feature.md, "Solver Algorithm"),     *)
(* without its searches: the node count is chosen in one step, as          *)
(* NodeChoice says.                                                        *)
(***************************************************************************)
EXTENDS SolverInputs

VARIABLES objective, points, price, model, outcome, nodes

vars == <<objective, points, price, model, outcome, nodes>>

Init ==
    /\ objective \in Objectives
    /\ points \in Histories
    /\ price \in Prices
    /\ outcome = "open"
    /\ nodes = 0

Allowed == AllowedNodes(objective)

Answer(n) == Chosen(n, objective, model, price)

-----------------------------------------------------------------------------
Calibrate ==
    /\ outcome = "open"
    /\ NeedsCalibration(objective, points, price)
    /\ nodes' = CalibrationNodes
    /\ outcome' = "done"
    /\ UNCHANGED <<objective, points, price, model>>

LoadFails ==
    /\ outcome = "open"
    /\ outcome' = "failed"
    /\ UNCHANGED <<objective, points, price, model, nodes>>

Fit ==
    /\ outcome = "open"
    /\ ~NeedsCalibration(objective, points, price)
    /\ \E work \in Works, provisioning \in Provisionings :
         model' \in Models(points, work, provisioning)
    /\ outcome' = IF Unparsable(objective, price) THEN "failed" ELSE "fitted"
    /\ UNCHANGED <<objective, points, price, nodes>>

Choose ==
    /\ outcome = "fitted"
    /\ \E n \in Allowed : Answer(n) /\ nodes' = n
    /\ outcome' = "done"
    /\ UNCHANGED <<objective, points, price, model>>

Next == Calibrate \/ LoadFails \/ Fit \/ Choose

Spec == Init /\ [][Next]_vars
===============================================================================
