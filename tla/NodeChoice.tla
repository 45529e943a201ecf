------------------------------ MODULE NodeChoice ------------------------------
(***************************************************************************)
(* The node count the topology solver chooses for an objective o with a    *)
(* fitted model m at a price, without the searches that find it            *)
(* (internal/controller/solver.go).                                        *)
(***************************************************************************)
EXTENDS ScalingModel

NotGiven == -1    \* the field is empty; no entry in the cost ConfigMap
Malformed == -2   \* the field does not parse

HasTime(o) == o.time # NotGiven
HasBudget(o) == o.budget # NotGiven
Known(price) == price # NotGiven

\* A calibration run, whatever the objective: there is nothing to estimate with.
NeedsCalibration(o, points, price) ==
    points = {} \/ (~Known(price) /\ ~HasTime(o))

AllowedNodes(o) == 2 .. o.maxNodes

\* binarySearchMinN: the fewest nodes that meet the target, all of them when no
\* number does.
FewestForTime(n, o, m) ==
    LET fast == {k \in AllowedNodes(o) : Fast(k, o.time, m)} IN
    IF fast = {} THEN n = o.maxNodes
    ELSE n \in fast /\ \A k \in fast : n <= k

\* binarySearchMaxN: the most nodes the budget buys, two when it buys none.
MostForBudget(n, o, m, price) ==
    LET cheap == {k \in AllowedNodes(o) : Cheap(k, o.budget, m, price)} IN
    IF cheap = {} THEN n = 2
    ELSE n \in cheap /\ \A k \in cheap : k <= n

\* solveTimeOnly, solveCostOnly, solveBoth: on a flat cost curve a budget for two
\* nodes takes all of them; a target over the budget gives way.
Chosen(n, o, m, price) ==
    IF ~HasTime(o)
    THEN IF Flat(o.maxNodes, m, price) /\ Cheap(2, o.budget, m, price)
         THEN n = o.maxNodes
         ELSE MostForBudget(n, o, m, price)
    ELSE \E t \in AllowedNodes(o) :
           /\ FewestForTime(t, o, m)
           /\ IF HasBudget(o) /\ Known(price) /\ ~Cheap(t, o.budget, m, price)
              THEN MostForBudget(n, o, m, price)
              ELSE n = t
===============================================================================
