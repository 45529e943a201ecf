---------------------------- MODULE TopologySolver ----------------------------
(***************************************************************************)
(* runSolver (internal/controller/solver.go): how many nodes a job with an *)
(* objective gets.  The loops of binarySearchMinN and binarySearchMaxN are *)
(* steps; everything else is decided at once.                              *)
(***************************************************************************)
EXTENDS SolverInputs

VARIABLES
    objective,  \* spec.objective
    points,     \* the history of the job's config hash
    price,      \* the hourly price of the job's machine type
    model,      \* what estimateModel returned
    stage,      \* where runSolver is
    lo, hi,     \* the bounds of the binary search
    nTime,      \* the answer of binarySearchMinN
    nodes       \* the resolved node count, 0 until there is one

inputs == <<objective, points, price>>
vars == <<inputs, model, stage, lo, hi, nTime, nodes>>

Stages == {"start", "time", "minSearch", "timeFound", "budget", "maxSearch",
           "done", "failed"}

\* No model yet.
NoModel == [over |-> 0, under |-> 1, nodes |-> 1, rate |-> 1, work |-> 1,
            provisioning |-> 0]

TypeOK ==
    /\ objective \in Objectives
    /\ points \in Histories
    /\ price \in Prices
    /\ model \in Model
    /\ stage \in Stages
    /\ lo \in Nat /\ hi \in Nat
    /\ nTime \in Nat
    /\ nodes \in Nat

Init ==
    /\ objective \in Objectives
    /\ points \in Histories
    /\ price \in Prices
    /\ model = NoModel
    /\ stage = "start"
    /\ lo = 0 /\ hi = 0 /\ nTime = 0 /\ nodes = 0

FastEnough(n) == Fast(n, objective.time, model)
Affordable(n) == Cheap(n, objective.budget, model, price)
FlatCost == Flat(objective.maxNodes, model, price)

-----------------------------------------------------------------------------
Resolve(n) ==
    /\ nodes' = n
    /\ stage' = "done"
    /\ UNCHANGED <<inputs, model, lo, hi, nTime>>

Goto(next) ==
    /\ stage' = next
    /\ UNCHANGED <<inputs, model, lo, hi, nTime, nodes>>

\* No history, or only a budget and no price.
Calibrate ==
    /\ stage = "start"
    /\ NeedsCalibration(objective, points, price)
    /\ Resolve(CalibrationNodes)

\* The history cannot be listed.
LoadFails ==
    /\ stage = "start"
    /\ Goto("failed")

Estimate ==
    /\ stage = "start"
    /\ ~NeedsCalibration(objective, points, price)
    /\ \E work \in Works, provisioning \in Provisionings :
         model' \in Models(points, work, provisioning)
    /\ stage' = IF Unparsable(objective, price) THEN "failed"
                ELSE IF HasTime(objective) THEN "time" ELSE "budget"
    /\ UNCHANGED <<inputs, lo, hi, nTime, nodes>>

-----------------------------------------------------------------------------
(***************************************************************************)
(* binarySearchMinN(2, maxNodes, target)                                   *)
(***************************************************************************)
StartMinSearch ==
    /\ stage = "time"
    /\ IF FastEnough(objective.maxNodes)
       THEN stage' = "minSearch" /\ UNCHANGED nTime
       ELSE stage' = "timeFound" /\ nTime' = objective.maxNodes
    /\ lo' = 2 /\ hi' = objective.maxNodes
    /\ UNCHANGED <<inputs, model, nodes>>

\* Mutant of MinStep: a middle that is fast enough is left out.
MinStepSkipsMiddle ==
    LET mid == (lo + hi) \div 2 IN
    /\ stage = "minSearch" /\ lo < hi
    /\ IF FastEnough(mid) THEN hi' = mid - 1 /\ UNCHANGED lo
       ELSE lo' = mid + 1 /\ UNCHANGED hi
    /\ UNCHANGED <<inputs, model, stage, nTime, nodes>>

MinStep ==
    LET mid == (lo + hi) \div 2 IN
    /\ stage = "minSearch" /\ lo < hi
    /\ IF FastEnough(mid) THEN hi' = mid /\ UNCHANGED lo
       ELSE lo' = mid + 1 /\ UNCHANGED hi
    /\ UNCHANGED <<inputs, model, stage, nTime, nodes>>

EndMinSearch ==
    /\ stage = "minSearch" /\ lo >= hi
    /\ nTime' = lo /\ stage' = "timeFound"
    /\ UNCHANGED <<inputs, model, lo, hi, nodes>>

\* Mutant of JudgeTime: the budget is not looked at.
JudgeTimeOnly ==
    /\ stage = "timeFound"
    /\ Resolve(nTime)

\* solveTimeOnly, solveTimeOnlyWithCost, and step 7 of solveBoth.
JudgeTime ==
    /\ stage = "timeFound"
    /\ IF HasBudget(objective) /\ Known(price) /\ ~Affordable(nTime)
       THEN Goto("budget")
       ELSE Resolve(nTime)

-----------------------------------------------------------------------------
(***************************************************************************)
(* solveCostOnly and the conflict of solveBoth, with                       *)
(* binarySearchMaxN(2, maxNodes, budget)                                   *)
(***************************************************************************)
SpendAll ==
    /\ stage = "budget"
    /\ FlatCost /\ ~HasTime(objective) /\ Affordable(2)
    /\ Resolve(objective.maxNodes)

SpendLeast ==
    /\ stage = "budget"
    /\ ~Affordable(2)
    /\ Resolve(2)

StartMaxSearch ==
    /\ stage = "budget"
    /\ Affordable(2)
    /\ ~FlatCost \/ HasTime(objective)
    /\ lo' = 2 /\ hi' = objective.maxNodes
    /\ stage' = "maxSearch"
    /\ UNCHANGED <<inputs, model, nTime, nodes>>

\* Mutant of MaxStep: the middle is rounded down.
MaxStepRoundsDown ==
    LET mid == (lo + hi) \div 2 IN
    /\ stage = "maxSearch" /\ lo < hi
    /\ IF Affordable(mid) THEN lo' = mid /\ UNCHANGED hi
       ELSE hi' = mid - 1 /\ UNCHANGED lo
    /\ UNCHANGED <<inputs, model, stage, nTime, nodes>>

MaxStep ==
    LET mid == (lo + hi + 1) \div 2 IN
    /\ stage = "maxSearch" /\ lo < hi
    /\ IF Affordable(mid) THEN lo' = mid /\ UNCHANGED hi
       ELSE hi' = mid - 1 /\ UNCHANGED lo
    /\ UNCHANGED <<inputs, model, stage, nTime, nodes>>

EndMaxSearch ==
    /\ stage = "maxSearch" /\ lo >= hi
    /\ Resolve(lo)

-----------------------------------------------------------------------------
Next ==
    \/ Calibrate \/ LoadFails \/ Estimate
    \/ StartMinSearch \/ MinStep \/ EndMinSearch \/ JudgeTime
    \/ SpendAll \/ SpendLeast \/ StartMaxSearch \/ MaxStep \/ EndMaxSearch

Spec == Init /\ [][Next]_vars

\* runSolver runs to its end.
FairSpec == Spec /\ WF_vars(Next)
===============================================================================
