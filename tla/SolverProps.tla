------------------------------ MODULE SolverProps ------------------------------
(***************************************************************************)
(* What makes TopologySolver correct.                                      *)
(***************************************************************************)
EXTENDS TopologySolver

\* How far the promise is kept, read off the state of the solver.
Outcome == CASE stage = "start"  -> "open"
             [] stage = "done"   -> "done"
             [] stage = "failed" -> "failed"
             [] OTHER            -> "fitted"

Contract == INSTANCE TopologyContract WITH outcome <- Outcome

\* Two binary searches and four branches together choose what the promise says:
\* the fewest nodes that meet the target, the most the budget buys, the second
\* when the first is over budget.
KeepsContract == Contract!Spec

\* The answer of a binary search stays between its bounds.  binarySearchMinN:
\* hi is fast enough and everything just below lo is not; binarySearchMaxN: lo is
\* within the budget and what is just above hi is not.
SearchBracket ==
    /\ stage = "minSearch" =>
         /\ 2 <= lo /\ lo <= hi /\ hi <= objective.maxNodes
         /\ FastEnough(hi)
         /\ lo = 2 \/ ~FastEnough(lo - 1)
    /\ stage = "maxSearch" =>
         /\ 2 <= lo /\ lo <= hi /\ hi <= objective.maxNodes
         /\ Affordable(lo)
         /\ hi = objective.maxNodes \/ ~Affordable(hi + 1)

\* There is a model; the node count was computed with it.
Fitted ==
    stage \notin {"start", "failed"} /\ ~NeedsCalibration(objective, points, price)
Estimated == Fitted /\ stage = "done"

\* What each branch of runSolver relies on: a model of this history; for the
\* target, the fewest nodes that meet it; for the budget, a price, and that the
\* target, if there is one, was found over budget; at the end, the node count that
\* the promise names.
BranchInv ==
    /\ stage \notin {"start", "done", "failed"} => Fitted
    /\ Fitted => \E work \in Works, provisioning \in Provisionings :
                   model \in Models(points, work, provisioning)
    /\ stage \in {"time", "minSearch", "timeFound"} => HasTime(objective)
    /\ stage = "timeFound" =>
         /\ nTime \in AllowedNodes(objective)
         /\ FewestForTime(nTime, objective, model)
    /\ stage \in {"budget", "maxSearch"} =>
         /\ HasBudget(objective) /\ Known(price)
         /\ HasTime(objective) =>
              /\ nTime \in AllowedNodes(objective)
              /\ FewestForTime(nTime, objective, model)
              /\ ~Affordable(nTime)
    /\ stage = "maxSearch" => Affordable(2) /\ (~FlatCost \/ HasTime(objective))
    /\ Fitted /\ stage = "done" =>
         /\ nodes \in AllowedNodes(objective)
         /\ Chosen(nodes, objective, model, price)

\* When some node count meets the target within the budget, solveBoth picks one:
\* its conflict branch, which gives up the target, is taken only when there is
\* none.
BothWhenPossible ==
    (Estimated /\ HasTime(objective) /\ HasBudget(objective) /\ Known(price)
     /\ \E n \in 2 .. objective.maxNodes : FastEnough(n) /\ Affordable(n))
      => FastEnough(nodes) /\ Affordable(nodes)

\* With two node counts in the history, of which the larger is no more efficient,
\* the fit is exact at the larger one: predT there is the work at its throughput.
FitsLargerPoint ==
    \A p, q \in points :
      (/\ Cardinality(points) = 2 /\ p.nodes < q.nodes
       /\ q.rate * p.nodes <= p.rate * q.nodes
       /\ Fitted)
        => Time(q.nodes, model) * q.rate
             = model.work * model.rate * model.under * q.nodes

\* The searches end: a job does not stay in Pending over its solver.
SolverEnds == <>(stage \in {"done", "failed"})

-----------------------------------------------------------------------------
(***************************************************************************)
(* What the repository says and the code does only while no history slows  *)
(* down.                                                                   *)
(***************************************************************************)
\* solver.go, binarySearchMinN: "finds the minimum n in [lo, maxNodes] such that
\* T(n) <= tTarget".
FindsTheMinimum ==
    stage = "timeFound" =>
      \A n \in 2 .. objective.maxNodes :
        FastEnough(n) => FastEnough(nTime) /\ nTime <= n
===============================================================================
