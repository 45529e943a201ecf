----------------------------- MODULE MCReconciler -----------------------------
(* Instances of Reconciler for model checking. *)
EXTENDS ReconcilerClaims, ReconcilerContract, TLC

CONSTANTS j1, j2, p1, p2

\* An explicit two-node PyTorch job.
Plain ==
    [backend |-> "pytorch", complete |-> TRUE, manifestOk |-> TRUE,
     objective |-> FALSE, solutions |-> {}, nodes |-> 2,
     onFailure |-> FALSE, priced |-> TRUE]

Restartable == [Plain EXCEPT !.onFailure = TRUE]
Smaller == [Restartable EXCEPT !.nodes = 1]

\* A job whose node count the solver chooses.
Objective == [Plain EXCEPT !.objective = TRUE, !.solutions = {1, 2}, !.nodes = 0]

RestartableObjective == [Objective EXCEPT !.onFailure = TRUE]

Spark == [Plain EXCEPT !.backend = "spark", !.nodes = 1]

\* Specs the API server accepts and the operator rejects, sooner or later.
BadManifest == [Plain EXCEPT !.manifestOk = FALSE]
Unsolvable == [Objective EXCEPT !.solutions = {}]
Incomplete == [Plain EXCEPT !.complete = FALSE]
Unregistered == [Plain EXCEPT !.backend = "job"]

OnePool == j1 :> p1
TwoPools == j1 :> p1 @@ j2 :> p2

OneRestartable == j1 :> {Restartable}
OneObjective == j1 :> {RestartableObjective}
Edited == j1 :> {Restartable, Smaller, RestartableObjective}
AnySpec ==
    j1 :> {RestartableObjective, BadManifest, Unsolvable, Incomplete, Unregistered}
TwoApart == j1 :> {Spark} @@ j2 :> {Restartable, Objective}
===============================================================================
