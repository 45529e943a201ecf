------------------------------ MODULE MCLearning ------------------------------
(* Instances of Learning for model checking. *)
EXTENDS LearningProps

CONSTANTS c8, n1   \* machine types

Objective ==
    [backend |-> "pytorch", type |-> Unset, machine |-> Unset, gpuType |-> FALSE,
     gpuLimit |-> TRUE, nodes |-> 0, masters |-> 1, objective |-> TRUE,
     total |-> TRUE]
\* Two masters and one worker on the machine the first gets by default.
Explicit ==
    [Objective EXCEPT !.type = "gpu", !.gpuType = TRUE, !.nodes = 3, !.masters = 2,
                      !.objective = FALSE]
Uncounted == [Explicit EXCEPT !.nodes = 2, !.total = FALSE]
Spark ==
    [Objective EXCEPT !.backend = "spark", !.type = "cpu", !.gpuLimit = FALSE]
SparkExplicit == [Spark EXCEPT !.nodes = 1, !.masters = 0, !.objective = FALSE]

SomeRequests == {Objective, Explicit, Uncounted, Spark, SparkExplicit}

Aim(time, budget) == [time |-> time, budget |-> budget, maxNodes |-> 4]

\* Of 14,400 samples.
Curve(times, rates) ==
    [seconds |-> times, loop |-> rates,
     seen |-> [n \in DOMAIN times |-> {0, times[n] \div 2, 2 * times[n]}]]

\* alpha is 0; a script that logs no throughput.
Silent == Curve(<<240, 120, 80, 60, 48>>, <<0, 0, 0, 0, 0>>)
\* Nodes cost each other more the more there are: from three on, one more helps
\* no longer.
Crowded == Curve(<<240, 150, 120, 120, 120>>, <<70, 100, 120, 125, 130>>)

SomeGoals == {Aim(160, NotGiven), Aim(100, 400)}
SomeCurves == {Silent, Crowded}

ASSUME CurvesAssumption == \A c \in SomeCurves : DiminishingReturns(c)
================================================================================
