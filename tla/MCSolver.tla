-------------------------------- MODULE MCSolver --------------------------------
(* Inputs of TopologySolver for model checking. *)
EXTENDS SolverProps

At(n, rate) == [nodes |-> n, rate |-> rate]

Goals(times, budgets, limits) ==
    {o \in [time : times, budget : budgets, maxNodes : limits] :
       HasTime(o) \/ HasBudget(o)}

\* Targets and budgets on both sides of what the small histories predict.
ManyObjectives ==
    Goals({NotGiven, Malformed, 0, 15, 20, 24, 30, 36, 48},
          {NotGiven, Malformed, 0, 72, 75, 80, 90, 110, 150}, {2, 3, 6, 7})
FewObjectives ==
    Goals({NotGiven, 30, 70}, {NotGiven, 300}, {3})

AnyPrices == {NotGiven, 0, 1}

\* One, two and three node counts; the efficiency falls, and no faster than alpha = 1.
SaneHistories ==
    {{}, {At(1, 3)}, {At(2, 4)}, {At(2, 4), At(3, 6)}, {At(2, 4), At(4, 7)},
     {At(2, 4), At(3, 5)}, {At(2, 4), At(3, 7)}, {At(2, 4), At(3, 5), At(4, 7)}}

\* Three nodes slower than two.
SlowedDown == {{At(2, 6), At(3, 2)}}
================================================================================
