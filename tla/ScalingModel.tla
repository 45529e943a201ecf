----------------------------- MODULE ScalingModel -----------------------------
(***************************************************************************)
(* The scaling model of the topology solver                                *)
(* (internal/controller/solver.go): what estimateModel fits to the history *)
(* and the training time and cost it predicts for n nodes.                 *)
(*                                                                         *)
(* The code computes with float64; here the numbers are exact fractions of *)
(* integers, and a comparison is multiplied out.  A history is the set of  *)
(* the averages per node count (groupByN, average): throughput rate at n   *)
(* nodes.  The work and the provisioning time are averages of their own.   *)
(***************************************************************************)
EXTENDS Integers, FiniteSets

CONSTANT
    Grid     \* bound: values of alpha the golden-section search may end with

ASSUME GridAssumption == Grid \in Nat \ {0}

Positive == Nat \ {0}

\* writeHistoryEntry skips a run without nodes or throughput.
Point == [nodes : Positive, rate : Positive]

(***************************************************************************)
(* alpha = over / under; the baseline throughput of one node is rate/nodes *)
(* at the smallest node count seen.                                        *)
(***************************************************************************)
Model == [over : Nat, under : Positive, nodes : Positive, rate : Positive,
          work : Nat, provisioning : Nat]

Smallest(points) == CHOOSE p \in points : \A q \in points : p.nodes <= q.nodes

\* Mutant of ClosedForm: no lower limit.
ClosedFormUnlimited(p1, p2) ==
    [over  |-> p1.rate * p2.nodes - p2.rate * p1.nodes,
     under |-> p2.rate * p1.nodes * (p2.nodes - 1)]

\* alpha from the efficiency of p2 relative to p1, no less than 0 and, unlike in
\* the search over [0, 1], without an upper limit.
ClosedForm(p1, p2) ==
    LET lost == p1.rate * p2.nodes - p2.rate * p1.nodes IN
    [over  |-> IF lost < 0 THEN 0 ELSE lost,
     under |-> p2.rate * p1.nodes * (p2.nodes - 1)]

\* Mutant of Alphas: two node counts are fitted like one.
AlphasWithoutClosedForm(points) ==
    IF Cardinality(points) <= 2 THEN {[over |-> 0, under |-> 1]}
    ELSE {[over |-> k, under |-> Grid] : k \in 0 .. Grid}

\* estimateAlpha: 0 for one node count, the closed form for two, a search over
\* [0, 1] for more (any value of the grid).
Alphas(points) ==
    LET first == Smallest(points) IN
    IF Cardinality(points) = 1 THEN {[over |-> 0, under |-> 1]}
    ELSE IF Cardinality(points) = 2
         THEN {ClosedForm(first, Smallest(points \ {first}))}
    ELSE {[over |-> k, under |-> Grid] : k \in 0 .. Grid}

\* estimateModel.
Models(points, work, provisioning) ==
    {[over |-> alpha.over, under |-> alpha.under,
      nodes |-> Smallest(points).nodes, rate |-> Smallest(points).rate,
      work |-> work, provisioning |-> provisioning] : alpha \in Alphas(points)}

-----------------------------------------------------------------------------
\* predT(n) = Time(n, m) / (m.rate * m.under * n).
Time(n, m) == m.work * m.nodes * (m.under + m.over * (n - 1))

\* predT(n, mp) <= target
Fast(n, target, m) == Time(n, m) <= target * m.rate * m.under * n

\* predCost(n) = Cost(n, m, price) / (m.rate * m.under): what price buys is a
\* second of a node.
Cost(n, m, price) ==
    price * (Time(n, m) + n * m.provisioning * m.rate * m.under)

\* predCost(n, mp, ch) <= budget
Cheap(n, budget, m, price) == Cost(n, m, price) <= budget * m.rate * m.under

\* isFlatCost: less than 1% between 2 and maxNodes nodes.
Flat(maxNodes, m, price) ==
    LET c2 == Cost(2, m, price)
        cMax == Cost(maxNodes, m, price)
    IN  c2 = 0 \/ (100 * (cMax - c2) < c2 /\ 100 * (c2 - cMax) < c2)
===============================================================================
