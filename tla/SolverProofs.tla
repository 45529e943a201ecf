------------------------------ MODULE SolverProofs ------------------------------
(***************************************************************************)
(* TopologySolver keeps its types, and its binary searches their brackets, *)
(* for every set of inputs; and it implements TopologyContract: what the   *)
(* searches and the branches of runSolver end with is what the promise     *)
(* names, for every objective, price and history in which more nodes are   *)
(* never slower than a single one.                                         *)
(***************************************************************************)
EXTENDS SolverProps, ScalingProofs

(***************************************************************************)
(* Between two node counts that were measured, the larger has at least the *)
(* throughput of one node: alpha is at most 1, as the golden-section       *)
(* search assumes and the closed form does not.  SlowedDown is a history   *)
(* that is not like this, and there the answer of the search is wrong.     *)
(***************************************************************************)
NoSlowdown ==
    \A S \in Histories : \A p, q \in S :
      p.nodes < q.nodes => p.rate <= q.rate * p.nodes

\* A history the solver works with is one of points.
LEMMA HistoriesAreMeasured ==
  ASSUME NEW S \in Histories, S # {}
  PROVE  Measured(S) /\ IsFiniteSet(S)
  BY HistoriesAssumption DEF Measured

-----------------------------------------------------------------------------
\* The middle of a binary search, rounded down or up, is between its bounds.
LEMMA MiddleIsBetween ==
  ASSUME NEW l \in Nat, NEW h \in Nat, l < h
  PROVE  /\ (l + h) \div 2 \in Nat /\ (l + h + 1) \div 2 \in Nat
         /\ l <= (l + h) \div 2 /\ (l + h) \div 2 < h
         /\ l < (l + h + 1) \div 2 /\ (l + h + 1) \div 2 <= h
  BY SMT

\* The solver starts without a model.
LEMMA InitTyped == Init => TypeOK
<1> SUFFICES ASSUME Init PROVE TypeOK
  OBVIOUS
<1>1. NoModel \in Model
  BY DEF NoModel, Model, Positive
<1> QED BY <1>1 DEF Init, TypeOK, Stages

\* A step of the solver: the model estimateModel returns is well formed, and a
\* binary search moves its bounds within them.
LEMMA StepTyped == TypeOK /\ [Next]_vars => TypeOK'
<1> SUFFICES ASSUME TypeOK, [Next]_vars PROVE TypeOK'
  OBVIOUS
<1> USE DEF TypeOK, Stages, inputs
<1>max. objective.maxNodes \in Nat
  BY ObjectivesAssumption
<1>1. CASE Calibrate
  BY <1>1, InputsAssumption DEF Calibrate, Resolve
<1>2. CASE LoadFails
  BY <1>2 DEF LoadFails, Goto
<1>3. CASE Estimate
  <2>1. points # {}
    BY <1>3 DEF Estimate, NeedsCalibration
  <2>2. model' \in Model
    BY <1>3, <2>1, HistoriesAreMeasured, InputsAssumption, ModelsAreModels
    DEF Estimate, TypeOK
  <2>3. stage' \in {"failed", "time", "budget"}
    BY <1>3 DEF Estimate
  <2> QED BY <1>3, <2>2, <2>3 DEF Estimate
<1>4. CASE StartMinSearch
  BY <1>4, <1>max DEF StartMinSearch
<1>5. CASE MinStep
  BY <1>5, MiddleIsBetween DEF MinStep
<1>6. CASE EndMinSearch
  BY <1>6 DEF EndMinSearch
<1>7. CASE JudgeTime
  BY <1>7 DEF JudgeTime, Goto, Resolve
<1>8. CASE SpendAll
  BY <1>8, <1>max DEF SpendAll, Resolve
<1>9. CASE SpendLeast
  BY <1>9 DEF SpendLeast, Resolve
<1>10. CASE StartMaxSearch
  BY <1>10, <1>max DEF StartMaxSearch
<1>11. CASE MaxStep
  BY <1>11, MiddleIsBetween DEF MaxStep
<1>12. CASE EndMaxSearch
  BY <1>12 DEF EndMaxSearch, Resolve
<1>13. CASE UNCHANGED vars
  BY <1>13 DEF vars
<1> QED
  BY <1>1, <1>2, <1>3, <1>4, <1>5, <1>6, <1>7, <1>8, <1>9, <1>10, <1>11, <1>12,
     <1>13 DEF Next

\* runSolver keeps its types whatever it is asked and whatever the history says:
\* its model never has a negative overhead or a zero denominator.
THEOREM SolverTypeCorrect == Spec => []TypeOK
  BY InitTyped, StepTyped, PTL DEF Spec

-----------------------------------------------------------------------------
\* What is fast enough or affordable stays so while the search runs.
LEMMA SameQuestions ==
  ASSUME UNCHANGED <<inputs, model>>
  PROVE  /\ \A n : FastEnough(n)' <=> FastEnough(n)
         /\ \A n : Affordable(n)' <=> Affordable(n)
  BY DEF inputs, FastEnough, Affordable

\* The brackets of both searches are kept by every step.
LEMMA StepBracketed ==
  TypeOK /\ SearchBracket /\ [Next]_vars => SearchBracket'
<1> SUFFICES ASSUME TypeOK, SearchBracket, [Next]_vars PROVE SearchBracket'
  OBVIOUS
<1>max. objective.maxNodes \in Nat /\ 2 <= objective.maxNodes
  BY ObjectivesAssumption DEF TypeOK
<1>nat. lo \in Nat /\ hi \in Nat
  BY DEF TypeOK
<1>1. CASE Calibrate \/ LoadFails \/ Estimate \/ EndMinSearch \/ JudgeTime
           \/ SpendAll \/ SpendLeast \/ EndMaxSearch
  <2>1. stage' \notin {"minSearch", "maxSearch"}
    BY <1>1 DEF Calibrate, LoadFails, Estimate, EndMinSearch, JudgeTime, SpendAll,
                SpendLeast, EndMaxSearch, Goto, Resolve
  <2> QED BY <2>1 DEF SearchBracket
<1>2. CASE StartMinSearch
  <2>1. \A n : FastEnough(n)' <=> FastEnough(n)
    BY <1>2, SameQuestions DEF StartMinSearch
  <2>2. /\ stage' # "maxSearch" /\ objective' = objective
        /\ lo' = 2 /\ hi' = objective.maxNodes
        /\ stage' = "minSearch" => FastEnough(objective.maxNodes)
    BY <1>2 DEF StartMinSearch, inputs
  <2> QED BY <1>max, <2>1, <2>2 DEF SearchBracket
<1>3. CASE MinStep
  <2> DEFINE mid == (lo + hi) \div 2
  <2>1. /\ \A n : FastEnough(n)' <=> FastEnough(n)
        /\ objective' = objective /\ stage = "minSearch" /\ stage' = "minSearch"
        /\ lo < hi
    BY <1>3, SameQuestions DEF MinStep, inputs
  <2>2. mid \in Nat /\ lo <= mid /\ mid < hi
    BY <1>nat, <2>1, MiddleIsBetween
  <2>3. \/ FastEnough(mid) /\ hi' = mid /\ lo' = lo
        \/ ~FastEnough(mid) /\ lo' = mid + 1 /\ hi' = hi
    BY <1>3 DEF MinStep
  <2> HIDE DEF mid
  <2>4. /\ 2 <= lo /\ hi <= objective.maxNodes /\ FastEnough(hi)
        /\ lo = 2 \/ ~FastEnough(lo - 1)
    BY <2>1 DEF SearchBracket
  <2>5. /\ 2 <= lo' /\ lo' <= hi' /\ hi' <= objective'.maxNodes
    BY <1>nat, <1>max, <2>1, <2>2, <2>3, <2>4
  <2>6. FastEnough(hi')
    BY <2>3, <2>4
  <2>7. lo' = 2 \/ ~FastEnough(lo' - 1)
    <3>1. CASE lo' = lo
      BY <2>4, <3>1
    <3>2. CASE ~FastEnough(mid) /\ lo' = mid + 1
      <4>1. lo' - 1 = mid
        BY <2>2, <3>2
      <4> QED BY <3>2, <4>1
    <3> QED BY <2>3, <3>1, <3>2
  <2> QED BY <2>1, <2>5, <2>6, <2>7 DEF SearchBracket
<1>4. CASE StartMaxSearch
  <2>1. \A n : Affordable(n)' <=> Affordable(n)
    BY <1>4, SameQuestions DEF StartMaxSearch
  <2>2. /\ stage' = "maxSearch" /\ objective' = objective
        /\ lo' = 2 /\ hi' = objective.maxNodes /\ Affordable(2)
    BY <1>4 DEF StartMaxSearch, inputs
  <2> QED BY <1>max, <2>1, <2>2 DEF SearchBracket
<1>5. CASE MaxStep
  <2> DEFINE mid == (lo + hi + 1) \div 2
  <2>1. /\ \A n : Affordable(n)' <=> Affordable(n)
        /\ objective' = objective /\ stage = "maxSearch" /\ stage' = "maxSearch"
        /\ lo < hi
    BY <1>5, SameQuestions DEF MaxStep, inputs
  <2>2. mid \in Nat /\ lo < mid /\ mid <= hi
    BY <1>nat, <2>1, MiddleIsBetween
  <2>3. \/ Affordable(mid) /\ lo' = mid /\ hi' = hi
        \/ ~Affordable(mid) /\ hi' = mid - 1 /\ lo' = lo
    BY <1>5 DEF MaxStep
  <2> HIDE DEF mid
  <2>4. /\ 2 <= lo /\ hi <= objective.maxNodes /\ Affordable(lo)
        /\ hi = objective.maxNodes \/ ~Affordable(hi + 1)
    BY <2>1 DEF SearchBracket
  <2>5. /\ 2 <= lo' /\ lo' <= hi' /\ hi' <= objective'.maxNodes
    BY <1>nat, <1>max, <2>1, <2>2, <2>3, <2>4
  <2>6. Affordable(lo')
    BY <2>3, <2>4
  <2>7. hi' = objective'.maxNodes \/ ~Affordable(hi' + 1)
    <3>1. mid - 1 + 1 = mid
      BY <2>2
    <3> QED BY <2>1, <2>3, <2>4, <3>1
  <2> QED BY <2>1, <2>5, <2>6, <2>7 DEF SearchBracket
<1>6. CASE UNCHANGED vars
  <2>1. UNCHANGED <<inputs, model>>
    BY <1>6 DEF vars
  <2>2. UNCHANGED <<objective, stage, lo, hi>>
    BY <1>6 DEF vars, inputs
  <2> QED BY <2>1, <2>2, SameQuestions DEF SearchBracket
<1> QED BY <1>1, <1>2, <1>3, <1>4, <1>5, <1>6 DEF Next

\* The binary searches never lose the answer they bracket, for any history, any
\* objective and any maxNodes; that alpha is at most one is not needed for it.
THEOREM SearchesBracket == Spec => []SearchBracket
<1>1. Init => SearchBracket
  BY DEF Init, SearchBracket
<1> QED BY <1>1, StepBracketed, SolverTypeCorrect, PTL DEF Spec

-----------------------------------------------------------------------------
(***************************************************************************)
(* The models of a history that never slows down are sane.                 *)
(***************************************************************************)
\* Whatever branch of estimateAlpha is taken.
LEMMA ModelsAreSane ==
  ASSUME NoSlowdown, NEW S \in Histories, S # {}, NEW work \in Works,
         NEW provisioning \in Provisionings,
         NEW m \in Models(S, work, provisioning)
  PROVE  Sane(m)
<1>1. S \subseteq Point
  BY HistoriesAssumption
<1>2. PICK a \in Alphas(S) : m.over = a.over /\ m.under = a.under
  BY DEF Models
<1>3. a.over <= a.under
  <2>1. CASE Cardinality(S) = 1
    BY <2>1 DEF Alphas
  <2>2. CASE Cardinality(S) # 1 /\ Cardinality(S) = 2
    <3> DEFINE first == Smallest(S)
               second == Smallest(S \ {first})
    <3>1. first \in S
      BY <1>1, SmallestIsLeast
    <3>2. S # {first}
      BY <2>2, FS_Singleton
    <3>3. S \ {first} # {} /\ S \ {first} \subseteq Point
      BY <1>1, <3>1, <3>2
    <3>4. second \in S \ {first}
      BY <3>3, SmallestIsLeast
    <3>5. first.nodes < second.nodes
      BY <3>4, HistoriesAreMeasured, OthersAreLarger
    <3>6. first.rate <= second.rate * first.nodes
      BY <3>1, <3>4, <3>5 DEF NoSlowdown
    <3>7. a = ClosedForm(first, second)
      BY <2>2 DEF Alphas
    <3> HIDE DEF first, second
    <3> QED BY <1>1, <3>1, <3>4, <3>5, <3>6, <3>7, ClosedFormIsSane
  <2>3. CASE Cardinality(S) # 1 /\ Cardinality(S) # 2
    <3>1. PICK k \in 0 .. Grid : a = [over |-> k, under |-> Grid]
      BY <2>3 DEF Alphas
    <3> QED BY <3>1, GridAssumption
  <2> QED BY <2>1, <2>2, <2>3
<1> QED
  BY <1>2, <1>3, HistoriesAreMeasured, InputsAssumption, ModelsAreModels DEF Sane

(***************************************************************************)
(* What the searches end with is what the promise names.                   *)
(***************************************************************************)
\* From a node count the target is not met with, it is not met with fewer.
LEMMA FewestFound ==
  ASSUME NEW o \in Objectives, NEW m, Sane(m), NEW n \in AllowedNodes(o),
         Fast(n, o.time, m), n = 2 \/ ~Fast(n - 1, o.time, m)
  PROVE  FewestForTime(n, o, m)
<1>1. o.time \in Int /\ o.maxNodes \in Nat /\ 2 <= o.maxNodes
  BY ObjectivesAssumption
<1>2. ASSUME NEW k \in AllowedNodes(o), Fast(k, o.time, m) PROVE n <= k
  <2>1. n \in Nat /\ k \in Nat /\ 2 <= n /\ 2 <= k /\ k \in Positive
    BY <1>1 DEF AllowedNodes, Positive
  <2>2. CASE n = 2
    BY <2>1, <2>2
  <2>3. CASE ~Fast(n - 1, o.time, m)
    <3>1. ASSUME k <= n - 1 PROVE FALSE
      <4>1. n - 1 \in Nat
        BY <2>1
      <4> QED BY <1>1, <1>2, <2>1, <2>3, <3>1, <4>1, FasterWithMore
    <3> QED BY <2>1, <3>1
  <2> QED BY <2>2, <2>3
<1> QED BY <1>2 DEF FewestForTime

\* When all nodes do not meet the target, no number of them does.
LEMMA NoneIsFast ==
  ASSUME NEW o \in Objectives, NEW m, Sane(m), ~Fast(o.maxNodes, o.time, m)
  PROVE  FewestForTime(o.maxNodes, o, m)
<1>1. o.time \in Int /\ o.maxNodes \in Nat
  BY ObjectivesAssumption
<1>2. ASSUME NEW k \in AllowedNodes(o) PROVE ~Fast(k, o.time, m)
  <2>1. k \in Positive /\ k <= o.maxNodes
    BY <1>1 DEF AllowedNodes, Positive
  <2> QED BY <1>1, <2>1, FasterWithMore
<1> QED BY <1>2 DEF FewestForTime

\* What is above a node count over budget is over budget too.
LEMMA MostFound ==
  ASSUME NEW o \in Objectives, NEW m \in Model, NEW perNode \in Nat,
         NEW n \in AllowedNodes(o), Cheap(n, o.budget, m, perNode),
         n = o.maxNodes \/ ~Cheap(n + 1, o.budget, m, perNode)
  PROVE  MostForBudget(n, o, m, perNode)
<1>1. o.budget \in Int /\ o.maxNodes \in Nat
  BY ObjectivesAssumption
<1>2. ASSUME NEW k \in AllowedNodes(o), Cheap(k, o.budget, m, perNode) PROVE k <= n
  <2>1. n \in Nat /\ k \in Nat /\ 2 <= n /\ k <= o.maxNodes /\ k \in Positive
    BY <1>1 DEF AllowedNodes, Positive
  <2>2. CASE n = o.maxNodes
    BY <2>1, <2>2
  <2>3. CASE ~Cheap(n + 1, o.budget, m, perNode)
    <3>1. ASSUME n + 1 <= k PROVE FALSE
      <4>1. n + 1 \in Positive
        BY <2>1 DEF Positive
      <4> QED BY <1>1, <1>2, <2>1, <2>3, <3>1, <4>1, CheapWithFewer
    <3> QED BY <2>1, <3>1
  <2> QED BY <2>2, <2>3
<1> QED BY <1>2 DEF MostForBudget

\* When two nodes are over budget, everything is.
LEMMA NoneIsCheap ==
  ASSUME NEW o \in Objectives, NEW m \in Model, NEW perNode \in Nat,
         ~Cheap(2, o.budget, m, perNode)
  PROVE  MostForBudget(2, o, m, perNode)
<1>1. o.budget \in Int /\ o.maxNodes \in Nat
  BY ObjectivesAssumption
<1>2. ASSUME NEW k \in AllowedNodes(o) PROVE ~Cheap(k, o.budget, m, perNode)
  <2>1. k \in Positive /\ 2 \in Positive /\ 2 <= k
    BY <1>1 DEF AllowedNodes, Positive
  <2> QED BY <1>1, <2>1, CheapWithFewer
<1> QED BY <1>2 DEF MostForBudget

-----------------------------------------------------------------------------
\* Whatever the solver works with has no overhead above 1.
LEMMA SaneModel ==
  ASSUME TypeOK, BranchInv, NoSlowdown, Fitted
  PROVE  Sane(model) /\ model \in Model
<1>1. points # {}
  BY DEF Fitted, NeedsCalibration
<1>2. PICK work \in Works, provisioning \in Provisionings :
        model \in Models(points, work, provisioning)
  BY DEF BranchInv
<1> QED BY <1>1, <1>2, ModelsAreSane DEF TypeOK, Sane

\* The node count a branch ends with is kept with the promise.
LEMMA Answers ==
  ASSUME TypeOK, BranchInv, SearchBracket, NoSlowdown, Fitted,
         JudgeTime \/ SpendAll \/ SpendLeast \/ EndMaxSearch, stage' = "done"
  PROVE  /\ nodes' \in AllowedNodes(objective)
         /\ Chosen(nodes', objective, model, price)
<1>1. Sane(model) /\ model \in Model
  BY SaneModel
<1>2. /\ objective \in Objectives
      /\ objective.maxNodes \in Nat /\ 2 <= objective.maxNodes
  BY ObjectivesAssumption DEF TypeOK
<1>3. 2 \in AllowedNodes(objective) /\ objective.maxNodes \in AllowedNodes(objective)
  BY <1>2 DEF AllowedNodes
<1>4. CASE JudgeTime
  <2>1. stage = "timeFound"
    BY <1>4 DEF JudgeTime
  <2>2. /\ ~(HasBudget(objective) /\ Known(price) /\ ~Affordable(nTime))
        /\ nodes' = nTime
    BY <1>4 DEF JudgeTime, Goto, Resolve
  <2>3. /\ HasTime(objective) /\ nTime \in AllowedNodes(objective)
        /\ FewestForTime(nTime, objective, model)
    BY <2>1 DEF BranchInv
  <2> QED BY <2>2, <2>3 DEF Chosen, Affordable
<1>5. CASE SpendAll
  BY <1>3, <1>5 DEF SpendAll, Resolve, Chosen, Affordable, FlatCost
<1>6. ASSUME stage \in {"budget", "maxSearch"}, NEW n \in AllowedNodes(objective),
             MostForBudget(n, objective, model, price),
             ~HasTime(objective) => ~(FlatCost /\ Affordable(2))
      PROVE  Chosen(n, objective, model, price)
  <2>1. CASE ~HasTime(objective)
    BY <1>6, <2>1 DEF Chosen, Affordable, FlatCost
  <2>2. CASE HasTime(objective)
    BY <1>6, <2>2 DEF BranchInv, Chosen, Affordable
  <2> QED BY <2>1, <2>2
<1>7. stage \in {"budget", "maxSearch"} => price \in Nat
  BY InputsAssumption DEF TypeOK, BranchInv, Known
<1>8. CASE SpendLeast
  <2>1. stage = "budget" /\ ~Affordable(2) /\ nodes' = 2
    BY <1>8 DEF SpendLeast, Resolve
  <2>2. MostForBudget(2, objective, model, price)
    BY <1>1, <1>2, <1>7, <2>1, NoneIsCheap DEF Affordable
  <2> QED BY <1>3, <1>6, <2>1, <2>2
<1>9. CASE EndMaxSearch
  <2>1. stage = "maxSearch" /\ lo >= hi /\ nodes' = lo
    BY <1>9 DEF EndMaxSearch, Resolve
  <2>2. /\ lo \in Nat /\ hi \in Nat
        /\ 2 <= lo /\ lo <= hi /\ hi <= objective.maxNodes /\ Affordable(lo)
        /\ hi = objective.maxNodes \/ ~Affordable(hi + 1)
    BY <2>1 DEF SearchBracket, TypeOK
  <2>3. lo = hi /\ lo \in AllowedNodes(objective)
    BY <1>2, <2>1, <2>2 DEF AllowedNodes
  <2>4. MostForBudget(lo, objective, model, price)
    BY <1>1, <1>2, <1>7, <2>1, <2>2, <2>3, MostFound DEF Affordable
  <2>5. ~HasTime(objective) => ~(FlatCost /\ Affordable(2))
    BY <2>1 DEF BranchInv
  <2> QED BY <1>6, <2>1, <2>3, <2>4, <2>5
<1> QED BY <1>4, <1>5, <1>8, <1>9

-----------------------------------------------------------------------------
\* Every step keeps BranchInv.
LEMMA StepBranch ==
  TypeOK /\ SearchBracket /\ BranchInv /\ NoSlowdown /\ [Next]_vars => BranchInv'
<1> SUFFICES ASSUME TypeOK, SearchBracket, BranchInv, NoSlowdown, [Next]_vars
             PROVE  BranchInv'
  OBVIOUS
<1>max. objective \in Objectives /\ objective.maxNodes \in Nat /\ 2 <= objective.maxNodes
  BY ObjectivesAssumption DEF TypeOK
<1>1. CASE Calibrate
  <2>1. stage' = "done" /\ UNCHANGED inputs /\ NeedsCalibration(objective, points, price)
    BY <1>1 DEF Calibrate, Resolve
  <2>2. ~Fitted'
    BY <2>1 DEF Fitted, inputs
  <2> QED BY <2>1, <2>2 DEF BranchInv
<1>2. CASE LoadFails
  <2>1. stage' = "failed"
    BY <1>2 DEF LoadFails, Goto
  <2> QED BY <2>1 DEF BranchInv, Fitted
<1>3. CASE Estimate
  <2>1. /\ ~NeedsCalibration(objective, points, price) /\ UNCHANGED inputs
        /\ \E work \in Works, provisioning \in Provisionings :
             model' \in Models(points, work, provisioning)
        /\ \/ stage' = "failed"
           \/ stage' = "time" /\ HasTime(objective)
           \/ stage' = "budget" /\ ~HasTime(objective)
    BY <1>3 DEF Estimate
  <2>2. UNCHANGED <<objective, points, price>>
    BY <2>1 DEF inputs
  <2>3. CASE stage' = "failed"
    BY <2>3 DEF BranchInv, Fitted
  <2>4. CASE stage' = "time" /\ HasTime(objective)
    BY <2>1, <2>2, <2>4 DEF BranchInv, Fitted
  <2>5. CASE stage' = "budget" /\ ~HasTime(objective)
    <3>1. HasBudget(objective) /\ Known(price)
      BY <1>max, <2>1, <2>5, ObjectivesAssumption DEF HasTime, HasBudget, NeedsCalibration
    <3> QED BY <2>1, <2>2, <2>5, <3>1 DEF BranchInv, Fitted
  <2> QED BY <2>1, <2>3, <2>4, <2>5
<1>4. ASSUME UNCHANGED <<inputs, model>>, Fitted, stage' \notin {"start", "failed"}
      PROVE  /\ Fitted' /\ UNCHANGED <<objective, points, price, model>>
             /\ \E work \in Works, provisioning \in Provisionings :
                  model' \in Models(points', work, provisioning)
  <2>1. UNCHANGED <<objective, points, price, model>>
    BY <1>4 DEF inputs
  <2>2. Fitted'
    BY <1>4, <2>1 DEF Fitted
  <2> QED BY <1>4, <2>1, <2>2 DEF BranchInv
<1>5. CASE StartMinSearch
  <2>1. /\ stage = "time" /\ UNCHANGED <<inputs, model>>
        /\ \/ FastEnough(objective.maxNodes) /\ stage' = "minSearch"
           \/ /\ ~FastEnough(objective.maxNodes)
              /\ stage' = "timeFound" /\ nTime' = objective.maxNodes
    BY <1>5 DEF StartMinSearch
  <2>2. Fitted /\ HasTime(objective)
    BY <2>1 DEF BranchInv
  <2>3. Sane(model)
    BY <2>2, SaneModel
  <2>4. CASE stage' = "minSearch"
    BY <1>4, <2>1, <2>2, <2>4 DEF BranchInv
  <2>5. CASE /\ ~FastEnough(objective.maxNodes)
             /\ stage' = "timeFound" /\ nTime' = objective.maxNodes
    <3>1. FewestForTime(objective.maxNodes, objective, model)
      BY <1>max, <2>3, <2>5, NoneIsFast DEF FastEnough
    <3>2. objective.maxNodes \in AllowedNodes(objective)
      BY <1>max DEF AllowedNodes
    <3> QED BY <1>4, <2>1, <2>2, <2>5, <3>1, <3>2 DEF BranchInv
  <2> QED BY <2>1, <2>4, <2>5
<1>6. CASE MinStep
  <2>1. stage = "minSearch" /\ stage' = "minSearch" /\ UNCHANGED <<inputs, model>>
    BY <1>6 DEF MinStep
  <2> QED BY <1>4, <2>1 DEF BranchInv
<1>7. CASE EndMinSearch
  <2>1. /\ stage = "minSearch" /\ stage' = "timeFound" /\ lo >= hi /\ nTime' = lo
        /\ UNCHANGED <<inputs, model>>
    BY <1>7 DEF EndMinSearch
  <2>2. /\ lo \in Nat /\ hi \in Nat /\ 2 <= lo /\ lo <= hi /\ hi <= objective.maxNodes
        /\ FastEnough(hi) /\ (lo = 2 \/ ~FastEnough(lo - 1))
    BY <2>1 DEF SearchBracket, TypeOK
  <2>3. lo = hi /\ lo \in AllowedNodes(objective)
    BY <1>max, <2>1, <2>2 DEF AllowedNodes
  <2>4. Fitted /\ HasTime(objective)
    BY <2>1 DEF BranchInv
  <2>5. FewestForTime(lo, objective, model)
    BY <1>max, <2>2, <2>3, <2>4, SaneModel, FewestFound DEF FastEnough
  <2> QED BY <1>4, <2>1, <2>3, <2>4, <2>5 DEF BranchInv
<1>8. CASE JudgeTime /\ stage' = "budget"
  <2>1. /\ stage = "timeFound" /\ UNCHANGED <<inputs, model, nTime>>
        /\ HasBudget(objective) /\ Known(price) /\ ~Affordable(nTime)
    BY <1>8 DEF JudgeTime, Goto, Resolve
  <2>2. /\ Fitted /\ HasTime(objective) /\ nTime \in AllowedNodes(objective)
        /\ FewestForTime(nTime, objective, model)
    BY <2>1 DEF BranchInv
  <2>3. UNCHANGED <<objective, points, price, model>> /\ Fitted'
    BY <1>4, <1>8, <2>1, <2>2
  <2>4. ~Affordable(nTime)'
    BY <2>1, <2>3 DEF Affordable
  <2> QED BY <1>4, <1>8, <2>1, <2>2, <2>3, <2>4 DEF BranchInv
<1>9. CASE (JudgeTime \/ SpendAll \/ SpendLeast \/ EndMaxSearch) /\ stage' = "done"
  <2>1. UNCHANGED <<inputs, model>> /\ Fitted
    BY <1>9 DEF JudgeTime, SpendAll, SpendLeast, EndMaxSearch, Goto, Resolve, BranchInv
  <2>2. nodes' \in AllowedNodes(objective) /\ Chosen(nodes', objective, model, price)
    BY <1>9, <2>1, Answers
  <2> QED BY <1>4, <1>9, <2>1, <2>2 DEF BranchInv
<1>10. CASE StartMaxSearch
  <2>1. /\ stage = "budget" /\ stage' = "maxSearch" /\ UNCHANGED <<inputs, model, nTime>>
        /\ Affordable(2) /\ (~FlatCost \/ HasTime(objective))
    BY <1>10 DEF StartMaxSearch
  <2>2. Fitted
    BY <2>1 DEF BranchInv
  <2>3. UNCHANGED <<objective, points, price, model>> /\ Fitted'
    BY <1>4, <2>1, <2>2
  <2>4. /\ \A n : Affordable(n)' <=> Affordable(n)
        /\ FlatCost' <=> FlatCost
    BY <2>1, <2>3, SameQuestions DEF FlatCost
  <2> QED BY <1>4, <2>1, <2>2, <2>3, <2>4 DEF BranchInv
<1>11. CASE MaxStep
  <2>1. stage = "maxSearch" /\ stage' = "maxSearch" /\ UNCHANGED <<inputs, model, nTime>>
    BY <1>11 DEF MaxStep
  <2>2. Fitted
    BY <2>1 DEF BranchInv
  <2>3. UNCHANGED <<objective, points, price, model>> /\ Fitted'
    BY <1>4, <2>1, <2>2
  <2>4. /\ \A n : Affordable(n)' <=> Affordable(n)
        /\ FlatCost' <=> FlatCost
    BY <2>1, <2>3, SameQuestions DEF FlatCost
  <2> QED BY <1>4, <2>1, <2>2, <2>3, <2>4 DEF BranchInv
<1>12. CASE UNCHANGED vars
  <2>1. UNCHANGED <<inputs, model, stage, nTime, nodes>>
    BY <1>12 DEF vars
  <2>2. objective' = objective /\ points' = points /\ price' = price /\ model' = model
        /\ stage' = stage /\ nTime' = nTime /\ nodes' = nodes
    BY <2>1 DEF inputs
  <2>3. \A n : Affordable(n)' <=> Affordable(n)
    BY <2>1, SameQuestions
  <2>4. FlatCost' <=> FlatCost
    BY <2>2 DEF FlatCost
  <2>5. Fitted' <=> Fitted
    BY <2>2 DEF Fitted
  <2> QED BY <2>2, <2>3, <2>4, <2>5 DEF BranchInv
<1>13. JudgeTime => stage' \in {"budget", "done"}
  BY DEF JudgeTime, Goto, Resolve
<1>14. SpendAll \/ SpendLeast \/ EndMaxSearch => stage' = "done"
  BY DEF SpendAll, SpendLeast, EndMaxSearch, Resolve
<1> QED
  BY <1>1, <1>2, <1>3, <1>5, <1>6, <1>7, <1>8, <1>9, <1>10, <1>11, <1>12, <1>13,
     <1>14 DEF Next

\* At first there is nothing to rely on.
LEMMA InitBranch == Init => BranchInv
  BY DEF Init, BranchInv, Fitted

(***************************************************************************)
(* Whatever a branch of runSolver relies on holds when it is taken: the    *)
(* conflict of solveBoth, the flat cost curve and the searches.            *)
(***************************************************************************)
THEOREM BranchInvariant == NoSlowdown => (Spec => []BranchInv)
<1> SUFFICES ASSUME NoSlowdown PROVE Spec => []BranchInv
  OBVIOUS
<1>1. TypeOK /\ SearchBracket /\ BranchInv /\ [Next]_vars => BranchInv'
  BY StepBranch
<1> QED BY <1>1, InitBranch, SolverTypeCorrect, SearchesBracket, PTL DEF Spec

-----------------------------------------------------------------------------
(***************************************************************************)
(* A step of the solver is one of the promise: the choice of a branch is   *)
(* its Choose, a step of a search leaves what it says alone.               *)
(***************************************************************************)
\* Between Estimate and the end of a branch the promise is "fitted".
LEMMA Outcomes ==
  /\ (Outcome = "open") <=> (stage = "start")
  /\ (Outcome = "done") <=> (stage = "done")
  /\ (Outcome = "failed") <=> (stage = "failed")
  /\ (Outcome = "fitted") <=> (stage \notin {"start", "done", "failed"})
  BY DEF Outcome

\* The promise is written in the same words.
LEMMA SameWords ==
  /\ \A o, S, c : Contract!NeedsCalibration(o, S, c) <=> NeedsCalibration(o, S, c)
  /\ \A o, c : Contract!Unparsable(o, c) <=> Unparsable(o, c)
  /\ \A S, w, p : Contract!Models(S, w, p) = Models(S, w, p)
  /\ \A o : Contract!AllowedNodes(o) = AllowedNodes(o)
  /\ \A n, o, m, c : Contract!Chosen(n, o, m, c) <=> Chosen(n, o, m, c)
<1>1. /\ \A o : Contract!HasTime(o) <=> HasTime(o)
      /\ \A o : Contract!HasBudget(o) <=> HasBudget(o)
      /\ \A c : Contract!Known(c) <=> Known(c)
  BY DEF Contract!HasTime, Contract!HasBudget, Contract!Known, HasTime, HasBudget,
         Known, Contract!NotGiven, NotGiven
<1>2. \A o, S, c : Contract!NeedsCalibration(o, S, c) <=> NeedsCalibration(o, S, c)
  BY <1>1 DEF Contract!NeedsCalibration, NeedsCalibration
<1>3. \A o, c : Contract!Unparsable(o, c) <=> Unparsable(o, c)
  BY <1>1 DEF Contract!Unparsable, Unparsable, Contract!Malformed, Malformed
<1>4. \A S : Contract!Smallest(S) = Smallest(S)
  BY DEF Contract!Smallest, Smallest
<1>5. \A p, q : Contract!ClosedForm(p, q) = ClosedForm(p, q)
  BY DEF Contract!ClosedForm, ClosedForm
<1>card. \A S : Contract!Cardinality(S) = Cardinality(S)
  BY DEF Contract!Cardinality, Cardinality
<1>6. \A S : Contract!Alphas(S) = Alphas(S)
  <2> TAKE S
  <2>1. Contract!ClosedForm(Contract!Smallest(S), Contract!Smallest(S \ {Contract!Smallest(S)}))
          = ClosedForm(Smallest(S), Smallest(S \ {Smallest(S)}))
    BY <1>4, <1>5
  <2>2. CASE Cardinality(S) = 1
    BY <1>card, <2>2 DEF Contract!Alphas, Alphas
  <2>3. CASE Cardinality(S) # 1 /\ Cardinality(S) = 2
    BY <1>card, <2>1, <2>3 DEF Contract!Alphas, Alphas
  <2>4. CASE Cardinality(S) # 1 /\ Cardinality(S) # 2
    BY <1>card, <2>4 DEF Contract!Alphas, Alphas
  <2> QED BY <2>2, <2>3, <2>4
<1>7. \A S, w, p : Contract!Models(S, w, p) = Models(S, w, p)
  BY <1>4, <1>6 DEF Contract!Models, Models
<1>8. \A o : Contract!AllowedNodes(o) = AllowedNodes(o)
  BY DEF Contract!AllowedNodes, AllowedNodes
<1>9. \A n, m : Contract!Time(n, m) = Time(n, m)
  BY DEF Contract!Time, Time
<1>10. \A n, t, m : Contract!Fast(n, t, m) <=> Fast(n, t, m)
  BY <1>9 DEF Contract!Fast, Fast
<1>11. \A n, m, c : Contract!Cost(n, m, c) = Cost(n, m, c)
  BY <1>9 DEF Contract!Cost, Cost
<1>12. \A n, b, m, c : Contract!Cheap(n, b, m, c) <=> Cheap(n, b, m, c)
  BY <1>11 DEF Contract!Cheap, Cheap
<1>13. \A n, m, c : Contract!Flat(n, m, c) <=> Flat(n, m, c)
  BY <1>11 DEF Contract!Flat, Flat
<1>14. \A n, o, m : Contract!FewestForTime(n, o, m) <=> FewestForTime(n, o, m)
  BY <1>8, <1>10 DEF Contract!FewestForTime, FewestForTime
<1>15. \A n, o, m, c : Contract!MostForBudget(n, o, m, c) <=> MostForBudget(n, o, m, c)
  BY <1>8, <1>12 DEF Contract!MostForBudget, MostForBudget
<1>16. \A n, o, m, c : Contract!Chosen(n, o, m, c) <=> Chosen(n, o, m, c)
  BY <1>1, <1>8, <1>12, <1>13, <1>14, <1>15 DEF Contract!Chosen, Chosen
<1> QED BY <1>2, <1>3, <1>7, <1>8, <1>16

\* The solver starts where the promise does.
LEMMA InitPromised == Init => Contract!Init
  BY Outcomes DEF Init, Contract!Init

\* A step of runSolver is one of the promise, or changes nothing it speaks of.
LEMMA StepPromised ==
  TypeOK /\ SearchBracket /\ BranchInv /\ NoSlowdown /\ [Next]_vars
    => [Contract!Next]_(Contract!vars)
<1> SUFFICES ASSUME TypeOK, SearchBracket, BranchInv, NoSlowdown, [Next]_vars
             PROVE  [Contract!Next]_(Contract!vars)
  OBVIOUS
<1>0. /\ (Outcome' = "open") <=> (stage' = "start")
      /\ (Outcome' = "done") <=> (stage' = "done")
      /\ (Outcome' = "failed") <=> (stage' = "failed")
      /\ (Outcome' = "fitted") <=> (stage' \notin {"start", "done", "failed"})
  BY DEF Outcome
<1>1. CASE Calibrate
  <2>1. /\ stage = "start" /\ stage' = "done" /\ nodes' = CalibrationNodes
        /\ NeedsCalibration(objective, points, price) /\ UNCHANGED <<inputs, model>>
    BY <1>1 DEF Calibrate, Resolve
  <2>2. Contract!Calibrate
    BY <1>0, <2>1, Outcomes, SameWords DEF Contract!Calibrate, inputs
  <2> QED BY <2>2 DEF Contract!Next
<1>2. CASE LoadFails
  <2>1. stage = "start" /\ stage' = "failed" /\ UNCHANGED <<inputs, model, nodes>>
    BY <1>2 DEF LoadFails, Goto
  <2>2. Contract!LoadFails
    BY <1>0, <2>1, Outcomes DEF Contract!LoadFails, inputs
  <2> QED BY <2>2 DEF Contract!Next
<1>3. CASE Estimate
  <2>1. /\ stage = "start" /\ ~NeedsCalibration(objective, points, price)
        /\ \E work \in Works, provisioning \in Provisionings :
             model' \in Models(points, work, provisioning)
        /\ stage' = IF Unparsable(objective, price) THEN "failed"
                    ELSE IF HasTime(objective) THEN "time" ELSE "budget"
        /\ UNCHANGED <<inputs, nodes>>
    BY <1>3 DEF Estimate
  <2>2. Outcome' = IF Unparsable(objective, price) THEN "failed" ELSE "fitted"
    BY <1>0, <2>1
  <2>3. Contract!Fit
    BY <2>1, <2>2, Outcomes, SameWords DEF Contract!Fit, inputs
  <2> QED BY <2>3 DEF Contract!Next
<1>4. CASE (JudgeTime \/ SpendAll \/ SpendLeast \/ EndMaxSearch) /\ stage' = "done"
  <2>1. UNCHANGED <<inputs, model>> /\ Fitted /\ stage \notin {"start", "done", "failed"}
    BY <1>4 DEF JudgeTime, SpendAll, SpendLeast, EndMaxSearch, Goto, Resolve, BranchInv
  <2>2. nodes' \in AllowedNodes(objective) /\ Chosen(nodes', objective, model, price)
    BY <1>4, <2>1, Answers
  <2>3. Contract!Choose
    BY <1>0, <1>4, <2>1, <2>2, Outcomes, SameWords
       DEF Contract!Choose, Contract!Allowed, Contract!Answer, inputs
  <2> QED BY <2>3 DEF Contract!Next
<1>5. CASE \/ StartMinSearch \/ MinStep \/ EndMinSearch \/ StartMaxSearch \/ MaxStep
           \/ JudgeTime /\ stage' = "budget"
  <2>1. /\ UNCHANGED <<inputs, model, nodes>>
        /\ stage \notin {"start", "done", "failed"}
        /\ stage' \notin {"start", "done", "failed"}
    BY <1>5 DEF StartMinSearch, MinStep, EndMinSearch, StartMaxSearch, MaxStep,
                JudgeTime, Goto, Resolve
  <2>2. Outcome = "fitted" /\ Outcome' = "fitted"
    BY <1>0, <2>1, Outcomes
  <2> QED BY <2>1, <2>2 DEF Contract!vars, inputs
<1>6. CASE UNCHANGED vars
  <2>1. UNCHANGED <<inputs, model, nodes, stage>>
    BY <1>6 DEF vars
  <2>2. Outcome' = Outcome
    BY <2>1 DEF Outcome
  <2> QED BY <2>1, <2>2 DEF Contract!vars, inputs
<1>7. JudgeTime => stage' \in {"budget", "done"}
  BY DEF JudgeTime, Goto, Resolve
<1>8. SpendAll \/ SpendLeast \/ EndMaxSearch => stage' = "done"
  BY DEF SpendAll, SpendLeast, EndMaxSearch, Resolve
<1> QED BY <1>1, <1>2, <1>3, <1>4, <1>5, <1>6, <1>7, <1>8 DEF Next

(***************************************************************************)
(* runSolver keeps its promise (feature.md, "Solver Algorithm"): two       *)
(* binary searches and four branches choose the fewest nodes that meet the *)
(* target, the most the budget buys, and the second when the first is over *)
(* budget.                                                                 *)
(***************************************************************************)
THEOREM PromiseKept == NoSlowdown => (Spec => KeepsContract)
<1> SUFFICES ASSUME NoSlowdown PROVE Spec => KeepsContract
  OBVIOUS
<1>1. TypeOK /\ SearchBracket /\ BranchInv /\ [Next]_vars
        => [Contract!Next]_(Contract!vars)
  BY StepPromised
<1>2. Spec => []BranchInv
  BY BranchInvariant
<1> QED
  BY <1>1, <1>2, InitPromised, SolverTypeCorrect, SearchesBracket, PTL
     DEF Spec, KeepsContract, Contract!Spec

-----------------------------------------------------------------------------
(***************************************************************************)
(* A node count that meets both the target and the budget is chosen when   *)
(* there is one: the fewest nodes that meet the target are the cheapest.   *)
(***************************************************************************)
THEOREM BothAreMet == NoSlowdown => (Spec => []BothWhenPossible)
<1> SUFFICES ASSUME NoSlowdown PROVE Spec => []BothWhenPossible
  OBVIOUS
<1>1. TypeOK /\ BranchInv => BothWhenPossible
  <2> SUFFICES ASSUME TypeOK, BranchInv,
                      Estimated, HasTime(objective), HasBudget(objective), Known(price),
                      NEW n \in 2 .. objective.maxNodes, FastEnough(n), Affordable(n)
               PROVE  FastEnough(nodes) /\ Affordable(nodes)
    BY DEF BothWhenPossible
  <2>1. model \in Model /\ price \in Nat
    BY SaneModel, InputsAssumption DEF Estimated, TypeOK, Known
  <2>2. objective.budget \in Int /\ objective.maxNodes \in Nat
    BY ObjectivesAssumption DEF TypeOK
  <2>3. Chosen(nodes, objective, model, price)
    BY DEF BranchInv, Estimated
  <2>4. PICK t \in AllowedNodes(objective) :
          /\ FewestForTime(t, objective, model)
          /\ IF ~Cheap(t, objective.budget, model, price)
             THEN MostForBudget(nodes, objective, model, price)
             ELSE nodes = t
    BY <2>3 DEF Chosen
  <2>5. Fast(t, objective.time, model) /\ t <= n
    BY <2>4 DEF FewestForTime, FastEnough, AllowedNodes
  <2>6. t \in Positive /\ n \in Positive
    BY <2>2 DEF AllowedNodes, Positive
  <2>7. Cheap(t, objective.budget, model, price)
    BY <2>1, <2>2, <2>5, <2>6, CheapWithFewer DEF Affordable
  <2> QED BY <2>4, <2>5, <2>7 DEF FastEnough, Affordable
<1> QED BY <1>1, SolverTypeCorrect, BranchInvariant, PTL

(***************************************************************************)
(* What the comment on binarySearchMinN says is so of a history that never *)
(* slows down: it finds the minimum.                                       *)
(***************************************************************************)
THEOREM MinimumIsFound == NoSlowdown => (Spec => []FindsTheMinimum)
<1> SUFFICES ASSUME NoSlowdown PROVE Spec => []FindsTheMinimum
  OBVIOUS
<1>1. BranchInv => FindsTheMinimum
  BY DEF BranchInv, FindsTheMinimum, FewestForTime, FastEnough, AllowedNodes
<1> QED BY <1>1, BranchInvariant, PTL

-----------------------------------------------------------------------------
\* The model is one of this history, whatever the history.
ModelInv ==
    Fitted => \E work \in Works, provisioning \in Provisionings :
                model \in Models(points, work, provisioning)

\* Every step keeps the model one of this history.
LEMMA StepModel ==
  /\ stage \notin {"start", "done", "failed"} => Fitted
  /\ ModelInv /\ [Next]_vars
  => (stage \notin {"start", "done", "failed"} => Fitted)' /\ ModelInv'
<1> SUFFICES ASSUME stage \notin {"start", "done", "failed"} => Fitted,
                    ModelInv, [Next]_vars
             PROVE  (stage \notin {"start", "done", "failed"} => Fitted)' /\ ModelInv'
  OBVIOUS
<1>1. CASE Calibrate
  BY <1>1 DEF Calibrate, Resolve, Fitted, ModelInv, inputs
<1>2. CASE LoadFails
  BY <1>2 DEF LoadFails, Goto, Fitted, ModelInv
<1>3. CASE Estimate
  <2>1. UNCHANGED <<objective, points, price>>
    BY <1>3 DEF Estimate, inputs
  <2> QED BY <1>3, <2>1 DEF Estimate, Fitted, ModelInv
<1>4. CASE stage \notin {"start", "done", "failed"} /\ UNCHANGED <<inputs, model>>
  BY <1>4 DEF Fitted, ModelInv, inputs
<1>5. CASE UNCHANGED vars
  BY <1>5 DEF vars, Fitted, ModelInv, inputs
<1>6. \/ StartMinSearch \/ MinStep \/ EndMinSearch \/ JudgeTime
      \/ SpendAll \/ SpendLeast \/ StartMaxSearch \/ MaxStep \/ EndMaxSearch
      => stage \notin {"start", "done", "failed"} /\ UNCHANGED <<inputs, model>>
  BY DEF StartMinSearch, MinStep, EndMinSearch, JudgeTime, SpendAll, SpendLeast,
         StartMaxSearch, MaxStep, EndMaxSearch, Goto, Resolve
<1> QED BY <1>1, <1>2, <1>3, <1>4, <1>5, <1>6 DEF Next

(***************************************************************************)
(* The fit goes through the larger of two points, whatever their overhead: *)
(* predT there is the work at the throughput that was measured.            *)
(***************************************************************************)
THEOREM FitIsExact == Spec => []FitsLargerPoint
<1>1. TypeOK /\ ModelInv => FitsLargerPoint
  <2> SUFFICES ASSUME TypeOK, ModelInv, NEW p \in points, NEW q \in points,
                      Cardinality(points) = 2, p.nodes < q.nodes,
                      q.rate * p.nodes <= p.rate * q.nodes, Fitted
               PROVE  Time(q.nodes, model) * q.rate
                        = model.work * model.rate * model.under * q.nodes
    BY DEF FitsLargerPoint
  <2>1. /\ p.rate \in Nat /\ p.nodes \in Nat /\ q.rate \in Nat /\ q.nodes \in Nat
        /\ points \in Histories
    BY HistoriesAssumption DEF TypeOK, Point, Positive
  <2>2. Smallest(points) = p /\ Smallest(points \ {p}) = q
    BY <2>1, HistoriesAreMeasured, TwoPoints
  <2>3. PICK work \in Works, provisioning \in Provisionings :
          model \in Models(points, work, provisioning)
    BY DEF ModelInv
  <2>4. Alphas(points) = {ClosedForm(p, q)}
    BY <2>2 DEF Alphas
  <2>5. /\ model.work \in Int /\ model.nodes = p.nodes /\ model.rate = p.rate
        /\ model.over = ClosedForm(p, q).over /\ model.under = ClosedForm(p, q).under
    BY <2>2, <2>3, <2>4, InputsAssumption DEF Models
  <2>6. p.rate * q.nodes \in Int /\ q.rate * p.nodes \in Int
    BY <2>1
  <2>7. /\ model.over = p.rate * q.nodes - q.rate * p.nodes
        /\ model.under = q.rate * p.nodes * (q.nodes - 1)
    <3>1. ~(p.rate * q.nodes - q.rate * p.nodes < 0)
      BY <2>6
    <3> QED BY <2>5, <3>1 DEF ClosedForm
  <2>8. Time(q.nodes, model)
          = model.work * p.nodes
              * (q.rate * p.nodes * (q.nodes - 1)
                   + (p.rate * q.nodes - q.rate * p.nodes) * (q.nodes - 1))
    BY <2>5, <2>7 DEF Time
  <2> QED BY <2>1, <2>5, <2>7, <2>8, FitsSecond
<1> DEFINE Running == stage \notin {"start", "done", "failed"} => Fitted
<1>2. Init => Running /\ ModelInv
  BY DEF Init, Fitted, ModelInv
<1>3. Running /\ ModelInv /\ [Next]_vars => Running' /\ ModelInv'
  BY StepModel
<1> HIDE DEF Running
<1> QED BY <1>1, <1>2, <1>3, SolverTypeCorrect, PTL DEF Spec
==================================================================================
