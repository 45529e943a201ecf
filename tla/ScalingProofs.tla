------------------------------ MODULE ScalingProofs ------------------------------
(***************************************************************************)
(* What holds of the scaling model (ScalingModel, NodeChoice) for every    *)
(* history: what the fit returns, how its predictions move with the node   *)
(* count, and between which bounds an average lies.  The proofs about      *)
(* TopologySolver and about Learning rest on these lemmas.                 *)
(***************************************************************************)
EXTENDS NodeChoice, Functions, FiniteSetTheorems, WellFoundedInduction, TLAPS

\* What groupByN and average make of a list of entries: points, one per node count.
Measured(S) ==
    /\ S \subseteq Point /\ S # {}
    /\ \A p, q \in S : p.nodes = q.nodes => p = q

\* No overhead above 1.
Sane(m) == m \in Model /\ m.over <= m.under

-----------------------------------------------------------------------------
(***************************************************************************)
(* Arithmetic.                                                             *)
(***************************************************************************)
\* A product of natural numbers is one.
LEMMA NatProduct == \A a, b \in Nat : a * b \in Nat
  BY SMT

\* How the multiplied-out predictions are taken apart.
LEMMA Distribute == \A a, b, c, d \in Int : a * (b + c * d) = a * b + a * c * d
  BY SMT

\* A factor that is one less.
LEMMA OneLess == \A a, b \in Int : a * (b - 1) = a * b - a
  BY SMT

\* A product with a natural number grows with the other factor.
LEMMA ProductGrows ==
  ASSUME NEW a \in Nat, NEW b \in Int, NEW c \in Int, b <= c
  PROVE  a * b <= a * c
<1>1. a * (c - b) \in Nat
  BY NatProduct
<1>2. a * (c - b) = a * c - a * b
  BY SMT
<1> QED BY <1>1, <1>2, SMT

\* A share of what is left stays covered when there are more to bear it: from
\* A + B * n <= K * n the same for any n that is larger.
LEMMA MoreBear ==
  ASSUME NEW A \in Nat, NEW B \in Int, NEW K \in Int,
         NEW n \in Positive, NEW k \in Nat, n <= k, A + B * n <= K * n
  PROVE  A + B * k <= K * k
<1>0. n \in Nat /\ n >= 1
  BY DEF Positive
<1>1. A <= (K - B) * n
  BY <1>0, (K - B) * n = K * n - B * n, SMT
<1>2. CASE K - B >= 0
  <2>1. (K - B) * n <= (K - B) * k
    BY <1>0, <1>2, ProductGrows
  <2>2. (K - B) * k = K * k - B * k
    BY SMT
  <2>3. (K - B) * n \in Int /\ (K - B) * k \in Int /\ K * k \in Int /\ B * k \in Int
    BY <1>0
  <2> QED BY <1>1, <2>1, <2>2, <2>3, SMT
<1>3. CASE K - B < 0
  <2>1. (B - K) * 1 <= (B - K) * n
    BY <1>0, <1>3, ProductGrows
  <2>2. (B - K) * n = 0 - (K - B) * n
    BY <1>0, SMT
  <2>3. (B - K) * 1 = B - K
    BY SMT
  <2>4. (B - K) * n \in Int /\ (K - B) * n \in Int
    BY <1>0
  <2>5. B - K > 0
    BY <1>3
  <2> QED BY <1>1, <2>1, <2>2, <2>3, <2>4, <2>5, SMT
<1> QED BY <1>2, <1>3

\* Products of positive numbers are positive: what the fractions of the model are
\* made of.
LEMMA PositiveProduct == \A a, b \in Positive : a * b \in Positive
  BY SMT DEF Positive

\* A set of numbers that is not empty has a least one.
LEMMA Least ==
    ASSUME NEW S \in SUBSET Nat, S # {}
    PROVE  \E n \in S : \A m \in S : n <= m
<1> DEFINE R == OpToRel(<, Nat)
<1>1. IsWellFoundedOn(R, Nat)
  BY NatLessThanWellFounded
<1>2. PICK x \in S : \A y \in S : ~(<<y, x>> \in R)
  BY <1>1, WFMin
<1>3. \A y \in S : ~(y < x)
  BY <1>2 DEF OpToRel
<1> QED BY <1>3

-----------------------------------------------------------------------------
(***************************************************************************)
(* The fit.                                                                *)
(***************************************************************************)
\* The closed form is a fraction: over is not negative, under is positive.  The
\* second node count is more than one, being more than the first.
LEMMA ClosedFormIsFraction ==
  ASSUME NEW p \in Point, NEW q \in Point, p.nodes < q.nodes
  PROVE  ClosedForm(p, q).over \in Nat /\ ClosedForm(p, q).under \in Positive
<1> DEFINE lost == p.rate * q.nodes - q.rate * p.nodes
           below == q.rate * p.nodes * (q.nodes - 1)
<1>1. /\ p.rate \in Positive /\ p.nodes \in Positive
      /\ q.rate \in Positive /\ q.nodes \in Positive
  BY DEF Point
<1>2. q.nodes - 1 \in Positive
  BY <1>1 DEF Positive
<1>3. q.rate * p.nodes \in Positive /\ p.rate * q.nodes \in Positive
  BY <1>1, PositiveProduct
<1>4. below \in Positive
  BY <1>2, <1>3, PositiveProduct
<1>5. lost \in Int
  BY <1>3 DEF Positive
<1>6. ClosedForm(p, q) = [over |-> IF lost < 0 THEN 0 ELSE lost, under |-> below]
  BY DEF ClosedForm
<1> HIDE DEF lost, below
<1>7. (IF lost < 0 THEN 0 ELSE lost) \in Nat
  BY <1>5
<1> QED BY <1>4, <1>6, <1>7

\* Any set of points has one with the fewest nodes, which Smallest returns.
LEMMA SmallestIsLeast ==
  ASSUME NEW S, S \subseteq Point, S # {}
  PROVE  Smallest(S) \in S /\ \A q \in S : Smallest(S).nodes <= q.nodes
<1> DEFINE counts == {p.nodes : p \in S}
<1>1. counts \subseteq Nat /\ counts # {}
  BY DEF Point, Positive
<1>2. PICK n \in counts : \A m \in counts : n <= m
  <2> HIDE DEF counts
  <2> QED BY <1>1, Least
<1>3. PICK p \in S : p.nodes = n
  BY <1>2
<1>4. \A q \in S : p.nodes <= q.nodes
  BY <1>2, <1>3
<1> QED BY <1>3, <1>4 DEF Smallest

\* Without its smallest point, a history has only points of more nodes.
LEMMA OthersAreLarger ==
  ASSUME NEW S, Measured(S), NEW q \in S \ {Smallest(S)}
  PROVE  Smallest(S).nodes < q.nodes
<1>1. S \subseteq Point /\ S # {}
  BY DEF Measured
<1>2. Smallest(S) \in S /\ Smallest(S).nodes <= q.nodes
  BY <1>1, SmallestIsLeast
<1>3. Smallest(S).nodes # q.nodes
  BY <1>2 DEF Measured
<1>4. Smallest(S).nodes \in Nat /\ q.nodes \in Nat
  BY <1>1, <1>2 DEF Point, Positive
<1> QED BY <1>2, <1>3, <1>4

\* Whatever branch of estimateAlpha is taken, alpha is a fraction.
LEMMA AlphasAreFractions ==
  ASSUME NEW S, Measured(S), NEW a \in Alphas(S)
  PROVE  a.over \in Nat /\ a.under \in Positive
<1>1. S \subseteq Point /\ S # {}
  BY DEF Measured
<1>2. CASE Cardinality(S) = 1
  BY <1>2 DEF Alphas, Positive
<1>3. CASE Cardinality(S) # 1 /\ Cardinality(S) = 2
  <2> DEFINE first == Smallest(S)
             second == Smallest(S \ {first})
  <2>1. S \ {first} # {}
    <3>1. first \in S
      BY <1>1, SmallestIsLeast
    <3>2. S # {first}
      BY <1>3, FS_Singleton
    <3> QED BY <3>1, <3>2
  <2>2. first \in Point /\ second \in S \ {first}
    BY <1>1, <2>1, SmallestIsLeast
  <2>3. first.nodes < second.nodes
    BY <2>2, OthersAreLarger
  <2>4. a = ClosedForm(first, second)
    BY <1>3 DEF Alphas
  <2> HIDE DEF first, second
  <2> QED BY <1>1, <2>2, <2>3, <2>4, ClosedFormIsFraction
<1>4. CASE Cardinality(S) # 1 /\ Cardinality(S) # 2
  <2>1. PICK k \in 0 .. Grid : a = [over |-> k, under |-> Grid]
    BY <1>4 DEF Alphas
  <2> QED BY <2>1, GridAssumption DEF Positive
<1> QED BY <1>2, <1>3, <1>4

\* What estimateModel returns is a model.
LEMMA ModelsAreModels ==
  ASSUME NEW S, Measured(S), NEW work \in Nat, NEW provisioning \in Nat,
         NEW m \in Models(S, work, provisioning)
  PROVE  m \in Model
<1>1. Smallest(S) \in Point
  BY SmallestIsLeast DEF Measured
<1>2. PICK a \in Alphas(S) :
        m = [over |-> a.over, under |-> a.under,
             nodes |-> Smallest(S).nodes, rate |-> Smallest(S).rate,
             work |-> work, provisioning |-> provisioning]
  BY DEF Models
<1>3. a.over \in Nat /\ a.under \in Positive
  BY <1>2, AlphasAreFractions
<1>4. Smallest(S).nodes \in Positive /\ Smallest(S).rate \in Positive
  BY <1>1 DEF Point
<1> QED BY <1>2, <1>3, <1>4 DEF Model

\* With two points, the one with fewer nodes is the smallest, the other is left.
LEMMA TwoPoints ==
  ASSUME NEW S, Measured(S), IsFiniteSet(S), Cardinality(S) = 2, NEW p \in S,
         NEW q \in S, p.nodes < q.nodes
  PROVE  Smallest(S) = p /\ Smallest(S \ {p}) = q
<1>1. S \subseteq Point /\ p.nodes \in Nat /\ q.nodes \in Nat /\ p # q
  BY DEF Measured, Point, Positive
<1>2. IsFiniteSet(S) /\ S \ {p} = {q}
  <2>2. IsFiniteSet(S \ {p}) /\ Cardinality(S \ {p}) = 1
    BY FS_RemoveElement
  <2>3. PICK x : S \ {p} = {x}
    BY <2>2, FS_Singleton
  <2>4. q \in S \ {p}
    BY <1>1
  <2> QED BY <2>3, <2>4
<1>3. Smallest(S) \in S /\ Smallest(S).nodes <= p.nodes
  BY <1>1, SmallestIsLeast
<1>4. Smallest(S) = p
  BY <1>1, <1>2, <1>3
<1>5. Smallest(S \ {p}) \in S \ {p}
  BY <1>1, <1>2, SmallestIsLeast
<1> QED BY <1>2, <1>4, <1>5

\* The closed form, put into predT: what the overhead takes is what the larger
\* point falls short of.
LEMMA FitsSecond ==
  ASSUME NEW w \in Int, NEW n1 \in Int, NEW r1 \in Int, NEW r2 \in Int, NEW N \in Int
  PROVE  w * n1 * (r2 * n1 * (N - 1) + (r1 * N - r2 * n1) * (N - 1)) * r2
           = w * r1 * (r2 * n1 * (N - 1)) * N
<1> DEFINE e == r2 * n1
           f == r1 * N
           K == N - 1
<1>1. e \in Int /\ f \in Int /\ K \in Int
  OBVIOUS
<1>2. e * K + (f - e) * K = f * K
  <2> HIDE DEF e, f, K
  <2>1. (f - e) * K = f * K - e * K
    BY <1>1, SMT
  <2>2. e * K \in Int /\ f * K \in Int
    BY <1>1
  <2> QED BY <2>1, <2>2
<1>3. \A k \in Int : w * n1 * (r1 * N * k) * r2 = w * r1 * (r2 * n1 * k) * N
  BY SMT
<1> QED BY <1>1, <1>2, <1>3

LEMMA ClosedFormIsSane ==
  ASSUME NEW p \in Point, NEW q \in Point, p.nodes < q.nodes,
         p.rate <= q.rate * p.nodes
  PROVE  ClosedForm(p, q).over <= ClosedForm(p, q).under
<1> DEFINE each == q.rate * p.nodes
<1>1. /\ p.rate \in Nat /\ p.nodes \in Nat /\ q.rate \in Nat /\ q.nodes \in Nat
      /\ q.nodes - 1 \in Nat
  BY DEF Point, Positive
<1>2. each \in Nat
  BY <1>1, NatProduct
<1>3. p.rate * q.nodes <= each * q.nodes
  <2>1. q.nodes * p.rate <= q.nodes * each
    BY <1>1, <1>2, ProductGrows
  <2>2. \A a, b \in Int : a * b = b * a
    BY SMT
  <2> QED BY <1>1, <1>2, <2>1, <2>2
<1>4. each * (q.nodes - 1) = each * q.nodes - each
  BY <1>1, <1>2, OneLess
<1>5. /\ ClosedForm(p, q).over = IF p.rate * q.nodes - each < 0 THEN 0
                                 ELSE p.rate * q.nodes - each
      /\ ClosedForm(p, q).under = each * (q.nodes - 1)
  BY DEF ClosedForm
<1>6. each * (q.nodes - 1) \in Nat /\ p.rate * q.nodes \in Nat /\ each * q.nodes \in Nat
  BY <1>1, <1>2, NatProduct
<1> HIDE DEF each
<1> QED BY <1>2, <1>3, <1>4, <1>5, <1>6

-----------------------------------------------------------------------------
(***************************************************************************)
(* binarySearchMinN rests on this: "T is non-increasing in n" is so for a  *)
(* model with no overhead above 1.                                         *)
(***************************************************************************)
LEMMA FasterWithMore ==
  ASSUME NEW m, Sane(m), NEW target \in Int, NEW n \in Positive, NEW k \in Nat,
         n <= k, Fast(n, target, m)
  PROVE  Fast(k, target, m)
<1> DEFINE work == m.work * m.nodes
           A == work * (m.under - m.over)
           B == work * m.over
           K == target * m.rate * m.under
<1>1. /\ m.work \in Nat /\ m.nodes \in Nat /\ m.over \in Nat
      /\ m.under \in Nat /\ m.rate \in Nat /\ m.over <= m.under
  BY DEF Sane, Model, Positive
<1>2. work \in Nat /\ m.under - m.over \in Nat
  BY <1>1, NatProduct
<1>3. A \in Nat /\ B \in Int /\ K \in Int
  BY <1>1, <1>2, NatProduct
<1>4. \A i \in Nat : Time(i, m) = A + B * i
  <2> TAKE i \in Nat
  <2>1. Time(i, m) = work * (m.under + m.over * (i - 1))
    BY DEF Time
  <2> HIDE DEF work
  <2>2. m.under + m.over * (i - 1) = (m.under - m.over) + m.over * i
    <3>1. m.over * (i - 1) = m.over * i - m.over
      BY <1>1, OneLess
    <3> QED BY <1>1, <3>1
  <2>3. work * ((m.under - m.over) + m.over * i)
          = work * (m.under - m.over) + work * m.over * i
    BY <1>1, <1>2, Distribute
  <2> QED BY <2>1, <2>2, <2>3
<1>5. \A i \in Nat : Fast(i, target, m) <=> A + B * i <= K * i
  BY <1>4 DEF Fast
<1> HIDE DEF A, B, K
<1>6. n \in Nat
  BY DEF Positive
<1> QED BY <1>3, <1>5, <1>6, MoreBear

(***************************************************************************)
(* binarySearchMaxN rests on this: more nodes never cost less, whatever    *)
(* the overhead.                                                           *)
(***************************************************************************)
LEMMA DearerWithMore ==
  ASSUME NEW m \in Model, NEW perNode \in Nat, NEW n \in Positive, NEW k \in Positive,
         n <= k
  PROVE  /\ Cost(n, m, perNode) \in Int /\ Cost(k, m, perNode) \in Int
         /\ Cost(n, m, perNode) <= Cost(k, m, perNode)
<1> DEFINE work == m.work * m.nodes
           share == m.provisioning * m.rate * m.under
<1>1. /\ m.work \in Nat /\ m.nodes \in Nat /\ m.over \in Nat
      /\ m.under \in Nat /\ m.rate \in Nat /\ m.provisioning \in Nat
      /\ n \in Nat /\ k \in Nat /\ n - 1 \in Nat /\ k - 1 \in Nat
  BY DEF Model, Positive
<1>2. work \in Nat /\ share \in Nat
  BY <1>1, NatProduct
<1>3. m.over * (n - 1) <= m.over * (k - 1)
  BY <1>1, ProductGrows
<1>4. /\ m.under + m.over * (n - 1) \in Int /\ m.under + m.over * (k - 1) \in Int
      /\ m.under + m.over * (n - 1) <= m.under + m.over * (k - 1)
  BY <1>1, <1>3
<1>5. /\ Time(n, m) = work * (m.under + m.over * (n - 1))
      /\ Time(k, m) = work * (m.under + m.over * (k - 1))
  BY DEF Time
<1>6. /\ n * m.provisioning * m.rate * m.under = share * n
      /\ k * m.provisioning * m.rate * m.under = share * k
  BY <1>1, SMT
<1> HIDE DEF work, share
<1>7. Time(n, m) \in Int /\ Time(k, m) \in Int /\ Time(n, m) <= Time(k, m)
  BY <1>2, <1>4, <1>5, ProductGrows
<1>8. share * n \in Int /\ share * k \in Int /\ share * n <= share * k
  BY <1>1, <1>2, ProductGrows
<1>9. /\ Time(n, m) + share * n \in Int /\ Time(k, m) + share * k \in Int
      /\ Time(n, m) + share * n <= Time(k, m) + share * k
  BY <1>7, <1>8
<1>10. /\ Cost(n, m, perNode) = perNode * (Time(n, m) + share * n)
       /\ Cost(k, m, perNode) = perNode * (Time(k, m) + share * k)
  BY <1>6 DEF Cost
<1> QED BY <1>9, <1>10, ProductGrows

\* What fits the budget does so with fewer nodes.
LEMMA CheapWithFewer ==
  ASSUME NEW m \in Model, NEW perNode \in Nat, NEW budget \in Int,
         NEW n \in Positive, NEW k \in Positive, n <= k, Cheap(k, budget, m, perNode)
  PROVE  Cheap(n, budget, m, perNode)
<1>1. budget * m.rate * m.under \in Int
  BY DEF Model, Positive
<1> QED BY <1>1, DearerWithMore DEF Cheap

-----------------------------------------------------------------------------
(***************************************************************************)
(* Sums and averages.  The library adds up the values of a function by     *)
(* taking one index after the other from the set, in the order of CHOOSE;  *)
(* that there is a function that does so for every subset, and what it is  *)
(* bounded by, follows from the least number for which it is not so.       *)
(***************************************************************************)
\* One step of a sum: an element that CHOOSE picks and the sum of the others.
SumStep(f, sum, s) ==
    IF s = {} THEN 0
    ELSE f[CHOOSE x \in s : TRUE] + sum[s \ {CHOOSE x \in s : TRUE}]

LEMMA SumIs ==
    ASSUME NEW f, NEW S
    PROVE  SumFunctionOnSet(f, S) =
             (CHOOSE sum : sum = [s \in SUBSET S |-> SumStep(f, sum, s)])[S]
  BY DEF SumFunctionOnSet, FoldFunctionOnSet, MapThenFoldSet, SumStep

LEMMA OneTaken ==
    ASSUME NEW S, IsFiniteSet(S), NEW s \in SUBSET S, s # {}
    PROVE  /\ (CHOOSE x \in s : TRUE) \in s
           /\ s \ {CHOOSE x \in s : TRUE} \in SUBSET S
           /\ Cardinality(s) \in Nat \ {0}
           /\ Cardinality(s \ {CHOOSE x \in s : TRUE}) = Cardinality(s) - 1
<1> DEFINE c == CHOOSE x \in s : TRUE
<1>1. c \in s
  OBVIOUS
<1>2. IsFiniteSet(s) /\ Cardinality(s) \in Nat
  BY FS_Subset, FS_CardinalityType
<1>3. IsFiniteSet(s \ {c}) /\ Cardinality(s \ {c}) = Cardinality(s) - 1
  <2>1. /\ IsFiniteSet(s \ {c})
        /\ Cardinality(s \ {c}) =
             IF c \in s THEN Cardinality(s) - 1 ELSE Cardinality(s)
    BY <1>2, FS_RemoveElement
  <2> QED BY <1>1, <2>1
<1>4. Cardinality(s \ {c}) \in Nat
  BY <1>3, FS_CardinalityType
<1> QED BY <1>1, <1>2, <1>3, <1>4

LEMMA SumExists ==
    ASSUME NEW S, IsFiniteSet(S), NEW f, \A i \in S : f[i] \in Nat
    PROVE  \E sum \in [SUBSET S -> Nat] : \A s \in SUBSET S : sum[s] = SumStep(f, sum, s)
<1> DEFINE Upto(n) ==
      \E sum \in [SUBSET S -> Nat] : \A s \in SUBSET S :
        Cardinality(s) <= n => sum[s] = SumStep(f, sum, s)
<1>1. \A s \in SUBSET S : IsFiniteSet(s) /\ Cardinality(s) \in Nat
  BY FS_Subset, FS_CardinalityType
<1>2. Upto(0)
  <2> DEFINE zero == [s \in SUBSET S |-> 0]
  <2>1. zero \in [SUBSET S -> Nat]
    OBVIOUS
  <2>2. ASSUME NEW s \in SUBSET S, Cardinality(s) <= 0
        PROVE  zero[s] = SumStep(f, zero, s)
    <3>1. s = {}
      BY <1>1, <2>2, FS_EmptySet
    <3> QED BY <3>1 DEF SumStep
  <2> HIDE DEF zero
  <2> QED BY <2>1, <2>2
<1>3. ASSUME NEW n \in Nat \ {0}, Upto(n - 1)
      PROVE  Upto(n)
  <2>1. PICK sum \in [SUBSET S -> Nat] :
          \A s \in SUBSET S : Cardinality(s) <= n - 1 => sum[s] = SumStep(f, sum, s)
    BY <1>3
  <2> DEFINE next == [s \in SUBSET S |-> SumStep(f, sum, s)]
  <2>2. \A s \in SUBSET S : SumStep(f, sum, s) \in Nat
    <3> SUFFICES ASSUME NEW s \in SUBSET S
                 PROVE  SumStep(f, sum, s) \in Nat
      OBVIOUS
    <3>1. CASE s = {}
      BY <3>1 DEF SumStep
    <3>2. CASE s # {}
      <4>1. /\ (CHOOSE x \in s : TRUE) \in S
            /\ s \ {CHOOSE x \in s : TRUE} \in SUBSET S
        BY <3>2, OneTaken
      <4> HIDE DEF next
      <4>2. f[CHOOSE x \in s : TRUE] \in Nat /\ sum[s \ {CHOOSE x \in s : TRUE}] \in Nat
        BY <4>1
      <4> QED BY <3>2, <4>2 DEF SumStep
    <3> QED BY <3>1, <3>2
  <2>3. next \in [SUBSET S -> Nat]
    BY <2>2
  <2>4. ASSUME NEW s \in SUBSET S, Cardinality(s) <= n
        PROVE  next[s] = SumStep(f, next, s)
    <3>1. CASE s = {}
      BY <3>1 DEF SumStep
    <3>2. CASE s # {}
      <4> DEFINE rest == s \ {CHOOSE x \in s : TRUE}
      <4>1. rest \in SUBSET S /\ Cardinality(rest) <= n - 1
        BY <2>4, <3>2, OneTaken
      <4>2. next[rest] = sum[rest]
        BY <2>1, <4>1
      <4>3. next[s] = f[CHOOSE x \in s : TRUE] + sum[rest]
        BY <3>2 DEF SumStep
      <4>4. SumStep(f, next, s) = f[CHOOSE x \in s : TRUE] + next[rest]
        BY <3>2, Zenon DEF SumStep
      <4> QED BY <4>2, <4>3, <4>4
    <3> QED BY <3>1, <3>2
  <2> HIDE DEF next
  <2> QED BY <2>3, <2>4
<1> HIDE DEF Upto
<1>4. \A n \in Nat : Upto(n)
  <2> DEFINE none == {n \in Nat : ~Upto(n)}
  <2> SUFFICES ASSUME none # {}
               PROVE  FALSE
    OBVIOUS
  <2>1. PICK n \in none : \A m \in none : n <= m
    BY Least
  <2>2. n \in Nat \ {0}
    BY <1>2
  <2>3. Upto(n - 1)
    BY <2>1, <2>2
  <2> QED BY <1>3, <2>2, <2>3
<1>5. PICK sum \in [SUBSET S -> Nat] :
        \A s \in SUBSET S :
          Cardinality(s) <= Cardinality(S) => sum[s] = SumStep(f, sum, s)
  <2>1. Upto(Cardinality(S))
    BY <1>1, <1>4
  <2> QED BY <2>1 DEF Upto
<1>6. \A s \in SUBSET S : Cardinality(s) <= Cardinality(S)
  BY FS_Subset
<1> QED BY <1>5, <1>6

LEMMA SumBounds ==
    ASSUME NEW S, IsFiniteSet(S), NEW f, NEW low \in Nat, NEW high \in Nat,
           \A i \in S : f[i] \in Nat /\ low <= f[i]
    PROVE  /\ SumFunctionOnSet(f, S) \in Nat
           /\ low * Cardinality(S) <= SumFunctionOnSet(f, S)
           /\ (\A i \in S : f[i] <= high) =>
                SumFunctionOnSet(f, S) <= high * Cardinality(S)
<1> DEFINE Sum == CHOOSE sum : sum = [s \in SUBSET S |-> SumStep(f, sum, s)]
<1>1. Sum = [s \in SUBSET S |-> SumStep(f, Sum, s)]
  <2>1. PICK sum \in [SUBSET S -> Nat] : \A s \in SUBSET S : sum[s] = SumStep(f, sum, s)
    BY SumExists
  <2>2. sum = [s \in SUBSET S |-> SumStep(f, sum, s)]
    BY <2>1
  <2> QED BY <2>2, Zenon
<1>2. SumFunctionOnSet(f, S) = Sum[S]
  BY SumIs
<1> HIDE DEF Sum
<1> DEFINE Good(s) == /\ Sum[s] \in Nat
                      /\ low * Cardinality(s) <= Sum[s]
                      /\ (\A i \in S : f[i] <= high) => Sum[s] <= high * Cardinality(s)
           Off == {n \in Nat : \E s \in SUBSET S : Cardinality(s) = n /\ ~Good(s)}
<1>3. Off = {}
  <2> SUFFICES ASSUME Off # {}
               PROVE  FALSE
    OBVIOUS
  <2>1. PICK n \in Off : \A m \in Off : n <= m
    BY Least
  <2>2. PICK s \in SUBSET S : Cardinality(s) = n /\ ~Good(s)
    OBVIOUS
  <2>3. CASE s = {}
    <3>1. Sum[s] = 0 /\ Cardinality(s) = 0
      BY <1>1, <2>3, FS_EmptySet DEF SumStep
    <3> QED BY <2>2, <3>1
  <2>4. CASE s # {}
    <3> DEFINE c == CHOOSE x \in s : TRUE
               rest == s \ {c}
    <3>1. /\ c \in S /\ rest \in SUBSET S
          /\ Cardinality(s) \in Nat \ {0}
          /\ Cardinality(rest) = Cardinality(s) - 1
      BY <2>4, OneTaken
    <3>2. Sum[s] = f[c] + Sum[rest]
      BY <1>1, <2>4, Zenon DEF SumStep
    <3>3. Good(rest)
      <4>1. Cardinality(rest) \in Nat /\ Cardinality(rest) < n
        BY <2>2, <3>1
      <4> QED BY <2>1, <3>1, <4>1
    <3>4. f[c] \in Nat /\ low <= f[c] /\ ((\A i \in S : f[i] <= high) => f[c] <= high)
      BY <3>1
    <3>5. /\ low * Cardinality(s) = low * Cardinality(rest) + low
          /\ high * Cardinality(s) = high * Cardinality(rest) + high
      <4>1. \A a \in Nat, b \in Nat \ {0} : a * b = a * (b - 1) + a
        OBVIOUS
      <4> HIDE DEF c, rest
      <4> QED BY <3>1, <4>1
    <3> HIDE DEF c, rest
    <3>6. low * Cardinality(rest) \in Nat /\ high * Cardinality(rest) \in Nat
      <4>1. \A a, b \in Nat : a * b \in Nat
        OBVIOUS
      <4> QED BY <3>1, <4>1
    <3>7. Good(s)
      BY <3>2, <3>3, <3>4, <3>5, <3>6
    <3> QED BY <2>2, <3>7
  <2> QED BY <2>3, <2>4
<1>4. Good(S)
  <2>1. Cardinality(S) \in Nat
    BY FS_CardinalityType
  <2> QED BY <1>3, <2>1
<1> QED BY <1>2, <1>4

(***************************************************************************)
(* An average, rounded down, is between the same bounds as what it is the  *)
(* average of.                                                             *)
(***************************************************************************)
LEMMA AverageBounds ==
    ASSUME NEW S, IsFiniteSet(S), S # {}, NEW f, NEW low \in Nat, NEW high \in Nat,
           \A i \in S : f[i] \in Nat /\ low <= f[i]
    PROVE  /\ SumFunctionOnSet(f, S) \div Cardinality(S) \in Nat
           /\ low <= SumFunctionOnSet(f, S) \div Cardinality(S)
           /\ (\A i \in S : f[i] <= high) =>
                SumFunctionOnSet(f, S) \div Cardinality(S) <= high
<1>1. Cardinality(S) \in Nat \ {0}
  BY FS_CardinalityType, FS_EmptySet
<1>2. /\ SumFunctionOnSet(f, S) \in Nat
      /\ low * Cardinality(S) <= SumFunctionOnSet(f, S)
      /\ (\A i \in S : f[i] <= high) =>
           SumFunctionOnSet(f, S) <= high * Cardinality(S)
  BY SumBounds
<1>3. \A sum \in Nat, k \in Nat \ {0} :
        /\ sum \div k \in Nat
        /\ low * k <= sum => low <= sum \div k
        /\ sum <= high * k => sum \div k <= high
  BY SMTT(30)
<1> QED BY <1>1, <1>2, <1>3

-----------------------------------------------------------------------------
(***************************************************************************)
(* How the fit relates to the workload it was fitted to.                   *)
(***************************************************************************)
\* What is below a line at both ends of an interval and no higher than its own
\* chord is below the line in between.
LEMMA BelowTheLine ==
    ASSUME NEW x \in Int, NEW x1 \in Int, NEW x2 \in Int,
           NEW l \in Int, NEW l1 \in Int, NEW l2 \in Int,
           NEW u \in Nat, NEW v \in Nat, u + v > 0,
           x * (u + v) <= x1 * u + x2 * v, x1 <= l1, x2 <= l2,
           l * (u + v) = l1 * u + l2 * v
    PROVE  x <= l
<1>1. u * x1 <= u * l1 /\ v * x2 <= v * l2
  BY ProductGrows
<1>2. \A a, b \in Int : a * b = b * a /\ a * b \in Int
  BY SMT
<1>3. x * (u + v) <= l * (u + v)
  BY <1>1, <1>2
<1>4. ASSUME l + 1 <= x
      PROVE  FALSE
  <2>1. (u + v) * (l + 1) <= (u + v) * x
    BY <1>4, ProductGrows
  <2>2. (u + v) * (l + 1) = (u + v) * l + (u + v)
    BY SMT
  <2> QED BY <1>2, <1>3, <2>1, <2>2
<1> QED BY <1>4

(***************************************************************************)
(* With one or two node counts measured, the model predicts no less than   *)
(* the workload spends, up to the larger of them, if the node-seconds it   *)
(* spends grow with the nodes and every node adds no less than the one     *)
(* before.                                                                 *)
(***************************************************************************)
LEMMA PredictsNoLess ==
    ASSUME NEW D \in SUBSET Positive, NEW spent \in [D -> Nat],
           \A m, k \in D : m <= k => spent[m] <= spent[k],
           \A l, m, k \in D : l <= m /\ m <= k =>
             spent[m] * ((k - m) + (m - l)) <= spent[l] * (k - m) + spent[k] * (m - l),
           NEW S, Measured(S), IsFiniteSet(S), Cardinality(S) \in {1, 2},
           NEW work \in Nat, NEW provisioning \in Nat,
           \A p \in S : p.nodes \in D /\ p.rate * spent[p.nodes] <= work * p.nodes,
           NEW m \in Models(S, work, provisioning),
           NEW n \in D, NEW top \in S, n <= top.nodes
    PROVE  spent[n] * m.rate * m.under <= Time(n, m)
<1> DEFINE p == Smallest(S)
           line(i) == work * p.nodes * (m.under + m.over * (i - 1))
<1>1. p \in S /\ \A q \in S : p.nodes <= q.nodes
  BY SmallestIsLeast DEF Measured
<1>2. /\ p.nodes \in Nat /\ p.rate \in Nat /\ p.nodes >= 1 /\ p.nodes \in D
      /\ spent[p.nodes] \in Nat /\ p.rate * spent[p.nodes] <= work * p.nodes
  BY <1>1 DEF Measured, Point, Positive
<1>3. PICK a \in Alphas(S) :
        m = [over |-> a.over, under |-> a.under, nodes |-> p.nodes, rate |-> p.rate,
             work |-> work, provisioning |-> provisioning]
  BY DEF Models
<1>4. /\ m.over \in Nat /\ m.under \in Nat /\ m.nodes = p.nodes /\ m.rate = p.rate
      /\ m.work = work
  <2>1. a.over \in Nat /\ a.under \in Nat
    BY <1>3, AlphasAreFractions DEF Positive
  <2> QED BY <1>3, <2>1
<1>5. n \in Nat /\ n >= 1 /\ spent[n] \in Nat
  BY DEF Positive
<1>6. Time(n, m) = line(n)
  BY <1>4 DEF Time
<1>7. work * p.nodes \in Nat
  BY <1>2, NatProduct
<1> HIDE DEF p, line
\* The line is above what is spent on the fewest nodes that were measured.
<1>8. \A i \in Nat : i >= 1 => /\ line(i) \in Int
                               /\ work * p.nodes * m.under <= line(i)
  <2> TAKE i \in Nat
  <2> HAVE i >= 1
  <2>1. m.over * (i - 1) \in Nat
    BY <1>4, NatProduct
  <2>2. /\ m.under + m.over * (i - 1) \in Nat
        /\ m.under <= m.under + m.over * (i - 1)
    BY <1>4, <2>1
  <2>3. work * p.nodes * m.under <= work * p.nodes * (m.under + m.over * (i - 1))
    BY <1>4, <1>7, <2>2, ProductGrows
  <2>4. work * p.nodes * (m.under + m.over * (i - 1)) \in Nat
    BY <1>7, <2>2, NatProduct
  <2> QED BY <2>3, <2>4 DEF line
<1>9. \A i \in D : spent[i] <= spent[p.nodes] =>
        spent[i] * p.rate * m.under <= work * p.nodes * m.under
  <2> TAKE i \in D
  <2> HAVE spent[i] <= spent[p.nodes]
  <2>1. spent[i] \in Nat
    OBVIOUS
  <2>2. p.rate * spent[i] <= p.rate * spent[p.nodes]
    BY <1>2, <2>1, ProductGrows
  <2>3. /\ p.rate * spent[i] \in Nat /\ p.rate * spent[p.nodes] \in Nat
        /\ p.rate * spent[i] = spent[i] * p.rate
    BY <1>2, <2>1, NatProduct
  <2>4. spent[i] * p.rate <= work * p.nodes
    BY <1>2, <1>7, <2>2, <2>3
  <2>5. m.under * (spent[i] * p.rate) <= m.under * (work * p.nodes)
    BY <1>4, <1>7, <2>3, <2>4, ProductGrows
  <2>6. \A b, c \in Nat : b * c = c * b
    BY SMT
  <2> QED BY <1>4, <1>7, <2>3, <2>5, <2>6
<1>10. CASE n <= p.nodes
  <2>1. spent[n] * p.rate * m.under <= work * p.nodes * m.under
    BY <1>2, <1>9, <1>10
  <2>2. spent[n] * p.rate * m.under \in Nat /\ work * p.nodes * m.under \in Nat
    BY <1>2, <1>4, <1>5, <1>7, NatProduct
  <2> QED BY <1>4, <1>5, <1>6, <1>8, <2>1, <2>2
<1>11. CASE ~(n <= p.nodes)
  <2>1. Cardinality(S) = 2
    <3>1. CASE Cardinality(S) = 1
      <4>1. S = {p}
        BY <1>1, <3>1, FS_Singleton
      <4> QED BY <1>11, <4>1
    <3> QED BY <3>1
  <2>2. p.nodes < top.nodes
    BY <1>1, <1>2, <1>5, <1>11 DEF Measured, Point, Positive
  <2>3. Smallest(S) = p /\ Smallest(S \ {p}) = top
    BY <1>1, <2>1, <2>2, TwoPoints
  <2>4. a = ClosedForm(p, top)
    BY <1>3, <2>1, <2>3 DEF Alphas
  <2>5. /\ top.nodes \in Nat /\ top.rate \in Nat /\ top.nodes \in D
        /\ top.nodes - 1 \in Nat
        /\ spent[top.nodes] \in Nat /\ top.rate * spent[top.nodes] <= work * top.nodes
    BY DEF Measured, Point, Positive
  <2> DEFINE far == p.rate * top.nodes
             near == top.rate * p.nodes
             span == top.nodes - 1
             high == spent[top.nodes]
  <2>6. far \in Nat /\ near \in Nat /\ span \in Nat /\ high \in Nat
    BY <1>2, <2>5, NatProduct
  <2>7. m.under = near * span /\ m.over = IF far - near < 0 THEN 0 ELSE far - near
    BY <1>3, <2>4 DEF ClosedForm
  <2> DEFINE most == work * p.nodes
             cost == p.rate * m.under
  \* What is spent on the larger node count, against the work it did.
  <2>8. high * cost <= most * (far * span)
    <3>1. (p.rate * p.nodes) * (top.rate * high)
            <= (p.rate * p.nodes) * (work * top.nodes)
      <4>1. p.rate * p.nodes \in Nat /\ top.rate * high \in Nat /\ work * top.nodes \in Nat
        BY <1>2, <2>5, NatProduct
      <4> QED BY <2>5, <4>1, ProductGrows
    <3>2. \A r1, n1, r2, n2, h, w \in Nat :
            /\ (r1 * n1) * (r2 * h) = h * r1 * (r2 * n1)
            /\ (r1 * n1) * (w * n2) = w * n1 * (r1 * n2)
      BY SMT
    <3>3. high * p.rate * near <= most * far
      BY <1>2, <2>5, <3>1, <3>2
    <3>4. high * p.rate * near \in Nat /\ most * far \in Nat
      BY <1>2, <1>7, <2>6, NatProduct
    <3>5. span * (high * p.rate * near) <= span * (most * far)
      BY <2>6, <3>3, <3>4, ProductGrows
    <3>6. \A h, r, x, k, w, f \in Nat :
            k * (h * r * x) = h * (r * (x * k)) /\ k * (w * f) = w * (f * k)
      BY SMT
    <3> HIDE DEF far, near, span, high, most
    <3> QED BY <1>2, <1>7, <2>6, <2>7, <3>5, <3>6 DEF most
  <2>9. most \in Nat /\ cost \in Nat /\ far * span \in Nat /\ near * span \in Nat
    BY <1>2, <1>4, <1>7, <2>6, NatProduct
  <2>10. \A i \in Nat : line(i) = most * (m.under + m.over * (i - 1))
    BY DEF line
  <2>11. \A b, c, d \in Nat : b * c * d = b * (c * d) /\ b * c \in Nat /\ b * c = c * b
    BY SMT
  <2>12. spent[n] * m.rate * m.under = spent[n] * cost
    BY <1>2, <1>4, <1>5, <2>11
  <2>13. most * m.under \in Nat /\ high * cost \in Nat /\ spent[n] * cost \in Nat
    BY <1>4, <1>5, <2>6, <2>9, NatProduct
  <2>14. CASE far < near
    <3>1. m.over = 0
      BY <2>6, <2>7, <2>14
    <3>2. line(n) = most * (near * span)
      <4>1. line(n) = most * (m.under + 0 * (n - 1))
        BY <1>5, <2>10, <3>1
      <4>2. 0 * (n - 1) = 0
        BY <1>5
      <4> QED BY <1>4, <2>7, <4>1, <4>2
    <3>3. most * (far * span) <= most * (near * span)
      <4>1. span * far <= span * near
        BY <2>6, <2>14, ProductGrows
      <4>2. far * span <= near * span
        BY <2>6, <2>11, <4>1
      <4> HIDE DEF far, near, span, most
      <4> QED BY <2>9, <4>2, ProductGrows
    <3>4. spent[n] * cost <= high * cost
      <4>1. spent[n] <= high
        BY <2>5
      <4>2. cost * spent[n] <= cost * high
        BY <1>5, <2>6, <2>9, <4>1, ProductGrows
      <4> QED BY <1>5, <2>6, <2>9, <2>11, <4>2
    <3>5. most * (far * span) \in Nat /\ most * (near * span) \in Nat
      BY <2>9, NatProduct
    <3> HIDE DEF far, near, span, high, most, cost
    <3> QED BY <1>6, <2>8, <2>12, <2>13, <3>2, <3>3, <3>4, <3>5
  <2>15. CASE ~(far < near)
    <3> DEFINE u == top.nodes - n
               v == n - p.nodes
               low == spent[p.nodes]
    <3>1. u \in Nat /\ v \in Nat /\ u + v > 0 /\ low \in Nat
      BY <1>2, <1>5, <1>11, <2>5
    <3>2. m.over = far - near
      BY <2>6, <2>7, <2>15
    <3>3. /\ line(p.nodes) \in Int /\ most * m.under <= line(p.nodes)
          /\ line(top.nodes) \in Int /\ line(n) \in Int
      BY <1>2, <1>5, <1>8, <2>2, <2>5
    <3>4. low * cost <= line(p.nodes)
      <4>1. low * p.rate * m.under <= most * m.under
        BY <1>2, <1>9
      <4>2. low * cost = low * p.rate * m.under
        BY <1>2, <1>4, <2>11
      <4>3. low * cost \in Nat
        BY <2>9, <3>1, NatProduct
      <4> HIDE DEF low, cost, most
      <4> QED BY <2>13, <3>3, <4>1, <4>2, <4>3
    <3>5. high * cost <= line(top.nodes)
      <4>1. \A f, x, k \in Int : x * k + (f - x) * k = f * k
        BY SMT
      <4>2. line(top.nodes) = most * (near * span + (far - near) * span)
        BY <2>5, <2>7, <2>10, <3>2
      <4> HIDE DEF far, near, span, high, most, cost
      <4> QED BY <2>6, <2>8, <4>1, <4>2
    <3>6. (spent[n] * cost) * (u + v) <= (low * cost) * u + (high * cost) * v
      <4>1. spent[n] * (u + v) <= low * u + high * v
        BY <1>2, <1>5, <1>11, <2>5
      <4>2. spent[n] * (u + v) \in Int /\ low * u + high * v \in Int
        BY <1>5, <2>6, <3>1
      <4>3. cost * (spent[n] * (u + v)) <= cost * (low * u + high * v)
        BY <2>9, <4>1, <4>2, ProductGrows
      <4>4. \A c, x, y, z, k, l \in Int :
              /\ c * (x * (k + l)) = (x * c) * (k + l)
              /\ c * (y * k + z * l) = (y * c) * k + (z * c) * l
        BY SMT
      <4> HIDE DEF high, cost, u, v, low
      <4> QED BY <1>5, <2>6, <2>9, <3>1, <4>3, <4>4
    <3>7. line(n) * (u + v) = line(p.nodes) * u + line(top.nodes) * v
      <4> DEFINE b == m.under
                 o == m.over
                 x == p.nodes
                 z == top.nodes
      <4>1. /\ line(n) = most * (b + o * (n - 1))
            /\ line(p.nodes) = most * (b + o * (x - 1))
            /\ line(top.nodes) = most * (b + o * (z - 1))
            /\ u = z - n /\ v = n - x
        BY <1>2, <1>5, <2>5, <2>10
      <4>2. /\ most \in Int /\ b \in Int /\ o \in Int
            /\ x \in Int /\ n \in Int /\ z \in Int
        BY <1>2, <1>4, <1>5, <2>5, <2>9
      <4> HIDE DEF most, b, o, x, z, u, v
      <4>3. most * (b + o * (n - 1)) * ((z - n) + (n - x))
              = most * (b + o * (x - 1)) * (z - n) + most * (b + o * (z - 1)) * (n - x)
        BY <4>2, SMT
      <4> QED BY <4>1, <4>3, Zenon
    <3>8. spent[n] * cost \in Int /\ low * cost \in Int /\ high * cost \in Int
      BY <2>9, <2>13, <3>1, NatProduct
    <3> HIDE DEF high, cost, u, v, low
    <3>9. spent[n] * cost <= line(n)
      BY <3>1, <3>3, <3>4, <3>5, <3>6, <3>7, <3>8, BelowTheLine
    <3> QED BY <1>6, <2>12, <3>9
  <2> QED BY <2>14, <2>15
<1> QED BY <1>10, <1>11
==================================================================================
