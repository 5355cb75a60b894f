-------------------------- MODULE ReviewRulesProofs --------------------------
(***************************************************************************)
(* Facts about the weighted mean of ReviewRules, for every extraction.     *)
(*                                                                         *)
(* A sum over a finite set is a fold, which is a recursive function.  That *)
(* there is a function of this kind, and what its values are, is shown by  *)
(* contradiction from a least set, or number, for which it fails.          *)
(***************************************************************************)
EXTENDS Sequences, ReviewRules, FiniteSetTheorems, WellFoundedInduction, TLAPS

\* The element a fold takes out of a set.
Taken(s) == CHOOSE x \in s : TRUE

\* At s, the function sum is what a sum of the values of g has to be.
IsSumAt(sum, g, s) ==
  sum[s] = IF s = {} THEN 0 ELSE g[Taken(s)] + sum[s \ {Taken(s)}]
-----------------------------------------------------------------------------
(* Sums over finite sets *)

\* Of subsets of a finite set, some one has no proper subset among them.
LEMMA LeastFailure ==
  ASSUME NEW S, IsFiniteSet(S), NEW Bad \in SUBSET (SUBSET S), Bad # {}
  PROVE  \E T \in Bad : \A U \in SUBSET T : U # T => U \notin Bad
<1>1. IsWellFoundedOn(StrictSubsetOrdering(S), SUBSET S)
  BY FS_StrictSubsetOrderingWellFounded, FS_FiniteSubsetsOfFinite
<1>2. PICK T \in Bad : \A U \in Bad : <<U, T>> \notin StrictSubsetOrdering(S)
  BY <1>1, WFMin
<1>3. ASSUME NEW U \in SUBSET T, U # T PROVE U \notin Bad
  BY <1>2, <1>3 DEF StrictSubsetOrdering
<1> QED
  BY <1>3

\* There is a function that is the sum at every subset of a finite set.
LEMMA SumExists ==
  ASSUME NEW S, IsFiniteSet(S), NEW g, \A x \in S : g[x] \in Nat
  PROVE  \E sum \in [SUBSET S -> Nat] : \A s \in SUBSET S : IsSumAt(sum, g, s)
<1> DEFINE Claim(n) == \E sum \in [SUBSET S -> Nat] :
                         \A s \in SUBSET S : Cardinality(s) <= n => IsSumAt(sum, g, s)
           Bad == {n \in Nat : ~Claim(n)}
<1>1. \A s \in SUBSET S : /\ Cardinality(s) \in Nat /\ IsFiniteSet(s)
                          /\ Cardinality(s) <= Cardinality(S)
  BY FS_Subset, FS_CardinalityType
<1>2. Claim(0)
  <2> DEFINE zero == [s \in SUBSET S |-> 0]
  <2>1. \A s \in SUBSET S : Cardinality(s) <= 0 => s = {}
    BY <1>1, FS_EmptySet
  <2>2. /\ zero \in [SUBSET S -> Nat]
        /\ \A s \in SUBSET S : Cardinality(s) <= 0 => IsSumAt(zero, g, s)
    BY <2>1 DEF IsSumAt
  <2> QED
    BY <2>2
<1>3. ASSUME NEW n \in Nat, Claim(n) PROVE Claim(n + 1)
  <2>1. PICK sum \in [SUBSET S -> Nat] :
          \A s \in SUBSET S : Cardinality(s) <= n => IsSumAt(sum, g, s)
    BY <1>3
  <2> DEFINE next == [s \in SUBSET S |-> IF s = {} THEN 0
                                         ELSE g[Taken(s)] + sum[s \ {Taken(s)}]]
  <2>2. \A s \in SUBSET S : s # {} => Taken(s) \in s
    BY DEF Taken
  <2>3. next \in [SUBSET S -> Nat]
    BY <2>2
  <2>4. ASSUME NEW s \in SUBSET S, Cardinality(s) <= n PROVE next[s] = sum[s]
    BY <2>1, <2>4 DEF IsSumAt
  <2>5. ASSUME NEW s \in SUBSET S, Cardinality(s) <= n + 1 PROVE IsSumAt(next, g, s)
    <3>1. CASE s = {}
      BY <3>1 DEF IsSumAt
    <3>2. CASE s # {}
      <4> DEFINE t == s \ {Taken(s)}
      <4>1. Taken(s) \in s
        BY <3>2, <2>2
      <4>2. Cardinality(t) = Cardinality(s) - 1
        BY <4>1, <1>1, FS_RemoveElement
      <4>3. Cardinality(t) <= n
        BY <4>2, <2>5, <1>1
      <4>4. next[t] = sum[t]
        BY <4>3, <2>4
      <4> QED
        BY <4>4, <3>2 DEF IsSumAt
    <3> QED
      BY <3>1, <3>2
  <2> QED
    BY <2>3, <2>5
<1>4. Bad = {}
  <2> SUFFICES ASSUME Bad # {} PROVE FALSE
    OBVIOUS
  <2>1. PICK n \in Bad : \A m \in Bad : <<m, n>> \notin OpToRel(<, Nat)
    BY WFMin, NatLessThanWellFounded
  <2>2. n # 0
    BY <1>2
  <2>3. n \in Nat /\ n - 1 \in Nat /\ n = (n - 1) + 1 /\ n - 1 < n
    BY <2>2
  <2>4. n - 1 \in Bad
    BY <1>3, <2>3
  <2> HIDE DEF Bad
  <2>5. <<n - 1, n>> \in OpToRel(<, Nat)
    BY <2>3 DEF OpToRel
  <2> QED
    BY <2>1, <2>4, <2>5
<1>5. Claim(Cardinality(S))
  BY <1>1, <1>4
<1> QED
  BY <1>1, <1>5

\* SumFunctionOnSet is the value of such a function.
LEMMA SumOnSet ==
  ASSUME NEW S, IsFiniteSet(S), NEW g, \A x \in S : g[x] \in Nat
  PROVE  \E sum \in [SUBSET S -> Nat] :
           /\ \A s \in SUBSET S : IsSumAt(sum, g, s)
           /\ SumFunctionOnSet(g, S) = sum[S]
<1> DEFINE Step(f) == [s \in SUBSET S |-> IF s = {} THEN 0
                                          ELSE g[Taken(s)] + f[s \ {Taken(s)}]]
           iter == CHOOSE f : f = Step(f)
           Bad(sum) == {s \in SUBSET S : iter[s] # sum[s]}
<1>1. PICK sum \in [SUBSET S -> Nat] : \A s \in SUBSET S : IsSumAt(sum, g, s)
  BY SumExists
<1>2. sum = Step(sum)
  BY <1>1 DEF IsSumAt
<1>3. iter = Step(iter)
  BY <1>2
<1>4. SumFunctionOnSet(g, S) = iter[S]
  BY DEF SumFunctionOnSet, FoldFunctionOnSet, MapThenFoldSet, Taken
<1> HIDE DEF iter
<1>5. Bad(sum) = {}
  <2> SUFFICES ASSUME Bad(sum) # {} PROVE FALSE
    OBVIOUS
  <2>1. Bad(sum) \in SUBSET (SUBSET S)
    OBVIOUS
  <2> HIDE DEF Bad
  <2>2. PICK T \in Bad(sum) : \A U \in SUBSET T : U # T => U \notin Bad(sum)
    BY <2>1, LeastFailure
  <2> USE DEF Bad
  <2>3. \A s \in SUBSET S :
          iter[s] = IF s = {} THEN 0 ELSE g[Taken(s)] + iter[s \ {Taken(s)}]
    BY <1>3
  <2>4. T # {}
    BY <1>1, <2>3 DEF IsSumAt
  <2>5. iter[T \ {Taken(T)}] = sum[T \ {Taken(T)}]
    BY <2>2, <2>4 DEF Taken
  <2> QED
    BY <1>1, <2>3, <2>4, <2>5 DEF IsSumAt
<1> QED
  BY <1>1, <1>4, <1>5

\* What holds between the multiples of the summands holds between those of the sums.
LEMMA SumsCompare ==
  ASSUME NEW S, IsFiniteSet(S), NEW g, NEW h, NEW c \in Nat, NEW d \in Nat,
         \A x \in S : g[x] \in Nat /\ h[x] \in Nat /\ c * g[x] <= d * h[x]
  PROVE  /\ SumFunctionOnSet(g, S) \in Nat /\ SumFunctionOnSet(h, S) \in Nat
         /\ c * SumFunctionOnSet(g, S) <= d * SumFunctionOnSet(h, S)
<1>1. PICK G \in [SUBSET S -> Nat] :
        /\ \A s \in SUBSET S : IsSumAt(G, g, s)
        /\ SumFunctionOnSet(g, S) = G[S]
  BY SumOnSet
<1>2. PICK H \in [SUBSET S -> Nat] :
        /\ \A s \in SUBSET S : IsSumAt(H, h, s)
        /\ SumFunctionOnSet(h, S) = H[S]
  BY SumOnSet
<1> DEFINE Bad == {s \in SUBSET S : ~(c * G[s] <= d * H[s])}
<1>3. Bad = {}
  <2> SUFFICES ASSUME Bad # {} PROVE FALSE
    OBVIOUS
  <2>1. Bad \in SUBSET (SUBSET S)
    OBVIOUS
  <2> HIDE DEF Bad
  <2>2. PICK T \in Bad : \A U \in SUBSET T : U # T => U \notin Bad
    BY <2>1, LeastFailure
  <2> USE DEF Bad
  <2>3. T # {}
    <3>1. G[{}] = 0 /\ H[{}] = 0
      BY <1>1, <1>2 DEF IsSumAt
    <3>2. c * G[{}] <= d * H[{}]
      BY <3>1
    <3> QED
      BY <2>2, <3>2
  <2> DEFINE x == Taken(T)
             U == T \ {x}
  <2>4. x \in T /\ x \in S
    BY <2>3 DEF Taken
  <2>5. c * G[U] <= d * H[U]
    BY <2>2, <2>4
  <2>6. G[T] = g[x] + G[U] /\ H[T] = h[x] + H[U]
    BY <1>1, <1>2, <2>3 DEF IsSumAt
  <2>7. /\ g[x] \in Nat /\ G[U] \in Nat /\ h[x] \in Nat /\ H[U] \in Nat
        /\ c * g[x] <= d * h[x]
    BY <2>4
  <2>8. /\ c * (g[x] + G[U]) = c * g[x] + c * G[U]
        /\ d * (h[x] + H[U]) = d * h[x] + d * H[U]
    BY <2>7, SMT
  <2> HIDE DEF x, U
  <2>9. c * G[T] <= d * H[T]
    BY <2>5, <2>6, <2>7, <2>8
  <2> QED
    BY <2>2, <2>9
<1> QED
  BY <1>1, <1>2, <1>3

\* One such function has the sums over all subsets.
AreSums(sum, g, S) ==
  /\ sum \in [SUBSET S -> Nat]
  /\ \A s \in SUBSET S : IsSumAt(sum, g, s)
  /\ \A s \in SUBSET S : SumFunctionOnSet(g, s) = sum[s]

LEMMA SumOnSubsets ==
  ASSUME NEW S, IsFiniteSet(S), NEW g, \A x \in S : g[x] \in Nat
  PROVE  \E sum : AreSums(sum, g, S)
<1>1. PICK sum \in [SUBSET S -> Nat] : \A s \in SUBSET S : IsSumAt(sum, g, s)
  BY SumExists
<1>2. ASSUME NEW s \in SUBSET S PROVE SumFunctionOnSet(g, s) = sum[s]
  <2>1. IsFiniteSet(s)
    BY FS_Subset
  <2>2. PICK part \in [SUBSET s -> Nat] :
          /\ \A t \in SUBSET s : IsSumAt(part, g, t)
          /\ SumFunctionOnSet(g, s) = part[s]
    BY <2>1, SumOnSet
  <2> DEFINE Bad == {t \in SUBSET s : part[t] # sum[t]}
  <2>3. Bad = {}
    <3> SUFFICES ASSUME Bad # {} PROVE FALSE
      OBVIOUS
    <3>1. Bad \in SUBSET (SUBSET s)
      OBVIOUS
    <3> HIDE DEF Bad
    <3>2. PICK T \in Bad : \A U \in SUBSET T : U # T => U \notin Bad
      BY <2>1, <3>1, LeastFailure
    <3> USE DEF Bad
    <3>3. T \in SUBSET s /\ T \in SUBSET S /\ part[T] # sum[T]
      OBVIOUS
    <3>4. IsSumAt(part, g, T) /\ IsSumAt(sum, g, T)
      BY <1>1, <2>2, <3>3
    <3>5. T # {}
      BY <3>3, <3>4 DEF IsSumAt
    <3>6. part[T \ {Taken(T)}] = sum[T \ {Taken(T)}]
      BY <3>2, <3>3, <3>5 DEF Taken
    <3> QED
      BY <3>3, <3>4, <3>5, <3>6 DEF IsSumAt
  <2> QED
    BY <2>2, <2>3
<1> QED
  BY <1>1, <1>2 DEF AreSums

\* It does not matter which element is taken out first.
AnyFirst(sum, g, S) ==
  \A T \in SUBSET S : \A x \in T : sum[T] = g[x] + sum[T \ {x}]

LEMMA SumWithout ==
  ASSUME NEW S, IsFiniteSet(S), NEW g, \A x \in S : g[x] \in Nat,
         NEW sum, AreSums(sum, g, S)
  PROVE  AnyFirst(sum, g, S)
<1> /\ sum \in [SUBSET S -> Nat]
    /\ \A s \in SUBSET S : IsSumAt(sum, g, s)
  BY DEF AreSums
<1> DEFINE Bad == {T \in SUBSET S : \E x \in T : sum[T] # g[x] + sum[T \ {x}]}
<1> SUFFICES ASSUME Bad # {} PROVE FALSE
  BY DEF AnyFirst
<1>1. Bad \in SUBSET (SUBSET S)
  OBVIOUS
<1> HIDE DEF Bad
<1>2. PICK T \in Bad : \A U \in SUBSET T : U # T => U \notin Bad
  BY <1>1, LeastFailure
<1> USE DEF Bad
<1>3. PICK x \in T : sum[T] # g[x] + sum[T \ {x}]
  BY <1>2
<1>4. T \in SUBSET S
  BY <1>2
<1> HIDE DEF Bad
<1> DEFINE t == Taken(T)
<1>5. t \in T
  BY <1>3 DEF Taken
<1>6. sum[T] = g[t] + sum[T \ {t}]
  BY <1>3, <1>4 DEF IsSumAt
<1> HIDE DEF t
<1>7. x # t
  BY <1>3, <1>6
<1> DEFINE Rest == (T \ {t}) \ {x}
<1>8. Rest \in SUBSET S /\ (T \ {x}) \ {t} = Rest
  BY <1>4
<1>9. sum[T \ {t}] = g[x] + sum[Rest]
  <2>1. T \ {t} \in SUBSET T /\ T \ {t} # T /\ x \in T \ {t} /\ T \ {t} \in SUBSET S
    BY <1>4, <1>5, <1>7
  <2> QED
    BY <1>2, <2>1 DEF Bad
<1>10. sum[T \ {x}] = g[t] + sum[Rest]
  <2>1. T \ {x} \in SUBSET T /\ T \ {x} # T /\ t \in T \ {x} /\ T \ {x} \in SUBSET S
    BY <1>4, <1>5, <1>7
  <2>2. \A y \in T \ {x} : sum[T \ {x}] = g[y] + sum[(T \ {x}) \ {y}]
    BY <1>2, <2>1 DEF Bad
  <2> QED
    BY <1>8, <2>1, <2>2
<1>11. g[x] \in Nat /\ g[t] \in Nat /\ sum[Rest] \in Nat
  BY <1>4, <1>5, <1>8
<1> HIDE DEF Rest
<1> QED
  BY <1>3, <1>6, <1>9, <1>10, <1>11

\* The sum over a set is the sum over a part of it and over the rest.
LEMMA SumSplit ==
  ASSUME NEW S, IsFiniteSet(S), NEW g, \A x \in S : g[x] \in Nat, NEW A \in SUBSET S
  PROVE  /\ SumFunctionOnSet(g, A) \in Nat /\ SumFunctionOnSet(g, S \ A) \in Nat
         /\ SumFunctionOnSet(g, S) = SumFunctionOnSet(g, A) + SumFunctionOnSet(g, S \ A)
<1>1. PICK sum : AreSums(sum, g, S)
  BY SumOnSubsets
<1>2. sum \in [SUBSET S -> Nat] /\ \A s \in SUBSET S : IsSumAt(sum, g, s)
  BY <1>1 DEF AreSums
<1>3. AnyFirst(sum, g, S)
  BY <1>1, SumWithout
<1> DEFINE Bad == {B \in SUBSET (S \ A) : sum[A \cup B] # sum[A] + sum[B]}
<1>4. Bad = {}
  <2> SUFFICES ASSUME Bad # {} PROVE FALSE
    OBVIOUS
  <2>1. Bad \in SUBSET (SUBSET (S \ A)) /\ IsFiniteSet(S \ A)
    BY FS_Subset
  <2> HIDE DEF Bad
  <2>2. PICK B \in Bad : \A U \in SUBSET B : U # B => U \notin Bad
    BY <2>1, LeastFailure
  <2> USE DEF Bad
  <2>3. B \in SUBSET (S \ A) /\ sum[A \cup B] # sum[A] + sum[B]
    BY <2>2
  <2> HIDE DEF Bad
  <2>4. B # {}
    <3>1. sum[{}] = 0
      BY <1>2 DEF IsSumAt
    <3>2. sum[A] \in Nat /\ A \cup {} = A
      BY <1>2
    <3> QED
      BY <2>3, <3>1, <3>2
  <2>5. PICK x \in B : TRUE
    BY <2>4
  <2> DEFINE U == B \ {x}
  <2>6. U \in SUBSET B /\ U # B /\ U \in SUBSET (S \ A) /\ U \in SUBSET S /\ B \in SUBSET S
    BY <2>3, <2>5
  <2>7. sum[A \cup U] = sum[A] + sum[U]
    BY <2>2, <2>6 DEF Bad
  <2>8. sum[B] = g[x] + sum[U]
    BY <1>3, <2>5, <2>6 DEF AnyFirst
  <2>9. sum[A \cup B] = g[x] + sum[A \cup U]
    <3>1. A \cup B \in SUBSET S /\ x \in A \cup B /\ (A \cup B) \ {x} = A \cup U
      BY <2>3, <2>5
    <3> QED
      BY <1>3, <3>1 DEF AnyFirst
  <2>10. g[x] \in Nat /\ sum[A] \in Nat /\ sum[U] \in Nat
    BY <1>2, <2>3, <2>5, <2>6
  <2> HIDE DEF U
  <2> QED
    BY <2>3, <2>7, <2>8, <2>9, <2>10
<1>5. S \ A \in SUBSET (S \ A) /\ S \ A \in SUBSET S /\ A \cup (S \ A) = S /\ S \in SUBSET S
  OBVIOUS
<1>6. sum[A \cup (S \ A)] = sum[A] + sum[S \ A]
  BY <1>4, <1>5
<1>7. sum[A] \in Nat /\ sum[S \ A] \in Nat
  BY <1>2, <1>5
<1> QED
  BY <1>1, <1>5, <1>6, <1>7 DEF AreSums

\* A sum of positive numbers, if there are any, is not zero.
LEMMA SumPositive ==
  ASSUME NEW S, IsFiniteSet(S), S # {}, NEW g, \A x \in S : g[x] \in Nat \ {0}
  PROVE  SumFunctionOnSet(g, S) # 0
<1>1. PICK G \in [SUBSET S -> Nat] :
        /\ \A s \in SUBSET S : IsSumAt(G, g, s)
        /\ SumFunctionOnSet(g, S) = G[S]
  BY SumOnSet
<1>2. Taken(S) \in S
  BY DEF Taken
<1>3. G[S] = g[Taken(S)] + G[S \ {Taken(S)}]
  BY <1>1 DEF IsSumAt
<1> QED
  BY <1>1, <1>2, <1>3
-----------------------------------------------------------------------------
(* The weighted mean *)

\* What the agent hands over: confidences that no one has checked yet.
IsScoring(e) == DOMAIN e \subseteq Field /\ e \in [DOMAIN e -> Nat]

LEMMA ExtractionIsScoring ==
  ASSUME NEW e, IsExtraction(e)
  PROVE  IsScoring(e) /\ \A f \in DOMAIN e : e[f] <= 1000
BY DEF IsExtraction, IsScoring, Confidence

\* There are finitely many fields, and each of them counts.
LEMMA FieldIsFinite == IsFiniteSet(Field)
<1> DEFINE fields == <<"name", "brand", "category", "subcategory", "mrp", "selling_price",
                       "unit", "weight_grams", "volume_ml", "barcode", "hsn_code",
                       "ondc_category", "description", "ondc_subcategory">>
<1>1. fields \in Seq(Field)
  BY DEF Field, WEIGHTS
<1>2. \A f \in Field : \E n \in 1 .. Len(fields) : fields[n] = f
  BY DEF Field, WEIGHTS
<1> QED
  BY <1>1, <1>2 DEF IsFiniteSet

LEMMA WeightType == \A f \in Field : WEIGHTS[f] \in Nat \ {0}
BY DEF Field, WEIGHTS

LEMMA ScoredType ==
  ASSUME NEW e, IsScoring(e)
  PROVE  /\ IsFiniteSet(Scored(e))
         /\ \A f \in Scored(e) : WEIGHTS[f] \in Nat \ {0} /\ e[f] \in Nat \ {0}
<1>1. Scored(e) \in SUBSET Field
  BY DEF Scored, IsScoring
<1>2. \A f \in Scored(e) : e[f] \in Nat \ {0}
  BY DEF Scored, IsScoring
<1> QED
  BY <1>1, <1>2, FieldIsFinite, FS_Subset, WeightType

\* Rounding a quotient to the nearest number does not take it past a number that is a
\* bound of the quotient.
LEMMA RoundedBounds ==
  ASSUME NEW w \in Nat, NEW t \in Nat \ {0}, NEW b \in Nat
  PROVE  /\ (2 * w + t) \div (2 * t) \in Nat
         /\ b * t <= w => b <= (2 * w + t) \div (2 * t)
         /\ w <= b * t => (2 * w + t) \div (2 * t) <= b
<1> DEFINE q == (2 * w + t) \div (2 * t)
<1>1. q \in Nat /\ 2 * t * q <= 2 * w + t /\ 2 * w + t < 2 * t * (q + 1)
  BY SMT
<1> HIDE DEF q
<1>2. ASSUME b * t <= w PROVE b < q + 1
  BY <1>1, <1>2, SMT
<1>3. ASSUME w <= b * t PROVE q < b + 1
  BY <1>1, <1>3, SMT
<1>4. q \in Nat /\ (b * t <= w => b <= q) /\ (w <= b * t => q <= b)
  BY <1>1, <1>2, <1>3
<1> QED
  BY <1>4 DEF q

\* Nor past one that is a bound of what it is rounded from.
LEMMA RoundedNotBelow ==
  ASSUME NEW w \in Nat, NEW t \in Nat \ {0}, NEW b \in Nat
  PROVE  b <= (2 * w + t) \div (2 * t) <=> 2 * (b * t) <= 2 * w + t
<1> DEFINE q == (2 * w + t) \div (2 * t)
<1>1. q \in Nat /\ 2 * (q * t) <= 2 * w + t /\ 2 * w + t < 2 * ((q + 1) * t)
  BY SMT
<1> HIDE DEF q
<1>2. ASSUME b <= q PROVE 2 * (b * t) <= 2 * w + t
  <2>1. b * t <= q * t /\ b * t \in Nat /\ q * t \in Nat
    BY <1>1, <1>2, SMT
  <2> QED
    BY <1>1, <2>1
<1>3. ASSUME 2 * (b * t) <= 2 * w + t PROVE b <= q
  <2>1. ~(q + 1 <= b)
    <3> SUFFICES ASSUME q + 1 <= b PROVE FALSE
      OBVIOUS
    <3>1. (q + 1) * t <= b * t /\ b * t \in Nat /\ (q + 1) * t \in Nat
      BY <1>1, SMT
    <3> QED
      BY <1>1, <1>3, <3>1
  <2> QED
    BY <1>1, <2>1
<1> QED
  BY <1>2, <1>3 DEF q

\* The two sums of a mean, and that the weights' one is not zero.
LEMMA MeanType ==
  ASSUME NEW e, IsScoring(e), Scored(e) # {}
  PROVE  TotalWeight(e) \in Nat \ {0} /\ WeightedSum(e) \in Nat
<1> DEFINE S == Scored(e)
           product == [f \in S |-> WEIGHTS[f] * e[f]]
<1>1. \A f \in S : WEIGHTS[f] \in Nat /\ e[f] \in Nat
  BY ScoredType
<1>2. \A a, b \in Nat : a * b \in Nat
  BY SMT
<1>3. \A f \in S : product[f] \in Nat
  BY <1>1, <1>2
<1>4. WeightedSum(e) = SumFunctionOnSet(product, S)
  BY DEF WeightedSum, SumFunction
<1> HIDE DEF product
<1>5. TotalWeight(e) \in Nat /\ WeightedSum(e) \in Nat
  <2>1. \A f \in S : 0 * WEIGHTS[f] <= 1 * product[f]
    BY <1>1, <1>3
  <2> QED
    BY <1>1, <1>3, <1>4, <2>1, ScoredType, SumsCompare DEF TotalWeight
<1>6. TotalWeight(e) # 0
  BY ScoredType, SumPositive DEF TotalWeight
<1> QED
  BY <1>5, <1>6

\* A mean is at least, and at most, what every scored field is.
LEMMA MeanAtLeast ==
  ASSUME NEW e, IsScoring(e), Scored(e) # {}, NEW b \in Nat,
         \A f \in Scored(e) : b <= e[f]
  PROVE  b * TotalWeight(e) <= WeightedSum(e)
<1> DEFINE S == Scored(e)
           product == [f \in S |-> WEIGHTS[f] * e[f]]
<1>1. ASSUME NEW f \in S
      PROVE  WEIGHTS[f] \in Nat /\ product[f] \in Nat /\ b * WEIGHTS[f] <= 1 * product[f]
  <2>1. WEIGHTS[f] \in Nat /\ e[f] \in Nat /\ b <= e[f]
    BY ScoredType
  <2>2. \A w, x \in Nat : w * x \in Nat /\ (b <= x => b * w <= 1 * (w * x))
    BY SMT
  <2> QED
    BY <2>1, <2>2
<1>2. WeightedSum(e) = SumFunctionOnSet(product, S)
  BY DEF WeightedSum, SumFunction
<1> HIDE DEF product
<1>3. b * TotalWeight(e) <= 1 * WeightedSum(e)
  BY <1>1, <1>2, ScoredType, SumsCompare DEF TotalWeight
<1> QED
  BY <1>3, MeanType

LEMMA MeanAtMost ==
  ASSUME NEW e, IsScoring(e), Scored(e) # {}, NEW b \in Nat,
         \A f \in Scored(e) : e[f] <= b
  PROVE  WeightedSum(e) <= b * TotalWeight(e)
<1> DEFINE S == Scored(e)
           product == [f \in S |-> WEIGHTS[f] * e[f]]
<1>1. ASSUME NEW f \in S
      PROVE  WEIGHTS[f] \in Nat /\ product[f] \in Nat /\ 1 * product[f] <= b * WEIGHTS[f]
  <2>1. WEIGHTS[f] \in Nat /\ e[f] \in Nat /\ e[f] <= b
    BY ScoredType
  <2>2. \A w, x \in Nat : w * x \in Nat /\ (x <= b => 1 * (w * x) <= b * w)
    BY SMT
  <2> QED
    BY <2>1, <2>2
<1>2. WeightedSum(e) = SumFunctionOnSet(product, S)
  BY DEF WeightedSum, SumFunction
<1> HIDE DEF product
<1>3. 1 * WeightedSum(e) <= b * TotalWeight(e)
  BY <1>1, <1>2, ScoredType, SumsCompare DEF TotalWeight
<1> QED
  BY <1>3, MeanType
-----------------------------------------------------------------------------
(* What the thresholds of the review rules are compared with *)

\* AggregateConfidence of confidence.py gives a confidence whatever it is given, and
\* neither the weights nor the rounding take it out of the range of the scored fields.
THEOREM AggregateIsAMean ==
  ASSUME NEW e, IsScoring(e)
  PROVE  /\ AggregateConfidence(e) \in Confidence
         /\ Scored(e) # {} =>
              \A b \in Confidence :
                /\ (\A f \in Scored(e) : b <= e[f]) => b <= AggregateConfidence(e)
                /\ (\A f \in Scored(e) : e[f] <= b) => AggregateConfidence(e) <= b
<1>1. CASE Scored(e) = {}
  BY <1>1 DEF AggregateConfidence, Confidence
<1>2. CASE Scored(e) # {}
  <2> DEFINE q == (2 * WeightedSum(e) + TotalWeight(e)) \div (2 * TotalWeight(e))
  <2>1. q \in Nat
    BY <1>2, MeanType, RoundedBounds
  <2>2. AggregateConfidence(e) = Min({1000, q})
    BY <1>2 DEF AggregateConfidence
  <2>3. ASSUME NEW b \in Nat, \A f \in Scored(e) : b <= e[f] PROVE b <= q
    BY <1>2, <2>3, MeanAtLeast, MeanType, RoundedBounds
  <2>4. ASSUME NEW b \in Nat, \A f \in Scored(e) : e[f] <= b PROVE q <= b
    BY <1>2, <2>4, MeanAtMost, MeanType, RoundedBounds
  <2> HIDE DEF q
  <2>5. Min({1000, q}) = IF q <= 1000 THEN q ELSE 1000
    BY <2>1 DEF Min
  <2>6. AggregateConfidence(e) = IF q <= 1000 THEN q ELSE 1000
    BY <2>2, <2>5
  <2>7. AggregateConfidence(e) \in Confidence
    BY <2>1, <2>6 DEF Confidence
  <2>8. ASSUME NEW b \in Confidence
        PROVE  /\ (\A f \in Scored(e) : b <= e[f]) => b <= AggregateConfidence(e)
               /\ (\A f \in Scored(e) : e[f] <= b) => AggregateConfidence(e) <= b
    <3>1. b \in Nat /\ b <= 1000
      BY DEF Confidence
    <3> QED
      BY <2>1, <2>3, <2>4, <2>6, <3>1
  <2> QED
    BY <2>7, <2>8
<1> QED
  BY <1>1, <1>2

\* A mean does not fall below b while its scored fields do not become less confident, and
\* those that are new are not below b.
LEMMA SumsGrow ==
  ASSUME NEW e, IsScoring(e), Scored(e) # {}, NEW d, IsScoring(d),
         Scored(e) \subseteq Scored(d), \A f \in Scored(e) : e[f] <= d[f],
         NEW b \in Nat, \A f \in Scored(d) \ Scored(e) : b <= d[f],
         2 * (b * TotalWeight(e)) <= 2 * WeightedSum(e) + TotalWeight(e)
  PROVE  2 * (b * TotalWeight(d)) <= 2 * WeightedSum(d) + TotalWeight(d)
<1> DEFINE S == Scored(d)
           A == Scored(e)
           new == S \ A
           old == [f \in A |-> WEIGHTS[f] * e[f]]
           product == [f \in S |-> WEIGHTS[f] * d[f]]
           Sum(g, s) == SumFunctionOnSet(g, s)
<1>1. /\ IsFiniteSet(S) /\ IsFiniteSet(A) /\ IsFiniteSet(new) /\ A \in SUBSET S
      /\ new \in SUBSET S
  BY ScoredType, FS_Subset
<1>2. \A f \in S : WEIGHTS[f] \in Nat /\ d[f] \in Nat
  BY ScoredType
<1>3. \A f \in A : e[f] \in Nat
  BY ScoredType
<1>4. \A w, x, y \in Nat : /\ w * x \in Nat
                            /\ x <= y => 1 * (w * x) <= 1 * (w * y) /\ x * w <= 1 * (w * y)
  BY SMT
<1>5. \A f \in S : product[f] \in Nat
  BY <1>2, <1>4
<1>6. \A f \in A : old[f] \in Nat /\ 1 * old[f] <= 1 * product[f]
  BY <1>1, <1>2, <1>3, <1>4
<1>7. \A f \in new : b * WEIGHTS[f] <= 1 * product[f]
  BY <1>1, <1>2, <1>4
<1>8. /\ WeightedSum(e) = Sum(old, A) /\ TotalWeight(e) = Sum(WEIGHTS, A)
      /\ WeightedSum(d) = Sum(product, S) /\ TotalWeight(d) = Sum(WEIGHTS, S)
  BY DEF WeightedSum, TotalWeight, SumFunction
<1> HIDE DEF old, product, new, S, A
<1>9. /\ Sum(old, A) \in Nat /\ Sum(product, A) \in Nat
      /\ 1 * Sum(old, A) <= 1 * Sum(product, A)
  BY <1>1, <1>5, <1>6, SumsCompare
<1>10. /\ Sum(WEIGHTS, new) \in Nat /\ Sum(product, new) \in Nat
       /\ b * Sum(WEIGHTS, new) <= 1 * Sum(product, new)
  BY <1>1, <1>2, <1>5, <1>7, SumsCompare
<1>11. /\ Sum(product, S) = Sum(product, A) + Sum(product, new)
  BY <1>1, <1>5, SumSplit DEF new
<1>12. Sum(WEIGHTS, A) \in Nat /\ Sum(WEIGHTS, S) = Sum(WEIGHTS, A) + Sum(WEIGHTS, new)
  BY <1>1, <1>2, SumSplit DEF new
<1> DEFINE t == Sum(WEIGHTS, A)
           u == Sum(WEIGHTS, new)
<1>13. b * (t + u) = b * t + b * u /\ b * t \in Nat /\ b * u \in Nat
  <2>1. t \in Nat /\ u \in Nat
    BY <1>10, <1>12
  <2> HIDE DEF t, u
  <2> QED
    BY <2>1, SMT
<1>14. 2 * (b * t) <= 2 * Sum(old, A) + t
  BY <1>8
<1>15. /\ TotalWeight(d) = t + u
       /\ WeightedSum(d) = Sum(product, A) + Sum(product, new)
       /\ b * u <= 1 * Sum(product, new) /\ t \in Nat /\ u \in Nat
  BY <1>8, <1>10, <1>11, <1>12
<1> HIDE DEF t, u, Sum
<1> QED
  BY <1>9, <1>10, <1>13, <1>14, <1>15

\* The confidence of a product does not fall while no scored field becomes less confident or
\* is lost, and each one that is new is at least what the product was on the whole: neither
\* the weights nor the rounding bring it down.
THEOREM AggregateGrows ==
  ASSUME NEW e, IsScoring(e), NEW d, IsScoring(d),
         Scored(e) \subseteq Scored(d), \A f \in Scored(e) : e[f] <= d[f],
         \A f \in Scored(d) \ Scored(e) : AggregateConfidence(e) <= d[f]
  PROVE  AggregateConfidence(e) <= AggregateConfidence(d)
<1>1. AggregateConfidence(e) \in Confidence /\ AggregateConfidence(d) \in Confidence
  BY AggregateIsAMean
<1>2. CASE Scored(e) = {}
  BY <1>1, <1>2 DEF AggregateConfidence, Confidence
<1>3. CASE Scored(e) # {}
  <2> DEFINE b == AggregateConfidence(e)
             Rounded(x) == (2 * WeightedSum(x) + TotalWeight(x)) \div (2 * TotalWeight(x))
  <2>1. Scored(d) # {}
    BY <1>3
  <2>2. /\ TotalWeight(e) \in Nat \ {0} /\ WeightedSum(e) \in Nat
        /\ TotalWeight(d) \in Nat \ {0} /\ WeightedSum(d) \in Nat
    BY <1>3, <2>1, MeanType
  <2>3. Rounded(e) \in Nat /\ Rounded(d) \in Nat
    BY <2>2, RoundedBounds
  <2>4. b = Min({1000, Rounded(e)}) /\ AggregateConfidence(d) = Min({1000, Rounded(d)})
    BY <1>3, <2>1 DEF AggregateConfidence
  <2>5. b \in Nat /\ b <= 1000
    BY <1>1 DEF Confidence
  <2>6. \A q \in Nat : Min({1000, q}) = IF q <= 1000 THEN q ELSE 1000
    BY DEF Min
  <2> HIDE DEF Rounded, b
  <2>7. b <= Rounded(e)
    BY <2>3, <2>4, <2>5, <2>6
  <2>8. 2 * (b * TotalWeight(e)) <= 2 * WeightedSum(e) + TotalWeight(e)
    BY <2>2, <2>5, <2>7, RoundedNotBelow DEF Rounded
  <2>9. 2 * (b * TotalWeight(d)) <= 2 * WeightedSum(d) + TotalWeight(d)
    BY <1>3, <2>5, <2>8, SumsGrow DEF b
  <2>10. b <= Rounded(d)
    BY <2>2, <2>5, <2>9, RoundedNotBelow DEF Rounded
  <2>11. b <= AggregateConfidence(d)
    BY <2>3, <2>4, <2>5, <2>6, <2>10
  <2> QED
    BY <2>11 DEF b
<1> QED
  BY <1>2, <1>3
=============================================================================
