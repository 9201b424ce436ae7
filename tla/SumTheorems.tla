----------------------------- MODULE SumTheorems -----------------------------
(***************************************************************************)
(* Facts about SumFunctionOnSet of the community module Functions, by      *)
(* which every total of this project is defined: what a ledger has in use, *)
(* the size and the tokens of a team, the attempts of all episodes.        *)
(*                                                                         *)
(* The sum is a fold that takes the elements in an unspecified order, and  *)
(* the library proves nothing about folds.  Its induction theorems take a  *)
(* predicate as a parameter, which the provers cannot instantiate; they    *)
(* are replaced by SubsetInduction, whose parameter is a set, proved from  *)
(* the well-foundedness of < on Nat.                                       *)
(***************************************************************************)
EXTENDS FiniteSetTheorems, TLAPS

\* Every set of natural numbers has a least element.
LEMMA LeastElement ==
    ASSUME NEW N, N \subseteq Nat, N # {}
    PROVE  \E n \in N : \A m \in N : n <= m
<1>1. \E n \in N : \A m \in N : ~(<<m, n>> \in OpToRel(<, Nat))
    BY NatLessThanWellFounded, WFMin
<1>2. PICK n \in N : \A m \in N : ~(<<m, n>> \in OpToRel(<, Nat))
    BY <1>1
<1>3. \A m \in N : <<m, n>> \in Nat \X Nat
    OBVIOUS
<1>4. n \in N /\ \A m \in N : ~(m < n)
    BY <1>2, <1>3 DEF OpToRel
<1> QED BY <1>4

\* Induction over an interval, with the set of numbers it has come to.
LEMMA IntervalInduction ==
    ASSUME NEW P, NEW k \in Nat, NEW m \in Nat, k \in P,
           \A n \in k..m : n \in P /\ n < m => n + 1 \in P
    PROVE  \A n \in k..m : n \in P
<1> DEFINE Bad == { n \in k..m : n \notin P }
<1>1. SUFFICES ASSUME Bad # {} PROVE FALSE
    OBVIOUS
<1>2. Bad \subseteq Nat
    OBVIOUS
<1> HIDE DEF Bad
<1>3. PICK n \in Bad : \A i \in Bad : n <= i
    BY <1>1, <1>2, LeastElement
<1>4. n \in k..m /\ n \notin P
    BY <1>3 DEF Bad
<1>5. n - 1 \in k..m /\ n - 1 < n /\ n - 1 < m
    BY <1>4
<1>6. n - 1 \notin Bad
    BY <1>2, <1>3, <1>4
<1>7. n - 1 \in P
    BY <1>5, <1>6 DEF Bad
<1> QED BY <1>4, <1>5, <1>7

\* Induction over the subsets of a finite set: what holds of a set when it
\* holds of the set without any one of its elements holds of all.
LEMMA SubsetInduction ==
    ASSUME NEW S, IsFiniteSet(S), NEW P,
           \A T \in SUBSET S : (\A x \in T : T \ {x} \in P) => T \in P
    PROVE  \A T \in SUBSET S : T \in P
<1> DEFINE Counter == { T \in SUBSET S : T \notin P }
           Sizes == { Cardinality(T) : T \in Counter }
<1>1. \A T \in SUBSET S : IsFiniteSet(T) /\ Cardinality(T) \in Nat
    BY FS_Subset, FS_CardinalityType
<1>2. SUFFICES ASSUME Counter # {} PROVE FALSE
    OBVIOUS
<1>3. Sizes \subseteq Nat /\ Sizes # {}
    BY <1>1, <1>2
<1>4. PICK n \in Sizes : \A m \in Sizes : n <= m
    BY <1>3, LeastElement
<1>5. PICK T \in Counter : Cardinality(T) = n
    BY <1>4
<1>6. ASSUME NEW x \in T PROVE T \ {x} \in P
  <2>1. Cardinality(T \ {x}) = Cardinality(T) - 1
      BY <1>1, <1>5, <1>6, FS_RemoveElement
  <2>2. Cardinality(T) \in Nat /\ Cardinality(T \ {x}) \in Nat
      BY <1>1, <1>5
  <2>3. ~(n <= Cardinality(T \ {x}))
      BY <2>1, <2>2, <1>5
  <2>4. T \ {x} \in SUBSET S
      BY <1>5
  <2> QED BY <2>3, <2>4, <1>4
<1> QED BY <1>5, <1>6
-----------------------------------------------------------------------------
\* The element a fold takes next.
Pick(T) == CHOOSE x \in T : TRUE

\* g gives the sums of f over the subsets of S, in the order of the fold.
IsSum(g, f, S) ==
    g = [ T \in SUBSET S |-> IF T = {} THEN 0 ELSE f[Pick(T)] + g[T \ {Pick(T)}] ]

LEMMA SumIsChosen ==
    ASSUME NEW f, NEW S
    PROVE  SumFunctionOnSet(f, S) = (CHOOSE g : IsSum(g, f, S))[S]
BY DEF SumFunctionOnSet, FoldFunctionOnSet, MapThenFoldSet, IsSum, Pick

LEMMA PickIsElement ==
    ASSUME NEW T, T # {} PROVE Pick(T) \in T
BY DEF Pick

\* What a fold of natural numbers computes exists: sums of the subsets of S
\* without one element or another combine into sums of all subsets.
LEMMA SumExists ==
    ASSUME NEW S, IsFiniteSet(S), NEW f, \A x \in S : f[x] \in Nat
    PROVE  \E g \in [ SUBSET S -> Nat ] : IsSum(g, f, S)
<1> DEFINE Step(g, T) == IF T = {} THEN 0 ELSE f[Pick(T)] + g[T \ {Pick(T)}]
           Upto(n) == { T \in SUBSET S : Cardinality(T) < n }
           Good(g, n) == \A T \in Upto(n) : g[T] = Step(g, T)
           Bad == { n \in Nat : ~ \E g \in [ SUBSET S -> Nat ] : Good(g, n) }
<1>1. \A T \in SUBSET S : IsFiniteSet(T) /\ Cardinality(T) \in Nat
    BY FS_Subset, FS_CardinalityType
<1>2. \A g \in [ SUBSET S -> Nat ] : \A T \in SUBSET S : Step(g, T) \in Nat
    BY PickIsElement
<1>3. \A T \in SUBSET S : T # {} => Cardinality(T \ {Pick(T)}) = Cardinality(T) - 1
    BY <1>1, PickIsElement, FS_RemoveElement
<1>4. 0 \notin Bad
  <2>1. [ T \in SUBSET S |-> 0 ] \in [ SUBSET S -> Nat ]
      OBVIOUS
  <2>2. Upto(0) = {}
      BY <1>1
  <2> QED BY <2>1, <2>2
<1>5. ASSUME NEW n \in Nat, n \notin Bad PROVE n + 1 \notin Bad
  <2>1. PICK g \in [ SUBSET S -> Nat ] : Good(g, n)
      BY <1>5
  <2> DEFINE h == [ T \in SUBSET S |-> Step(g, T) ]
  <2>2. h \in [ SUBSET S -> Nat ]
      BY <1>2
  <2>3. \A T \in Upto(n) : h[T] = g[T]
      BY <2>1
  <2>4. ASSUME NEW T \in Upto(n + 1) PROVE h[T] = Step(h, T)
    <3>1. CASE T = {}
        BY <3>1
    <3>2. CASE T # {}
      <4>1. T \ {Pick(T)} \in Upto(n)
          BY <1>1, <1>3, <3>2
      <4> QED BY <3>2, <4>1, <2>3
    <3> QED BY <3>1, <3>2
  <2> HIDE DEF h
  <2> QED BY <2>2, <2>4
<1>6. Bad = {}
  <2>1. Bad \subseteq Nat
      OBVIOUS
  <2> HIDE DEF Bad
  <2>2. SUFFICES ASSUME Bad # {} PROVE FALSE
      OBVIOUS
  <2>3. PICK n \in Bad : n \in Nat /\ \A m \in Bad : n <= m
      BY <2>1, <2>2, LeastElement
  <2>4. n # 0 /\ n - 1 \notin Bad
      BY <2>1, <2>3, <1>4
  <2> QED BY <2>3, <2>4, <1>5
<1>7. PICK g \in [ SUBSET S -> Nat ] : Good(g, Cardinality(S) + 1)
  <2>1. Cardinality(S) + 1 \in Nat
      BY <1>1
  <2> HIDE DEF Good
  <2> QED BY <1>6, <2>1
<1>8. \A T \in SUBSET S : T \in Upto(Cardinality(S) + 1)
    BY <1>1, FS_Subset
<1>9. IsSum(g, f, S)
    BY <1>7, <1>8 DEF IsSum
<1> QED BY <1>9

\* Any two sums of f agree on the sets that both know.
LEMMA SumsAgree ==
    ASSUME NEW S, IsFiniteSet(S), NEW R, S \subseteq R, NEW f, NEW g, NEW h,
           IsSum(g, f, S), IsSum(h, f, R)
    PROVE  \A T \in SUBSET S : g[T] = h[T]
<1> DEFINE P == { T \in SUBSET S : g[T] = h[T] }
<1>1. ASSUME NEW T \in SUBSET S, \A x \in T : T \ {x} \in P
      PROVE  T \in P
  <2>1. /\ g[T] = IF T = {} THEN 0 ELSE f[Pick(T)] + g[T \ {Pick(T)}]
        /\ h[T] = IF T = {} THEN 0 ELSE f[Pick(T)] + h[T \ {Pick(T)}]
      BY DEF IsSum
  <2> QED BY <1>1, <2>1, PickIsElement
<1> HIDE DEF P
<1>2. \A T \in SUBSET S : T \in P
    BY <1>1, SubsetInduction
<1> QED BY <1>2 DEF P
-----------------------------------------------------------------------------
\* SumFunctionOnSet satisfies the equations of the fold.
LEMMA SumOfSubset ==
    ASSUME NEW S, IsFiniteSet(S), NEW f, \A x \in S : f[x] \in Nat
    PROVE  /\ IsSum([ T \in SUBSET S |-> SumFunctionOnSet(f, T) ], f, S)
           /\ \A T \in SUBSET S : SumFunctionOnSet(f, T) \in Nat
<1>1. PICK g \in [ SUBSET S -> Nat ] : IsSum(g, f, S)
    BY SumExists
<1>2. ASSUME NEW T \in SUBSET S
      PROVE  SumFunctionOnSet(f, T) = g[T]
  <2> DEFINE h == CHOOSE h : IsSum(h, f, T)
  <2>1. IsFiniteSet(T) /\ \A x \in T : f[x] \in Nat
      BY FS_Subset
  <2>2. \E h_1 : IsSum(h_1, f, T)
      BY <2>1, SumExists
  <2>3. IsSum(h, f, T)
      BY <2>2
  <2> HIDE DEF h
  <2>4. h[T] = g[T]
      BY <1>1, <2>1, <2>3, SumsAgree
  <2> QED BY <2>4, SumIsChosen DEF h
<1>3. [ T \in SUBSET S |-> SumFunctionOnSet(f, T) ] = g
    BY <1>1, <1>2
<1> QED BY <1>1, <1>2, <1>3

\* Nothing sums up to nothing.
LEMMA SumOfNone == \A f : SumFunctionOnSet(f, {}) = 0
<1> SUFFICES ASSUME NEW f PROVE SumFunctionOnSet(f, {}) = 0
    OBVIOUS
<1> DEFINE g == [ T \in SUBSET {} |-> SumFunctionOnSet(f, T) ]
<1>1. IsSum(g, f, {})
    BY SumOfSubset, FS_EmptySet
<1>2. g[{}] = SumFunctionOnSet(f, {})
    OBVIOUS
<1> HIDE DEF g
<1> QED BY <1>1, <1>2 DEF IsSum

\* The order in which the fold takes the elements does not matter: any element
\* can be split off a sum.
LEMMA SumSplit ==
    ASSUME NEW S, IsFiniteSet(S), NEW f, \A x \in S : f[x] \in Nat
    PROVE  \A x \in S : SumFunctionOnSet(f, S)
                            = f[x] + SumFunctionOnSet(f, S \ {x})
<1> DEFINE g == [ T \in SUBSET S |-> SumFunctionOnSet(f, T) ]
           P == { T \in SUBSET S : \A x \in T : g[T] = f[x] + g[T \ {x}] }
<1>1. IsSum(g, f, S) /\ \A T \in SUBSET S : g[T] \in Nat
    BY SumOfSubset
<1>2. \A T \in SUBSET S : g[T] = SumFunctionOnSet(f, T)
    OBVIOUS
<1> HIDE DEF g
<1>3. ASSUME NEW T \in SUBSET S, \A x \in T : T \ {x} \in P, NEW x \in T
      PROVE  g[T] = f[x] + g[T \ {x}]
  <2> DEFINE c == Pick(T)
  <2>1. c \in T
      BY PickIsElement
  <2>2. g[T] = f[c] + g[T \ {c}]
      BY <1>1 DEF IsSum
  <2> HIDE DEF c
  <2>3. CASE x = c
      BY <2>2, <2>3
  <2>4. CASE x # c
    <3>1. /\ T \ {c} \in P /\ x \in T \ {c}
          /\ T \ {x} \in P /\ c \in T \ {x}
        BY <1>3, <2>1, <2>4
    <3>2. (T \ {c}) \ {x} = (T \ {x}) \ {c}
        OBVIOUS
    <3>3. PICK rest \in Nat : rest = g[(T \ {x}) \ {c}]
        BY <1>1
    <3>4. /\ g[T \ {c}] = f[x] + rest
          /\ g[T \ {x}] = f[c] + rest
        BY <3>1, <3>2, <3>3
    <3>5. f[x] \in Nat /\ f[c] \in Nat
        BY <2>1
    <3>6. \A p, q \in Nat : p + (q + rest) = q + (p + rest)
        OBVIOUS
    <3> QED BY <2>2, <3>4, <3>5, <3>6
  <2> QED BY <2>3, <2>4
<1>4. \A T \in SUBSET S : (\A x \in T : T \ {x} \in P) => T \in P
    BY <1>3
<1>5. S \in P
  <2> HIDE DEF P
  <2>1. \A T \in SUBSET S : T \in P
      BY <1>4, SubsetInduction
  <2> QED BY <2>1
<1> QED BY <1>2, <1>5

\* Larger summands make a larger sum; in particular equal ones an equal one.
LEMMA SumMonotone ==
    ASSUME NEW S, IsFiniteSet(S), NEW f, NEW g,
           \A x \in S : f[x] \in Nat /\ g[x] \in Nat /\ f[x] <= g[x]
    PROVE  SumFunctionOnSet(f, S) <= SumFunctionOnSet(g, S)
<1> DEFINE P == { T \in SUBSET S : SumFunctionOnSet(f, T) <= SumFunctionOnSet(g, T) }
<1>1. ASSUME NEW T \in SUBSET S, \A x \in T : T \ {x} \in P
      PROVE  SumFunctionOnSet(f, T) <= SumFunctionOnSet(g, T)
  <2>1. CASE T = {}
      BY <2>1, SumOfNone
  <2>2. CASE T # {}
    <3>1. PICK x \in T : TRUE
        BY <2>2
    <3>2. IsFiniteSet(T)
        BY FS_Subset
    <3>3. /\ SumFunctionOnSet(f, T) = f[x] + SumFunctionOnSet(f, T \ {x})
          /\ SumFunctionOnSet(g, T) = g[x] + SumFunctionOnSet(g, T \ {x})
        BY <3>1, <3>2, SumSplit
    <3>4. /\ SumFunctionOnSet(f, T \ {x}) \in Nat
          /\ SumFunctionOnSet(g, T \ {x}) \in Nat
        BY <3>1, SumOfSubset
    <3>5. SumFunctionOnSet(f, T \ {x}) <= SumFunctionOnSet(g, T \ {x})
        BY <1>1, <3>1
    <3> QED BY <3>1, <3>3, <3>4, <3>5
  <2> QED BY <2>1, <2>2
<1>2. \A T \in SUBSET S : (\A x \in T : T \ {x} \in P) => T \in P
    BY <1>1
<1>3. S \in P
  <2> HIDE DEF P
  <2>1. \A T \in SUBSET S : T \in P
      BY <1>2, SubsetInduction
  <2> QED BY <2>1
<1> QED BY <1>3

\* A sum depends on the summands only.
LEMMA SumOfEqual ==
    ASSUME NEW S, IsFiniteSet(S), NEW f, NEW g,
           \A x \in S : f[x] \in Nat /\ g[x] = f[x]
    PROVE  SumFunctionOnSet(g, S) = SumFunctionOnSet(f, S)
<1>1. /\ SumFunctionOnSet(g, S) <= SumFunctionOnSet(f, S)
      /\ SumFunctionOnSet(f, S) <= SumFunctionOnSet(g, S)
    BY SumMonotone
<1>2. /\ SumFunctionOnSet(g, S) \in Nat
      /\ SumFunctionOnSet(f, S) \in Nat
    BY SumOfSubset
<1> QED BY <1>1, <1>2
-----------------------------------------------------------------------------
(* Sums along a sequence *)

\* The sum of a function on 1..n is a natural number.
LEMMA SumIsNat ==
    ASSUME NEW n \in Nat, NEW f, \A i \in 1..n : f[i] \in Nat
    PROVE  SumFunctionOnSet(f, 1..n) \in Nat
<1>1. IsFiniteSet(1..n)
    BY FS_Interval
<1> QED BY <1>1, SumOfSubset

\* One more summand at the end adds to the sum.
LEMMA SumAppended ==
    ASSUME NEW n \in Nat, NEW f, NEW g,
           \A i \in 1..n : f[i] \in Nat /\ g[i] = f[i],
           g[n + 1] \in Nat
    PROVE  SumFunctionOnSet(g, 1..(n + 1)) = SumFunctionOnSet(f, 1..n) + g[n + 1]
<1>1. IsFiniteSet(1..(n + 1)) /\ IsFiniteSet(1..n)
    BY FS_Interval
<1>2. \A i \in 1..(n + 1) : g[i] \in Nat
    OBVIOUS
<1>3. n + 1 \in 1..(n + 1) /\ (1..(n + 1)) \ {n + 1} = 1..n
    OBVIOUS
<1>4. SumFunctionOnSet(g, 1..(n + 1)) = g[n + 1] + SumFunctionOnSet(g, 1..n)
    BY <1>1, <1>2, <1>3, SumSplit
<1>5. SumFunctionOnSet(g, 1..n) = SumFunctionOnSet(f, 1..n)
    BY <1>1, SumOfEqual
<1>6. SumFunctionOnSet(f, 1..n) \in Nat
    BY SumIsNat
<1> QED BY <1>4, <1>5, <1>6

\* h has the m values of f and then the n values of g.
Concatenates(h, f, m, g, n) ==
    /\ \A i \in 1..m : f[i] \in Nat /\ h[i] = f[i]
    /\ \A i \in 1..n : g[i] \in Nat /\ h[m + i] = g[i]

\* The sum over one sequence and then another.
LEMMA SumConcatenated ==
    ASSUME NEW m \in Nat, NEW n \in Nat, NEW f, NEW g, NEW h,
           Concatenates(h, f, m, g, n)
    PROVE  SumFunctionOnSet(h, 1..(m + n))
               = SumFunctionOnSet(f, 1..m) + SumFunctionOnSet(g, 1..n)
<1>c. /\ \A i \in 1..m : f[i] \in Nat /\ h[i] = f[i]
      /\ \A i \in 1..n : g[i] \in Nat /\ h[m + i] = g[i]
    BY DEF Concatenates
<1> DEFINE Sum(k) == SumFunctionOnSet(h, 1..(m + k))
           Parts(k) == SumFunctionOnSet(f, 1..m) + SumFunctionOnSet(g, 1..k)
           P == { k \in 0..n : Sum(k) = Parts(k) }
<1>1. \A k \in 0..n : \A i \in 1..(m + k) : h[i] \in Nat
  <2> SUFFICES ASSUME NEW k \in 0..n, NEW i \in 1..(m + k) PROVE h[i] \in Nat
      OBVIOUS
  <2>1. CASE i \in 1..m
      BY <1>c, <2>1
  <2>2. CASE i \notin 1..m
    <3>1. i - m \in 1..n /\ m + (i - m) = i
        BY <2>2
    <3> QED BY <1>c, <3>1
  <2> QED BY <2>1, <2>2
<1>2. 0 \in P
  <2>1. SumFunctionOnSet(h, 1..m) = SumFunctionOnSet(f, 1..m)
    <3>1. IsFiniteSet(1..m)
        BY FS_Interval
    <3>2. \A x \in 1..m : f[x] \in Nat /\ h[x] = f[x]
        BY <1>c
    <3> QED BY <3>1, <3>2, SumOfEqual
  <2>2. m + 0 = m /\ 1..0 = {} /\ 0 \in 0..n
      OBVIOUS
  <2>3. SumFunctionOnSet(g, 1..0) = 0
      BY <2>2, SumOfNone
  <2>4. SumFunctionOnSet(f, 1..m) \in Nat
      BY <1>c, SumIsNat
  <2> QED BY <2>1, <2>2, <2>3, <2>4
<1>3. ASSUME NEW k \in 0..n, k \in P, k < n PROVE k + 1 \in P
  <2>1. k \in Nat /\ m + k \in Nat /\ k + 1 \in 1..n /\ k + 1 \in 0..n
        /\ m + (k + 1) = (m + k) + 1
      BY <1>3
  <2>2. /\ h[(m + k) + 1] = g[k + 1] /\ g[k + 1] \in Nat
        /\ \A i \in 1..k : g[i] \in Nat
      BY <1>c, <2>1
  <2>3. \A i \in 1..(m + k) : h[i] \in Nat
      BY <1>1
  <2>4. SumFunctionOnSet(h, 1..((m + k) + 1))
            = SumFunctionOnSet(h, 1..(m + k)) + h[(m + k) + 1]
      BY <2>1, <2>2, <2>3, SumAppended
  <2>5. SumFunctionOnSet(g, 1..(k + 1)) = SumFunctionOnSet(g, 1..k) + g[k + 1]
      BY <2>1, <2>2, SumAppended
  <2>6. /\ SumFunctionOnSet(f, 1..m) \in Nat /\ SumFunctionOnSet(g, 1..k) \in Nat
      BY <1>c, <2>1, <2>2, SumIsNat
  <2>7. Sum(k) = Parts(k)
      BY <1>3
  <2>8. Sum(k + 1) = Parts(k + 1)
      BY <2>1, <2>2, <2>4, <2>5, <2>6, <2>7
  <2> QED BY <2>1, <2>8
<1>4. n \in Nat /\ 0 \in Nat /\ n \in 0..n
    OBVIOUS
<1> HIDE DEF P
<1>5. n \in P
    BY <1>2, <1>3, <1>4, IntervalInduction
<1> QED BY <1>5 DEF P
=============================================================================
