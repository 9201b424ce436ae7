-------------------------- MODULE CheckpointProofs --------------------------
(***************************************************************************)
(* Theorems about CheckpointStore, for any number of appenders, readers,   *)
(* checkpoints and segments, and any capacity: the store is well typed,    *)
(* and until a segment is damaged or a read fails for good the segments    *)
(* fill in order, every acknowledged checkpoint is stored once, and        *)
(* reading them one by one without a lock answers as one log would.        *)
(***************************************************************************)
EXTENDS CheckpointProperties, SafeJsonStoreProofs, SumTheorems

(* Concatenation of segments *)

\* g gives the concatenations of the first sequences of s, as FlattenSeq does.
IsFlat(g, s) ==
    g = [ i \in 1..Len(s) |-> IF i = 1 THEN s[i] ELSE g[i-1] \o s[i] ]

LEMMA FlattenIsChosen ==
    ASSUME NEW s, Len(s) # 0
    PROVE  FlattenSeq(s) = (CHOOSE g : IsFlat(g, s))[Len(s)]
BY DEF FlattenSeq, IsFlat

\* What FlattenSeq computes exists.
LEMMA FlatExists ==
    ASSUME NEW T, NEW s \in Seq(Seq(T))
    PROVE  \E g \in [ 1..Len(s) -> Seq(T) ] : IsFlat(g, s)
<1> DEFINE Step(g, i) == IF i = 1 THEN s[i] ELSE g[i-1] \o s[i]
           Good(g, n) == \A i \in 1..Len(s) : i <= n => g[i] = Step(g, i)
           Bad == { n \in Nat : ~ \E g \in [ 1..Len(s) -> Seq(T) ] : Good(g, n) }
<1>1. Len(s) \in Nat /\ \A i \in 1..Len(s) : s[i] \in Seq(T)
    OBVIOUS
<1>2. \A g \in [ 1..Len(s) -> Seq(T) ] : \A i \in 1..Len(s) : Step(g, i) \in Seq(T)
  <2>1. ASSUME NEW g \in [ 1..Len(s) -> Seq(T) ], NEW i \in 1..Len(s), i # 1
        PROVE  g[i-1] \o s[i] \in Seq(T)
    <3>1. i - 1 \in 1..Len(s)
        BY <1>1, <2>1
    <3>2. g[i-1] \in Seq(T) /\ s[i] \in Seq(T)
        BY <1>1, <3>1
    <3> QED BY <3>2, ConcatProperties
  <2> QED BY <1>1, <2>1
<1>3. 0 \notin Bad
  <2>1. [ i \in 1..Len(s) |-> s[i] ] \in [ 1..Len(s) -> Seq(T) ]
      BY <1>1
  <2>2. \A g : Good(g, 0)
      BY <1>1
  <2> QED BY <2>1, <2>2
<1>4. ASSUME NEW n \in Nat, n \notin Bad PROVE n + 1 \notin Bad
  <2>1. PICK g \in [ 1..Len(s) -> Seq(T) ] : Good(g, n)
      BY <1>4
  <2> DEFINE h == [ i \in 1..Len(s) |-> Step(g, i) ]
  <2>2. h \in [ 1..Len(s) -> Seq(T) ]
      BY <1>2
  <2>3. \A i \in 1..Len(s) : i <= n => h[i] = g[i]
      BY <2>1
  <2>4. ASSUME NEW i \in 1..Len(s), i <= n + 1 PROVE h[i] = Step(h, i)
    <3>1. CASE i = 1
        BY <3>1
    <3>2. CASE i # 1
      <4>1. i - 1 \in 1..Len(s) /\ i - 1 <= n
          BY <1>1, <1>4, <2>4, <3>2
      <4>2. h[i-1] = g[i-1] /\ h[i] = g[i-1] \o s[i]
          BY <2>3, <3>2, <4>1
      <4> QED BY <3>2, <4>2
    <3> QED BY <3>1, <3>2
  <2> HIDE DEF h
  <2> QED BY <2>2, <2>4
<1>5. Bad = {}
  <2>1. Bad \subseteq Nat
      OBVIOUS
  <2> HIDE DEF Bad
  <2>2. SUFFICES ASSUME Bad # {} PROVE FALSE
      OBVIOUS
  <2>3. PICK n \in Bad : n \in Nat /\ \A m \in Bad : n <= m
      BY <2>1, <2>2, LeastElement
  <2>4. n # 0 /\ n - 1 \notin Bad
      BY <2>1, <2>3, <1>3
  <2> QED BY <2>3, <2>4, <1>4
<1>6. PICK g \in [ 1..Len(s) -> Seq(T) ] : Good(g, Len(s))
  <2>1. Len(s) \notin Bad
      BY <1>5
  <2> HIDE DEF Good
  <2> QED BY <1>1, <2>1
<1>7. \A i \in 1..Len(s) : g[i] = Step(g, i)
  <2>1. \A i \in 1..Len(s) : i <= Len(s)
      BY <1>1
  <2> HIDE DEF Step
  <2> QED BY <1>6, <2>1
<1>8. IsFlat(g, s)
    BY <1>6, <1>7 DEF IsFlat
<1> QED BY <1>8

\* The checkpoints in segments 1 to n of the documents f.
FirstOf(f, n) == FlattenSeq([ m \in 1..n |-> f[m].entries ])

LEMMA SegmentsAreSequence ==
    ASSUME NEW T, NEW n \in Nat, NEW f, \A m \in 1..n : f[m].entries \in Seq(T)
    PROVE  /\ [ m \in 1..n |-> f[m].entries ] \in Seq(Seq(T))
           /\ Len([ m \in 1..n |-> f[m].entries ]) = n
OBVIOUS

SamePrefix(s, t, n) ==
    n \in Nat /\ n <= Len(s) /\ n <= Len(t) /\ \A i \in 1..n : s[i] = t[i]

FlatOf(g, s, T) == s \in Seq(Seq(T)) /\ IsFlat(g, s)

AgreeTo(g, h, n) == \A i \in 1..n : g[i] = h[i]

\* Two concatenations agree as far as their sequences do.
LEMMA FlatsAgree ==
    ASSUME NEW T, NEW s, NEW t, NEW n, NEW g, NEW h,
           FlatOf(g, s, T), FlatOf(h, t, T), SamePrefix(s, t, n)
    PROVE  AgreeTo(g, h, n)
<1> DEFINE P == { i \in 1..n : g[i] = h[i] }
<1> USE DEF SamePrefix, FlatOf, AgreeTo
<1>1. Len(s) \in Nat /\ Len(t) \in Nat /\ n \in Nat
    OBVIOUS
<1>2. ASSUME NEW i \in 1..n
      PROVE  /\ g[i] = IF i = 1 THEN s[i] ELSE g[i-1] \o s[i]
             /\ h[i] = IF i = 1 THEN t[i] ELSE h[i-1] \o t[i]
  <2>1. i \in 1..Len(s) /\ i \in 1..Len(t)
      BY <1>1
  <2> QED BY <2>1 DEF IsFlat
<1>3. CASE n = 0
    BY <1>3
<1>4. CASE n # 0
  <2>1. 1 \in 1..n /\ n \in Nat
      BY <1>4
  <2>2. 1 \in P
      BY <1>2, <2>1
  <2>3. ASSUME NEW i \in 1..n, i \in P, i < n PROVE i + 1 \in P
    <3>1. i + 1 \in 1..n /\ i + 1 # 1 /\ (i + 1) - 1 = i
        BY <2>3
    <3>2. /\ g[i+1] = g[i] \o s[i+1] /\ h[i+1] = h[i] \o t[i+1]
        BY <1>2, <3>1
    <3> QED BY <2>3, <3>1, <3>2
  <2> HIDE DEF P
  <2>4. \A i \in 1..n : i \in P
      BY <2>1, <2>2, <2>3, IntervalInduction
  <2> QED BY <2>4 DEF P
<1> QED BY <1>3, <1>4

\* One segment after the other.
LEMMA FirstOfEquations ==
    ASSUME NEW T, NEW M \in Nat, NEW f, \A m \in 1..M : f[m].entries \in Seq(T)
    PROVE  /\ FirstOf(f, 0) = <<>>
           /\ \A n \in 0..M : FirstOf(f, n) \in Seq(T)
           /\ \A n \in 1..M : FirstOf(f, n) = FirstOf(f, n - 1) \o f[n].entries
<1> DEFINE s(n) == [ m \in 1..n |-> f[m].entries ]
<1>1. \A n \in 0..M : s(n) \in Seq(Seq(T)) /\ Len(s(n)) = n
    BY SegmentsAreSequence
<1>2. FirstOf(f, 0) = <<>>
  <2>1. s(0) \in Seq(Seq(T)) /\ Len(s(0)) = 0
      BY <1>1
  <2>2. s(0) = <<>>
      BY <2>1, EmptySeq
  <2> QED BY <2>1, <2>2 DEF FirstOf, FlattenSeq
<1>3. PICK g \in [ 1..M -> Seq(T) ] : IsFlat(g, s(M))
  <2>1. s(M) \in Seq(Seq(T)) /\ Len(s(M)) = M
      BY <1>1
  <2> HIDE DEF s
  <2> QED BY <2>1, FlatExists
<1>4. ASSUME NEW n \in 1..M PROVE FirstOf(f, n) = g[n]
  <2> DEFINE h == CHOOSE h : IsFlat(h, s(n))
  <2>1. /\ s(n) \in Seq(Seq(T)) /\ Len(s(n)) = n /\ s(M) \in Seq(Seq(T)) /\ Len(s(M)) = M
        /\ \A i \in 1..n : s(n)[i] = s(M)[i]
      BY <1>1
  <2>2. FirstOf(f, n) = FlattenSeq(s(n))
      BY DEF FirstOf
  <2> HIDE DEF s
  <2>3. \E x : IsFlat(x, s(n))
      BY <2>1, FlatExists
  <2>4. IsFlat(h, s(n))
      BY <2>3
  <2>5. FlattenSeq(s(n)) = h[n]
      BY <2>1, FlattenIsChosen
  <2> HIDE DEF h
  <2>6. n \in Nat /\ n <= Len(s(n)) /\ n <= Len(s(M)) /\ n \in 1..n
      BY <2>1
  <2>7. IsFlat(g, s(M))
      BY <1>3
  <2>8. \A i \in 1..n : h[i] = g[i]
    <3> DEFINE a == s(n)  b == s(M)
    <3>1. FlatOf(h, a, T) /\ FlatOf(g, b, T)
        BY <2>1, <2>4, <2>7 DEF FlatOf
    <3>2. SamePrefix(a, b, n)
        BY <2>1, <2>6 DEF SamePrefix
    <3> HIDE DEF a, b
    <3>3. AgreeTo(h, g, n)
        BY <3>1, <3>2, FlatsAgree
    <3> QED BY <3>3 DEF AgreeTo
  <2> QED BY <2>1, <2>2, <2>5, <2>6, <2>8
<1>5. ASSUME NEW n \in 1..M
      PROVE  g[n] = IF n = 1 THEN f[n].entries ELSE g[n-1] \o f[n].entries
  <2>1. g = [ i \in 1..Len(s(M)) |-> IF i = 1 THEN s(M)[i] ELSE g[i-1] \o s(M)[i] ]
      BY <1>3 DEF IsFlat
  <2>2. Len(s(M)) = M /\ s(M)[n] = f[n].entries
      BY <1>1
  <2> HIDE DEF s
  <2>3. g[n] = IF n = 1 THEN s(M)[n] ELSE g[n-1] \o s(M)[n]
      BY <2>1, <2>2
  <2> QED BY <2>2, <2>3
<1>6. ASSUME NEW n \in 1..M
      PROVE  FirstOf(f, n) = FirstOf(f, n - 1) \o f[n].entries
  <2>1. CASE n = 1
    <3>1. f[n].entries \in Seq(T) /\ n - 1 = 0
        BY <2>1
    <3>2. <<>> \o f[n].entries = f[n].entries
        BY <3>1, ConcatEmptySeq
    <3>3. FirstOf(f, n) = f[n].entries
        BY <1>4, <1>5, <2>1
    <3> QED BY <1>2, <3>1, <3>2, <3>3
  <2>2. CASE n # 1
    <3>1. n - 1 \in 1..M
        BY <2>2
    <3> QED BY <1>4, <1>5, <2>2, <3>1
  <2> QED BY <2>1, <2>2
<1>7. ASSUME NEW n \in 0..M PROVE FirstOf(f, n) \in Seq(T)
  <2>1. CASE n = 0
      BY <1>2, <2>1, EmptySeq
  <2>2. CASE n # 0
      BY <1>3, <1>4, <2>2
  <2> QED BY <2>1, <2>2
<1> QED BY <1>2, <1>6, <1>7

-----------------------------------------------------------------------------
(* The documents of an execution *)

Documents == [ Paths -> Content ]

\* A sequence is the beginning of another.
Begins(s, t) == Len(s) <= Len(t) /\ \A i \in 1..Len(s) : t[i] = s[i]

LEMMA Constants ==
    /\ Nobody \notin Processes /\ Paths = 1..MaxAppends /\ Entries = 1..MaxAppends
    /\ MaxAppends \in Nat /\ Capacity \in Nat /\ Capacity >= 1
    /\ CopyNames = { "corrupt" } \cup Processes /\ "corrupt" \notin Processes
    /\ Processes = Appenders \cup Readers
BY StoreAssumption, CheckpointAssumption DEF CopyNames

LEMMA DocumentsConcatenate ==
    ASSUME NEW f \in Documents
    PROVE  /\ FirstOf(f, 0) = <<>>
           /\ \A n \in 0..MaxAppends : FirstOf(f, n) \in Seq(Entries)
           /\ \A n \in 1..MaxAppends : FirstOf(f, n) = FirstOf(f, n - 1) \o f[n].entries
<1>1. MaxAppends \in Nat /\ \A m \in 1..MaxAppends : f[m].entries \in Seq(Entries)
    BY Constants DEF Documents, Content
<1> QED BY <1>1, FirstOfEquations

\* Only the segments up to n say what the first n hold.
LEMMA FirstOfSame ==
    ASSUME NEW f, NEW g, NEW n, \A m \in 1..n : f[m].entries = g[m].entries
    PROVE  FirstOf(f, n) = FirstOf(g, n)
<1>1. [ m \in 1..n |-> f[m].entries ] = [ m \in 1..n |-> g[m].entries ]
    OBVIOUS
<1> QED BY <1>1, Zenon DEF FirstOf

\* A segment that holds nothing adds nothing, and each one that holds something
\* only adds at the end.
LEMMA MoreSegments ==
    ASSUME NEW f \in Documents, NEW n \in 1..MaxAppends
    PROVE  /\ Begins(FirstOf(f, n - 1), FirstOf(f, n))
           /\ f[n].entries = <<>> => FirstOf(f, n) = FirstOf(f, n - 1)
           /\ Len(FirstOf(f, n)) = Len(FirstOf(f, n - 1)) + Len(f[n].entries)
<1> DEFINE a == FirstOf(f, n - 1)  b == f[n].entries
<1>1. n - 1 \in 0..MaxAppends /\ n \in Paths
    BY Constants
<1>2. a \in Seq(Entries) /\ b \in Seq(Entries) /\ FirstOf(f, n) = a \o b
    BY <1>1, DocumentsConcatenate DEF Documents, Content
<1> HIDE DEF a, b
<1>3. b = <<>> => a \o b = a
    BY <1>2, ConcatEmptySeq
<1>4. Begins(a, a \o b) /\ Len(a \o b) = Len(a) + Len(b)
    BY <1>2, ConcatProperties DEF Begins
<1> QED BY <1>2, <1>3, <1>4 DEF a, b

LEMMA BeginsIsOrder ==
    /\ \A s \in Seq(Entries) : Begins(s, s)
    /\ \A s, t, u \in Seq(Entries) : Begins(s, t) /\ Begins(t, u) => Begins(s, u)
<1>1. \A s \in Seq(Entries) : Begins(s, s)
    BY DEF Begins
<1>2. ASSUME NEW s \in Seq(Entries), NEW t \in Seq(Entries), NEW u \in Seq(Entries),
             Begins(s, t), Begins(t, u)
      PROVE  Begins(s, u)
  <2>1. Len(s) \in Nat /\ Len(t) \in Nat /\ Len(u) \in Nat
      OBVIOUS
  <2>2. \A i \in 1..Len(s) : i \in 1..Len(t)
      BY <1>2, <2>1 DEF Begins
  <2> QED BY <1>2, <2>1, <2>2 DEF Begins
<1> QED BY <1>1, <1>2

LEMMA FirstOfBegins ==
    ASSUME NEW f \in Documents, NEW k \in 0..MaxAppends, NEW n \in k..MaxAppends
    PROVE  Begins(FirstOf(f, k), FirstOf(f, n))
<1> DEFINE P == { m \in k..MaxAppends : Begins(FirstOf(f, k), FirstOf(f, m)) }
<1>1. MaxAppends \in Nat /\ k \in Nat /\ k \in k..MaxAppends /\ k \in 0..MaxAppends
    BY Constants
<1>2. k \in P
    BY <1>1, DocumentsConcatenate, BeginsIsOrder
<1>3. ASSUME NEW m \in k..MaxAppends, m \in P, m < MaxAppends PROVE m + 1 \in P
  <2>1. m + 1 \in 1..MaxAppends /\ (m + 1) - 1 = m /\ m \in 0..MaxAppends
        /\ m + 1 \in 0..MaxAppends /\ m + 1 \in k..MaxAppends
      BY <1>1, <1>3
  <2>2. Begins(FirstOf(f, m), FirstOf(f, m + 1))
      BY <2>1, MoreSegments
  <2>3. /\ FirstOf(f, k) \in Seq(Entries) /\ FirstOf(f, m) \in Seq(Entries)
        /\ FirstOf(f, m + 1) \in Seq(Entries)
      BY <1>1, <2>1, DocumentsConcatenate
  <2> QED BY <1>3, <2>1, <2>2, <2>3, BeginsIsOrder
<1> HIDE DEF P
<1>4. \A m \in k..MaxAppends : m \in P
    BY <1>1, <1>2, <1>3, IntervalInduction
<1> QED BY <1>4 DEF P

\* Behind the newest segment there is nothing to add.
LEMMA FirstOfAll ==
    ASSUME NEW f \in Documents, NEW k \in 0..MaxAppends, NEW n \in k..MaxAppends,
           \A m \in k+1..MaxAppends : f[m].entries = <<>>
    PROVE  FirstOf(f, n) = FirstOf(f, k)
<1> DEFINE P == { m \in k..MaxAppends : FirstOf(f, m) = FirstOf(f, k) }
<1>1. MaxAppends \in Nat /\ k \in Nat /\ k \in k..MaxAppends
    BY Constants
<1>2. k \in P
    BY <1>1
<1>3. ASSUME NEW m \in k..MaxAppends, m \in P, m < MaxAppends PROVE m + 1 \in P
  <2>1. m + 1 \in 1..MaxAppends /\ (m + 1) - 1 = m /\ m + 1 \in k+1..MaxAppends
        /\ m + 1 \in k..MaxAppends
      BY <1>1, <1>3
  <2> QED BY <1>3, <2>1, MoreSegments
<1> HIDE DEF P
<1>4. \A m \in k..MaxAppends : m \in P
    BY <1>1, <1>2, <1>3, IntervalInduction
<1> QED BY <1>4 DEF P

\* An append to the newest segment is an append to the whole.
LEMMA FirstOfAppended ==
    ASSUME NEW f \in Documents, NEW g \in Documents, NEW k \in 1..MaxAppends,
           NEW e \in Entries,
           g[k].entries = Append(f[k].entries, e),
           \A m \in Paths : m # k => g[m].entries = f[m].entries,
           \A m \in k+1..MaxAppends : f[m].entries = <<>>
    PROVE  /\ \A n \in 0..k-1 : FirstOf(g, n) = FirstOf(f, n)
           /\ \A n \in k..MaxAppends : FirstOf(g, n) = Append(FirstOf(f, n), e)
<1>1. MaxAppends \in Nat /\ k \in Paths /\ k \in 0..MaxAppends /\ k - 1 \in 0..k-1
      /\ k - 1 \in 0..MaxAppends
    BY Constants
<1>2. ASSUME NEW n \in 0..k-1 PROVE FirstOf(g, n) = FirstOf(f, n)
  <2>1. \A m \in 1..n : m \in Paths /\ m # k
      BY <1>1, Constants
  <2>2. \A m \in 1..n : g[m].entries = f[m].entries
      BY <2>1
  <2> QED BY <2>2, FirstOfSame
<1>3. FirstOf(g, k) = Append(FirstOf(f, k), e)
  <2> DEFINE a == FirstOf(f, k - 1)  b == f[k].entries
  <2>1. a \in Seq(Entries) /\ b \in Seq(Entries)
      BY <1>1, DocumentsConcatenate DEF Documents, Content
  <2>2. FirstOf(g, k - 1) = a
      BY <1>1, <1>2
  <2>3. FirstOf(f, k) = a \o b /\ FirstOf(g, k) = a \o Append(b, e)
      BY <1>1, <2>2, DocumentsConcatenate
  <2> HIDE DEF a, b
  <2>4. Append(b, e) = b \o <<e>> /\ Append(a \o b, e) = (a \o b) \o <<e>>
        /\ <<e>> \in Seq(Entries)
      BY <2>1, ConcatProperties, AppendIsConcat
  <2>5. (a \o b) \o <<e>> = a \o (b \o <<e>>)
      BY <2>1, <2>4, ConcatAssociative
  <2> QED BY <2>3, <2>4, <2>5
<1>4. ASSUME NEW n \in k..MaxAppends PROVE FirstOf(g, n) = Append(FirstOf(f, n), e)
  <2>1. FirstOf(f, n) = FirstOf(f, k)
      BY <1>1, FirstOfAll
  <2>2. \A m \in k+1..MaxAppends : g[m].entries = <<>>
    <3>1. \A m \in k+1..MaxAppends : m \in Paths /\ m # k
        BY <1>1, Constants
    <3> QED BY <3>1
  <2>3. FirstOf(g, n) = FirstOf(g, k)
      BY <1>1, <2>2, FirstOfAll
  <2> QED BY <1>3, <2>1, <2>3
<1> QED BY <1>2, <1>4

-----------------------------------------------------------------------------
(* The segments in ascending order *)

UpTo(n) == { m \in SegmentNumbers : m <= n }

LEMMA SegmentCounts ==
    /\ SegmentNumbers \subseteq 1..MaxAppends /\ IsFiniteSet(SegmentNumbers)
    /\ UpTo(0) = {} /\ UpTo(MaxAppends) = SegmentNumbers
    /\ \A n \in Nat : /\ IsFiniteSet(UpTo(n)) /\ Cardinality(UpTo(n)) \in Nat
                      /\ Cardinality(UpTo(n + 1)) = IF n + 1 \in SegmentNumbers
                                                    THEN Cardinality(UpTo(n)) + 1
                                                    ELSE Cardinality(UpTo(n))
<1>1. MaxAppends \in Nat /\ SegmentNumbers \subseteq 1..MaxAppends
    BY Constants DEF SegmentNumbers
<1>2. IsFiniteSet(SegmentNumbers)
  <2>1. IsFiniteSet(1..MaxAppends)
      BY <1>1, FS_Interval
  <2> QED BY <1>1, <2>1, FS_Subset
<1>3. UpTo(0) = {} /\ UpTo(MaxAppends) = SegmentNumbers
  <2>1. \A m \in SegmentNumbers : m \in Nat /\ ~(m <= 0) /\ m <= MaxAppends
      BY <1>1
  <2> QED BY <2>1 DEF UpTo
<1>4. ASSUME NEW n \in Nat
      PROVE  /\ IsFiniteSet(UpTo(n)) /\ Cardinality(UpTo(n)) \in Nat
             /\ Cardinality(UpTo(n + 1)) = IF n + 1 \in SegmentNumbers
                                           THEN Cardinality(UpTo(n)) + 1
                                           ELSE Cardinality(UpTo(n))
  <2>1. UpTo(n) \subseteq SegmentNumbers
      BY DEF UpTo
  <2>2. IsFiniteSet(UpTo(n)) /\ Cardinality(UpTo(n)) \in Nat
      BY <1>2, <2>1, FS_Subset, FS_CardinalityType
  <2>3. \A m \in SegmentNumbers : m \in Nat
      BY <1>1
  <2>4. CASE n + 1 \in SegmentNumbers
    <3>1. UpTo(n + 1) = UpTo(n) \cup { n + 1 } /\ n + 1 \notin UpTo(n)
        BY <2>3, <2>4 DEF UpTo
    <3> QED BY <2>2, <2>4, <3>1, FS_AddElement
  <2>5. CASE n + 1 \notin SegmentNumbers
    <3>1. UpTo(n + 1) = UpTo(n)
        BY <2>3, <2>5 DEF UpTo
    <3> QED BY <2>2, <2>5, <3>1
  <2> QED BY <2>2, <2>4, <2>5
<1> QED BY <1>1, <1>2, <1>3, <1>4

\* For every i there is an i-th segment.
LEMMA SegmentsAreRanked ==
    \A i \in 1..Cardinality(SegmentNumbers) :
        \E n \in SegmentNumbers : Cardinality(UpTo(n)) = i
<1> DEFINE C(n) == Cardinality(UpTo(n))
           P == { k \in 0..MaxAppends :
                    \A i \in 1..C(k) : \E n \in SegmentNumbers : C(n) = i }
<1>1. MaxAppends \in Nat /\ C(0) = 0 /\ C(MaxAppends) = Cardinality(SegmentNumbers)
    BY Constants, SegmentCounts, FS_EmptySet
<1>2. \A n \in Nat : /\ C(n) \in Nat
                     /\ C(n + 1) = IF n + 1 \in SegmentNumbers THEN C(n) + 1 ELSE C(n)
    BY SegmentCounts
<1> HIDE DEF C
<1>3. 0 \in P
    BY <1>1
<1>4. ASSUME NEW k \in 0..MaxAppends, k \in P, k < MaxAppends PROVE k + 1 \in P
  <2>1. k \in Nat /\ k + 1 \in 0..MaxAppends /\ C(k) \in Nat
      BY <1>1, <1>2, <1>4
  <2>2. ASSUME NEW i \in 1..C(k + 1) PROVE \E n \in SegmentNumbers : C(n) = i
    <3>1. CASE i \in 1..C(k)
        BY <1>4, <3>1
    <3>2. CASE i \notin 1..C(k)
      <4>1. k + 1 \in SegmentNumbers /\ C(k + 1) = i
          BY <1>2, <2>1, <2>2, <3>2
      <4> QED BY <4>1
    <3> QED BY <3>1, <3>2
  <2> QED BY <2>1, <2>2
<1> HIDE DEF P
<1>5. 0 \in Nat /\ 0 \in 0..MaxAppends /\ MaxAppends \in 0..MaxAppends
    BY <1>1
<1>6. MaxAppends \in P
    BY <1>1, <1>3, <1>4, <1>5, IntervalInduction
<1> QED BY <1>1, <1>6 DEF P, C

LEMMA AscendingTyped ==
    /\ Ascending \in Seq(SegmentNumbers) /\ Ascending \in Seq(Paths)
    /\ Len(Ascending) = Cardinality(SegmentNumbers) /\ Cardinality(SegmentNumbers) \in Nat
    /\ Reverse(Ascending) \in Seq(SegmentNumbers) /\ Reverse(Ascending) \in Seq(Paths)
    /\ Len(Reverse(Ascending)) = Cardinality(SegmentNumbers)
<1> DEFINE k == Cardinality(SegmentNumbers)
           N(i) == CHOOSE n \in SegmentNumbers : Cardinality(UpTo(n)) = i
<1>1. k \in Nat
    BY SegmentCounts, FS_CardinalityType
<1>2. \A i \in 1..k : N(i) \in SegmentNumbers
    BY SegmentsAreRanked
<1>3. Ascending = [ i \in 1..k |-> N(i) ]
    BY DEF Ascending, UpTo
<1> HIDE DEF k, N
<1>4. Ascending \in Seq(SegmentNumbers) /\ Len(Ascending) = k
    BY <1>1, <1>2, <1>3
<1>5. Reverse(Ascending) \in Seq(SegmentNumbers) /\ Len(Reverse(Ascending)) = k
  <2>1. Reverse(Ascending) = [ i \in 1..k |-> Ascending[(k - i) + 1] ]
      BY <1>4 DEF Reverse
  <2>2. \A i \in 1..k : Ascending[(k - i) + 1] \in SegmentNumbers
      BY <1>1, <1>4
  <2> HIDE DEF Reverse
  <2> QED BY <1>1, <2>1, <2>2
<1>6. SegmentNumbers \subseteq Paths
    BY DEF SegmentNumbers
<1>7. /\ Seq(SegmentNumbers) \subseteq Seq(Paths)
    BY <1>6
<1> QED BY <1>1, <1>4, <1>5, <1>7 DEF k

\* Without gaps, the i-th segment is segment i.
LEMMA AscendingWhole ==
    ASSUME NEW n \in Nat, SegmentNumbers = 1..n
    PROVE  Ascending = [ i \in 1..n |-> i ]
<1>1. Cardinality(SegmentNumbers) = n
    BY FS_Interval
<1>2. ASSUME NEW i \in 1..n
      PROVE  (CHOOSE m \in SegmentNumbers : Cardinality(UpTo(m)) = i) = i
  <2>1. ASSUME NEW m \in SegmentNumbers PROVE Cardinality(UpTo(m)) = m
    <3>1. UpTo(m) = 1..m
        BY DEF UpTo
    <3> QED BY <3>1, FS_Interval
  <2> QED BY <2>1
<1> QED BY <1>1, <1>2 DEF Ascending, UpTo

-----------------------------------------------------------------------------
(* The invariants, whatever is damaged *)

Appending(p) == op[p].name = "append"

\* What each process is in: a call of append() with the execution lock and at
\* most one call of the store at a time, or a query that never locks.
Roles ==
    \A p \in Processes :
        /\ Appending(p) <=> execution = p
        /\ Appending(p) => p \in Appenders
        /\ op[p].name \in Queries => p \in Readers /\ ~call[p].updating
        /\ op[p].name = "none" => call[p].step = "idle"
        /\ call[p].step = "idle" => ~call[p].updating
        /\ call[p].step # "idle" => call[p].path \in Paths
        /\ call[p].step \in { "lock", "write", "unlock" } => call[p].updating

\* A segment's lock is held only from the read to the release of an update().
LocksHeld ==
    \A n \in Paths, p \in Processes :
        lock[n] = p => /\ call[p].updating /\ call[p].path = n
                       /\ call[p].step \notin { "lock", "returned", "raised" }

\* An update() that has not got past its write.
BeforeWrite(p) ==
    call[p].updating /\ call[p].step \notin { "unlock", "returned", "raised" }

\* Nothing is stored behind the document of the call, and it is not one too many.
IsNewest(p) ==
    /\ call[p].path <= issued
    /\ \A n \in Paths : n > call[p].path => file[n] = Missing

LooksAtNewest(p) ==
    /\ IsNewest(p)
    /\ call[p].value # Missing => call[p].path < issued
    /\ call[p].step = "returned" /\ Len(call[p].value.entries) < Capacity
         => Len(file[call[p].path].entries) < Capacity

WritesWithRoom(p) ==
    /\ IsNewest(p)
    /\ Len(call[p].value.entries) < Capacity
    /\ Len(file[call[p].path].entries) < Capacity

\* The append() at work is the latest one, and the segment that it looks at or
\* updates is the newest there is, or the one after it, and has room when it
\* comes to the write.  This is what the execution lock is for: between the
\* unlocked look and the locked update, segments are at most renamed away.
Room ==
    \A p \in Processes : Appending(p) =>
        /\ op[p].entry = issued /\ issued \in 1..MaxAppends
        /\ call[p].step # "idle" /\ ~call[p].updating => LooksAtNewest(p)
        /\ BeforeWrite(p) => WritesWithRoom(p)

\* There are never more segments than calls of append() that may have written.
Growth ==
    \A n \in SegmentNumbers :
        /\ n <= issued
        /\ \A p \in Processes : Appending(p) /\ (call[p].updating => BeforeWrite(p))
                                => n < issued

StoreInv ==
    /\ CheckpointTypeOK
    /\ Roles
    /\ LocksHeld
    /\ Room
    /\ Growth
    /\ SegmentsBounded

LEMMA StoreInvTyped ==
    ASSUME StoreInv
    PROVE  /\ StoreTyped /\ op \in [ Processes -> OpRecord ]
           /\ execution \in Processes \cup {Nobody}
           /\ issued \in Nat /\ acked \subseteq Entries /\ faults \in Nat
           /\ \A n \in Paths : /\ file[n] \in Content /\ file[n].entries \in Seq(Entries)
                               /\ Len(file[n].entries) \in Nat
                               /\ Len(file[n].entries) <= Capacity
           /\ \A p \in Processes : /\ call[p] \in CallRecord /\ call[p].value \in Content
                                   /\ call[p].value.entries \in Seq(Entries)
                                   /\ Len(call[p].value.entries) \in Nat
<1>1. /\ StoreTyped /\ op \in [ Processes -> OpRecord ]
      /\ execution \in Processes \cup {Nobody}
      /\ issued \in Nat /\ acked \subseteq Entries /\ faults \in Nat
    BY DEF StoreInv, CheckpointTypeOK, StoreTyped, CallsTyped
<1>2. ASSUME NEW v \in Content
      PROVE  v.entries \in Seq(Entries) /\ Len(v.entries) \in Nat
  <2>1. v.entries \in Seq(Entries)
      BY DEF Content
  <2> QED BY <2>1
<1>3. \A n \in Paths : file[n] \in Content /\ Len(file[n].entries) <= Capacity
    BY <1>1 DEF StoreTyped, StoreInv, SegmentsBounded
<1>4. \A p \in Processes : call[p] \in CallRecord /\ call[p].value \in Content
    BY <1>1 DEF StoreTyped, CallsTyped, CallRecord
<1> QED BY <1>1, <1>2, <1>3, <1>4

\* There is one append() at a time.
LEMMA OneAppender ==
    ASSUME Roles, NEW p \in Processes, NEW q \in Processes, Appending(p), Appending(q)
    PROVE  p = q
BY DEF Roles

\* A step of the store that renames at most the document of its call away.
Shrinks(p) ==
    /\ \A m \in Paths : file'[m] = file[m] \/ file'[m] = Missing
    /\ \A m \in Paths : \A x \in CopyNames :
           copies'[m][x] = copies[m][x] \/ copies'[m][x] = file[m]

LEMMA StoreStepShrinks ==
    ASSUME StoreTyped, NEW p \in Processes, call[p].path \in Paths, StoreStep(p)
    PROVE  Shrinks(p)
<1> DEFINE n == call[p].path
<1>1. Looks(p, n) \/ Locks(p, n) \/ Quarantines(p, n)
    BY StoreStepCases
<1> HIDE DEF n
<1>2. n \in Paths
    BY DEF n
<1> QED BY <1>1, <1>2 DEF Looks, Locks, Quarantines, Shrinks

\* What shrinking leaves of the invariant.
LEMMA ShrinkingKeepsRoom ==
    ASSUME StoreInv, NEW p \in Processes, Shrinks(p), UNCHANGED issued
    PROVE  /\ SegmentsBounded'
           /\ \A n \in SegmentNumbers' : n \in SegmentNumbers
           /\ \A q \in Processes : call'[q] = call[q] =>
                /\ IsNewest(q) => IsNewest(q)'
                /\ call[q].path \in Paths =>
                    /\ LooksAtNewest(q) => LooksAtNewest(q)'
                    /\ WritesWithRoom(q) => WritesWithRoom(q)'
<1>1. Capacity \in Nat /\ Capacity >= 1 /\ Len(Missing.entries) = 0
    BY Constants, ContentKinds
<1>2. \A n \in Paths : /\ Len(file'[n].entries) <= Capacity
                       /\ Len(file[n].entries) < Capacity => Len(file'[n].entries) < Capacity
                       /\ file[n] = Missing => file'[n] = Missing
    BY <1>1, StoreInvTyped DEF Shrinks
<1>3. SegmentsBounded'
  <2>1. ASSUME NEW n \in Paths, NEW x \in CopyNames
        PROVE  Len(copies'[n][x].entries) <= Capacity
    <3>1. Len(copies[n][x].entries) <= Capacity /\ Len(file[n].entries) <= Capacity
        BY DEF StoreInv, SegmentsBounded
    <3> QED BY <3>1 DEF Shrinks
  <2> QED BY <1>2, <2>1 DEF SegmentsBounded
<1>4. \A n \in SegmentNumbers' : n \in SegmentNumbers
    BY <1>2 DEF SegmentNumbers
<1>5. ASSUME NEW q \in Processes, call'[q] = call[q]
      PROVE  /\ IsNewest(q) => IsNewest(q)'
             /\ call[q].path \in Paths =>
                 /\ LooksAtNewest(q) => LooksAtNewest(q)'
                 /\ WritesWithRoom(q) => WritesWithRoom(q)'
  <2>1. IsNewest(q) => IsNewest(q)'
      BY <1>2, <1>5 DEF IsNewest
  <2> QED BY <1>2, <1>5, <2>1 DEF LooksAtNewest, WritesWithRoom
<1> QED BY <1>3, <1>4, <1>5

\* A read has failed for good.
GivesUp(p) ==
    /\ UNCHANGED <<file, copies, lock>>
    /\ call[p].step = "open" /\ GoesTo(p, "quarantine")

\* The steps inside a call of the store, of any process, and its failing reads.
LEMMA StoreStepKeepsInv ==
    ASSUME StoreInv, NEW p \in Processes, StoreStep(p) \/ ReadFails(p),
           UNCHANGED <<op, execution, issued, acked>>, faults' \in Nat
    PROVE  StoreInv'
<1> DEFINE n == call[p].path
<1>t. /\ StoreTyped /\ Roles /\ LocksHeld /\ Room /\ Growth /\ Capacity >= 1
    BY Constants, StoreInvTyped DEF StoreInv
<1>b. call[p].step # "idle" /\ n \in Paths
  <2>1. call[p].step # "idle"
      BY DEF StoreStep, AcquireLock, LockTimeout, CheckExists, ReadText, Quarantine,
             Rename, WriteFails, ReleaseLock, ReadFails
  <2> QED BY <1>t, <2>1 DEF Roles
<1>c. /\ StoreTyped' /\ Moves(p) /\ Shrinks(p)
      /\ Looks(p, n) \/ Locks(p, n) \/ Quarantines(p, n) \/ GivesUp(p)
  <2>1. CASE StoreStep(p)
      BY <1>t, <1>b, <2>1, StoreStepCases, StoreStepShrinks
  <2>2. CASE ReadFails(p)
      BY <1>t, <2>2, ReadFailsCase DEF GivesUp, Shrinks
  <2> QED BY <2>1, <2>2
<1>d. call'[p].path = n /\ call'[p].updating = call[p].updating
      /\ \A q \in Processes : q # p => call'[q] = call[q]
    BY <1>c DEF Moves
<1> HIDE DEF n
<1>n. call[p].path = n
    BY DEF n
<1>s. /\ call'[p].step # "idle"
      /\ call'[p].step # "lock"
      /\ call'[p].step \in { "write", "unlock" } => call[p].updating
      /\ call'[p].step \notin { "returned", "raised" } =>
            call[p].step \notin { "returned", "raised" }
    BY <1>c, <1>t DEF Looks, Locks, Quarantines, GivesUp, Hands, Raises, GoesTo, Roles
<1>1. CheckpointTypeOK'
    BY <1>c, <1>t DEF StoreInv, CheckpointTypeOK, StoreTyped, CallsTyped
<1>2. Roles'
    BY <1>b, <1>n, <1>d, <1>s, <1>t DEF Roles, Appending
<1>3. LocksHeld'
  <2>1. ASSUME NEW m \in Paths, NEW q \in Processes, lock'[m] = q
        PROVE  /\ call'[q].updating /\ call'[q].path = m
               /\ call'[q].step \notin { "lock", "returned", "raised" }
    <3>1. CASE lock[m] = q /\ q # p
        BY <1>d, <1>t, <2>1, <3>1 DEF LocksHeld
    <3>2. CASE lock[m] = q /\ q = p
      <4>1. /\ call[p].updating /\ m = n
            /\ call[p].step \notin { "lock", "returned", "raised" }
          BY <1>t, <1>n, <3>2 DEF LocksHeld
      <4>2. call[p].step # "unlock"
          BY <1>c, <2>1, <3>2, <4>1, Constants DEF Locks, Looks, Quarantines, GivesUp
      <4>3. call'[p].step \notin { "lock", "returned", "raised" }
          BY <1>c, <4>1, <4>2 DEF Looks, Locks, Quarantines, GivesUp, Hands, Raises, GoesTo
      <4> QED BY <1>d, <3>2, <4>1, <4>3
    <3>3. CASE lock[m] # q
      <4>1. Locks(p, n) /\ m = n /\ q = p /\ call[p].step = "lock"
          BY <1>c, <2>1, <3>3, Constants DEF Locks, Looks, Quarantines, GivesUp
      <4> QED BY <1>d, <1>t, <4>1 DEF Roles, Locks, GoesTo
    <3> QED BY <3>1, <3>2, <3>3
  <2> QED BY <2>1 DEF LocksHeld
<1>4. Room'
  <2>1. ASSUME NEW q \in Processes, Appending(q), q # p
        PROVE  /\ op'[q].entry = issued' /\ issued' \in 1..MaxAppends
               /\ call'[q].step # "idle" /\ ~call'[q].updating => LooksAtNewest(q)'
               /\ BeforeWrite(q)' => WritesWithRoom(q)'
    <3>1. /\ op[q].entry = issued /\ issued \in 1..MaxAppends /\ call'[q] = call[q]
          /\ call[q].step # "idle" /\ ~call[q].updating => LooksAtNewest(q)
          /\ BeforeWrite(q) => WritesWithRoom(q)
        BY <1>t, <1>d, <2>1 DEF Room
    <3>2. /\ call[q].step # "idle" => call[q].path \in Paths
          /\ BeforeWrite(q) => call[q].step # "idle"
        BY <1>t DEF Roles, BeforeWrite
    <3>3. BeforeWrite(q)' => BeforeWrite(q)
        BY <3>1 DEF BeforeWrite
    <3> QED BY <1>c, <1>t, <3>1, <3>2, <3>3, ShrinkingKeepsRoom
  <2>2. ASSUME Appending(p)
        PROVE  /\ op'[p].entry = issued' /\ issued' \in 1..MaxAppends
               /\ call'[p].step # "idle" /\ ~call'[p].updating => LooksAtNewest(p)'
               /\ BeforeWrite(p)' => WritesWithRoom(p)'
    <3>1. /\ op[p].entry = issued /\ issued \in 1..MaxAppends
          /\ ~call[p].updating => LooksAtNewest(p)
          /\ BeforeWrite(p) => WritesWithRoom(p)
        BY <1>b, <1>t, <2>2 DEF Room
    <3>n. ~call[p].updating \/ BeforeWrite(p) =>
            /\ n <= issued' /\ \A m \in Paths : m > n => file'[m] = Missing
      <4>1. ~call[p].updating \/ BeforeWrite(p) => IsNewest(p)
          BY <3>1 DEF LooksAtNewest, WritesWithRoom
      <4>2. \A m \in Paths : file[m] = Missing => file'[m] = Missing
          BY <1>c DEF Shrinks
      <4> QED BY <1>n, <1>t, <4>1, <4>2 DEF IsNewest
    <3>v. \/ call'[p].value = call[p].value
          \/ call'[p].value = Missing
          \/ call'[p].value = file[n] /\ file'[n] = file[n] /\ file[n].kind = "valid"
        BY <1>c DEF Looks, Locks, Quarantines, GivesUp, Hands, Raises, GoesTo
    <3>m. Len(Missing.entries) = 0 /\ Missing.kind # "valid"
        BY ContentKinds
    <3>2. ASSUME ~call[p].updating
          PROVE  LooksAtNewest(p)'
      <4>1. call'[p].value # Missing => n < issued
        <5>1. file[n].kind = "valid" => n < issued
          <6>1. file[n].kind = "valid" => n \in SegmentNumbers
              BY <1>b, <3>m DEF SegmentNumbers
          <6> QED BY <1>t, <2>2, <3>2, <6>1 DEF Growth
        <5>2. call[p].value # Missing => n < issued
            BY <1>n, <3>1, <3>2 DEF LooksAtNewest
        <5> QED BY <3>v, <5>1, <5>2
      <4>2. call'[p].step = "returned" => call'[p].value = file'[n] \/ file'[n] = Missing
          BY <1>c, <1>t, <3>2 DEF Looks, Locks, Quarantines, GivesUp, Hands, Raises, GoesTo, Roles
      <4>3. /\ call'[p].step = "returned" /\ Len(call'[p].value.entries) < Capacity
                 => Len(file'[n].entries) < Capacity
          BY <1>t, <3>m, <4>2, Constants
      <4> QED BY <1>d, <1>t, <3>2, <3>n, <4>1, <4>3 DEF LooksAtNewest, IsNewest
    <3>3. ASSUME BeforeWrite(p)'
          PROVE  WritesWithRoom(p)'
      <4>1. BeforeWrite(p)
          BY <1>d, <1>s, <1>c, <3>3
             DEF BeforeWrite, Looks, Locks, Quarantines, GivesUp, Hands, Raises, GoesTo
      <4>2. Len(call[p].value.entries) < Capacity /\ Len(file[n].entries) < Capacity
          BY <1>n, <3>1, <4>1 DEF WritesWithRoom
      <4>3. Len(call'[p].value.entries) < Capacity
          BY <1>t, <3>m, <3>v, <4>2, Constants
      <4>4. Len(file'[n].entries) < Capacity
          BY <1>b, <1>c, <3>m, <4>2, Constants DEF Shrinks
      <4> QED BY <1>d, <3>n, <4>1, <4>3, <4>4 DEF WritesWithRoom, IsNewest
    <3> QED BY <1>d, <1>t, <3>1, <3>2, <3>3
  <2> QED BY <1>t, <2>1, <2>2 DEF Room, Appending
<1>5. Growth'
  <2>1. \A q \in Processes : (call'[q].updating => BeforeWrite(q)') =>
                             (call[q].updating => BeforeWrite(q))
    <3>1. BeforeWrite(p)' => BeforeWrite(p)
        BY <1>d, <1>s, <1>c
           DEF BeforeWrite, Looks, Locks, Quarantines, GivesUp, Hands, Raises, GoesTo
    <3> QED BY <1>d, <3>1 DEF BeforeWrite
  <2>2. \A m \in SegmentNumbers' : m \in SegmentNumbers
      BY <1>c, <1>t, ShrinkingKeepsRoom
  <2> QED BY <1>t, <2>1, <2>2 DEF Growth, Appending
<1>6. SegmentsBounded'
    BY <1>c, <1>t, ShrinkingKeepsRoom
<1> QED BY <1>1, <1>2, <1>3, <1>4, <1>5, <1>6 DEF StoreInv

\* The write of append(): the one step that lets a segment grow.
LEMMA AppendEntryKeepsInv ==
    ASSUME StoreInv, NEW p \in Processes, AppendEntry(p)
    PROVE  StoreInv'
<1> DEFINE n == call[p].path
           s == Append(call[p].value.entries, op[p].entry)
<1>t. /\ StoreTyped /\ Roles /\ LocksHeld /\ Room /\ Growth
      /\ UNCHANGED <<op, execution, issued, acked, faults>>
    BY StoreInvTyped DEF StoreInv, AppendEntry, opVars
<1>b. /\ call[p].step = "write" /\ call[p].updating /\ n \in Paths /\ BeforeWrite(p)
    BY <1>t DEF AppendEntry, WriteAtomic, Roles, BeforeWrite
<1>a. Appending(p)
  <2>1. op[p].name \in { "none", "append" } \cup Queries
      BY StoreInvTyped DEF OpRecord
  <2> QED BY <1>b, <1>t, <2>1 DEF Roles, Appending
<1>r. /\ op[p].entry \in Entries /\ WritesWithRoom(p)
  <2>1. WritesWithRoom(p) /\ op[p].entry = issued /\ issued \in 1..MaxAppends
      BY <1>a, <1>b, <1>t DEF Room
  <2> QED BY <2>1, Constants
<1>s. s \in Seq(Entries) /\ Len(s) <= Capacity /\ s # <<>>
  <2>1. /\ call[p].value.entries \in Seq(Entries) /\ Len(call[p].value.entries) \in Nat
        /\ Len(call[p].value.entries) < Capacity
      BY <1>r, StoreInvTyped DEF WritesWithRoom
  <2> DEFINE v == call[p].value.entries  e == op[p].entry
  <2>2. v \in Seq(Entries) /\ e \in Entries
      BY <1>r, <2>1
  <2> HIDE DEF v, e
  <2>3. /\ Append(v, e) \in Seq(Entries) /\ Append(v, e) # <<>>
        /\ Len(Append(v, e)) = Len(v) + 1
      BY <2>2, AppendProperties
  <2>4. Len(v) + 1 <= Capacity
      BY <2>1, Constants DEF v
  <2> QED BY <2>3, <2>4 DEF v, e
<1>c. /\ StoreTyped' /\ Moves(p) /\ UNCHANGED <<copies, lock>> /\ GoesTo(p, "unlock")
      /\ file'[n] = Valid(s) /\ \A m \in Paths : m # n => file'[m] = file[m]
    BY <1>t, <1>b, <1>s, WriteCase DEF AppendEntry
<1>v. Valid(s).entries = s
    BY <1>s, ContentKinds
<1> HIDE DEF n, s
<1>d. call'[p].path = n /\ call'[p].updating /\ call'[p].step = "unlock"
      /\ \A q \in Processes : q # p => call'[q] = call[q]
    BY <1>b, <1>c DEF Moves, GoesTo, n
<1>o. \A q \in Processes : Appending(q) => q = p
    BY <1>a, <1>t, OneAppender
<1>1. CheckpointTypeOK'
    BY <1>c, <1>t DEF StoreInv, CheckpointTypeOK, StoreTyped, CallsTyped
<1>2. Roles'
    BY <1>a, <1>b, <1>d, <1>t DEF Roles, Appending, Queries
<1>3. LocksHeld'
    BY <1>b, <1>c, <1>d, <1>t DEF LocksHeld, n
<1>4. Room'
    BY <1>a, <1>d, <1>o, <1>t DEF Room, Appending, BeforeWrite
<1>5. Growth'
  <2>1. \A m \in SegmentNumbers' : m \in SegmentNumbers \/ m = n
      BY <1>c DEF SegmentNumbers
  <2>2. n <= issued
      BY <1>r DEF WritesWithRoom, IsNewest, n
  <2>3. \A q \in Processes : Appending(q)' => call'[q].updating /\ ~BeforeWrite(q)'
      BY <1>d, <1>o, <1>t DEF Appending, BeforeWrite
  <2> QED BY <1>t, <2>1, <2>2, <2>3 DEF Growth
<1>6. SegmentsBounded'
  <2>1. \A m \in Paths : Len(file'[m].entries) <= Capacity
      BY <1>c, <1>s, <1>v DEF StoreInv, SegmentsBounded
  <2> QED BY <1>c, <2>1 DEF StoreInv, SegmentsBounded
<1> QED BY <1>1, <1>2, <1>3, <1>4, <1>5, <1>6 DEF StoreInv

\* Nothing but one process's call and operation changes.
Private(p) ==
    /\ UNCHANGED <<file, copies, lock, execution, issued, faults>>
    /\ CallsTyped' /\ op' \in [ Processes -> OpRecord ] /\ acked' \subseteq Entries
    /\ \A q \in Processes : q # p => call'[q] = call[q] /\ op'[q] = op[q]

\* The parts of the invariant that such a step can only break at that process.
LEMMA PrivateStepKeepsInv ==
    ASSUME StoreInv, NEW p \in Processes, Private(p),
           op'[p].name = op[p].name, op'[p].entry = op[p].entry,
           op[p].name # "none",
           op[p].name \in Queries => ~call'[p].updating,
           call'[p].step = "idle" => ~call'[p].updating,
           call'[p].step # "idle" => call'[p].path \in Paths,
           call'[p].step \in { "lock", "write", "unlock" } => call'[p].updating,
           ~call[p].updating \/ call[p].step \in { "lock", "returned", "raised" },
           Appending(p) /\ call'[p].step # "idle" /\ ~call'[p].updating => LooksAtNewest(p)',
           Appending(p) /\ BeforeWrite(p)' => WritesWithRoom(p)',
           (call'[p].updating => BeforeWrite(p)') => (call[p].updating => BeforeWrite(p))
    PROVE  StoreInv'
<1>t. /\ StoreTyped /\ Roles /\ LocksHeld /\ Room /\ Growth /\ SegmentsBounded
    BY StoreInvTyped DEF StoreInv
<1>1. CheckpointTypeOK'
    BY DEF StoreInv, CheckpointTypeOK, Private, CallsTyped
<1>2. Roles'
  <2>1. ASSUME NEW q \in Processes, q # p
        PROVE  call'[q] = call[q] /\ op'[q] = op[q] /\ execution' = execution
      BY <2>1 DEF Private
  <2>2. execution' = execution
      BY DEF Private
  <2> QED BY <1>t, <2>1, <2>2 DEF Roles, Appending
<1>3. LocksHeld'
    BY <1>t DEF LocksHeld, Private
<1>4. Room'
  <2>1. ASSUME NEW q \in Processes, q # p, Appending(q)
        PROVE  /\ op'[q].entry = issued' /\ issued' \in 1..MaxAppends
               /\ call'[q].step # "idle" /\ ~call'[q].updating => LooksAtNewest(q)'
               /\ BeforeWrite(q)' => WritesWithRoom(q)'
      BY <1>t, <2>1 DEF Room, Private, BeforeWrite, LooksAtNewest, WritesWithRoom, IsNewest
  <2>2. ASSUME Appending(p)
        PROVE  op'[p].entry = issued' /\ issued' \in 1..MaxAppends
      BY <1>t, <2>2 DEF Room, Private
  <2>3. \A q \in Processes : Appending(q)' <=> Appending(q)
      BY DEF Appending, Private
  <2> QED BY <2>1, <2>2, <2>3 DEF Room
<1>5. Growth'
  <2>1. \A q \in Processes : Appending(q)' <=> Appending(q)
      BY DEF Appending, Private
  <2>2. \A q \in Processes : (call'[q].updating => BeforeWrite(q)') =>
                             (call[q].updating => BeforeWrite(q))
      BY DEF Private, BeforeWrite
  <2>3. SegmentNumbers' = SegmentNumbers /\ issued' = issued
      BY DEF Private, SegmentNumbers
  <2> QED BY <1>t, <2>1, <2>2, <2>3 DEF Growth
<1>6. SegmentsBounded'
    BY <1>t DEF SegmentsBounded, Private
<1> QED BY <1>1, <1>2, <1>3, <1>4, <1>5, <1>6 DEF StoreInv

LEMMA NewestIsLast ==
    /\ SegmentNumbers = {} => NewestSegment = 1
    /\ SegmentNumbers # {} => NewestSegment \in SegmentNumbers
    /\ \A n \in SegmentNumbers : n <= NewestSegment
<1>1. CASE SegmentNumbers = {}
    BY <1>1 DEF NewestSegment
<1>2. CASE SegmentNumbers # {}
  <2> DEFINE Left == { MaxAppends - n : n \in SegmentNumbers }
  <2>1. MaxAppends \in Nat /\ \A n \in SegmentNumbers : n \in 1..MaxAppends
      BY Constants DEF SegmentNumbers
  <2>2. Left \subseteq Nat /\ Left # {}
      BY <1>2, <2>1
  <2>3. PICK m \in Left : \A i \in Left : m <= i
      BY <2>2, LeastElement
  <2>4. PICK n \in SegmentNumbers : m = MaxAppends - n
      BY <2>3
  <2>5. ASSUME NEW i \in SegmentNumbers PROVE n >= i
    <3>1. m <= MaxAppends - i
        BY <2>3
    <3> QED BY <2>1, <2>4, <3>1
  <2>6. /\ Max(SegmentNumbers) \in SegmentNumbers
        /\ \A i \in SegmentNumbers : Max(SegmentNumbers) >= i
      BY <2>4, <2>5 DEF Max
  <2>7. NewestSegment = Max(SegmentNumbers)
      BY <1>2 DEF NewestSegment
  <2> HIDE DEF Max
  <2> QED BY <1>2, <2>1, <2>6, <2>7
<1> QED BY <1>1, <1>2

\* The two calls of the store that append() makes.
LEMMA AppendCallsKeepInv ==
    ASSUME StoreInv, NEW p \in Processes, SelectSegment(p) \/ UpdateSegment(p)
    PROVE  StoreInv'
<1>t. /\ StoreTyped /\ CallsTyped /\ Roles /\ Room /\ Growth /\ Appending(p)
      /\ op \in [ Processes -> OpRecord ] /\ acked \subseteq Entries
      /\ UNCHANGED <<file, copies, lock, op, execution, issued, acked, faults>>
    BY StoreInvTyped DEF StoreInv, StoreTyped, SelectSegment, UpdateSegment, opVars, Appending
<1>i. issued \in 1..MaxAppends /\ Capacity >= 1 /\ Paths = 1..MaxAppends
      /\ MaxAppends \in Nat /\ Capacity \in Nat
    BY <1>t, Constants DEF Room
<1>m. Len(Missing.entries) = 0
    BY ContentKinds
<1>1. CASE SelectSegment(p)
  <2> DEFINE n == NewestSegment
  <2>1. call[p].step = "idle" /\ ~call[p].updating /\ call' = [call EXCEPT ![p] = ReadCall(n)]
      BY <1>1, <1>t DEF SelectSegment, Roles
  <2>2. \A m \in SegmentNumbers : m \in Paths /\ m < issued
      BY <1>t, <2>1 DEF Growth, SegmentNumbers
  <2>3. n \in Paths /\ n <= issued
      BY <1>i, <2>2, NewestIsLast
  <2>4. \A m \in Paths : m > n => file[m] = Missing
      BY <1>i, <2>3, NewestIsLast DEF SegmentNumbers
  <2> HIDE DEF n
  <2>5. /\ ReadCall(n) \in CallRecord /\ ReadCall(n).step = "exists" /\ ReadCall(n).path = n
        /\ ~ReadCall(n).updating /\ ReadCall(n).value = Missing
      BY <2>3, NewCalls
  <2>6. CallsTyped' /\ call'[p] = ReadCall(n) /\ \A q \in Processes : q # p => call'[q] = call[q]
      BY <1>t, <2>1, <2>5, CallReplaced
  <2>7. LooksAtNewest(p)'
      BY <1>t, <2>3, <2>4, <2>5, <2>6 DEF LooksAtNewest, IsNewest
  <2>8. Private(p)
      BY <1>t, <2>6 DEF Private
  <2>9. ~BeforeWrite(p)' /\ call'[p].step \notin { "idle", "lock", "write", "unlock" }
        /\ op[p].name \notin Queries /\ op[p].name # "none"
      BY <1>t, <2>5, <2>6 DEF BeforeWrite, Appending, Queries
  <2> QED BY <1>t, <2>1, <2>3, <2>5, <2>6, <2>7, <2>8, <2>9, PrivateStepKeepsInv
<1>2. CASE UpdateSegment(p)
  <2> DEFINE n == Target(call[p])
  <2>1. /\ call[p].step = "returned" /\ ~call[p].updating
        /\ call' = [call EXCEPT ![p] = UpdateCall(n)]
      BY <1>2 DEF UpdateSegment
  <2>2. LooksAtNewest(p) /\ call[p].path \in Paths
      BY <1>t, <2>1 DEF Room, Roles
  <2>3. n \in Paths /\ n <= issued /\ Len(file[n].entries) < Capacity
        /\ \A m \in Paths : m > n => file[m] = Missing
    <3>1. CASE Len(call[p].value.entries) >= Capacity
      <4>1. n = call[p].path + 1 /\ call[p].path < issued
          BY <1>i, <1>m, <2>2, <3>1, StoreInvTyped DEF Target, LooksAtNewest
      <4>2. n \in Paths /\ n <= issued /\ n > call[p].path
          BY <1>i, <2>2, <4>1
      <4>3. file[n] = Missing /\ \A m \in Paths : m > n => m > call[p].path
          BY <1>i, <2>2, <4>1, <4>2 DEF LooksAtNewest, IsNewest
      <4> QED BY <1>i, <1>m, <2>2, <4>2, <4>3 DEF LooksAtNewest, IsNewest
    <3>2. CASE ~(Len(call[p].value.entries) >= Capacity)
      <4>1. n = call[p].path
          BY <3>2 DEF Target
      <4>2. Len(call[p].value.entries) < Capacity
          BY <1>i, <3>2, StoreInvTyped
      <4> HIDE DEF n
      <4> QED BY <2>1, <2>2, <4>1, <4>2 DEF LooksAtNewest, IsNewest
    <3> QED BY <3>1, <3>2
  <2> HIDE DEF n
  <2>5. /\ UpdateCall(n) \in CallRecord /\ UpdateCall(n).step = "lock"
        /\ UpdateCall(n).path = n /\ UpdateCall(n).updating /\ UpdateCall(n).value = Missing
      BY <2>3, NewCalls
  <2>6. CallsTyped' /\ call'[p] = UpdateCall(n)
        /\ \A q \in Processes : q # p => call'[q] = call[q]
      BY <1>t, <2>1, <2>5, CallReplaced
  <2>7. WritesWithRoom(p)'
      BY <1>t, <1>m, <1>i, <2>3, <2>5, <2>6 DEF WritesWithRoom, IsNewest
  <2>8. Private(p)
      BY <1>t, <2>6 DEF Private
  <2>9. op[p].name \notin Queries /\ op[p].name # "none"
      BY <1>t DEF Appending, Queries
  <2> QED BY <1>t, <2>1, <2>3, <2>5, <2>6, <2>7, <2>8, <2>9, PrivateStepKeepsInv
<1> QED BY <1>1, <1>2

\* The two steps of a query between its calls of the store.
LEMMA QueryStepsKeepInv ==
    ASSUME StoreInv, NEW p \in Processes, ReadSegment(p) \/ SegmentRead(p)
    PROVE  StoreInv'
<1>t. /\ StoreTyped /\ CallsTyped /\ Roles /\ op[p].name \in Queries /\ ~call[p].updating
      /\ op \in [ Processes -> OpRecord ] /\ op[p] \in OpRecord /\ acked \subseteq Entries
      /\ UNCHANGED <<file, copies, lock, execution, issued, acked, faults>>
    BY StoreInvTyped DEF StoreInv, StoreTyped, ReadSegment, SegmentRead, Roles
<1>q. op[p].name # "none" /\ ~Appending(p)
    BY <1>t DEF Queries, Appending
<1>f. op[p].left \in Seq(Paths) /\ op[p].result \in Seq(Entries)
    BY <1>t DEF OpRecord
<1>o. ASSUME NEW o \in OpRecord, op' = [op EXCEPT ![p] = o],
             o.name = op[p].name, o.entry = op[p].entry,
             NEW c \in CallRecord, call' = [call EXCEPT ![p] = c],
             ~c.updating, c.step \in { "idle", "exists" },
             c.step # "idle" => c.path \in Paths
      PROVE  StoreInv'
  <2>1. CallsTyped' /\ call'[p] = c /\ \A q \in Processes : q # p => call'[q] = call[q]
      BY <1>t, <1>o, CallReplaced
  <2>2. /\ op' \in [ Processes -> OpRecord ] /\ op'[p] = o
        /\ \A q \in Processes : q # p => op'[q] = op[q]
      BY <1>t, <1>o
  <2>3. Private(p) /\ ~BeforeWrite(p)'
      BY <1>t, <1>o, <2>1, <2>2 DEF Private, BeforeWrite
  <2> QED BY <1>t, <1>q, <1>o, <2>1, <2>2, <2>3, PrivateStepKeepsInv
<1>1. CASE ReadSegment(p)
  <2> DEFINE n == Head(op[p].left)  o == [op[p] EXCEPT !.left = Tail(@)]
  <2>1. /\ op[p].left # <<>> /\ call' = [call EXCEPT ![p] = ReadCall(n)]
        /\ op' = [op EXCEPT ![p] = o]
      BY <1>1, <1>t DEF ReadSegment
  <2>2. n \in Paths /\ Tail(op[p].left) \in Seq(Paths)
      BY <1>f, <2>1, HeadTailProperties
  <2>3. o \in OpRecord /\ o.name = op[p].name /\ o.entry = op[p].entry
      BY <1>t, <2>2 DEF OpRecord
  <2> HIDE DEF n, o
  <2>4. /\ ReadCall(n) \in CallRecord /\ ReadCall(n).step = "exists"
        /\ ReadCall(n).path = n /\ ~ReadCall(n).updating
      BY <2>2, NewCalls
  <2> QED BY <1>o, <2>1, <2>2, <2>3, <2>4
<1>2. CASE SegmentRead(p)
  <2> DEFINE v == call[p].value.entries
             o == CASE op[p].name = "all" -> [op[p] EXCEPT !.result = @ \o v]
                    [] op[p].name = "latest" /\ v # <<>> ->
                          [op[p] EXCEPT !.result = <<v[Len(v)]>>, !.left = <<>>]
                    [] OTHER -> op[p]
  <2>1. v \in Seq(Entries)
      BY StoreInvTyped
  <2>2. op' = [op EXCEPT ![p] = o] /\ call' = [call EXCEPT ![p] = NoCall]
    <3>1. op = [op EXCEPT ![p] = op[p]]
        BY <1>t
    <3> QED BY <1>2, <1>t, <3>1 DEF SegmentRead
  <2>3. op[p].result \o v \in Seq(Entries)
      BY <1>f, <2>1, ConcatProperties
  <2>4. v # <<>> => <<v[Len(v)]>> \in Seq(Entries)
    <3>1. v # <<>> => v[Len(v)] \in Entries
        BY <2>1
    <3> QED BY <3>1
  <2>5. <<>> \in Seq(Paths)
      OBVIOUS
  <2>6. o \in OpRecord /\ o.name = op[p].name /\ o.entry = op[p].entry
    <3> HIDE DEF v
    <3> QED BY <1>t, <2>3, <2>4, <2>5 DEF OpRecord
  <2> HIDE DEF o, v
  <2> QED BY <1>o, <2>2, <2>6, NewCalls
<1> QED BY <1>1, <1>2

\* A step that begins or ends an operation of a process.
LEMMA OperationStepKeepsInv ==
    ASSUME StoreInv, NEW p \in Processes,
           UNCHANGED <<file, copies>>, issued' >= issued, issued' \in Nat,
           faults' \in Nat, acked' \subseteq Entries,
           CallsTyped', op' \in [ Processes -> OpRecord ],
           \A q \in Processes : q # p => call'[q] = call[q] /\ op'[q] = op[q],
           call'[p].step = "idle", ~call'[p].updating,
           lock' \in [ Paths -> Processes \cup {Nobody} ],
           \A n \in Paths : lock'[n] # p /\ (lock'[n] = lock[n] \/ lock'[n] = Nobody),
           execution' \in Processes \cup {Nobody},
           execution' = IF op'[p].name = "append" THEN p
                        ELSE IF Appending(p) THEN Nobody ELSE execution,
           op'[p].name = "append" =>
                /\ execution = Nobody /\ p \in Appenders
                /\ op'[p].entry = issued' /\ issued' \in 1..MaxAppends /\ issued' > issued,
           op'[p].name # "append" => issued' = issued,
           op'[p].name \in Queries => p \in Readers
    PROVE  StoreInv'
<1>t. /\ StoreTyped /\ Roles /\ LocksHeld /\ Room /\ Growth /\ SegmentsBounded
      /\ issued \in Nat /\ Nobody \notin Processes
    BY StoreInvTyped, Constants DEF StoreInv
<1>o. op'[p].name \in { "none", "append" } \cup Queries
    BY DEF OpRecord
<1>1. CheckpointTypeOK'
    BY DEF StoreInv, CheckpointTypeOK, CallsTyped
<1>2. Roles'
  <2>1. ASSUME NEW q \in Processes, q # p
        PROVE  /\ Appending(q)' <=> execution' = q
               /\ Appending(q)' <=> Appending(q)
      BY <1>t, <2>1 DEF Roles, Appending
  <2>2. Appending(p)' <=> execution' = p
      BY <1>t DEF Roles, Appending
  <2> QED BY <1>o, <1>t, <2>1, <2>2 DEF Roles, Appending, Queries
<1>3. LocksHeld'
    BY <1>t DEF LocksHeld
<1>4. Room'
  <2>1. ASSUME NEW q \in Processes, q # p, Appending(q)
        PROVE  op'[p].name # "append" /\ issued' = issued /\ call'[q] = call[q]
      BY <1>t, <2>1 DEF Roles
  <2>2. ASSUME NEW q \in Processes, q # p, Appending(q)
        PROVE  /\ op'[q].entry = issued' /\ issued' \in 1..MaxAppends
               /\ call'[q].step # "idle" /\ ~call'[q].updating => LooksAtNewest(q)'
               /\ BeforeWrite(q)' => WritesWithRoom(q)'
      BY <1>t, <2>1, <2>2 DEF Room, BeforeWrite, LooksAtNewest, WritesWithRoom, IsNewest
  <2> QED BY <2>2 DEF Room, Appending, BeforeWrite
<1>5. Growth'
  <2>1. \A n \in SegmentNumbers : n \in Nat /\ n <= issued
      BY <1>t, Constants DEF Growth, SegmentNumbers
  <2>2. SegmentNumbers' = SegmentNumbers
      BY DEF SegmentNumbers
  <2>3. ASSUME NEW n \in SegmentNumbers, NEW q \in Processes, Appending(q)',
               call'[q].updating => BeforeWrite(q)'
        PROVE  n < issued'
    <3>1. CASE q = p
        BY <1>t, <2>1, <2>3, <3>1 DEF Appending
    <3>2. CASE q # p
      <4>1. Appending(q) /\ (call[q].updating => BeforeWrite(q))
          BY <2>3, <3>2 DEF Appending, BeforeWrite
      <4> QED BY <1>t, <2>1, <4>1 DEF Growth
    <3> QED BY <3>1, <3>2
  <2> QED BY <1>t, <2>1, <2>2, <2>3 DEF Growth
<1>6. SegmentsBounded'
    BY <1>t DEF SegmentsBounded
<1> QED BY <1>1, <1>2, <1>3, <1>4, <1>5, <1>6 DEF StoreInv

\* Calls, returns, exceptions and the ends of processes.
LEMMA OperationsKeepInv ==
    ASSUME StoreInv, NEW p \in Processes,
           \/ p \in Appenders /\ CallAppend(p)
           \/ \E q \in Queries : p \in Readers /\ CallQuery(p, q)
           \/ AppendReturns(p) \/ AppendRaises(p) \/ QueryReturns(p) \/ QueryRaises(p)
           \/ Crash(p)
    PROVE  StoreInv'
<1>t. /\ StoreTyped /\ CallsTyped /\ Roles /\ LocksHeld /\ Room
      /\ op \in [ Processes -> OpRecord ] /\ op[p] \in OpRecord
      /\ acked \subseteq Entries /\ issued \in Nat /\ faults \in Nat
      /\ execution \in Processes \cup {Nobody} /\ Nobody \notin Processes
      /\ lock \in [ Paths -> Processes \cup {Nobody} ]
    BY StoreInvTyped, Constants DEF StoreInv, StoreTyped
<1>n. /\ NoOp \in OpRecord /\ NoOp.name = "none"
      /\ NoCall \in CallRecord /\ NoCall.step = "idle" /\ ~NoCall.updating
  <2>1. <<>> \in Seq(Paths) /\ <<>> \in Seq(Entries)
      OBVIOUS
  <2> QED BY <2>1, NewCalls DEF NoOp, OpRecord
<1>l. ~call[p].updating \/ call[p].step \in { "returned", "raised" }
        => \A m \in Paths : lock[m] # p
    BY <1>t DEF LocksHeld
<1>c. ASSUME call' = [call EXCEPT ![p] = NoCall]
      PROVE  /\ CallsTyped' /\ call'[p] = NoCall
             /\ \A q \in Processes : q # p => call'[q] = call[q]
    BY <1>t, <1>n, <1>c, CallReplaced
<1>o. ASSUME NEW o \in OpRecord, op' = [op EXCEPT ![p] = o]
      PROVE  /\ op' \in [ Processes -> OpRecord ] /\ op'[p] = o
             /\ \A q \in Processes : q # p => op'[q] = op[q]
    BY <1>t, <1>o
<1>1. CASE p \in Appenders /\ CallAppend(p)
  <2> DEFINE o == [NoOp EXCEPT !.name = "append", !.entry = issued + 1]
  <2>1. /\ op[p].name = "none" /\ issued < MaxAppends /\ execution = Nobody /\ execution' = p
        /\ issued' = issued + 1 /\ op' = [op EXCEPT ![p] = o]
        /\ UNCHANGED <<file, copies, lock, call, acked, faults>>
      BY <1>1 DEF CallAppend, storeVars
  <2>2. issued + 1 \in 1..MaxAppends /\ issued' > issued /\ issued' \in Nat
        /\ issued + 1 \in Entries
      BY <1>t, <2>1, Constants
  <2>3. o \in OpRecord /\ o.name = "append" /\ o.entry = issued + 1
      BY <1>n, <2>2 DEF OpRecord
  <2> HIDE DEF o
  <2>4. /\ op' \in [ Processes -> OpRecord ] /\ op'[p] = o
        /\ \A q \in Processes : q # p => op'[q] = op[q]
      BY <1>o, <2>1, <2>3
  <2>5. call[p].step = "idle" /\ ~call[p].updating
      BY <1>t, <2>1 DEF Roles
  <2>6. op'[p].name \notin Queries
      BY <2>3, <2>4 DEF Queries
  <2> QED BY <1>1, <1>l, <1>t, <2>1, <2>2, <2>3, <2>4, <2>5, <2>6, OperationStepKeepsInv
             DEF CallsTyped
<1>2. ASSUME NEW q \in Queries, p \in Readers, CallQuery(p, q)
      PROVE  StoreInv'
  <2> DEFINE o == [NoOp EXCEPT !.name = q, !.since = Len(Stored),
                               !.left = IF q = "all" THEN Ascending ELSE Reverse(Ascending)]
  <2>1. /\ op[p].name = "none" /\ op' = [op EXCEPT ![p] = o]
        /\ UNCHANGED <<file, copies, lock, call, execution, issued, acked, faults>>
      BY <1>2 DEF CallQuery, storeVars
  <2>2. Len(Stored) \in Nat
    <3>1. Stored = FirstOf(file, MaxAppends)
        BY DEF Stored, FirstOf
    <3>2. file \in Documents /\ MaxAppends \in 0..MaxAppends
        BY <1>t, Constants DEF StoreTyped, Documents
    <3>3. Stored \in Seq(Entries)
        BY <3>1, <3>2, DocumentsConcatenate
    <3> HIDE DEF Stored
    <3> QED BY <3>3
  <2>3. Ascending \in Seq(Paths) /\ Reverse(Ascending) \in Seq(Paths)
      BY AscendingTyped
  <2>4. o \in OpRecord /\ o.name = q
    <3> HIDE DEF Stored, Ascending, Reverse
    <3> QED BY <1>n, <2>2, <2>3 DEF OpRecord
  <2> HIDE DEF o
  <2>5. /\ op' \in [ Processes -> OpRecord ] /\ op'[p] = o
        /\ \A r \in Processes : r # p => op'[r] = op[r]
      BY <1>o, <2>1, <2>4
  <2>6. call[p].step = "idle" /\ ~call[p].updating /\ ~Appending(p)
      BY <1>t, <2>1 DEF Roles, Appending
  <2>7. op'[p].name # "append"
      BY <1>2, <2>4, <2>5 DEF Queries
  <2> QED BY <1>2, <1>l, <1>t, <2>1, <2>4, <2>5, <2>6, <2>7, OperationStepKeepsInv
             DEF CallsTyped
<1>3. CASE AppendReturns(p) \/ AppendRaises(p)
  <2>1. /\ Appending(p) /\ call[p].step \in { "returned", "raised" }
        /\ execution' = Nobody /\ op' = [op EXCEPT ![p] = NoOp]
        /\ call' = [call EXCEPT ![p] = NoCall]
        /\ UNCHANGED <<file, copies, lock, issued, faults>>
        /\ acked' \in { acked, acked \cup { op[p].entry } }
      BY <1>3 DEF AppendReturns, AppendRaises, Appending
  <2>2. op[p].entry \in Entries
    <3>1. op[p].entry = issued /\ issued \in 1..MaxAppends
        BY <1>t, <2>1 DEF Room
    <3> QED BY <3>1, Constants
  <2>3. acked' \subseteq Entries
      BY <1>t, <2>1, <2>2
  <2>4. /\ op' \in [ Processes -> OpRecord ] /\ op'[p] = NoOp
        /\ \A r \in Processes : r # p => op'[r] = op[r]
      BY <1>n, <1>o, <2>1
  <2>5. NoOp.name # "append" /\ NoOp.name \notin Queries
      BY <1>n DEF Queries
  <2> QED BY <1>c, <1>l, <1>n, <1>t, <2>1, <2>3, <2>4, <2>5, OperationStepKeepsInv
<1>4. CASE QueryReturns(p) \/ QueryRaises(p)
  <2> DEFINE o == op'[p]
  <2>1. /\ op[p].name \in Queries /\ UNCHANGED <<file, copies, lock, execution, issued,
                                                 acked, faults>>
        /\ \/ op' = [op EXCEPT ![p] = [NoOp EXCEPT !.result = op[p].result]]
           \/ op' = [op EXCEPT ![p] = NoOp]
        /\ \/ call' = call /\ call[p].step = "idle"
           \/ call' = [call EXCEPT ![p] = NoCall]
      BY <1>4 DEF QueryReturns, QueryRaises, storeVars
  <2>2. [NoOp EXCEPT !.result = op[p].result] \in OpRecord
        /\ [NoOp EXCEPT !.result = op[p].result].name = "none"
      BY <1>n, <1>t DEF OpRecord
  <2>3. /\ op' \in [ Processes -> OpRecord ] /\ op'[p].name = "none"
        /\ \A r \in Processes : r # p => op'[r] = op[r]
      BY <1>n, <1>o, <2>1, <2>2
  <2>4. ~call[p].updating /\ ~Appending(p)
      BY <1>t, <2>1 DEF Roles, Appending, Queries
  <2>5. /\ CallsTyped' /\ call'[p].step = "idle" /\ ~call'[p].updating
        /\ \A q \in Processes : q # p => call'[q] = call[q]
    <3>1. CASE call' = call /\ call[p].step = "idle"
        BY <1>t, <2>4, <3>1 DEF CallsTyped
    <3>2. CASE call' = [call EXCEPT ![p] = NoCall]
        BY <1>c, <1>n, <3>2
    <3> QED BY <2>1, <3>1, <3>2
  <2>6. "none" # "append" /\ "none" \notin Queries
      BY DEF Queries
  <2> QED BY <1>l, <1>t, <2>1, <2>3, <2>4, <2>5, <2>6, OperationStepKeepsInv
<1>5. CASE Crash(p)
  <2>1. /\ call' = [call EXCEPT ![p] = NoCall] /\ op' = [op EXCEPT ![p] = NoOp]
        /\ lock' = [ n \in Paths |-> IF lock[n] = p THEN Nobody ELSE lock[n] ]
        /\ execution' = IF execution = p THEN Nobody ELSE execution
        /\ UNCHANGED <<file, copies, issued, acked, faults>>
      BY <1>5 DEF Crash, StoreCrash
  <2>2. /\ lock' \in [ Paths -> Processes \cup {Nobody} ]
        /\ \A n \in Paths : lock'[n] # p /\ (lock'[n] = lock[n] \/ lock'[n] = Nobody)
      BY <1>t, <2>1
  <2>3. /\ op' \in [ Processes -> OpRecord ] /\ op'[p] = NoOp
        /\ \A r \in Processes : r # p => op'[r] = op[r]
      BY <1>n, <1>o, <2>1
  <2>4. execution = p <=> Appending(p)
      BY <1>t DEF Roles
  <2>5. NoOp.name # "append" /\ NoOp.name \notin Queries
      BY <1>n DEF Queries
  <2> QED BY <1>c, <1>n, <1>t, <2>1, <2>2, <2>3, <2>4, <2>5, OperationStepKeepsInv
<1> QED BY <1>1, <1>2, <1>3, <1>4, <1>5

\* Damage to a segment: it stays a segment, and holds nothing any more.
LEMMA DamageKeepsInv ==
    ASSUME StoreInv, NEW n \in Paths, Damage(n)
    PROVE  StoreInv'
<1>t. /\ StoreTyped /\ Roles /\ LocksHeld /\ Room /\ Growth /\ SegmentsBounded
      /\ faults \in Nat /\ Capacity >= 1
    BY StoreInvTyped, Constants DEF StoreInv
<1>1. PICK v \in { Corrupt, Undecodable } :
        /\ file[n].kind = "valid" /\ file' = [file EXCEPT ![n] = v]
        /\ faults' = faults + 1
        /\ UNCHANGED <<copies, lock, call, execution, op, issued, acked>>
    BY DEF Damage
<1>2. /\ v \in Content /\ Len(v.entries) = 0 /\ v # Missing /\ file[n] # Missing
    BY <1>1, ContentKinds
<1>3. /\ file' \in [ Paths -> Content ] /\ file'[n] = v
      /\ \A m \in Paths : m # n => file'[m] = file[m]
    BY <1>1, <1>2, <1>t DEF StoreTyped
<1>4. \A m \in Paths : /\ file'[m] = Missing <=> file[m] = Missing
                       /\ Len(file[m].entries) < Capacity => Len(file'[m].entries) < Capacity
                       /\ Len(file'[m].entries) <= Capacity
  <2>1. \A m \in Paths : Len(file[m].entries) <= Capacity
      BY StoreInvTyped
  <2>2. Capacity \in Nat
      BY Constants
  <2>3. ASSUME NEW m \in Paths, m # n PROVE file'[m] = file[m]
      BY <1>3, <2>3
  <2> QED BY <1>2, <1>3, <1>t, <2>1, <2>2, <2>3
<1>5. CheckpointTypeOK'
    BY <1>1, <1>3, <1>t DEF StoreInv, CheckpointTypeOK
<1>6. Roles' /\ LocksHeld'
    BY <1>1, <1>t DEF Roles, Appending, LocksHeld
<1>7. Room'
  <2>1. ASSUME NEW q \in Processes, call[q].path \in Paths
        PROVE  /\ LooksAtNewest(q) => LooksAtNewest(q)'
               /\ WritesWithRoom(q) => WritesWithRoom(q)'
      BY <1>1, <1>4, <2>1 DEF LooksAtNewest, WritesWithRoom, IsNewest
  <2>2. \A q \in Processes : BeforeWrite(q) => call[q].step # "idle"
      BY <1>t DEF Roles, BeforeWrite
  <2> QED BY <1>1, <1>t, <2>1, <2>2 DEF Room, Roles, Appending, BeforeWrite
<1>8. SegmentNumbers' = SegmentNumbers
    BY <1>4 DEF SegmentNumbers
<1>9. Growth' /\ SegmentsBounded'
    BY <1>1, <1>4, <1>8, <1>t DEF Growth, Appending, BeforeWrite, SegmentsBounded
<1> QED BY <1>5, <1>6, <1>7, <1>9 DEF StoreInv

LEMMA InitStoreInv == Init => StoreInv
<1> SUFFICES ASSUME Init PROVE StoreInv
    OBVIOUS
<1> USE DEF Init, StoreInit
<1>c. /\ Nobody \notin Processes /\ Capacity \in Nat /\ Capacity >= 1
      /\ Missing \in Content /\ Missing.entries = <<>> /\ Len(<<>>) = 0
      /\ NoCall \in CallRecord /\ NoCall.step = "idle" /\ ~NoCall.updating
    BY Constants, ContentKinds, NewCalls
<1>n. NoOp \in OpRecord /\ NoOp.name = "none" /\ "none" \notin Queries
  <2>1. <<>> \in Seq(Paths) /\ <<>> \in Seq(Entries)
      OBVIOUS
  <2> QED BY <2>1 DEF NoOp, OpRecord, Queries
<1>1. CheckpointTypeOK
    BY <1>c, <1>n DEF CheckpointTypeOK
<1>2. Roles
    BY <1>c, <1>n DEF Roles, Appending
<1>3. LocksHeld
    BY <1>c DEF LocksHeld
<1>4. Room /\ Growth
    BY <1>n DEF Room, Growth, Appending, SegmentNumbers
<1>5. SegmentsBounded
    BY <1>c DEF SegmentsBounded
<1> QED BY <1>1, <1>2, <1>3, <1>4, <1>5 DEF StoreInv

LEMMA StoreInvariant == Spec => []StoreInv
<1>1. StoreInv /\ [Next]_cpVars => StoreInv'
  <2> SUFFICES ASSUME StoreInv, [Next]_cpVars PROVE StoreInv'
      OBVIOUS
  <2>1. ASSUME UNCHANGED cpVars PROVE StoreInv'
      BY <2>1 DEF cpVars, opVars, storeVars, StoreInv, CheckpointTypeOK, Roles, LocksHeld,
                  Room, Growth, SegmentsBounded, Appending, BeforeWrite, LooksAtNewest,
                  WritesWithRoom, IsNewest, SegmentNumbers
  <2>2. ASSUME NEW p \in Appenders, CallAppend(p) PROVE StoreInv'
      BY <2>2, Constants, OperationsKeepInv
  <2>3. ASSUME NEW p \in Readers, NEW q \in Queries, CallQuery(p, q) PROVE StoreInv'
      BY <2>3, Constants, OperationsKeepInv
  <2>4. ASSUME NEW p \in Processes, Proceed(p) \/ Crash(p) PROVE StoreInv'
    <3>1. faults \in Nat
        BY StoreInvTyped
    <3>2. CASE StoreStep(p) /\ UNCHANGED opVars
        BY <3>1, <3>2, StoreStepKeepsInv DEF opVars
    <3>3. CASE ~(StoreStep(p) /\ UNCHANGED opVars)
        BY <2>4, <3>3, AppendCallsKeepInv, AppendEntryKeepsInv, QueryStepsKeepInv,
           OperationsKeepInv DEF Proceed
    <3> QED BY <3>2, <3>3
  <2>5. ASSUME NEW n \in Paths, Damage(n) PROVE StoreInv'
      BY <2>5, DamageKeepsInv
  <2>6. ASSUME NEW p \in Processes, ReadFault(p) PROVE StoreInv'
    <3>1. faults' \in Nat
        BY <2>6, StoreInvTyped DEF ReadFault
    <3> QED BY <2>6, <3>1, StoreStepKeepsInv DEF ReadFault
  <2> QED BY <2>1, <2>2, <2>3, <2>4, <2>5, <2>6 DEF Next
<1> QED BY <1>1, InitStoreInv, PTL DEF Spec

\* Type correctness.
THEOREM CheckpointsAreTyped == Spec => []CheckpointTypeOK
<1>1. StoreInv => CheckpointTypeOK
    BY DEF StoreInv
<1> QED BY <1>1, StoreInvariant, PTL

\* _SEGMENT_CAPACITY bounds every segment and every quarantined copy, for any
\* capacity and any number of processes, whatever is damaged in between and
\* whichever reads fail.
THEOREM SegmentsStayBounded == Spec => []SegmentsBounded
<1>1. StoreInv => SegmentsBounded
    BY DEF StoreInv
<1> QED BY <1>1, StoreInvariant, PTL

\* The lock order: append() finds the lock of its segment free.
THEOREM SegmentLocksAreFree == Spec => []SegmentLockUncontended
<1>1. StoreInv => SegmentLockUncontended
  <2> SUFFICES ASSUME StoreInv, NEW p \in Processes, call[p].step = "lock"
               PROVE  execution = p /\ lock[call[p].path] = Nobody
      BY DEF SegmentLockUncontended
  <2>1. Roles /\ LocksHeld /\ lock \in [ Paths -> Processes \cup {Nobody} ]
      BY StoreInvTyped DEF StoreInv, StoreTyped
  <2>2. ASSUME NEW q \in Processes, call[q].updating PROVE Appending(q)
    <3>1. op[q].name \in { "none", "append" } \cup Queries
        BY StoreInvTyped DEF OpRecord
    <3> QED BY <2>1, <2>2, <3>1 DEF Roles, Appending
  <2>3. call[p].updating /\ call[p].path \in Paths
      BY <2>1 DEF Roles
  <2>4. execution = p
      BY <2>1, <2>2, <2>3 DEF Roles
  <2>5. ASSUME NEW q \in Processes, lock[call[p].path] = q PROVE FALSE
    <3>1. call[q].updating /\ call[q].step # "lock"
        BY <2>1, <2>3, <2>5 DEF LocksHeld
    <3>2. q = p
        BY <2>1, <2>2, <2>3, <3>1, OneAppender
    <3> QED BY <3>1, <3>2
  <2> QED BY <2>1, <2>3, <2>4, <2>5
<1> QED BY <1>1, StoreInvariant, PTL

-----------------------------------------------------------------------------
\* Every segment holds checkpoints and can be read, and a read that has found
\* its segment finds it there to the end.
Readable ==
    /\ \A n \in SegmentNumbers : file[n].kind = "valid" /\ file[n].entries # <<>>
    /\ \A p \in Processes :
        /\ call[p].step \notin { "quarantine", "rename" }
        /\ call[p].step = "open" => call[p].path \in SegmentNumbers

\* The appender's segment is the first one, or follows a full one, and what it
\* has read of that segment is what is there.
FollowsFull(n) ==
    n > 1 => n - 1 \in SegmentNumbers /\ Len(file[n - 1].entries) = Capacity

InPlace ==
    \A p \in Processes : Appending(p) =>
        /\ call[p].step # "idle" /\ ~call[p].updating
             => /\ call[p].path > 1 => call[p].path \in SegmentNumbers
                /\ call[p].step = "returned" => call[p].value = file[call[p].path]
        /\ BeforeWrite(p) => FollowsFull(call[p].path)
        /\ call[p].step = "write" => call[p].value = file[call[p].path]

Whole == Readable /\ InPlace /\ FullButNewest

\* The checkpoint of a call of append() has been written.
Written(p) ==
    call[p].updating /\ ( \/ call[p].step = "unlock" /\ ~call[p].failed
                          \/ call[p].step = "returned" )

\* Checkpoints are stored in the order of their calls, and the one at work comes
\* after all of them; before append() returns, its checkpoint is stored.
InOrder ==
    /\ \A i \in DOMAIN Stored : Stored[i] <= issued
    /\ \A p \in Processes :
        Appending(p) /\ (call[p].updating => BeforeWrite(p))
            => \A i \in DOMAIN Stored : Stored[i] < issued
    /\ \A p \in Processes : Appending(p) /\ Written(p) => op[p].entry \in ToSet(Stored)

\* A query is at a segment, or at the next one it will read.
AtSegment(p) ==
    \/ call[p].step \in { "exists", "open", "returned" }
    \/ call[p].step = "idle" /\ op[p].left # <<>>

\* The segment a query is at, the last one it will read, and those between.
Position(p) == IF call[p].step = "idle" THEN Head(op[p].left) ELSE call[p].path

Remaining(p) == IF call[p].step = "idle" THEN Len(op[p].left) - 1 ELSE Len(op[p].left)

LastPosition(p) == IF op[p].name = "all" THEN Position(p) + Remaining(p) ELSE Position(p)

\* A query that still has segments to read has read all those before, if it is
\* all(), and will read as far as the log reached when it was called.
UnderWay(p) ==
    /\ Position(p) \in SegmentNumbers /\ LastPosition(p) \in SegmentNumbers
    /\ op[p].since <= Len(FirstOf(file, LastPosition(p)))
    /\ op[p].result = IF op[p].name = "all" THEN FirstOf(file, Position(p) - 1) ELSE <<>>
    /\ op[p].name = "all" =>
        \A i \in DOMAIN op[p].left : op[p].left[i] = LastPosition(p) - Len(op[p].left) + i

\* A segment just read, with the ones before it, is what the log was at some
\* moment since the call, as far as the segment goes that will be read last.
JustRead(p) ==
    LET l == FirstOf(file, call[p].path - 1) \o call[p].value.entries
    IN  /\ call[p].value.entries # <<>>
        /\ Begins(l, Stored)
        /\ call[p].path = LastPosition(p) => op[p].since <= Len(l)
        /\ call[p].path # LastPosition(p) => call[p].value = file[call[p].path]

\* A query that has read all it reads holds the answer it is to give.
Answered(p) ==
    \E n \in op[p].since..Len(Stored) :
        op[p].result = Log!AnswerFrom(op[p].name, SubSeq(Stored, 1, n))

Answers ==
    \A p \in Processes : op[p].name \in Queries =>
        /\ AtSegment(p) => UnderWay(p)
        /\ call[p].step = "returned" => JustRead(p)
        /\ call[p].step = "idle" /\ op[p].left = <<>> => Answered(p)

LogInv == StoreInv /\ (Undisturbed => Whole /\ InOrder /\ StoredOnce /\ Answers)

\* A step within a query leaves what was asked, and when.
LEMMA QueryStepKeeps ==
    ASSUME op \in [ Processes -> OpRecord ], NEW p \in Processes,
           ReadSegment(p) \/ SegmentRead(p)
    PROVE  op'[p].name = op[p].name /\ op'[p].since = op[p].since
<1>1. op[p] \in OpRecord /\ DOMAIN op = Processes
    OBVIOUS
<1>2. \A o \in OpRecord : \A x, y :
          /\ [o EXCEPT !.left = x].name = o.name /\ [o EXCEPT !.left = x].since = o.since
          /\ [o EXCEPT !.result = y].name = o.name /\ [o EXCEPT !.result = y].since = o.since
          /\ [o EXCEPT !.result = y, !.left = x].name = o.name
          /\ [o EXCEPT !.result = y, !.left = x].since = o.since
    BY DEF OpRecord
<1>3. \/ op' = op
      \/ \E x : op' = [op EXCEPT ![p] = [op[p] EXCEPT !.left = x]]
      \/ \E y : op' = [op EXCEPT ![p] = [op[p] EXCEPT !.result = y]]
      \/ \E x, y : op' = [op EXCEPT ![p] = [op[p] EXCEPT !.result = y, !.left = x]]
  <2>1. CASE ReadSegment(p)
      BY <1>1, <2>1 DEF ReadSegment
  <2>2. CASE SegmentRead(p)
    <3>1. CASE op[p].name = "all"
        BY <1>1, <2>2, <3>1 DEF SegmentRead
    <3>2. CASE op[p].name = "latest" /\ call[p].value.entries # <<>>
        BY <1>1, <2>2, <3>2 DEF SegmentRead
    <3>3. CASE op[p].name # "all" /\ ~(op[p].name = "latest" /\ call[p].value.entries # <<>>)
        BY <2>2, <3>3 DEF SegmentRead
    <3> QED BY <3>1, <3>2, <3>3
  <2> QED BY <2>1, <2>2
<1>4. ASSUME NEW o, op' = [op EXCEPT ![p] = o] PROVE op'[p] = o
    BY <1>1, <1>4
<1>5. CASE op' = op
    BY <1>5
<1>6. CASE \E x : op' = [op EXCEPT ![p] = [op[p] EXCEPT !.left = x]]
  <2>1. PICK x : op' = [op EXCEPT ![p] = [op[p] EXCEPT !.left = x]]
      BY <1>6
  <2>2. op'[p] = [op[p] EXCEPT !.left = x]
      BY <2>1, <1>4
  <2> QED BY <1>1, <1>2, <2>2
<1>7. CASE \E y : op' = [op EXCEPT ![p] = [op[p] EXCEPT !.result = y]]
  <2>1. PICK y : op' = [op EXCEPT ![p] = [op[p] EXCEPT !.result = y]]
      BY <1>7
  <2>2. op'[p] = [op[p] EXCEPT !.result = y]
      BY <2>1, <1>4
  <2> QED BY <1>1, <1>2, <2>2
<1>8. CASE \E x, y : op' = [op EXCEPT ![p] = [op[p] EXCEPT !.result = y, !.left = x]]
  <2>1. PICK x, y : op' = [op EXCEPT ![p] = [op[p] EXCEPT !.result = y, !.left = x]]
      BY <1>8
  <2>2. op'[p] = [op[p] EXCEPT !.result = y, !.left = x]
      BY <2>1, <1>4
  <2> QED BY <1>1, <1>2, <2>2
<1> QED BY <1>3, <1>5, <1>6, <1>7, <1>8

-----------------------------------------------------------------------------
(* The segments *)

LEMMA SegmentsAreInterval ==
    ASSUME FullButNewest
    PROVE  \E N \in 0..MaxAppends : SegmentNumbers = 1..N
<1>1. MaxAppends \in Nat /\ SegmentNumbers \subseteq 1..MaxAppends
    BY Constants DEF SegmentNumbers
<1>2. CASE SegmentNumbers = {}
  <2>1. 0 \in 0..MaxAppends /\ 1..0 = {}
      BY <1>1
  <2> QED BY <1>2, <2>1
<1>3. CASE SegmentNumbers # {}
  <2> DEFINE N == NewestSegment
             P == { k \in 0..N-1 : N - k \in SegmentNumbers }
  <2>1. N \in SegmentNumbers /\ \A n \in SegmentNumbers : n <= N
      BY <1>3, NewestIsLast
  <2> HIDE DEF N
  <2>2. N \in 1..MaxAppends /\ N - 1 \in Nat /\ N \in 0..MaxAppends
      BY <1>1, <2>1
  <2>3. 0 \in P
      BY <2>1, <2>2
  <2>4. ASSUME NEW k \in 0..N-1, k \in P, k < N - 1 PROVE k + 1 \in P
    <3>1. N - k \in SegmentNumbers /\ N - k > 1 /\ (N - k) - 1 = N - (k + 1)
          /\ k + 1 \in 0..N-1
        BY <2>2, <2>4
    <3>2. (N - k) - 1 \in SegmentNumbers
        BY <3>1 DEF FullButNewest
    <3> QED BY <3>1, <3>2
  <2> HIDE DEF P
  <2>5. \A k \in 0..N-1 : k \in P
      BY <2>2, <2>3, <2>4, IntervalInduction
  <2>6. ASSUME NEW n \in 1..N PROVE n \in SegmentNumbers
    <3>1. N - n \in 0..N-1 /\ N - (N - n) = n
        BY <2>2, <2>6
    <3>2. N - n \in P
        BY <3>1, <2>5
    <3> QED BY <3>1, <3>2 DEF P
  <2>7. SegmentNumbers \subseteq 1..N
      BY <1>1, <2>1, <2>2
  <2> QED BY <2>2, <2>6, <2>7
<1> QED BY <1>2, <1>3

LEMMA StoredTyped ==
    ASSUME StoreInv
    PROVE  /\ file \in Documents
           /\ Stored = FirstOf(file, MaxAppends) /\ Stored \in Seq(Entries)
           /\ Len(Stored) \in Nat /\ DOMAIN Stored = 1..Len(Stored)
           /\ \A i \in DOMAIN Stored : Stored[i] \in Nat
<1>1. file \in Documents /\ MaxAppends \in 0..MaxAppends
    BY StoreInvTyped, Constants DEF StoreTyped, Documents
<1>2. Stored = FirstOf(file, MaxAppends)
    BY DEF Stored, FirstOf
<1>3. Stored \in Seq(Entries)
    BY <1>1, <1>2, DocumentsConcatenate
<1> HIDE DEF Stored
<1>4. /\ Len(Stored) \in Nat /\ DOMAIN Stored = 1..Len(Stored)
      /\ \A i \in DOMAIN Stored : Stored[i] \in Entries
    BY <1>3
<1> QED BY <1>1, <1>2, <1>3, <1>4, Constants

\* The write of append() in full: the newest segment, or the one after it, gets
\* the checkpoint at its end, and so does the log.
Grows(p) ==
    LET n == call[p].path
    IN  /\ Appending(p) /\ BeforeWrite(p) /\ call[p].step = "write" /\ n \in Paths
        /\ Moves(p) /\ call'[p].step = "unlock" /\ UNCHANGED opVars
        /\ issued \in Entries /\ op[p].entry = issued
        /\ file'[n].kind = "valid" /\ file'[n].entries = Append(file[n].entries, issued)
        /\ Len(file[n].entries) < Capacity
        /\ \A m \in Paths : m # n => file'[m] = file[m]
        /\ \A m \in Paths : m > n => file[m] = Missing
        /\ \A m \in 0..n-1 : FirstOf(file', m) = FirstOf(file, m)
        /\ \A m \in n..MaxAppends : FirstOf(file', m) = Append(FirstOf(file, m), issued)
        /\ Stored' = Append(Stored, issued)

LEMMA AppendEntryGrows ==
    ASSUME StoreInv, StoreInv', InPlace, NEW p \in Processes, AppendEntry(p)
    PROVE  Grows(p)
<1> DEFINE n == call[p].path
           v == call[p].value.entries
<1>t. StoreTyped /\ Roles /\ Room /\ UNCHANGED opVars
    BY StoreInvTyped DEF StoreInv, AppendEntry
<1>b. /\ call[p].step = "write" /\ call[p].updating /\ n \in Paths /\ BeforeWrite(p)
    BY <1>t DEF AppendEntry, WriteAtomic, Roles, BeforeWrite
<1>a. Appending(p)
  <2>1. op[p].name \in { "none", "append" } \cup Queries
      BY StoreInvTyped DEF OpRecord
  <2> QED BY <1>b, <1>t, <2>1 DEF Roles, Appending
<1>r. /\ op[p].entry = issued /\ issued \in Entries /\ WritesWithRoom(p)
      /\ v = file[n].entries
    BY <1>a, <1>b, <1>t, Constants DEF Room, InPlace
<1>s. v \in Seq(Entries) /\ Append(v, issued) \in Seq(Entries)
  <2>1. v \in Seq(Entries)
      BY StoreInvTyped
  <2> HIDE DEF v
  <2> QED BY <1>r, <2>1, AppendProperties
<1>c. /\ Moves(p) /\ GoesTo(p, "unlock") /\ file'[n] = Valid(Append(v, issued))
      /\ \A m \in Paths : m # n => file'[m] = file[m]
    BY <1>t, <1>b, <1>r, <1>s, WriteCase DEF AppendEntry
<1>v. /\ file'[n].kind = "valid" /\ file'[n].entries = Append(v, issued)
    BY <1>s, <1>c, ContentKinds
<1>m. \A m \in Paths : m > n => file[m] = Missing
    BY <1>r DEF WritesWithRoom, IsNewest
<1>w. Len(file[n].entries) < Capacity
    BY <1>r DEF WritesWithRoom
<1> HIDE DEF n, v
<1>f. n \in 1..MaxAppends /\ MaxAppends \in n..MaxAppends
    BY <1>b, Constants
<1>d. file \in Documents /\ file' \in Documents
  <2>1. (StoreInv => file \in Documents)'
      BY StoredTyped, PTL
  <2> QED BY <2>1, StoredTyped
<1>e. \A m \in n+1..MaxAppends : file[m].entries = <<>>
  <2>1. \A m \in n+1..MaxAppends : m \in Paths /\ m > n
      BY <1>f, Constants
  <2> QED BY <1>m, <2>1, ContentKinds
<1>g. /\ \A m \in 0..n-1 : FirstOf(file', m) = FirstOf(file, m)
      /\ \A m \in n..MaxAppends : FirstOf(file', m) = Append(FirstOf(file, m), issued)
    BY <1>c, <1>d, <1>e, <1>f, <1>r, <1>v, FirstOfAppended
<1>h. Stored' = Append(Stored, issued)
  <2>1. Stored = FirstOf(file, MaxAppends) /\ Stored' = FirstOf(file', MaxAppends)
      BY DEF Stored, FirstOf
  <2> QED BY <1>f, <1>g, <2>1
<1> QED BY <1>a, <1>b, <1>c, <1>g, <1>h, <1>m, <1>r, <1>t, <1>v, <1>w DEF Grows, GoesTo, n

-----------------------------------------------------------------------------
(* The steps of a call of the store, where no segment is damaged *)

\* A call moves on, and no document changes.
Reads(p) ==
    LET n == call[p].path
    IN  /\ UNCHANGED file /\ Moves(p) /\ n \in Paths
        /\ \/ call[p].step = "lock" /\ (GoesTo(p, "exists") \/ GoesTo(p, "raised"))
           \/ call[p].step = "exists" /\ n \notin SegmentNumbers /\ Hands(p, Missing)
           \/ call[p].step = "exists" /\ n \in SegmentNumbers /\ GoesTo(p, "open")
           \/ call[p].step = "open" /\ n \in SegmentNumbers /\ Hands(p, file[n])
           \/ call[p].step = "write" /\ Raises(p)
           \/ /\ call[p].step = "unlock"
              /\ GoesTo(p, IF call[p].failed THEN "raised" ELSE "returned")

LEMMA StoreStepReads ==
    ASSUME StoreInv, Readable, NEW p \in Processes, StoreStep(p)
    PROVE  Reads(p)
<1> DEFINE n == call[p].path
<1>t. StoreTyped /\ Roles
    BY StoreInvTyped DEF StoreInv
<1>1. n \in Paths
  <2>1. call[p].step # "idle"
      BY DEF StoreStep, AcquireLock, LockTimeout, CheckExists, ReadText, Quarantine,
             Rename, WriteFails, ReleaseLock
  <2> QED BY <1>t, <2>1 DEF Roles
<1>2. Moves(p) /\ (Looks(p, n) \/ Locks(p, n) \/ Quarantines(p, n))
    BY <1>1, <1>t, StoreStepCases
<1>3. /\ call[p].step \notin { "quarantine", "rename" }
      /\ call[p].step = "open" => n \in SegmentNumbers /\ file[n].kind = "valid"
      /\ n \in SegmentNumbers <=> file[n] # Missing
    BY <1>1 DEF Readable, SegmentNumbers
<1> HIDE DEF n
<1>4. ~Quarantines(p, n)
    BY <1>3 DEF Quarantines
<1>5. CASE Looks(p, n)
    BY <1>1, <1>2, <1>3, <1>5 DEF Looks, Reads, n
<1>6. CASE Locks(p, n)
    BY <1>1, <1>2, <1>3, <1>6 DEF Locks, Reads, n
<1> QED BY <1>2, <1>4, <1>5, <1>6

\* Only one process moves, and no document changes.
Keeps(p) ==
    /\ UNCHANGED file
    /\ \A q \in Processes : q # p => call'[q] = call[q] /\ op'[q] = op[q]

\* What such a step can break of Whole.
LEMMA KeepsWhole ==
    ASSUME Whole, NEW p \in Processes, Keeps(p),
           call'[p].step \notin { "quarantine", "rename" },
           call'[p].step = "open" => call'[p].path \in SegmentNumbers,
           Appending(p)' =>
             /\ call'[p].step # "idle" /\ ~call'[p].updating
                  => /\ call'[p].path > 1 => call'[p].path \in SegmentNumbers
                     /\ call'[p].step = "returned" => call'[p].value = file[call'[p].path]
             /\ BeforeWrite(p)' => FollowsFull(call'[p].path)
             /\ call'[p].step = "write" => call'[p].value = file[call'[p].path]
    PROVE  Whole'
<1>1. SegmentNumbers' = SegmentNumbers /\ file' = file
    BY DEF Keeps, SegmentNumbers
<1>2. Readable'
    BY <1>1 DEF Whole, Readable, Keeps
<1>3. FullButNewest'
    BY <1>1 DEF Whole, FullButNewest
<1>4. InPlace'
  <2>1. ASSUME NEW q \in Processes, q # p, Appending(q)'
        PROVE  /\ call'[q].step # "idle" /\ ~call'[q].updating
                    => /\ call'[q].path > 1 => call'[q].path \in SegmentNumbers'
                       /\ call'[q].step = "returned" => call'[q].value = file'[call'[q].path]
               /\ BeforeWrite(q)' => FollowsFull(call[q].path)'
               /\ call'[q].step = "write" => call'[q].value = file'[call'[q].path]
    <3>1. call'[q] = call[q] /\ Appending(q) /\ (BeforeWrite(q)' => BeforeWrite(q))
        BY <2>1 DEF Keeps, Appending, BeforeWrite
    <3> QED BY <1>1, <2>1, <3>1 DEF Whole, InPlace, FollowsFull
  <2>2. ASSUME Appending(p)'
        PROVE  /\ call'[p].step # "idle" /\ ~call'[p].updating
                    => /\ call'[p].path > 1 => call'[p].path \in SegmentNumbers'
                       /\ call'[p].step = "returned" => call'[p].value = file'[call'[p].path]
               /\ BeforeWrite(p)' => FollowsFull(call[p].path)'
               /\ call'[p].step = "write" => call'[p].value = file'[call'[p].path]
      BY <1>1, <2>2 DEF FollowsFull
  <2> QED BY <2>1, <2>2 DEF InPlace
<1> QED BY <1>2, <1>3, <1>4 DEF Whole

LEMMA StoreStepKeepsWhole ==
    ASSUME StoreInv, Whole, NEW p \in Processes, StoreStep(p), UNCHANGED opVars
    PROVE  Whole'
<1> DEFINE n == call[p].path
<1>t. Roles /\ Reads(p) /\ op' = op /\ Appending(p)' = Appending(p)
    BY StoreStepReads DEF Whole, StoreInv, opVars, Appending
<1>1. /\ call'[p].path = n /\ call'[p].updating = call[p].updating /\ n \in Paths
      /\ Keeps(p)
    BY <1>t DEF Reads, Moves, Keeps
<1>2. /\ call'[p].step \notin { "quarantine", "rename", "idle" }
      /\ call'[p].step = "open" => n \in SegmentNumbers
    BY <1>t DEF Reads, Hands, GoesTo, Raises
<1>3. /\ call[p].step # "idle"
      /\ call[p].step = "lock" => call[p].updating
      /\ call[p].step \in { "unlock", "write" } => call[p].updating
    BY <1>t DEF Roles, Reads
<1>4. ASSUME Appending(p), ~call[p].updating
      PROVE  /\ n > 1 => n \in SegmentNumbers
             /\ call'[p].step = "returned" => call'[p].value = file[n]
             /\ call'[p].step # "write"
  <2>1. n > 1 => n \in SegmentNumbers
      BY <1>3, <1>4 DEF Whole, InPlace
  <2>2. call'[p].step = "returned" => call'[p].value = file[n]
      BY <1>3, <1>4, <1>t, <1>1 DEF Reads, Hands, GoesTo, Raises, SegmentNumbers
  <2>3. call'[p].step # "write"
      BY <1>3, <1>4, <1>t DEF Reads, Hands, GoesTo, Raises
  <2> QED BY <2>1, <2>2, <2>3
<1>5. ASSUME Appending(p), call[p].updating
      PROVE  /\ BeforeWrite(p)' => BeforeWrite(p)
             /\ call'[p].step = "write" => call'[p].value = file[n]
  <2>1. BeforeWrite(p)' => BeforeWrite(p)
      BY <1>1, <1>5, <1>t DEF Reads, Hands, GoesTo, Raises, BeforeWrite
  <2>2. call'[p].step = "write" => call'[p].value = file[n]
      BY <1>1, <1>5, <1>t DEF Reads, Hands, GoesTo, Raises, SegmentNumbers
  <2> QED BY <2>1, <2>2
<1>6. Appending(p) /\ BeforeWrite(p) => FollowsFull(n)
    BY DEF Whole, InPlace
<1>7. BeforeWrite(p)' => call[p].updating
    BY <1>1 DEF BeforeWrite
<1> HIDE DEF n
<1> QED BY <1>1, <1>2, <1>4, <1>5, <1>6, <1>7, <1>t, KeepsWhole DEF n

LEMMA AppendStepsKeepWhole ==
    ASSUME StoreInv, StoreInv', Whole, NEW p \in Processes,
           SelectSegment(p) \/ UpdateSegment(p) \/ AppendEntry(p)
    PROVE  Whole'
<1>t. Roles /\ Room /\ call \in [ Processes -> CallRecord ]
    BY StoreInvTyped DEF StoreInv, StoreTyped, CallsTyped
<1>c. Paths = 1..MaxAppends /\ MaxAppends \in Nat
    BY Constants
<1>1. CASE SelectSegment(p)
  <2> DEFINE n == NewestSegment
  <2>1. /\ call' = [call EXCEPT ![p] = ReadCall(n)] /\ UNCHANGED <<file, op>> /\ Appending(p)
      BY <1>1 DEF SelectSegment, opVars, Appending
  <2>2. (n > 1 => n \in SegmentNumbers) /\ n \in Paths
    <3>1. n = 1 \/ n \in SegmentNumbers
        BY NewestIsLast
    <3>2. issued \in 1..MaxAppends
        BY <1>t, <2>1 DEF Room
    <3> QED BY <1>c, <3>1, <3>2 DEF SegmentNumbers
  <2> HIDE DEF n
  <2>3. call'[p] = ReadCall(n) /\ Keeps(p)
      BY <1>t, <2>1 DEF Keeps
  <2>4. ReadCall(n).step = "exists" /\ ReadCall(n).path = n /\ ~ReadCall(n).updating
      BY <2>2, NewCalls
  <2> QED BY <2>2, <2>3, <2>4, KeepsWhole DEF BeforeWrite
<1>2. CASE UpdateSegment(p)
  <2> DEFINE n == Target(call[p])  m == call[p].path
  <2>1. /\ call' = [call EXCEPT ![p] = UpdateCall(n)] /\ UNCHANGED <<file, op>> /\ Appending(p)
        /\ call[p].step = "returned" /\ ~call[p].updating
      BY <1>2 DEF UpdateSegment, opVars, Appending
  <2>2. /\ m \in Paths /\ (m > 1 => m \in SegmentNumbers) /\ call[p].value = file[m]
        /\ LooksAtNewest(p) /\ issued \in 1..MaxAppends
      BY <1>t, <2>1 DEF Whole, InPlace, Roles, Room
  <2>3. n \in Paths /\ FollowsFull(n)
    <3>1. CASE Len(file[m].entries) >= Capacity
      <4>1. Len(file[m].entries) = Capacity /\ Capacity >= 1
          BY <2>2, <3>1, StoreInvTyped, Constants
      <4>2. file[m] # Missing /\ m < issued
          BY <2>2, <4>1, ContentKinds DEF LooksAtNewest
      <4>3. n = m + 1
          BY <2>2, <3>1 DEF Target
      <4>4. m + 1 \in Paths /\ (m + 1) - 1 = m
          BY <1>c, <2>2, <4>2
      <4> HIDE DEF n, m
      <4>5. m \in SegmentNumbers
          BY <2>2, <4>2 DEF SegmentNumbers
      <4> QED BY <4>1, <4>3, <4>4, <4>5 DEF FollowsFull
    <3>2. CASE ~(Len(file[m].entries) >= Capacity)
      <4>1. n = m
          BY <2>2, <3>2 DEF Target
      <4> HIDE DEF n, m
      <4>2. ASSUME m > 1 PROVE m - 1 \in SegmentNumbers /\ Len(file[m - 1].entries) = Capacity
        <5>1. m - 1 \in SegmentNumbers
            BY <2>2, <4>2 DEF Whole, FullButNewest
        <5>2. (m - 1) + 1 = m
            BY <1>c, <2>2
        <5> QED BY <2>2, <4>2, <5>1, <5>2 DEF Whole, FullButNewest
      <4> QED BY <2>2, <4>1, <4>2 DEF FollowsFull
    <3> QED BY <3>1, <3>2
  <2> HIDE DEF n, m
  <2>4. call'[p] = UpdateCall(n) /\ Keeps(p)
      BY <1>t, <2>1 DEF Keeps
  <2>5. UpdateCall(n).step = "lock" /\ UpdateCall(n).path = n /\ UpdateCall(n).updating
      BY <2>3, NewCalls
  <2> QED BY <2>3, <2>4, <2>5, KeepsWhole
<1>3. CASE AppendEntry(p)
  <2> DEFINE n == call[p].path
  <2>1. Grows(p)
      BY <1>3, AppendEntryGrows DEF Whole
  <2>2. /\ n \in Paths /\ Appending(p) /\ FollowsFull(n)
        /\ \A m \in Paths : m # n => file'[m] = file[m]
        /\ \A m \in Paths : m > n => file[m] = Missing
        /\ file'[n].kind = "valid" /\ file'[n].entries # <<>>
    <3>1. Append(file[n].entries, issued) # <<>>
      <4> DEFINE v == file[n].entries
      <4>1. v \in Seq(Entries) /\ issued \in Entries
          BY <2>1, StoreInvTyped DEF Grows
      <4> HIDE DEF v
      <4> QED BY <4>1, AppendProperties DEF v
    <3> QED BY <2>1, <3>1 DEF Grows, Whole, InPlace
  <2>3. /\ call'[p].path = n /\ call'[p].updating = call[p].updating
        /\ call'[p].step = "unlock" /\ op' = op
        /\ \A q \in Processes : q # p => call'[q] = call[q]
      BY <2>1 DEF Grows, Moves, opVars
  <2> HIDE DEF n
  <2>4. SegmentNumbers' = SegmentNumbers \cup {n}
      BY <2>2, ContentKinds DEF SegmentNumbers
  <2>5. Readable'
      BY <2>2, <2>3, <2>4 DEF Whole, Readable, SegmentNumbers
  <2>6. InPlace'
    <3>1. \A q \in Processes : Appending(q)' => q = p
        BY <1>t, <2>2, <2>3, OneAppender DEF Appending
    <3>2. call[p].updating
        BY <2>1 DEF Grows, BeforeWrite
    <3> QED BY <2>3, <3>1, <3>2 DEF InPlace, BeforeWrite
  <2>7. FullButNewest'
    <3>1. ASSUME NEW m \in SegmentNumbers', m > 1 PROVE m - 1 \in SegmentNumbers'
        BY <2>2, <2>4, <3>1 DEF Whole, FullButNewest, FollowsFull
    <3>2. ASSUME NEW m \in SegmentNumbers', m + 1 \in SegmentNumbers'
          PROVE  Len(file'[m].entries) = Capacity
      <4>1. m \in Paths /\ m + 1 \in Paths /\ m \in Nat /\ n \in Nat
          BY <1>c, <2>2, <3>2 DEF SegmentNumbers
      <4>2. m # n
        <5>1. m = n => m + 1 \in SegmentNumbers /\ m + 1 > n
            BY <2>4, <3>2, <4>1
        <5> QED BY <2>2, <4>1, <5>1 DEF SegmentNumbers
      <4>3. CASE m + 1 = n
        <5>1. n > 1 /\ n - 1 = m
            BY <1>c, <4>1, <4>3
        <5> QED BY <2>2, <4>1, <4>2, <5>1 DEF FollowsFull
      <4>4. CASE m + 1 # n
          BY <2>2, <2>4, <3>2, <4>1, <4>2, <4>4 DEF Whole, FullButNewest
      <4> QED BY <4>3, <4>4
    <3> QED BY <3>1, <3>2 DEF FullButNewest
  <2> QED BY <2>5, <2>6, <2>7 DEF Whole
<1> QED BY <1>1, <1>2, <1>3

\* Calls, returns, exceptions, the ends of processes, and the steps of a query.
Operation(p) ==
    \/ p \in Appenders /\ CallAppend(p)
    \/ \E q \in Queries : p \in Readers /\ CallQuery(p, q)
    \/ AppendReturns(p) \/ AppendRaises(p)
    \/ ReadSegment(p) \/ SegmentRead(p) \/ QueryReturns(p) \/ QueryRaises(p)
    \/ Crash(p)

\* The operation of one process is replaced.
Replaces(p) == \E o : op' = [op EXCEPT ![p] = o]

LEMMA OperationKeeps ==
    ASSUME StoreInv, NEW p \in Processes, Operation(p)
    PROVE  /\ Keeps(p) /\ (call'[p].step = "idle" => ~call'[p].updating)
           /\ call'[p].step = "idle" \/ (call'[p].step = "exists" /\ ~Appending(p)')
<1>t. /\ Roles /\ call \in [ Processes -> CallRecord ] /\ op \in [ Processes -> OpRecord ]
      /\ op[p] \in OpRecord
    BY StoreInvTyped DEF StoreInv, StoreTyped, CallsTyped
<1>n. NoCall.step = "idle" /\ ~NoCall.updating
    BY NewCalls
<1>s. ASSUME UNCHANGED file, Replaces(p),
             \/ call' = call /\ call[p].step = "idle"
             \/ call' = [call EXCEPT ![p] = NoCall]
      PROVE  Keeps(p) /\ call'[p].step = "idle" /\ ~call'[p].updating
  <2>1. \A q \in Processes : q # p => op'[q] = op[q]
      BY <1>s, <1>t DEF Replaces
  <2>2. call[p].step = "idle" => ~call[p].updating
      BY <1>t DEF Roles
  <2>3. CASE call' = call /\ call[p].step = "idle"
      BY <1>s, <2>1, <2>2, <2>3 DEF Keeps
  <2>4. CASE call' = [call EXCEPT ![p] = NoCall]
      BY <1>s, <1>n, <1>t, <2>1, <2>4 DEF Keeps
  <2> QED BY <1>s, <2>3, <2>4
<1>1. CASE CallAppend(p) \/ \E q \in Queries : CallQuery(p, q)
  <2>1. UNCHANGED <<file, call>> /\ op[p].name = "none" /\ Replaces(p)
      BY <1>1, Zenon DEF CallAppend, CallQuery, storeVars, Replaces
  <2>2. call[p].step = "idle"
      BY <1>t, <2>1 DEF Roles
  <2> QED BY <1>s, <2>1, <2>2
<1>2. CASE AppendReturns(p) \/ AppendRaises(p) \/ QueryRaises(p) \/ Crash(p)
  <2>1. /\ UNCHANGED file /\ call' = [call EXCEPT ![p] = NoCall]
        /\ Replaces(p)
      BY <1>2, Zenon DEF AppendReturns, AppendRaises, QueryRaises, Crash, StoreCrash, Replaces
  <2> QED BY <1>s, <2>1
<1>3. CASE QueryReturns(p)
  <2>1. /\ UNCHANGED <<file, call>> /\ call[p].step = "idle"
        /\ Replaces(p)
      BY <1>3, Zenon DEF QueryReturns, storeVars, Replaces
  <2> QED BY <1>s, <2>1
<1>4. CASE ReadSegment(p)
  <2> DEFINE n == Head(op[p].left)
  <2>1. /\ op[p].name \in Queries /\ op[p].left # <<>> /\ UNCHANGED file
        /\ call' = [call EXCEPT ![p] = ReadCall(n)]
        /\ op' = [op EXCEPT ![p].left = Tail(op[p].left)]
      BY <1>4 DEF ReadSegment
  <2>2. n \in Paths
    <3>1. op[p].left \in Seq(Paths)
        BY <1>t DEF OpRecord
    <3> QED BY <2>1, <3>1, HeadTailProperties
  <2> HIDE DEF n
  <2>3. op'[p] = [op[p] EXCEPT !.left = Tail(op[p].left)]
      BY <1>t, <2>1
  <2>4. op'[p].name = op[p].name
      BY <1>t, <2>3 DEF OpRecord
  <2>5. call'[p] = ReadCall(n) /\ Keeps(p)
      BY <1>t, <2>1 DEF Keeps
  <2> QED BY <2>1, <2>2, <2>4, <2>5, NewCalls DEF Appending, Queries
<1>5. CASE SegmentRead(p)
  <2>1. /\ call' = [call EXCEPT ![p] = NoCall] /\ UNCHANGED file
        /\ Replaces(p)
    <3>1. op = [op EXCEPT ![p] = op[p]]
        BY <1>t
    <3> DEFINE v == call[p].value.entries
               o == CASE op[p].name = "all" -> [op[p] EXCEPT !.result = @ \o v]
                      [] op[p].name = "latest" /\ v # <<>> ->
                            [op[p] EXCEPT !.result = <<v[Len(v)]>>, !.left = <<>>]
                      [] OTHER -> op[p]
    <3>a. op' = [op EXCEPT ![p] = o]
        BY <1>5, <1>t, <3>1 DEF SegmentRead
    <3>2. Replaces(p)
      <4> HIDE DEF o
      <4> QED BY <3>a, Zenon DEF Replaces
    <3> QED BY <1>5, <3>2 DEF SegmentRead
  <2> QED BY <1>s, <2>1
<1> QED BY <1>1, <1>2, <1>3, <1>4, <1>5 DEF Operation

LEMMA OperationKeepsWhole ==
    ASSUME StoreInv, Whole, NEW p \in Processes, Operation(p)
    PROVE  Whole'
<1>1. /\ Keeps(p) /\ (call'[p].step = "idle" => ~call'[p].updating)
      /\ call'[p].step = "idle" \/ (call'[p].step = "exists" /\ ~Appending(p)')
    BY OperationKeeps
<1> QED BY <1>1, KeepsWhole DEF BeforeWrite

\* The steps of the program, without the faults.
LEMMA UndisturbedSteps ==
    ASSUME Next, Undisturbed', faults \in Nat
    PROVE  \E p \in Processes :
              \/ StoreStep(p) /\ UNCHANGED opVars
              \/ SelectSegment(p) \/ UpdateSegment(p) \/ AppendEntry(p)
              \/ Operation(p)
<1>1. /\ \A n \in Paths : ~Damage(n)
      /\ \A p \in Processes : ~ReadFault(p)
    BY DEF Damage, ReadFault, Undisturbed
<1>2. CASE \E p \in Appenders : CallAppend(p)
    BY <1>2, Constants DEF Operation
<1>3. CASE \E p \in Readers, q \in Queries : CallQuery(p, q)
    BY <1>3, Constants DEF Operation
<1>4. CASE \E p \in Processes : Proceed(p) \/ Crash(p)
    BY <1>4 DEF Operation, Proceed
<1> QED BY <1>1, <1>2, <1>3, <1>4 DEF Next

\* Faults are never forgotten.
LEMMA UndisturbedBefore ==
    ASSUME [Next]_cpVars, Undisturbed', faults \in Nat
    PROVE  Undisturbed
<1>1. CASE UNCHANGED cpVars
    BY <1>1 DEF cpVars, opVars, Undisturbed
<1>2. CASE Next
  <2>1. PICK p \in Processes :
              \/ StoreStep(p) /\ UNCHANGED opVars
              \/ SelectSegment(p) \/ UpdateSegment(p) \/ AppendEntry(p)
              \/ Operation(p)
      BY <1>2, UndisturbedSteps
  <2>2. CASE Operation(p)
    <3>1. UNCHANGED faults
        BY <2>2, Zenon DEF Operation, CallAppend, CallQuery, AppendReturns, AppendRaises,
             ReadSegment, SegmentRead, QueryReturns, QueryRaises, Crash
    <3> QED BY <3>1 DEF Undisturbed
  <2>3. CASE ~Operation(p)
    <3>1. UNCHANGED faults
        BY <2>1, <2>3 DEF SelectSegment, UpdateSegment, AppendEntry, opVars
    <3> QED BY <3>1 DEF Undisturbed
  <2> QED BY <2>2, <2>3
<1> QED BY <1>1, <1>2

-----------------------------------------------------------------------------
(* The order of the checkpoints *)

\* The checkpoint of a call of append() is not written yet.
Unwritten(p) == Appending(p) /\ (call[p].updating => BeforeWrite(p))

\* What a step that changes no document can break of the order.
LEMMA KeepsOrder ==
    ASSUME InOrder, StoredOnce, NEW p \in Processes, Keeps(p), UNCHANGED issued,
           acked' \subseteq ToSet(Stored),
           Unwritten(p)' => Unwritten(p),
           Appending(p)' /\ Written(p)' => op'[p].entry \in ToSet(Stored)
    PROVE  InOrder' /\ StoredOnce'
<1>1. Stored' = Stored
    BY DEF Keeps, Stored
<1>2. StoredOnce'
    BY <1>1 DEF StoredOnce
<1>3. \A i \in DOMAIN Stored' : Stored'[i] <= issued'
    BY <1>1 DEF InOrder
<1>4. ASSUME NEW q \in Processes, Unwritten(q)'
      PROVE  \A i \in DOMAIN Stored' : Stored'[i] < issued'
  <2>1. Unwritten(q)
      BY <1>4 DEF Keeps, Unwritten, Appending, BeforeWrite
  <2> QED BY <1>1, <2>1 DEF InOrder, Unwritten
<1>5. ASSUME NEW q \in Processes, Appending(q)', Written(q)'
      PROVE  op'[q].entry \in ToSet(Stored')
  <2>1. CASE q = p
      BY <1>1, <1>5, <2>1
  <2>2. CASE q # p
    <3>1. Appending(q) /\ Written(q) /\ op'[q] = op[q]
        BY <1>5, <2>2 DEF Keeps, Appending, Written
    <3> QED BY <1>1, <3>1 DEF InOrder
  <2> QED BY <2>1, <2>2
<1>6. InOrder'
    BY <1>3, <1>4, <1>5 DEF InOrder, Unwritten
<1> QED BY <1>2, <1>6

LEMMA StoreStepKeepsOrder ==
    ASSUME StoreInv, Whole, InOrder, StoredOnce, NEW p \in Processes, StoreStep(p),
           UNCHANGED opVars
    PROVE  InOrder' /\ StoredOnce'
<1>1. /\ Reads(p) /\ Roles /\ UNCHANGED <<op, issued, acked>>
    BY StoreStepReads DEF Whole, StoreInv, opVars
<1>2. Keeps(p) /\ call'[p].updating = call[p].updating
    BY <1>1 DEF Reads, Moves, Keeps
<1>3. Unwritten(p)' => Unwritten(p)
  <2>1. BeforeWrite(p)' => BeforeWrite(p)
      BY <1>1, <1>2 DEF Reads, Hands, GoesTo, Raises, BeforeWrite
  <2> QED BY <1>1, <1>2, <2>1 DEF Unwritten, Appending
<1>4. Appending(p)' /\ Written(p)' => op'[p].entry \in ToSet(Stored)
  <2>1. SUFFICES ASSUME Appending(p), Written(p)' PROVE op[p].entry \in ToSet(Stored)
      BY <1>1 DEF Appending
  <2>2. call[p].step = "unlock" /\ ~call[p].failed /\ call[p].updating
      BY <1>1, <1>2, <2>1 DEF Reads, Hands, GoesTo, Raises, Written
  <2> QED BY <2>1, <2>2 DEF InOrder, Written
<1>5. acked' \subseteq ToSet(Stored)
    BY <1>1 DEF StoredOnce
<1> QED BY <1>1, <1>2, <1>3, <1>4, <1>5, KeepsOrder

LEMMA AppendStepsKeepOrder ==
    ASSUME StoreInv, StoreInv', Whole, InOrder, StoredOnce, NEW p \in Processes,
           SelectSegment(p) \/ UpdateSegment(p) \/ AppendEntry(p)
    PROVE  InOrder' /\ StoredOnce'
<1>t. Roles /\ call \in [ Processes -> CallRecord ]
    BY StoreInvTyped DEF StoreInv, StoreTyped, CallsTyped
<1>1. CASE SelectSegment(p) \/ UpdateSegment(p)
  <2>1. /\ UNCHANGED <<file, op, issued, acked>> /\ Appending(p) /\ ~call[p].updating
        /\ \E n : call' = [call EXCEPT ![p] = ReadCall(n)]
                  \/ call' = [call EXCEPT ![p] = UpdateCall(n)]
      BY <1>1, <1>t DEF SelectSegment, UpdateSegment, opVars, Appending, Roles
  <2>2. PICK n : call' = [call EXCEPT ![p] = ReadCall(n)]
                 \/ call' = [call EXCEPT ![p] = UpdateCall(n)]
      BY <2>1
  <2>3. call'[p] = ReadCall(n) \/ call'[p] = UpdateCall(n)
      BY <1>t, <2>2
  <2>4. call'[p].step \in { "exists", "lock" }
      BY <2>3 DEF ReadCall, UpdateCall, NoCall
  <2>5. Keeps(p)
      BY <1>t, <2>1, <2>2 DEF Keeps
  <2>6. Unwritten(p) /\ ~Written(p)'
      BY <2>1, <2>4 DEF Unwritten, Written
  <2>7. acked' \subseteq ToSet(Stored)
      BY <2>1 DEF StoredOnce
  <2> QED BY <2>1, <2>5, <2>6, <2>7, KeepsOrder
<1>2. CASE AppendEntry(p)
  <2>1. Grows(p)
      BY <1>2, AppendEntryGrows DEF Whole
  <2> DEFINE s == Stored  e == issued
  <2>2. /\ s \in Seq(Entries) /\ e \in Entries /\ e \in Nat /\ Stored' = Append(s, e)
        /\ \A i \in DOMAIN s : s[i] \in Nat
        /\ UNCHANGED <<op, issued, acked>> /\ op[p].entry = e
    <3>1. e \in Nat
        BY StoreInvTyped
    <3> QED BY <2>1, <3>1, StoredTyped DEF Grows, opVars
  <2>3. \A i \in DOMAIN s : s[i] < e
      BY <2>1 DEF Grows, InOrder, BeforeWrite
  <2> HIDE DEF s, e
  <2>4. /\ Len(s) \in Nat /\ DOMAIN s = 1..Len(s) /\ DOMAIN Append(s, e) = 1..Len(s) + 1
        /\ \A i \in 1..Len(s) : Append(s, e)[i] = s[i]
        /\ Append(s, e)[Len(s) + 1] = e
    <3>1. Append(s, e) \in Seq(Entries) /\ Len(Append(s, e)) = Len(s) + 1
        BY <2>2, AppendProperties
    <3> QED BY <2>2, <3>1, AppendProperties
  <2>5. \A i \in 1..Len(s) + 1 : i \in 1..Len(s) \/ i = Len(s) + 1
      BY <2>4
  <2>6. ToSet(s) \subseteq ToSet(Append(s, e)) /\ e \in ToSet(Append(s, e))
    <3>1. ToSet(s) = { s[i] : i \in 1..Len(s) }
        BY <2>4 DEF ToSet
    <3>2. ToSet(Append(s, e)) = { Append(s, e)[i] : i \in 1..Len(s) + 1 }
        BY <2>4 DEF ToSet
    <3>3. \A i \in 1..Len(s) : i \in 1..Len(s) + 1
        BY <2>4
    <3>4. Len(s) + 1 \in 1..Len(s) + 1
        BY <2>4
    <3> QED BY <2>4, <3>1, <3>2, <3>3, <3>4
  <2>7. StoredOnce'
    <3>1. acked' \subseteq ToSet(Stored')
        BY <2>2, <2>6 DEF StoredOnce, s
    <3>2. ASSUME NEW i \in 1..Len(s) + 1, NEW j \in 1..Len(s) + 1, i < j
          PROVE  Append(s, e)[i] < Append(s, e)[j]
      <4>1. i \in 1..Len(s)
          BY <2>4, <3>2
      <4>2. CASE j \in 1..Len(s)
          BY <2>4, <3>2, <4>1, <4>2 DEF StoredOnce, s
      <4>3. CASE j = Len(s) + 1
          BY <2>3, <2>4, <4>1, <4>3
      <4> QED BY <2>5, <4>2, <4>3
    <3> QED BY <2>2, <2>4, <3>1, <3>2 DEF StoredOnce
  <2>8. InOrder'
    <3>1. \A i \in DOMAIN Stored' : Stored'[i] <= issued'
        BY <2>2, <2>3, <2>4, <2>5 DEF e
    <3>2. ASSUME NEW q \in Processes, Appending(q)'
          PROVE  q = p
        BY <1>t, <2>1, <2>2, <3>2, OneAppender DEF Grows, Appending
    <3>3. ~Unwritten(p)'
        BY <2>1 DEF Grows, Moves, BeforeWrite, Unwritten
    <3>4. op'[p].entry \in ToSet(Stored')
        BY <2>2, <2>6
    <3> QED BY <3>1, <3>2, <3>3, <3>4 DEF InOrder, Unwritten
  <2> QED BY <2>7, <2>8
<1> QED BY <1>1, <1>2

LEMMA OperationKeepsOrder ==
    ASSUME StoreInv, InOrder, StoredOnce, NEW p \in Processes, Operation(p)
    PROVE  InOrder' /\ StoredOnce'
<1>t. /\ Roles /\ op \in [ Processes -> OpRecord ] /\ op[p] \in OpRecord /\ issued \in Nat
    BY StoreInvTyped DEF StoreInv
<1>k. /\ Keeps(p) /\ (call'[p].step = "idle" => ~call'[p].updating)
      /\ call'[p].step = "idle" \/ (call'[p].step = "exists" /\ ~Appending(p)')
    BY OperationKeeps
<1>w. ~Written(p)'
    BY <1>k DEF Written
<1>1. CASE CallAppend(p)
  <2>1. /\ execution = Nobody /\ issued' = issued + 1 /\ UNCHANGED <<file, acked>>
      BY <1>1 DEF CallAppend, storeVars
  <2>2. Stored' = Stored
      BY <2>1 DEF Stored
  <2>3. \A i \in DOMAIN Stored : Stored[i] < issued'
      BY <1>t, <2>1, StoredTyped DEF InOrder
  <2>4. \A q \in Processes : ~Appending(q)
      BY <1>t, <2>1, Constants DEF Roles
  <2>5. \A q \in Processes : Appending(q)' => q = p
      BY <1>k, <2>4 DEF Keeps, Appending
  <2>6. InOrder'
      BY <1>t, <1>w, <2>1, <2>2, <2>3, <2>5, StoredTyped DEF InOrder
  <2>7. StoredOnce'
      BY <2>1, <2>2 DEF StoredOnce
  <2> QED BY <2>6, <2>7
<1>2. CASE ~CallAppend(p)
  <2>1. /\ UNCHANGED issued /\ ~Appending(p)'
        /\ acked' = acked \/ (AppendReturns(p) /\ acked' = acked \cup { op[p].entry })
    <3>n. NoOp.name # "append" /\ \A r : [NoOp EXCEPT !.result = r].name # "append"
        BY DEF NoOp
    <3>1. CASE \E q \in Queries : CallQuery(p, q)
      <4>1. PICK q \in Queries : CallQuery(p, q)
          BY <3>1
      <4> DEFINE l == IF q = "all" THEN Ascending ELSE Reverse(Ascending)
                 o == [NoOp EXCEPT !.name = q, !.since = Len(Stored), !.left = l]
      <4>2. UNCHANGED <<issued, acked>> /\ op' = [op EXCEPT ![p] = o]
          BY <4>1 DEF CallQuery
      <4> HIDE DEF l
      <4>3. o.name # "append"
          BY DEF Queries, NoOp
      <4> QED BY <1>t, <4>2, <4>3 DEF Appending
    <3>2. CASE AppendReturns(p) \/ AppendRaises(p) \/ QueryReturns(p) \/ QueryRaises(p) \/ Crash(p)
        BY <1>t, <3>2, <3>n DEF AppendReturns, AppendRaises, QueryReturns, QueryRaises, Crash,
                                Appending
    <3>3. CASE ReadSegment(p) \/ SegmentRead(p)
      <4>1. UNCHANGED <<issued, acked, execution>> /\ op[p].name \in Queries
          BY <3>3 DEF ReadSegment, SegmentRead
      <4>2. op'[p].name = op[p].name
          BY <1>t, <3>3, QueryStepKeeps
      <4> QED BY <4>1, <4>2 DEF Appending, Queries
    <3> QED BY <1>2, <3>1, <3>2, <3>3 DEF Operation
  <2>2. acked' \subseteq ToSet(Stored)
    <3>1. AppendReturns(p) => op[p].entry \in ToSet(Stored)
        BY DEF AppendReturns, InOrder, Appending, Written
    <3> QED BY <2>1, <3>1 DEF StoredOnce
  <2> QED BY <1>k, <1>w, <2>1, <2>2, KeepsOrder DEF Unwritten
<1> QED BY <1>1, <1>2

-----------------------------------------------------------------------------
(* The answers of the queries *)

\* What holds of one query.
AnswerOf(p) ==
    op[p].name \in Queries =>
        /\ AtSegment(p) => UnderWay(p)
        /\ call[p].step = "returned" => JustRead(p)
        /\ call[p].step = "idle" /\ op[p].left = <<>> => Answered(p)

LEMMA AnswersOf == Answers => \A p \in Processes : AnswerOf(p)
BY DEF Answers, AnswerOf

\* Another process moves, and no document changes.
LEMMA KeepsAnswer ==
    ASSUME NEW p \in Processes, AnswerOf(p), UNCHANGED file, call'[p] = call[p], op'[p] = op[p]
    PROVE  AnswerOf(p)'
<1>1. /\ Stored' = Stored /\ SegmentNumbers' = SegmentNumbers
      /\ \A n : FirstOf(file', n) = FirstOf(file, n)
    BY DEF Stored, SegmentNumbers, FirstOf
<1>2. /\ Position(p)' = Position(p) /\ LastPosition(p)' = LastPosition(p)
      /\ AtSegment(p)' = AtSegment(p)
    BY DEF Position, LastPosition, Remaining, AtSegment
<1>3. UnderWay(p) => UnderWay(p)'
    BY <1>1, <1>2 DEF UnderWay
<1>4. JustRead(p) => JustRead(p)'
    BY <1>1, <1>2 DEF JustRead
<1>5. Answered(p) => Answered(p)'
    BY <1>1 DEF Answered
<1> QED BY <1>2, <1>3, <1>4, <1>5 DEF AnswerOf

\* Where a query is, in numbers.
LEMMA PositionsTyped ==
    ASSUME StoreInv, NEW p \in Processes, op[p].name \in Queries, AtSegment(p), UnderWay(p)
    PROVE  /\ op[p].left \in Seq(Paths) /\ Len(op[p].left) \in Nat
           /\ op[p].since \in Nat /\ op[p].result \in Seq(Entries)
           /\ Position(p) \in SegmentNumbers /\ LastPosition(p) \in SegmentNumbers
           /\ SegmentNumbers \subseteq 1..MaxAppends /\ MaxAppends \in Nat
           /\ Position(p) <= LastPosition(p)
           /\ LastPosition(p) = IF op[p].name = "all" THEN Position(p) + Remaining(p)
                                                      ELSE Position(p)
           /\ Remaining(p) \in Nat
<1>1. /\ op[p].left \in Seq(Paths) /\ op[p].since \in Nat /\ op[p].result \in Seq(Entries)
    BY StoreInvTyped DEF OpRecord
<1>2. Len(op[p].left) \in Nat /\ (op[p].left # <<>> => Len(op[p].left) > 0)
    BY <1>1
<1>3. Remaining(p) \in Nat
    BY <1>2 DEF Remaining, AtSegment
<1>4. SegmentNumbers \subseteq 1..MaxAppends /\ MaxAppends \in Nat
    BY Constants DEF SegmentNumbers
<1>5. Position(p) \in SegmentNumbers /\ LastPosition(p) \in SegmentNumbers
    BY DEF UnderWay
<1>6. LastPosition(p) = IF op[p].name = "all" THEN Position(p) + Remaining(p) ELSE Position(p)
    BY DEF LastPosition
<1>7. Position(p) <= LastPosition(p)
  <2> DEFINE k == Position(p)
  <2>0. k \in SegmentNumbers
      BY <1>5
  <2> HIDE DEF k
  <2>1. k \in Nat
      BY <1>4, <2>0
  <2> USE DEF k
  <2>2. CASE op[p].name = "all"
      BY <1>3, <1>6, <2>1, <2>2
  <2>3. CASE op[p].name # "all"
      BY <1>6, <2>1, <2>3
  <2> QED BY <2>2, <2>3
<1> QED BY <1>1, <1>2, <1>3, <1>4, <1>5, <1>6, <1>7

\* A checkpoint more at the end of the log.
LEMMA GrowsAnswer ==
    ASSUME StoreInv, NEW p \in Processes, Grows(p), NEW q \in Processes, AnswerOf(q)
    PROVE  AnswerOf(q)'
<1> DEFINE n == call[p].path
<1>o. op' = op /\ op'[q].name = op[q].name
    BY DEF Grows, opVars
<1>s. SUFFICES ASSUME op[q].name \in Queries
               PROVE  AnswerOf(q)'
    BY <1>o DEF AnswerOf
<1>c. call'[q] = call[q]
    BY <1>s DEF Grows, Appending, Queries, Moves
<1>f. /\ n \in Paths /\ n \in 1..MaxAppends /\ MaxAppends \in Nat /\ issued \in Entries
      /\ \A m \in Paths : m # n => file'[m] = file[m]
      /\ \A m \in Paths : m > n => file[m] = Missing
      /\ \A m \in 0..n-1 : FirstOf(file', m) = FirstOf(file, m)
      /\ \A m \in n..MaxAppends : FirstOf(file', m) = Append(FirstOf(file, m), issued)
      /\ Stored' = Append(Stored, issued) /\ file'[n].kind = "valid"
    BY Constants DEF Grows
<1>d. /\ file \in Documents /\ Stored \in Seq(Entries) /\ Len(Stored) \in Nat
      /\ \A m \in 0..MaxAppends : FirstOf(file, m) \in Seq(Entries)
    BY StoredTyped, DocumentsConcatenate
<1> HIDE DEF n
<1>1. /\ \A m \in SegmentNumbers : m \in 1..n
      /\ SegmentNumbers \subseteq SegmentNumbers'
  <2>1. \A m \in SegmentNumbers : m \in Paths /\ ~(m > n) /\ m \in 1..MaxAppends
      BY <1>f, Constants DEF SegmentNumbers
  <2>2. \A m \in SegmentNumbers : m \in 1..n
      BY <1>f, <2>1
  <2>3. SegmentNumbers \subseteq SegmentNumbers'
      BY <1>f, ContentKinds DEF SegmentNumbers
  <2> QED BY <2>2, <2>3
<1>2. /\ Position(q)' = Position(q) /\ LastPosition(q)' = LastPosition(q)
      /\ AtSegment(q)' = AtSegment(q)
    BY <1>c, <1>o DEF Position, LastPosition, Remaining, AtSegment
<1>a. \A s \in Seq(Entries) : /\ Append(s, issued) \in Seq(Entries)
                              /\ Len(Append(s, issued)) = Len(s) + 1 /\ Len(s) \in Nat
                              /\ \A i \in 1..Len(s) : Append(s, issued)[i] = s[i]
    BY <1>f, AppendProperties
<1>3. ASSUME AtSegment(q), UnderWay(q)
      PROVE  /\ UnderWay(q)'
             /\ call[q].step = "returned" /\ JustRead(q) => JustRead(q)'
  <2> DEFINE k == Position(q)  m == LastPosition(q)
  <2>1. /\ k \in SegmentNumbers /\ m \in SegmentNumbers /\ k <= m /\ op[q].since \in Nat
      BY <1>3, <1>s, PositionsTyped
  <2> HIDE DEF k, m
  <2>2. /\ k \in 1..n /\ m \in 1..n /\ k - 1 \in 0..n-1 /\ m \in 0..MaxAppends
        /\ (m \in 0..n-1 \/ m \in n..MaxAppends)
      BY <1>1, <1>f, <2>1
  <2>3. FirstOf(file', k - 1) = FirstOf(file, k - 1)
      BY <1>f, <2>2
  <2>4. Len(FirstOf(file, m)) <= Len(FirstOf(file', m))
    <3>1. FirstOf(file, m) \in Seq(Entries)
        BY <1>d, <2>2
    <3>2. FirstOf(file', m) \in { FirstOf(file, m), Append(FirstOf(file, m), issued) }
        BY <1>f, <2>2
    <3> QED BY <1>a, <3>1, <3>2
  <2>5. UnderWay(q)'
    <3>1. op[q].since <= Len(FirstOf(file', m))
      <4>1. /\ Len(FirstOf(file, m)) \in Nat /\ Len(FirstOf(file', m)) \in Nat
        <5>1. FirstOf(file, m) \in Seq(Entries) /\ FirstOf(file', m) \in Seq(Entries)
            BY <1>a, <1>d, <1>f, <2>2
        <5> QED BY <1>a, <5>1
      <4>2. op[q].since <= Len(FirstOf(file, m))
          BY <1>3 DEF UnderWay, m
      <4> QED BY <2>1, <2>4, <4>1, <4>2
    <3>2. k \in SegmentNumbers' /\ m \in SegmentNumbers'
        BY <1>1, <2>1
    <3>3. op[q].result = IF op[q].name = "all" THEN FirstOf(file', k - 1) ELSE <<>>
        BY <1>3, <2>3 DEF UnderWay, k
    <3>4. op[q].name = "all" =>
            \A i \in DOMAIN op[q].left : op[q].left[i] = m - Len(op[q].left) + i
        BY <1>3 DEF UnderWay, m
    <3> QED BY <1>2, <1>o, <3>1, <3>2, <3>3, <3>4 DEF UnderWay, k, m
  <2>6. ASSUME call[q].step = "returned", JustRead(q) PROVE JustRead(q)'
    <3> DEFINE v == call[q].value.entries  l == FirstOf(file, k - 1) \o v
    <3>1. call[q].path = k
        BY <2>6 DEF Position, k
    <3>2. v \in Seq(Entries) /\ FirstOf(file, k - 1) \in Seq(Entries)
        BY <1>d, <1>f, <2>2, StoreInvTyped
    <3>3. /\ v # <<>> /\ Begins(l, Stored) /\ (k = m => op[q].since <= Len(l))
          /\ (k # m => call[q].value = file[k])
        BY <2>6, <3>1 DEF JustRead, m
    <3>4. l \in Seq(Entries)
        BY <3>2, ConcatProperties
    <3> HIDE DEF v, l
    <3>5. Begins(l, Stored')
        BY <1>a, <1>d, <1>f, <3>3, <3>4 DEF Begins
    <3>6. k # m => file'[k] = file[k]
      <4>1. k # m => k # n /\ k \in Paths
          BY <2>1, <2>2, <1>f, Constants
      <4> QED BY <1>f, <4>1
    <3> QED BY <1>2, <1>c, <1>o, <2>3, <3>1, <3>3, <3>5, <3>6 DEF JustRead, m, l, v
  <2> QED BY <2>5, <2>6
<1>4. ASSUME Answered(q) PROVE Answered(q)'
  <2>1. PICK i \in op[q].since..Len(Stored) :
            op[q].result = Log!AnswerFrom(op[q].name, SubSeq(Stored, 1, i))
      BY <1>4 DEF Answered
  <2>2. op[q].since \in Nat /\ i \in Nat /\ i <= Len(Stored)
      BY <1>d, <2>1, StoreInvTyped DEF OpRecord
  <2> DEFINE s == Stored  t == Stored'
  <2>3. /\ s \in Seq(Entries) /\ t \in Seq(Entries) /\ Len(t) = Len(s) + 1 /\ Len(s) \in Nat
        /\ \A j \in 1..Len(s) : t[j] = s[j]
      BY <1>a, <1>d, <1>f
  <2> HIDE DEF s, t
  <2>4. i <= Len(s)
      BY <2>2 DEF s
  <2>5. SubSeq(t, 1, i) = SubSeq(s, 1, i)
      BY <2>2, <2>3, <2>4
  <2>6. i \in op[q].since..Len(t)
      BY <2>1, <2>2, <2>3, <2>4
  <2> QED BY <1>o, <2>1, <2>5, <2>6 DEF Answered, s, t
<1>5. call[q].step = "returned" => AtSegment(q)
    BY DEF AtSegment
<1> QED BY <1>2, <1>3, <1>4, <1>5, <1>c, <1>o DEF AnswerOf

\* The log ends with the newest segment.
LEMMA StoredInSegments ==
    ASSUME StoreInv, NEW N \in 0..MaxAppends, SegmentNumbers = 1..N
    PROVE  Stored = FirstOf(file, N)
<1>1. MaxAppends \in Nat /\ N \in Nat /\ MaxAppends \in N..MaxAppends
    BY Constants
<1>2. \A m \in N+1..MaxAppends : file[m].entries = <<>>
  <2>1. \A m \in N+1..MaxAppends : m \in Paths /\ m \notin SegmentNumbers
      BY <1>1, Constants
  <2> QED BY <2>1, ContentKinds DEF SegmentNumbers
<1> QED BY <1>1, <1>2, StoredTyped, FirstOfAll

\* A query begins: with the first segment or with the last one.
LEMMA CallQueryAnswers ==
    ASSUME StoreInv, Whole, NEW p \in Processes, NEW q \in Queries, CallQuery(p, q)
    PROVE  AnswerOf(p)'
<1> DEFINE L == IF q = "all" THEN Ascending ELSE Reverse(Ascending)
           o == [NoOp EXCEPT !.name = q, !.since = Len(Stored), !.left = L]
<1>t. Roles /\ op \in [ Processes -> OpRecord ]
    BY StoreInvTyped DEF StoreInv
<1>1. /\ op[p].name = "none" /\ op' = [op EXCEPT ![p] = o] /\ UNCHANGED <<file, call>>
    BY DEF CallQuery, storeVars
<1>2. PICK N \in 0..MaxAppends : SegmentNumbers = 1..N
    BY SegmentsAreInterval DEF Whole
<1>3. N \in Nat /\ Ascending = [ i \in 1..N |-> i ] /\ Stored = FirstOf(file, N)
      /\ MaxAppends \in Nat
    BY <1>2, AscendingWhole, StoredInSegments, Constants
<1>4. /\ Len(L) = N /\ L \in Seq(Paths) /\ (q = "all" => L = [ i \in 1..N |-> i ])
      /\ (N > 0 => Head(L) = IF q = "all" THEN 1 ELSE N)
  <2>1. L \in Seq(Paths) /\ Len(L) = N
    <3>1. Cardinality(SegmentNumbers) = N
        BY <1>2, <1>3, FS_Interval
    <3> HIDE DEF Ascending, Reverse
    <3> QED BY <3>1, AscendingTyped
  <2>2. Reverse(Ascending) = [ i \in 1..N |-> (N - i) + 1 ]
    <3>1. Len(Ascending) = N
        BY <1>3
    <3>2. \A i \in 1..N : (N - i) + 1 \in 1..N
        BY <1>3
    <3> HIDE DEF Ascending
    <3> QED BY <1>3, <3>1, <3>2 DEF Reverse
  <2>3. N > 0 => L[1] = IF q = "all" THEN 1 ELSE N
      BY <1>3, <2>2
  <2>4. N > 0 => Head(L) = L[1]
    <3> HIDE DEF L
    <3> QED BY <2>1, HeadTailProperties
  <2> HIDE DEF Ascending, Reverse
  <2> QED BY <1>3, <2>1, <2>3, <2>4
<1> HIDE DEF L
<1>5. /\ o.name = q /\ o.since = Len(Stored) /\ o.left = L /\ o.result = <<>>
    BY DEF NoOp
<1> HIDE DEF o
<1>6. op'[p] = o /\ call'[p].step = "idle"
    BY <1>1, <1>t DEF Roles
<1>7. /\ Stored' = Stored /\ SegmentNumbers' = SegmentNumbers
      /\ \A n : FirstOf(file', n) = FirstOf(file, n)
    BY <1>1 DEF Stored, SegmentNumbers, FirstOf
<1>s. Stored \in Seq(Entries) /\ Len(Stored) \in Nat /\ FirstOf(file, 0) = <<>>
    BY StoredTyped, DocumentsConcatenate
<1>8. CASE N = 0
  <2>1. Stored = <<>>
      BY <1>3, <1>8, <1>s
  <2>2. L = <<>>
      BY <1>4, <1>8, EmptySeq
  <2>3. SubSeq(<<>>, 1, 0) = <<>> /\ Len(<<>>) = 0
      OBVIOUS
  <2>4. Answered(p)'
    <3>1. <<>> = Log!AnswerFrom(q, SubSeq(Stored, 1, 0))
        BY <2>1, <2>3 DEF Log!AnswerFrom
    <3>2. 0 \in Len(Stored)..Len(Stored)
        BY <2>1, <2>3
    <3> QED BY <1>5, <1>6, <1>7, <3>1, <3>2 DEF Answered
  <2>5. ~AtSegment(p)'
      BY <1>5, <1>6, <2>2 DEF AtSegment
  <2> QED BY <1>6, <2>4, <2>5 DEF AnswerOf
<1>9. CASE N # 0
  <2>1. N \in 1..N /\ 1 \in 1..N /\ N > 0
      BY <1>3, <1>9
  <2>2. /\ Position(p)' = IF q = "all" THEN 1 ELSE N
        /\ LastPosition(p)' = N
    <3>1. Position(p)' = IF q = "all" THEN 1 ELSE N
        BY <1>4, <1>5, <1>6, <2>1 DEF Position
    <3>2. Remaining(p)' = N - 1
        BY <1>4, <1>5, <1>6 DEF Remaining
    <3>3. 1 + (N - 1) = N
        BY <1>3
    <3> QED BY <1>5, <1>6, <3>1, <3>2, <3>3 DEF LastPosition
  <2>3. UnderWay(p)'
    <3>1. \A i \in 1..N : N - N + i = i
        BY <1>3
    <3>2. q = "all" => \A i \in DOMAIN L : L[i] = N - Len(L) + i
        BY <1>4, <3>1
    <3>3. Len(Stored) <= Len(FirstOf(file', N))
        BY <1>3, <1>7, <1>s
    <3>4. 1 - 1 = 0
        OBVIOUS
    <3> QED BY <1>2, <1>5, <1>6, <1>7, <1>s, <2>1, <2>2, <3>2, <3>3, <3>4 DEF UnderWay
  <2>4. L # <<>>
      BY <1>4, <1>9
  <2> QED BY <1>5, <1>6, <2>3, <2>4 DEF AnswerOf
<1> QED BY <1>8, <1>9

\* A query goes on to its next segment.
LEMMA ReadSegmentAnswers ==
    ASSUME StoreInv, NEW p \in Processes, AnswerOf(p), ReadSegment(p)
    PROVE  AnswerOf(p)'
<1> DEFINE n == Head(op[p].left)  L == op[p].left
<1>1. /\ op[p].name \in Queries /\ call[p].step = "idle" /\ L # <<>>
      /\ call' = [call EXCEPT ![p] = ReadCall(n)] /\ op' = [op EXCEPT ![p].left = Tail(L)]
      /\ UNCHANGED file
    BY DEF ReadSegment
<1>t. op \in [ Processes -> OpRecord ] /\ call \in [ Processes -> CallRecord ] /\ op[p] \in OpRecord
    BY StoreInvTyped DEF StoreTyped, CallsTyped
<1>2. /\ op'[p].name = op[p].name /\ op'[p].since = op[p].since /\ op'[p].result = op[p].result
      /\ op'[p].left = Tail(L)
    BY <1>1, <1>t DEF OpRecord
<1>3. UnderWay(p) /\ AtSegment(p)
    BY <1>1 DEF AnswerOf, AtSegment
<1>p. /\ L \in Seq(Paths) /\ Len(L) \in Nat /\ Remaining(p) = Len(L) - 1 /\ Position(p) = n
      /\ LastPosition(p) \in Nat
  <2>1. LastPosition(p) \in SegmentNumbers /\ SegmentNumbers \subseteq 1..MaxAppends
      BY <1>1, <1>3, PositionsTyped
  <2> DEFINE m == LastPosition(p)
  <2>2. m \in 1..MaxAppends
      BY <2>1
  <2> HIDE DEF m
  <2>3. m \in Nat
      BY <2>2
  <2> QED BY <1>1, <1>3, <2>3, PositionsTyped DEF Position, Remaining, m
<1> HIDE DEF n, L
<1>4. /\ Tail(L) \in Seq(Paths) /\ Len(Tail(L)) = Len(L) - 1
      /\ \A i \in 1..Len(Tail(L)) : Tail(L)[i] = L[i + 1]
    BY <1>1, <1>p, HeadTailProperties
<1>5. call'[p] = ReadCall(n) /\ call'[p].step = "exists" /\ call'[p].path = n
    BY <1>1, <1>t DEF ReadCall, NoCall, CallRecord
<1>6. /\ Position(p)' = Position(p) /\ LastPosition(p)' = LastPosition(p)
  <2>1. Position(p)' = n
      BY <1>5 DEF Position
  <2>2. Remaining(p)' = Remaining(p)
      BY <1>2, <1>4, <1>5, <1>p DEF Remaining
  <2> QED BY <1>2, <1>p, <2>1, <2>2 DEF LastPosition
<1>7. /\ SegmentNumbers' = SegmentNumbers /\ \A m : FirstOf(file', m) = FirstOf(file, m)
    BY <1>1 DEF SegmentNumbers, FirstOf
<1>8. UnderWay(p)'
  <2> DEFINE m == LastPosition(p)
  <2>1. op[p].name = "all" => \A i \in 1..Len(L) : L[i] = m - Len(L) + i
      BY <1>3, <1>p DEF UnderWay, L
  <2> HIDE DEF m
  <2>2. m \in Nat
      BY <1>p DEF m
  <2>3. op[p].name = "all" => \A i \in 1..Len(Tail(L)) : Tail(L)[i] = m - Len(Tail(L)) + i
    <3>1. \A i \in 1..Len(Tail(L)) : i + 1 \in 1..Len(L) /\ i \in Nat
        BY <1>4, <1>p
    <3>2. \A i \in Nat : m - (Len(L) - 1) + i = m - Len(L) + (i + 1)
        BY <1>p, <2>2
    <3> QED BY <1>4, <2>1, <3>1, <3>2
  <2>4. DOMAIN Tail(L) = 1..Len(Tail(L))
      BY <1>4
  <2> QED BY <1>2, <1>3, <1>6, <1>7, <2>3, <2>4 DEF UnderWay, m
<1> QED BY <1>5, <1>8 DEF AnswerOf

\* A query reads its segment.
LEMMA StoreStepAnswers ==
    ASSUME StoreInv, Whole, NEW p \in Processes, AnswerOf(p), StoreStep(p), UNCHANGED opVars
    PROVE  AnswerOf(p)'
<1> DEFINE n == call[p].path
<1>o. op' = op /\ op'[p] = op[p]
    BY DEF opVars
<1>s. SUFFICES ASSUME op[p].name \in Queries PROVE AnswerOf(p)'
    BY <1>o DEF AnswerOf
<1>t. Roles /\ Reads(p) /\ Moves(p) /\ UNCHANGED file
    BY StoreStepReads DEF Whole, StoreInv, Reads
<1>1. ~call[p].updating
    BY <1>s, <1>t DEF Roles
<1>2. call[p].step \in { "exists", "open" }
    BY <1>1, <1>t DEF Roles, Reads
<1>3. AtSegment(p) /\ UnderWay(p) /\ Position(p) = n
    BY <1>2, <1>s DEF AnswerOf, AtSegment, Position
<1>4. n \in SegmentNumbers /\ n \in 1..MaxAppends
    BY <1>3, Constants DEF UnderWay, SegmentNumbers
<1>5. \/ call'[p].step = "open"
      \/ call'[p].step = "returned" /\ call'[p].value = file[n]
    BY <1>1, <1>2, <1>4, <1>t DEF Reads, GoesTo, Hands
<1>6. call'[p].path = n
    BY <1>t DEF Moves
<1> HIDE DEF n
<1>7. /\ Position(p)' = Position(p) /\ LastPosition(p)' = LastPosition(p)
  <2>1. Position(p)' = n
      BY <1>5, <1>6 DEF Position
  <2>2. Remaining(p)' = Remaining(p)
      BY <1>2, <1>5, <1>o DEF Remaining
  <2> QED BY <1>3, <1>o, <2>1, <2>2 DEF LastPosition
<1>8. /\ Stored' = Stored /\ SegmentNumbers' = SegmentNumbers
      /\ \A m : FirstOf(file', m) = FirstOf(file, m)
    BY <1>t DEF Stored, SegmentNumbers, FirstOf
<1>9. UnderWay(p)'
    BY <1>3, <1>7, <1>8, <1>o DEF UnderWay
<1>10. ASSUME call'[p].step = "returned" PROVE JustRead(p)'
  <2>1. call'[p].value = file[n] /\ file' = file
      BY <1>10, <1>5, <1>t
  <2>2. /\ file \in Documents /\ Stored = FirstOf(file, MaxAppends)
        /\ MaxAppends \in n..MaxAppends /\ n \in 0..MaxAppends
      BY <1>4, StoredTyped, Constants
  <2>3. FirstOf(file, n - 1) \o file[n].entries = FirstOf(file, n)
      BY <1>4, <2>2, DocumentsConcatenate
  <2>4. Begins(FirstOf(file, n), Stored)
      BY <2>2, FirstOfBegins
  <2>5. file[n].entries # <<>>
      BY <1>4 DEF Whole, Readable
  <2>6. n = LastPosition(p) => op[p].since <= Len(FirstOf(file, n))
      BY <1>3 DEF UnderWay
  <2> QED BY <1>6, <1>7, <1>8, <1>o, <2>1, <2>3, <2>4, <2>5, <2>6 DEF JustRead
<1> QED BY <1>5, <1>9, <1>10 DEF AnswerOf

\* A segment read becomes part of the answer.
LEMMA SegmentReadAnswers ==
    ASSUME StoreInv, Whole, NEW p \in Processes, AnswerOf(p), SegmentRead(p)
    PROVE  AnswerOf(p)'
<1> DEFINE n == call[p].path  v == call[p].value.entries  L == op[p].left
           l == FirstOf(file, n - 1) \o v
<1>t. op \in [ Processes -> OpRecord ] /\ call \in [ Processes -> CallRecord ] /\ op[p] \in OpRecord
    BY StoreInvTyped DEF StoreTyped, CallsTyped
<1>1. /\ op[p].name \in Queries /\ call[p].step = "returned" /\ UNCHANGED file
      /\ call' = [call EXCEPT ![p] = NoCall]
    BY DEF SegmentRead
<1>2. /\ AtSegment(p) /\ UnderWay(p) /\ JustRead(p) /\ Position(p) = n /\ Remaining(p) = Len(L)
    BY <1>1 DEF AnswerOf, AtSegment, Position, Remaining
<1>i. call'[p].step = "idle"
    BY <1>1, <1>t, NewCalls
<1>3. /\ L \in Seq(Paths) /\ Len(L) \in Nat /\ op[p].since \in Nat
      /\ n \in SegmentNumbers /\ LastPosition(p) \in SegmentNumbers /\ n <= LastPosition(p)
      /\ LastPosition(p) = IF op[p].name = "all" THEN n + Len(L) ELSE n
      /\ n \in 1..MaxAppends
    BY <1>1, <1>2, PositionsTyped, Constants DEF SegmentNumbers
<1>8. /\ Stored' = Stored /\ SegmentNumbers' = SegmentNumbers
      /\ \A m : FirstOf(file', m) = FirstOf(file, m)
    BY <1>1 DEF Stored, SegmentNumbers, FirstOf
<1>v. /\ v \in Seq(Entries) /\ v # <<>> /\ l \in Seq(Entries) /\ Begins(l, Stored)
      /\ Stored \in Seq(Entries) /\ Len(Stored) \in Nat /\ Len(l) \in Nat
      /\ FirstOf(file, n - 1) \in Seq(Entries)
  <2>1. n - 1 \in 0..MaxAppends
      BY <1>3, Constants
  <2>2. v \in Seq(Entries) /\ FirstOf(file, n - 1) \in Seq(Entries)
      BY <2>1, StoreInvTyped, StoredTyped, DocumentsConcatenate
  <2>3. l \in Seq(Entries)
    <3> HIDE DEF v
    <3> QED BY <2>2, ConcatProperties
  <2>4. v # <<>> /\ Begins(l, Stored)
      BY <1>2 DEF JustRead
  <2> HIDE DEF l
  <2>5. Len(l) \in Nat
      BY <2>3
  <2> QED BY <2>2, <2>3, <2>4, <2>5, StoredTyped
<1>j. /\ n = LastPosition(p) => op[p].since <= Len(l)
      /\ n # LastPosition(p) => call[p].value = file[n]
    BY <1>2 DEF JustRead
<1> HIDE DEF n, l, L
<1>s. ASSUME op[p].since <= Len(l)
      PROVE  \E m \in op[p].since..Len(Stored) : SubSeq(Stored, 1, m) = l
  <2> DEFINE s == Stored
  <2>1. Len(l) <= Len(s) /\ \A i \in 1..Len(l) : s[i] = l[i]
      BY <1>v DEF Begins
  <2>2. s \in Seq(Entries) /\ Len(l) \in op[p].since..Len(s)
      BY <1>3, <1>s, <1>v, <2>1
  <2> HIDE DEF s
  <2>3. SubSeq(s, 1, Len(l)) = l
      BY <1>v, <2>1, <2>2
  <2> QED BY <2>2, <2>3 DEF s
<1>4. CASE op[p].name = "all"
  <2>1. op' = [op EXCEPT ![p].result = @ \o v]
      BY <1>4 DEF SegmentRead
  <2>2. /\ op'[p].name = "all" /\ op'[p].left = L /\ op'[p].since = op[p].since
        /\ op'[p].result = op[p].result \o v
      BY <1>4, <1>t, <2>1 DEF OpRecord, L
  <2>3. op'[p].result = l
    <3>1. op[p].result = FirstOf(file, n - 1)
        BY <1>2, <1>4 DEF UnderWay
    <3> QED BY <2>2, <3>1 DEF l
  <2>4. CASE L = <<>>
    <3>1. n = LastPosition(p)
        BY <1>3, <1>4, <2>4
    <3>2. PICK m \in op[p].since..Len(Stored) : SubSeq(Stored, 1, m) = l
        BY <1>j, <1>s, <3>1
    <3>3. l = Log!AnswerFrom("all", SubSeq(Stored, 1, m))
        BY <3>2 DEF Log!AnswerFrom
    <3>4. Answered(p)'
        BY <1>8, <2>2, <2>3, <3>2, <3>3 DEF Answered
    <3> QED BY <1>i, <2>2, <2>4, <3>4 DEF AnswerOf, AtSegment
  <2>5. CASE L # <<>>
    <3>1. Len(L) > 0 /\ n \in Nat /\ LastPosition(p) = n + Len(L)
        BY <1>3, <1>4, <2>5
    <3>2. Head(L) = L[1] /\ 1 \in DOMAIN L /\ DOMAIN L = 1..Len(L)
        BY <1>3, <2>5, <3>1, HeadTailProperties
    <3>3. \A i \in DOMAIN L : L[i] = LastPosition(p) - Len(L) + i
        BY <1>2, <1>4 DEF UnderWay, L
    <3>4. Head(L) = n + 1
        BY <1>3, <3>1, <3>2, <3>3
    <3>5. Position(p)' = n + 1 /\ Remaining(p)' = Len(L) - 1
        BY <1>i, <2>2, <3>4 DEF Position, Remaining
    <3>6. LastPosition(p)' = LastPosition(p)
        BY <1>3, <2>2, <3>1, <3>5 DEF LastPosition
    <3>7. n + 1 \in SegmentNumbers
      <4>1. PICK N \in 0..MaxAppends : SegmentNumbers = 1..N
          BY SegmentsAreInterval DEF Whole
      <4>2. N \in Nat /\ n + Len(L) \in 1..N
          BY <1>3, <3>1, <4>1
      <4> QED BY <1>3, <3>1, <4>1, <4>2
    <3>8. l = FirstOf(file, n)
      <4>1. n # LastPosition(p)
          BY <3>1, <1>3
      <4>2. v = file[n].entries
          BY <1>j, <4>1
      <4> QED BY <1>3, <4>2, StoredTyped, DocumentsConcatenate DEF l
    <3>9. (n + 1) - 1 = n
        BY <3>1
    <3>10. UnderWay(p)'
      <4>1. Position(p)' \in SegmentNumbers' /\ LastPosition(p)' \in SegmentNumbers'
          BY <1>3, <1>8, <3>5, <3>6, <3>7
      <4>2. op'[p].since <= Len(FirstOf(file', LastPosition(p)'))
          BY <1>2, <1>8, <2>2, <3>6 DEF UnderWay
      <4>3. op'[p].result = FirstOf(file', Position(p)' - 1)
          BY <1>8, <2>3, <3>5, <3>8, <3>9
      <4>4. \A i \in DOMAIN op'[p].left :
                op'[p].left[i] = LastPosition(p)' - Len(op'[p].left) + i
          BY <2>2, <3>3, <3>6
      <4> QED BY <2>2, <4>1, <4>2, <4>3, <4>4 DEF UnderWay
    <3> QED BY <1>i, <2>2, <2>5, <3>10 DEF AnswerOf
  <2> QED BY <2>4, <2>5
<1>5. CASE op[p].name = "latest"
  <2>1. op' = [op EXCEPT ![p].result = <<v[Len(v)]>>, ![p].left = <<>>]
      BY <1>5, <1>v DEF SegmentRead
  <2>2. /\ op'[p].name = "latest" /\ op'[p].left = <<>> /\ op'[p].since = op[p].since
        /\ op'[p].result = <<v[Len(v)]>>
      BY <1>5, <1>t, <2>1 DEF OpRecord
  <2>3. n = LastPosition(p)
      BY <1>3, <1>5
  <2>4. PICK m \in op[p].since..Len(Stored) : SubSeq(Stored, 1, m) = l
      BY <1>j, <1>s, <2>3
  <2>5. l # <<>> /\ l[Len(l)] = v[Len(v)]
    <3> DEFINE a == FirstOf(file, n - 1)
    <3>1. a \in Seq(Entries) /\ v \in Seq(Entries) /\ v # <<>> /\ l = a \o v
        BY <1>v DEF l
    <3> HIDE DEF a, v
    <3>2. /\ Len(l) = Len(a) + Len(v) /\ Len(a) \in Nat /\ Len(v) \in Nat /\ Len(v) > 0
        BY <3>1, ConcatProperties
    <3>3. l[Len(l)] = v[Len(l) - Len(a)]
        BY <3>1, <3>2
    <3>4. Len(l) - Len(a) = Len(v)
        BY <3>2
    <3> QED BY <1>v, <3>2, <3>3, <3>4
  <2>6. <<v[Len(v)]>> = Log!AnswerFrom("latest", SubSeq(Stored, 1, m))
      BY <2>4, <2>5 DEF Log!AnswerFrom
  <2>7. Answered(p)'
      BY <1>8, <2>2, <2>4, <2>6 DEF Answered
  <2> QED BY <1>i, <2>2, <2>7 DEF AnswerOf, AtSegment
<1> QED BY <1>1, <1>4, <1>5 DEF Queries

LEMMA OperationAnswers ==
    ASSUME StoreInv, Whole, Answers, NEW p \in Processes, Operation(p)
    PROVE  Answers'
<1>t. Roles /\ op \in [ Processes -> OpRecord ] /\ op[p] \in OpRecord
    BY StoreInvTyped DEF StoreInv
<1>k. Keeps(p)
    BY OperationKeeps
<1>1. \A q \in Processes : q # p => AnswerOf(q)'
    BY <1>k, AnswersOf, KeepsAnswer DEF Keeps
<1>2. AnswerOf(p)
    BY AnswersOf
<1>n. /\ NoOp.name = "none" /\ "none" \notin Queries /\ "append" \notin Queries
      /\ \A r : [NoOp EXCEPT !.result = r].name = "none"
      /\ \A e : [NoOp EXCEPT !.name = "append", !.entry = e].name = "append"
    BY DEF NoOp, Queries
<1>3. CASE \E q \in Queries : p \in Readers /\ CallQuery(p, q)
  <2>1. AnswerOf(p)'
      BY <1>3, CallQueryAnswers
  <2> QED BY <1>1, <2>1 DEF Answers, AnswerOf
<1>4. CASE ReadSegment(p) \/ SegmentRead(p)
  <2>1. AnswerOf(p)'
      BY <1>2, <1>4, ReadSegmentAnswers, SegmentReadAnswers
  <2> QED BY <1>1, <2>1 DEF Answers, AnswerOf
<1>5. CASE CallAppend(p) \/ AppendReturns(p) \/ AppendRaises(p) \/ QueryReturns(p)
           \/ QueryRaises(p) \/ Crash(p)
  <2>1. op'[p].name \notin Queries
    <3>1. CASE CallAppend(p)
        BY <1>n, <1>t, <3>1 DEF CallAppend
    <3>2. CASE QueryReturns(p)
        BY <1>n, <1>t, <3>2 DEF QueryReturns
    <3>3. CASE AppendReturns(p) \/ AppendRaises(p) \/ QueryRaises(p) \/ Crash(p)
      <4>1. op' = [op EXCEPT ![p] = NoOp]
          BY <3>3 DEF AppendReturns, AppendRaises, QueryRaises, Crash
      <4> QED BY <1>n, <1>t, <4>1
    <3> QED BY <1>5, <3>1, <3>2, <3>3
  <2>2. AnswerOf(p)'
      BY <2>1 DEF AnswerOf
  <2> QED BY <1>1, <2>2 DEF Answers, AnswerOf
<1> QED BY <1>3, <1>4, <1>5 DEF Operation
-----------------------------------------------------------------------------
(* The theorems *)

LEMMA InitLogInv == Init => LogInv
<1> SUFFICES ASSUME Init PROVE LogInv
    OBVIOUS
<1> USE DEF Init, StoreInit
<1>1. StoreInv
    BY InitStoreInv
<1>2. SegmentNumbers = {} /\ Missing.entries = <<>> /\ MaxAppends \in Nat
    BY ContentKinds, Constants DEF SegmentNumbers
<1>3. Stored = <<>>
  <2>1. SegmentNumbers = 1..0 /\ 0 \in 0..MaxAppends
      BY <1>2
  <2> QED BY <1>1, <2>1, StoredInSegments, StoredTyped, DocumentsConcatenate
<1>4. \A p \in Processes : op[p] = NoOp /\ call[p] = NoCall
    OBVIOUS
<1>5. NoOp.name = "none" /\ "none" \notin Queries /\ NoCall.step = "idle"
    BY NewCalls DEF NoOp, Queries
<1>6. Whole
    BY <1>2, <1>4, <1>5 DEF Whole, Readable, InPlace, FullButNewest, Appending
<1>7. InOrder /\ StoredOnce
  <2>1. DOMAIN Stored = {}
      BY <1>3
  <2> QED BY <1>4, <1>5, <2>1 DEF InOrder, StoredOnce, Appending
<1>8. Answers
    BY <1>4, <1>5 DEF Answers
<1> QED BY <1>1, <1>6, <1>7, <1>8 DEF LogInv

LEMMA NextKeepsLogInv ==
    ASSUME LogInv, StoreInv', [Next]_cpVars
    PROVE  LogInv'
<1>1. SUFFICES ASSUME Undisturbed' PROVE Whole' /\ InOrder' /\ StoredOnce' /\ Answers'
    BY DEF LogInv
<1>c. StoreInv /\ faults \in Nat
    BY StoreInvTyped DEF LogInv
<1>2. CASE UNCHANGED cpVars
  <2>1. UNCHANGED <<file, call, op, issued, acked, faults>>
      BY <1>2 DEF cpVars, storeVars, opVars
  <2>2. Whole /\ InOrder /\ StoredOnce /\ Answers
      BY <1>1, <2>1 DEF LogInv, Undisturbed
  <2>3. /\ Stored' = Stored /\ SegmentNumbers' = SegmentNumbers
        /\ \A m : FirstOf(file', m) = FirstOf(file, m)
      BY <2>1 DEF Stored, SegmentNumbers, FirstOf
  <2>4. Whole'
      BY <2>1, <2>2, <2>3 DEF Whole, Readable, InPlace, FullButNewest, FollowsFull,
                              Appending, BeforeWrite
  <2>5. InOrder' /\ StoredOnce'
      BY <2>1, <2>2, <2>3 DEF InOrder, StoredOnce, Appending, BeforeWrite, Written
  <2>6. \A p \in Processes : AnswerOf(p)'
      BY <2>1, <2>2, AnswersOf, KeepsAnswer
  <2> QED BY <2>4, <2>5, <2>6 DEF Answers, AnswerOf
<1>3. CASE Next
  <2>3. PICK p \in Processes :
              \/ StoreStep(p) /\ UNCHANGED opVars
              \/ SelectSegment(p) \/ UpdateSegment(p) \/ AppendEntry(p)
              \/ Operation(p)
      BY <1>1, <1>3, <1>c, UndisturbedSteps
  <2>2. Whole /\ InPlace /\ InOrder /\ StoredOnce /\ Answers
      BY <1>1, <1>c, UndisturbedBefore DEF LogInv, Whole
  <2>4. CASE StoreStep(p) /\ UNCHANGED opVars
    <3>1. Whole' /\ InOrder' /\ StoredOnce'
        BY <1>c, <2>2, <2>4, StoreStepKeepsWhole, StoreStepKeepsOrder
    <3>2. Keeps(p)
        BY <1>c, <2>2, <2>4, StoreStepReads DEF Whole, Reads, Moves, Keeps, opVars
    <3>3. \A q \in Processes : AnswerOf(q)'
        BY <1>c, <2>2, <2>4, <3>2, AnswersOf, KeepsAnswer, StoreStepAnswers DEF Keeps
    <3> QED BY <3>1, <3>3 DEF Answers, AnswerOf
  <2>5. CASE SelectSegment(p) \/ UpdateSegment(p) \/ AppendEntry(p)
    <3>1. Whole' /\ InOrder' /\ StoredOnce'
        BY <1>c, <2>2, <2>5, AppendStepsKeepWhole, AppendStepsKeepOrder
    <3>2. \A q \in Processes : AnswerOf(q)'
      <4>1. CASE AppendEntry(p)
        <5>1. Grows(p)
            BY <1>c, <2>2, <4>1, AppendEntryGrows
        <5> QED BY <1>c, <2>2, <5>1, AnswersOf, GrowsAnswer
      <4>2. CASE SelectSegment(p) \/ UpdateSegment(p)
        <5>1. /\ UNCHANGED <<file, op>> /\ op[p].name = "append"
              /\ \A q \in Processes : q # p => call'[q] = call[q]
            BY <1>c, <4>2, StoreInvTyped
               DEF SelectSegment, UpdateSegment, opVars, StoreTyped, CallsTyped
        <5>2. AnswerOf(p)'
            BY <5>1 DEF AnswerOf, Queries
        <5> QED BY <2>2, <5>1, <5>2, AnswersOf, KeepsAnswer
      <4> QED BY <2>5, <4>1, <4>2
    <3> QED BY <3>1, <3>2 DEF Answers, AnswerOf
  <2>6. CASE Operation(p)
      BY <1>c, <2>2, <2>6, OperationKeepsWhole, OperationKeepsOrder, OperationAnswers
  <2> QED BY <2>3, <2>4, <2>5, <2>6
<1> QED BY <1>2, <1>3

LEMMA LogInvariant == Spec => []LogInv
BY InitLogInv, NextKeepsLogInv, StoreInvariant, PTL DEF Spec

\* Until a segment is damaged or a read fails for good, segments are numbered
\* without gaps and all but the newest are full, whoever appends, fails to
\* write or ends.
THEOREM SegmentsFillUp == Spec => []SegmentsFillInOrder
<1>1. LogInv => SegmentsFillInOrder
    BY DEF LogInv, Whole, SegmentsFillInOrder
<1> QED BY <1>1, LogInvariant, PTL

\* Until a segment is damaged or a read fails for good, every checkpoint whose
\* append() returned is stored, exactly once, and in the order of the calls.
THEOREM AcknowledgedIsStored == Spec => []AcknowledgedOnce
<1>1. LogInv => AcknowledgedOnce
    BY DEF LogInv, AcknowledgedOnce
<1> QED BY <1>1, LogInvariant, PTL

\* How the operations of one process look to the log: a query is asked,
\* answered or abandoned, or nothing happens.
LEMMA OperationIsLogged ==
    ASSUME LogInv, Undisturbed, NEW p \in Processes, Operation(p)
    PROVE  [Log!LogNext]_(Log!logVars)
<1>t. /\ StoreInv /\ Roles /\ op \in [ Processes -> OpRecord ] /\ op[p] \in OpRecord
      /\ Appenders \cap Readers = {} /\ Readers \subseteq Processes
    BY StoreInvTyped, CheckpointAssumption DEF LogInv, StoreInv
<1>k. Keeps(p)
    BY <1>t, OperationKeeps
<1>1. Stored' = Stored
    BY <1>k DEF Keeps, Stored
<1>q. \A q \in Readers : q # p => op'[q] = op[q]
    BY <1>k, <1>t DEF Keeps
<1>n. /\ NoOp.name = "none" /\ NoOp.since = 0 /\ NoOp.result = <<>>
      /\ "none" \notin Queries /\ "append" \notin Queries /\ "append" # "none"
    BY DEF NoOp, Queries
<1>s. Len(Stored) \in Nat
    BY <1>t, StoredTyped
<1> HIDE DEF Stored
<1>2. ASSUME NEW q \in Queries, p \in Readers, CallQuery(p, q)
      PROVE  Log!Ask(p, q)
  <2> DEFINE L == IF q = "all" THEN Ascending ELSE Reverse(Ascending)
             o == [NoOp EXCEPT !.name = q, !.since = Len(Stored), !.left = L]
  <2>1. op[p].name = "none" /\ op' = [op EXCEPT ![p] = o]
      BY <1>2 DEF CallQuery
  <2> HIDE DEF L
  <2>2. o.name = q /\ o.since = Len(Stored) /\ q # "none"
      BY DEF NoOp, Queries
  <2> HIDE DEF o
  <2>3. op'[p] = o
      BY <1>t, <2>1
  <2>4. /\ [ r \in Readers |-> op'[r].name ]
              = [[ r \in Readers |-> op[r].name ] EXCEPT ![p] = q]
        /\ [ r \in Readers |-> op'[r].since ]
              = [[ r \in Readers |-> op[r].since ] EXCEPT ![p] = Len(Stored)]
      BY <1>q, <2>2, <2>3
  <2>5. [ r \in Readers |-> IF op'[r].name = "none" THEN op'[r].result ELSE <<>> ]
          = [[ r \in Readers |-> IF op[r].name = "none" THEN op[r].result ELSE <<>> ]
                EXCEPT ![p] = <<>>]
      BY <1>q, <2>2, <2>3
  <2> QED BY <1>1, <1>2, <2>1, <2>4, <2>5 DEF Log!Ask, Log!NoQuery
<1>3. ASSUME p \in Readers, QueryReturns(p)
      PROVE  \E n \in 0..Len(Stored) : Log!Return(p, n)
  <2> DEFINE o == [NoOp EXCEPT !.result = op[p].result]
  <2>1. op[p].name \in Queries /\ call[p].step = "idle" /\ op[p].left = <<>>
        /\ op' = [op EXCEPT ![p] = o]
      BY <1>3 DEF QueryReturns
  <2>2. o.name = "none" /\ o.since = 0 /\ o.result = op[p].result
      BY DEF NoOp
  <2> HIDE DEF o
  <2>3. op'[p] = o
      BY <1>t, <2>1
  <2>4. Answered(p)
      BY <1>t, <2>1 DEF LogInv, Answers
  <2>5. PICK n \in op[p].since..Len(Stored) :
            op[p].result = Log!AnswerFrom(op[p].name, SubSeq(Stored, 1, n))
      BY <2>4 DEF Answered
  <2>6. op[p].since \in Nat
      BY <1>t DEF OpRecord
  <2>7. n \in 0..Len(Stored)
      BY <1>s, <2>5, <2>6
  <2>8. Log!Return(p, n)
    <3>1. /\ [ r \in Readers |-> op'[r].name ]
                = [[ r \in Readers |-> op[r].name ] EXCEPT ![p] = "none"]
          /\ [ r \in Readers |-> op'[r].since ]
                = [[ r \in Readers |-> op[r].since ] EXCEPT ![p] = 0]
        BY <1>q, <2>2, <2>3
    <3>2. [ r \in Readers |-> IF op'[r].name = "none" THEN op'[r].result ELSE <<>> ]
            = [[ r \in Readers |-> IF op[r].name = "none" THEN op[r].result ELSE <<>> ]
                  EXCEPT ![p] = op[p].result]
        BY <1>q, <2>2, <2>3
    <3>3. op[p].name # "none"
        BY <1>n, <2>1
    <3> HIDE DEF o
    <3> QED BY <1>1, <1>3, <2>5, <3>1, <3>2, <3>3 DEF Log!Return, Log!NoQuery
  <2> QED BY <2>7, <2>8
<1>4. ASSUME p \in Readers, op[p].name \in Queries, op' = [op EXCEPT ![p] = NoOp]
      PROVE  Log!Abandon(p)
    BY <1>1, <1>4, <1>n, <1>q, <1>t DEF Log!Abandon, Log!NoQuery
<1>u. ASSUME \A q \in Readers : op'[q].name = op[q].name /\ op'[q].since = op[q].since
                                /\ (op[q].name = "none" => op'[q].result = op[q].result)
      PROVE  UNCHANGED Log!logVars
    BY <1>1, <1>u DEF Log!logVars
<1>5. ASSUME p \notin Readers PROVE UNCHANGED Log!logVars
    BY <1>5, <1>q, <1>u
<1>6. CASE ReadSegment(p) \/ SegmentRead(p)
  <2>1. op[p].name \in Queries
      BY <1>6 DEF ReadSegment, SegmentRead
  <2>2. op'[p].name = op[p].name /\ op'[p].since = op[p].since
      BY <1>6, <1>t, QueryStepKeeps
  <2> QED BY <1>n, <1>q, <1>u, <2>1, <2>2
<1>7. CASE QueryRaises(p) \/ Crash(p)
  <2>1. op' = [op EXCEPT ![p] = NoOp] /\ op[p].name # "none"
      BY <1>7, <1>n DEF QueryRaises, Crash
  <2>2. p \in Readers => op[p].name \in Queries
    <3>1. op[p].name \in { "none", "append" } \cup Queries
        BY <1>t DEF OpRecord
    <3> QED BY <1>t, <2>1, <3>1 DEF Roles, Appending
  <2> QED BY <1>4, <1>5, <2>1, <2>2 DEF Log!LogNext
<1>8. CASE AppendReturns(p) \/ AppendRaises(p)
  <2>1. p \notin Readers
      BY <1>8, <1>t DEF AppendReturns, AppendRaises, Roles, Appending
  <2> QED BY <1>5, <2>1
<1>9. CASE p \in Appenders /\ CallAppend(p)
  <2>1. p \notin Readers
      BY <1>9, <1>t
  <2> QED BY <1>5, <2>1
<1> QED BY <1>2, <1>3, <1>5, <1>6, <1>7, <1>8, <1>9 DEF Operation, Log!LogNext, Queries,
           Log!Queries

\* Every step of the program is a step of the log, or none.
LEMMA StepsAreLogged ==
    ASSUME LogInv, LogInv', Undisturbed', [Next]_cpVars
    PROVE  [Log!LogNext]_(Log!logVars)
<1>n. StoreInv /\ faults \in Nat
    BY StoreInvTyped DEF LogInv
<1>d. Undisturbed
    BY <1>n, UndisturbedBefore
<1>i. /\ StoreInv /\ StoreInv' /\ Whole /\ InPlace /\ faults \in Nat
      /\ Readers \subseteq Processes
    BY <1>n, <1>d, Constants DEF LogInv, Whole
<1>u. ASSUME Stored' = Stored, op' = op PROVE UNCHANGED Log!logVars
    BY <1>u DEF Log!logVars
<1>1. CASE UNCHANGED cpVars
  <2>1. file' = file /\ op' = op
      BY <1>1 DEF cpVars, storeVars, opVars
  <2>2. Stored' = Stored
      BY <2>1 DEF Stored
  <2> QED BY <1>u, <2>1, <2>2
<1>2. CASE Next
  <2>1. PICK p \in Processes :
              \/ StoreStep(p) /\ UNCHANGED opVars
              \/ SelectSegment(p) \/ UpdateSegment(p) \/ AppendEntry(p)
              \/ Operation(p)
      BY <1>2, <1>i, UndisturbedSteps
  <2>2. CASE StoreStep(p) /\ UNCHANGED opVars
    <3>1. file' = file /\ op' = op
        BY <1>i, <2>2, StoreStepReads DEF Whole, Reads, opVars
    <3>2. Stored' = Stored
        BY <3>1 DEF Stored
    <3> QED BY <1>u, <3>1, <3>2
  <2>3. CASE SelectSegment(p) \/ UpdateSegment(p)
    <3>1. file' = file /\ op' = op
        BY <2>3 DEF SelectSegment, UpdateSegment, opVars
    <3>2. Stored' = Stored
        BY <3>1 DEF Stored
    <3> QED BY <1>u, <3>1, <3>2
  <2>4. CASE AppendEntry(p)
    <3>1. Grows(p)
        BY <1>i, <2>4, AppendEntryGrows
    <3>2. issued \in Entries /\ Stored' = Append(Stored, issued) /\ op' = op
        BY <3>1 DEF Grows, opVars
    <3> HIDE DEF Stored
    <3>3. Log!LogAppend(issued)
        BY <3>2 DEF Log!LogAppend
    <3> QED BY <3>2, <3>3 DEF Log!LogNext
  <2>5. CASE Operation(p)
      BY <1>d, <2>5, OperationIsLogged
  <2> QED BY <2>1, <2>2, <2>3, <2>4, <2>5
<1> QED BY <1>1, <1>2

\* Until a segment is damaged or a read fails for good, the segments implement
\* the log that CheckpointLog promises: append() adds one checkpoint at its end,
\* whichever segment that is, and all() and latest(), which read segment after
\* segment without a lock, answer as of one moment during their call.
THEOREM CheckpointsAreOneLog == Spec => ImplementsLog
<1>1. Init => Log!LogInit
  <2> SUFFICES ASSUME Init PROVE Log!LogInit
      OBVIOUS
  <2>1. Stored = <<>>
    <3>1. StoreInv /\ SegmentNumbers = 1..0 /\ 0 \in 0..MaxAppends
        BY InitStoreInv, Constants DEF Init, StoreInit, SegmentNumbers
    <3> QED BY <3>1, StoredInSegments, StoredTyped, DocumentsConcatenate
  <2>2. \A p \in Readers : op[p] = NoOp
      BY Constants DEF Init
  <2>3. NoOp.name = "none" /\ NoOp.since = 0 /\ NoOp.result = <<>>
      BY DEF NoOp
  <2> QED BY <2>1, <2>2, <2>3 DEF Log!LogInit, Log!NoQuery
<1>2. LogInv /\ LogInv' /\ [Next]_cpVars
        => [Undisturbed' => Log!LogNext]_(Log!logVars)
    BY StepsAreLogged
<1> QED BY <1>1, <1>2, LogInvariant, PTL DEF Spec, ImplementsLog, Log!LogSpec
=============================================================================
