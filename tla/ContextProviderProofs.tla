----------------------- MODULE ContextProviderProofs -----------------------
(***************************************************************************)
(* The provenance contract of the context provider, for every budget,      *)
(* every search limit, and entries of any length.                          *)
(***************************************************************************)
EXTENDS ContextProvider, SumTheorems, SequenceTheorems, TLAPS

Size(lengths) == approx_token_count(JoinedLength(lengths))

\* A size is a number: sizes can be compared with the budget.
LEMMA SizeIsNat ==
    ASSUME NEW s \in Seq(Nat) PROVE Size(s) \in Nat
<1>1. /\ Len(s) \in Nat /\ DOMAIN s = 1..Len(s) /\ \A i \in 1..Len(s) : s[i] \in Nat
      /\ s # <<>> => Len(s) >= 1
    BY EmptySeq
<1>2. SumFunctionOnSet(s, 1..Len(s)) \in Nat
    BY <1>1, SumIsNat
<1>3. JoinedLength(s) \in Nat
    BY <1>1, <1>2 DEF JoinedLength, SumFunction
<1>4. \A n \in Nat : approx_token_count(n) \in Nat
    BY DEF approx_token_count
<1> QED BY <1>3, <1>4 DEF Size

\* Nothing has no size.
LEMMA SizeOfNothing == Size(<<>>) = 0
BY DEF Size, JoinedLength, approx_token_count

\* What is gathered, how it was delivered and what the memory has done agree at
\* every step of a request: until it returns nothing has raised, what was
\* taken fits the budget, and only the entry being measured is not taken yet.
GatheringInv ==
    /\ site \in Site
    /\ budget \in Nat
    /\ chunks \in Seq(Nat) /\ entry \in Nat
    /\ served \in [ entries : Seq(Nat), raised : BOOLEAN ]
    /\ provider # "PromptGraphContextProvider" => ~HasSearch
    /\ step \in { "idle", "raised", "searching" } => chunks = <<>> /\ served = NothingServed
    /\ step \in { "idle", "raised" } => package = NoPackage
    /\ step \in { "searching", "pulling", "measuring" } => HasSearch /\ ~served.raised
    /\ step = "pulling" => served.entries = chunks
    /\ step = "measuring" =>
          served.entries = IF entry = 0 THEN chunks ELSE Append(chunks, entry)
    /\ step \in { "pulling", "measuring" } => Size(chunks) <= budget
    /\ PackageIsTruthful

LEMMA GatheringInit == Init => GatheringInv
<1> SUFFICES ASSUME Init PROVE GatheringInv
    OBVIOUS
<1>1. provider # "PromptGraphContextProvider" => ~HasSearch
    BY DEF Init, get_default_provider, HasSearch
<1>2. served \in [ entries : Seq(Nat), raised : BOOLEAN ]
    BY DEF Init, NothingServed
<1> QED BY <1>1, <1>2 DEF Init, GatheringInv, PackageIsTruthful

\* The loop is left with what was gathered: the longest run that fits.
LEMMA GatheredIsTruthful ==
    ASSUME GatheringInv, HasSearch, ~served.raised, Finish, UNCHANGED served,
           Size(chunks) <= budget,
           \/ served.entries = chunks
           \/ \E e \in Nat : /\ served.entries = Append(chunks, e)
                             /\ ~(Size(Append(chunks, e)) <= budget)
    PROVE  PackageIsTruthful'
<1> DEFINE n == Len(chunks)
           run(k) == SubSeq(served.entries, 1, k)
<1>1. chunks \in Seq(Nat) /\ n \in Nat /\ budget \in Nat
    BY DEF GatheringInv
<1>2. /\ n \in 0..Len(served.entries)
      /\ run(n) = chunks
      /\ n < Len(served.entries) => Size(run(n + 1)) > budget
  <2>1. CASE served.entries = chunks
      BY <1>1, <2>1
  <2>2. CASE \E e \in Nat : /\ served.entries = Append(chunks, e)
                            /\ ~(Size(Append(chunks, e)) <= budget)
    <3>1. PICK e \in Nat : /\ served.entries = Append(chunks, e)
                           /\ ~(Size(Append(chunks, e)) <= budget)
        BY <2>2
    <3>2. /\ Append(chunks, e) \in Seq(Nat) /\ Len(Append(chunks, e)) = n + 1
          /\ SubSeq(Append(chunks, e), 1, n) = chunks
          /\ SubSeq(Append(chunks, e), 1, n + 1) = Append(chunks, e)
        BY <1>1
    <3>3. Size(Append(chunks, e)) \in Nat
        BY <3>2, SizeIsNat
    <3>4. Size(Append(chunks, e)) > budget
        BY <1>1, <3>1, <3>3
    <3>5. n \in 0..(n + 1)
        BY <1>1
    <3> HIDE DEF n
    <3> QED BY <3>1, <3>2, <3>4, <3>5
  <2> QED BY <2>1, <2>2
<1>3. /\ package' = [ source        |-> "promptgraph",
                      content       |-> chunks,
                      budget_tokens |-> budget,
                      used_tokens   |-> Size(chunks) ]
      /\ site' = site /\ budget' = budget /\ served' = served /\ step' = "returned"
    BY DEF Finish, GatheredPackage, Size
<1>4. HasSearch' /\ ~served'.raised
    BY <1>3 DEF HasSearch
<1> HIDE DEF n
<1>5. \E k \in 0..Len(served.entries) :
          /\ package'.content = SubSeq(served.entries, 1, k)
          /\ package'.used_tokens = Size(SubSeq(served.entries, 1, k))
          /\ k < Len(served.entries) => Size(SubSeq(served.entries, 1, k + 1)) > budget
    BY <1>2, <1>3
<1> QED BY <1>3, <1>4, <1>5 DEF PackageIsTruthful, Size

LEMMA GatheringNext ==
    GatheringInv /\ [Next]_vars => GatheringInv'
<1> SUFFICES ASSUME GatheringInv, [Next]_vars PROVE GatheringInv'
    OBVIOUS
<1>i. /\ site \in Site /\ budget \in Nat /\ chunks \in Seq(Nat) /\ entry \in Nat
      /\ served \in [ entries : Seq(Nat), raised : BOOLEAN ]
    BY DEF GatheringInv
<1>1. ASSUME NEW b \in Budgets, Request(b) PROVE GatheringInv'
  <2>1. b \in Nat
      BY ContextAssumption
  <2>2. CASE provider = "PromptGraphContextProvider" /\ HasSearch
      BY <1>1, <1>i, <2>1, <2>2
      DEF Request, GatheringInv, HasSearch, PackageIsTruthful, NothingServed
  <2>3. CASE ~(provider = "PromptGraphContextProvider" /\ HasSearch)
      BY <1>1, <1>i, <2>1, <2>3
      DEF Request, GatheringInv, HasSearch, PackageIsTruthful, DefaultPackage
  <2> QED BY <2>2, <2>3
<1>9. ASSUME NEW b \in Budgets, RequestRaises(b) PROVE GatheringInv'
  <2>1. b \in Nat
      BY ContextAssumption
  <2> QED BY <1>9, <1>i, <2>1 DEF RequestRaises, GatheringInv, HasSearch, PackageIsTruthful
<1>2. CASE SearchReturns
  <2>1. Size(chunks) <= budget /\ served.entries = chunks
      BY <1>2, <1>i, SizeOfNothing DEF SearchReturns, GatheringInv, NothingServed
  <2> QED BY <1>2, <1>i, <2>1
      DEF SearchReturns, GatheringInv, HasSearch, PackageIsTruthful
<1>3. ASSUME NEW n \in Lengths, Pull(n) PROVE GatheringInv'
  <2>1. n \in Nat
      BY ContextAssumption
  <2>2. /\ served' \in [ entries : Seq(Nat), raised : BOOLEAN ]
        /\ served'.raised = served.raised
        /\ served'.entries = IF n = 0 THEN chunks ELSE Append(chunks, n)
    <3>1. served.entries = chunks
        BY <1>3 DEF Pull, GatheringInv
    <3>2. /\ served' = [served EXCEPT !.entries = IF n = 0 THEN @ ELSE Append(@, n)]
          /\ (IF n = 0 THEN chunks ELSE Append(chunks, n)) \in Seq(Nat)
        BY <1>3, <1>i, <2>1 DEF Pull, Delivered
    <3> QED BY <1>i, <3>1, <3>2
  <2> QED BY <1>3, <1>i, <2>1, <2>2
      DEF Pull, GatheringInv, HasSearch, PackageIsTruthful
<1>4. CASE Measure
  <2>1. CASE entry > 0 /\ ~Fits(chunks, entry, budget)
    <3>1. /\ served.entries = Append(chunks, entry)
          /\ ~(Size(Append(chunks, entry)) <= budget)
          /\ HasSearch /\ ~served.raised /\ Size(chunks) <= budget
        BY <1>4, <1>i, <2>1 DEF Measure, GatheringInv, Fits, Size
    <3>2. PackageIsTruthful'
        BY <1>4, <1>i, <2>1, <3>1, GatheredIsTruthful DEF Measure
    <3> QED BY <1>4, <1>i, <2>1, <3>1, <3>2 DEF Measure, Finish, GatheringInv, HasSearch
  <2>2. CASE ~(entry > 0 /\ ~Fits(chunks, entry, budget))
    <3>1. /\ chunks' \in Seq(Nat) /\ chunks' = served.entries
          /\ Size(chunks') <= budget
      <4>1. CASE entry = 0
          BY <1>4, <1>i, <2>2, <4>1 DEF Measure, GatheringInv
      <4>2. CASE entry # 0
        <5>1. entry > 0 /\ Fits(chunks, entry, budget)
            BY <1>i, <2>2, <4>2
        <5>2. /\ chunks' = Append(chunks, entry) /\ chunks' \in Seq(Nat)
              /\ served.entries = Append(chunks, entry)
            BY <1>4, <1>i, <2>2, <4>2 DEF Measure, GatheringInv
        <5> QED BY <5>1, <5>2 DEF Fits, Size
      <4> QED BY <4>1, <4>2
    <3> QED BY <1>4, <1>i, <2>2, <3>1
        DEF Measure, GatheringInv, HasSearch, PackageIsTruthful
  <2> QED BY <2>1, <2>2
<1>5. CASE NoMoreEntries
  <2>1. /\ served.entries = chunks /\ Size(chunks) <= budget
        /\ HasSearch /\ ~served.raised
      BY <1>5 DEF NoMoreEntries, GatheringInv
  <2>2. PackageIsTruthful'
      BY <1>5, <2>1, GatheredIsTruthful DEF NoMoreEntries
  <2> QED BY <1>5, <1>i, <2>1, <2>2 DEF NoMoreEntries, Finish, GatheringInv, HasSearch
<1>6. CASE Fails
    BY <1>6, <1>i DEF Fails, GatheringInv, HasSearch, PackageIsTruthful, DefaultPackage
<1>7. CASE TakePackage
  <2>1. NothingServed \in [ entries : Seq(Nat), raised : BOOLEAN ]
      BY DEF NothingServed
  <2> QED BY <1>7, <1>i, <2>1 DEF TakePackage, GatheringInv, HasSearch, PackageIsTruthful
<1>8. CASE UNCHANGED vars
    BY <1>8 DEF vars, GatheringInv, HasSearch, PackageIsTruthful, DefaultPackage
<1> QED BY <1>1, <1>2, <1>3, <1>4, <1>5, <1>6, <1>7, <1>8, <1>9 DEF Next, InCall

\* A package says where it comes from and holds what the memory delivered, as
\* much of it as fits, and nothing once search(), the iteration or an entry has
\* failed; a request that raises instead has no package at all.
THEOREM PackagesAreTruthful == Spec => []PackageIsTruthful
<1>1. Spec => []GatheringInv
    BY GatheringInit, GatheringNext, PTL DEF Spec
<1>2. GatheringInv => PackageIsTruthful
    BY DEF GatheringInv
<1> QED BY <1>1, <1>2, PTL
=============================================================================
