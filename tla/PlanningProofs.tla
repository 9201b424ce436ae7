--------------------------- MODULE PlanningProofs ---------------------------
(***************************************************************************)
(* Theorems about planning, for every task, every valid policy, every      *)
(* precision of the signals and every number of tokens: what a critical    *)
(* risk forces, in which direction a plan moves with its task and with the *)
(* weights of its policy, and what the watchdog that is made from a plan   *)
(* can count on.                                                           *)
(***************************************************************************)
EXTENDS PlanningSession, PlannedWatchdog, ExecutionWatchdogProofs
-----------------------------------------------------------------------------
(* Whole numbers *)

LEMMA ProductMonotone ==
    ASSUME NEW a \in Nat, NEW b \in Nat, NEW c \in Nat, NEW d \in Nat, a <= c, b <= d
    PROVE  a * b <= c * d
<1>1. a * b <= c * b
    OBVIOUS
<1>2. c * b <= c * d
    OBVIOUS
<1>3. a * b \in Nat /\ c * b \in Nat /\ c * d \in Nat
    OBVIOUS
<1> QED BY <1>1, <1>2, <1>3

\* The signals' and the scores' steps to 1.0.
LEMMA Grid ==
    /\ Precision \in Nat \ {0} /\ One \in Nat \ {0} /\ ScoreOne \in Nat \ {0}
    /\ One = 20 * Precision /\ ScoreOne = 20 * One
BY PrecisionAssumption DEF One, ScoreOne

\* What \div computes, and that a greater quotient has a greater result.
LEMMA Quotient ==
    ASSUME NEW a \in Int, NEW b \in Nat \ {0}
    PROVE  /\ a \div b \in Int
           /\ b * (a \div b) <= a
           /\ a < b * (a \div b) + b
OBVIOUS

LEMMA QuotientIsGreatest ==
    ASSUME NEW a \in Int, NEW b \in Nat \ {0}, NEW k \in Int, b * k <= a
    PROVE  k <= a \div b
<1> DEFINE q == a \div b
<1>1. q \in Int /\ b * q <= a /\ a < b * q + b
    BY Quotient
<1> HIDE DEF q
<1>2. SUFFICES ASSUME q + 1 <= k PROVE FALSE
    BY <1>1 DEF q
<1>3. b * (q + 1) <= b * k
    BY <1>1, <1>2
<1>4. b * (q + 1) = b * q + b
    BY <1>1
<1> QED BY <1>1, <1>3, <1>4

LEMMA QuotientMonotone ==
    ASSUME NEW a \in Int, NEW b \in Nat \ {0}, NEW c \in Int, NEW d \in Nat \ {0},
           a * d <= c * b
    PROVE  a \div b <= c \div d
<1> DEFINE q == a \div b
<1>1. q \in Int /\ b * q <= a
    BY Quotient
<1> HIDE DEF q
<1>2. (b * q) * d <= a * d
    BY <1>1
<1>3. (b * q) * d = b * (d * q)
    BY <1>1
<1>4. b * (d * q) <= b * c
    BY <1>1, <1>2, <1>3
<1>5. d * q <= c
    BY <1>1, <1>4
<1> QED BY <1>1, <1>5, QuotientIsGreatest DEF q

-----------------------------------------------------------------------------
(* Ladders *)

\* A bounded set of numbers has a greatest element, which Max chooses.
LEMMA MaxIsGreatest ==
    ASSUME NEW m \in Nat, NEW S, S \subseteq 0..m, S # {}
    PROVE  Max(S) \in S /\ \A x \in S : x <= Max(S)
<1> DEFINE Below == { m - x : x \in S }
<1>1. Below \subseteq Nat /\ Below # {}
  <2>1. \A x \in S : m - x \in Nat
      OBVIOUS
  <2> QED BY <2>1
<1>2. PICK b \in Below : \A c \in Below : b <= c
    BY <1>1, LeastElement
<1>3. PICK g \in S : b = m - g
    BY <1>2
<1>4. ASSUME NEW x \in S PROVE g >= x
  <2>1. m - g <= m - x
      BY <1>2, <1>3
  <2>2. x \in 0..m /\ g \in 0..m
      OBVIOUS
  <2> QED BY <2>1, <2>2
<1>5. Max(S) \in S /\ \A x \in S : Max(S) >= x
    BY <1>4 DEF Max
<1> QED BY <1>5

\* Breakpoints of a ladder.
IsLadder(bp, n) == n \in Nat /\ bp \in [ 1..n -> Score ]

LEMMA ClearedIsRank ==
    ASSUME NEW n, NEW bp, IsLadder(bp, n), NEW score \in Int
    PROVE  /\ HighestCleared(score, bp) \in 0..n
           /\ \A i \in 1..n : score >= bp[i] => i <= HighestCleared(score, bp)
           /\ HighestCleared(score, bp) > 0 => score >= bp[HighestCleared(score, bp)]
<1> DEFINE S == { 0 } \cup { i \in DOMAIN bp : score >= bp[i] }
<1>1. n \in Nat /\ DOMAIN bp = 1..n
    BY DEF IsLadder
<1>2. S \subseteq 0..n /\ S # {} /\ 0 \in S
    BY <1>1
<1>3. HighestCleared(score, bp) = Max(S)
    BY DEF HighestCleared
<1>4. Max(S) \in S /\ \A x \in S : x <= Max(S)
    BY <1>1, <1>2, MaxIsGreatest
<1>5. \A i \in S : i > 0 => score >= bp[i]
    OBVIOUS
<1>6. \A i \in 1..n : score >= bp[i] => i \in S
    BY <1>1
<1> HIDE DEF S
<1> QED BY <1>2, <1>3, <1>4, <1>5, <1>6

\* A greater score clears at least as much, and so does any score where the
\* breakpoints are lower.
LEMMA ClearedMonotone ==
    ASSUME NEW n, NEW bp, IsLadder(bp, n), NEW cp, IsLadder(cp, n),
           NEW s \in Int, NEW t \in Int, s <= t, \A i \in 1..n : cp[i] <= bp[i]
    PROVE  HighestCleared(s, bp) <= HighestCleared(t, cp)
<1> DEFINE h == HighestCleared(s, bp)
           g == HighestCleared(t, cp)
<1> SUFFICES h <= g
    OBVIOUS
<1>1. h \in 0..n /\ (h > 0 => s >= bp[h])
    BY ClearedIsRank
<1>2. g \in 0..n /\ \A i \in 1..n : t >= cp[i] => i <= g
    BY ClearedIsRank
<1>3. /\ \A i \in 1..n : bp[i] \in Int /\ cp[i] \in Int
      /\ n \in Nat
  <2>1. Score \subseteq Int
      BY DEF Score
  <2> QED BY <2>1 DEF IsLadder
<1> HIDE DEF h, g
<1>4. CASE h = 0
  <2>1. g \in 0..n
      BY <1>2
  <2> QED BY <1>4, <2>1
<1>5. CASE h > 0
  <2>1. h \in 1..n
      BY <1>1, <1>3, <1>5
  <2>2. t >= cp[h]
    <3>1. bp[h] \in Int /\ cp[h] \in Int
        BY <1>3, <2>1
    <3>2. s >= bp[h] /\ cp[h] <= bp[h]
        BY <1>1, <1>5, <2>1
    <3> QED BY <3>1, <3>2
  <2> QED BY <1>2, <2>1, <2>2
<1> QED BY <1>1, <1>3, <1>4, <1>5

LEMMA AtLeastMonotone ==
    ASSUME NEW a \in Int, NEW b \in Int, NEW f \in Int, NEW g \in Int
    PROVE  /\ AtLeast(a, f) \in { a, f } /\ AtLeast(a, f) \in Int
           /\ a <= AtLeast(a, f) /\ f <= AtLeast(a, f)
           /\ a <= b /\ f <= g => AtLeast(a, f) <= AtLeast(b, g)
BY DEF AtLeast

LEMMA ClipMonotone ==
    ASSUME NEW a \in Int
    PROVE  /\ clip(a) \in Score
           /\ \A b \in Int : a <= b => clip(a) <= clip(b)
<1>1. ASSUME NEW x \in Int
      PROVE  clip(x) = IF x < 0 THEN 0 ELSE IF x > ScoreOne THEN ScoreOne ELSE x
  <2> DEFINE low == IF x > ScoreOne THEN ScoreOne ELSE x
             S == { 0, low }
  <2>1. ScoreOne \in Nat
      BY Grid
  <2>2. Min({ ScoreOne, x }) = low
    <3>1. low \in { ScoreOne, x } /\ \A y \in { ScoreOne, x } : low <= y
        BY <2>1
    <3>2. \A z \in { ScoreOne, x } :
              (\A y \in { ScoreOne, x } : z <= y) => z = low
        BY <2>1
    <3> QED BY <3>1, <3>2 DEF Min
  <2>3. Max({ 0, low }) = IF low < 0 THEN 0 ELSE low
    <3> DEFINE top == IF low < 0 THEN 0 ELSE low
    <3>0. low \in Int
        BY <2>1
    <3> HIDE DEF low
    <3>1. top \in { 0, low } /\ \A y \in { 0, low } : top >= y
        BY <3>0
    <3>2. \A z \in { 0, low } : (\A y \in { 0, low } : z >= y) => z = top
        BY <3>0
    <3> QED BY <3>1, <3>2 DEF Max
  <2> QED BY <2>1, <2>2, <2>3 DEF clip
<1> QED BY <1>1, Grid DEF Score

-----------------------------------------------------------------------------
(* The assessment of a task *)

\* No count saturates its signal: it stays below 1.0.
LEMMA SaturatingBounds ==
    ASSUME NEW n \in Nat, NEW k \in Nat \ {0}
    PROVE  saturating(n, k) \in Factor /\ saturating(n, k) < One
<1> DEFINE q == (One * n) \div (n + k)
<1>g. One \in Nat
    BY Grid
<1>1. n + k \in Nat \ {0} /\ One * n \in Nat
    BY <1>g
<1>2. q \in Int /\ (n + k) * q <= One * n
  <2>1. One * n \in Int
      BY <1>1
  <2> QED BY <1>1, <2>1, Quotient
<1>3. 0 <= q
  <2>1. (n + k) * 0 <= One * n
      BY <1>1
  <2> QED BY <1>1, <2>1, QuotientIsGreatest
<1>4. saturating(n, k) = q
    BY DEF saturating
<1> HIDE DEF q
<1>5. q < One
  <2>1. SUFFICES ASSUME One <= q PROVE FALSE
      BY <1>2, <1>g
  <2>2. (n + k) * One <= (n + k) * q
      BY <1>1, <1>2, <1>3, <1>g, <2>1, ProductMonotone
  <2>3. (n + k) * One = One * n + One * k /\ One * k \in Nat \ {0}
      BY <1>g, Grid
  <2>4. (n + k) * q \in Int
      BY <1>1, <1>2
  <2> QED BY <1>1, <1>2, <2>2, <2>3, <2>4
<1> QED BY <1>2, <1>3, <1>4, <1>5, <1>g DEF Factor

LEMMA SaturatingMonotone ==
    ASSUME NEW m \in Nat, NEW n \in Nat, NEW k \in Nat \ {0}, m <= n
    PROVE  saturating(m, k) <= saturating(n, k)
<1>g. One \in Nat
    BY Grid
<1>1. m * (n + k) <= n * (m + k)
  <2>1. m * k <= n * k
      BY ProductMonotone
  <2>2. m * (n + k) = m * n + m * k /\ n * (m + k) = m * n + n * k
      OBVIOUS
  <2>3. m * n \in Nat /\ m * k \in Nat /\ n * k \in Nat
      OBVIOUS
  <2> QED BY <2>1, <2>2, <2>3
<1>2. (One * m) * (n + k) <= (One * n) * (m + k)
  <2>1. /\ (One * m) * (n + k) = One * (m * (n + k))
        /\ (One * n) * (m + k) = One * (n * (m + k))
      BY <1>g
  <2>2. m * (n + k) \in Nat /\ n * (m + k) \in Nat
      OBVIOUS
  <2>3. One * (m * (n + k)) <= One * (n * (m + k))
      BY <1>1, <1>g, <2>2, ProductMonotone
  <2> QED BY <2>1, <2>3
<1>3. One * m \in Int /\ One * n \in Int /\ m + k \in Nat \ {0} /\ n + k \in Nat \ {0}
    BY <1>g
<1>4. (One * m) \div (m + k) <= (One * n) \div (n + k)
    BY <1>2, <1>3, QuotientMonotone
<1> QED BY <1>4 DEF saturating

ComplexityFactors ==
    [ files_affected : Factor, modules_affected : Factor,
      architectural_impact : Factor, ambiguity : Factor, novelty : Factor,
      low_test_coverage : Factor ]

RiskFactors ==
    [ security_impact : Factor, data_impact : Factor, irreversibility : Factor,
      architectural_impact : Factor, prior_failures : Factor ]

\* An assessment: every signal and both scores are in range.
IsAssessment(c, r) ==
    /\ c.factors \in ComplexityFactors /\ c.score \in Score
    /\ r.factors \in RiskFactors /\ r.score \in Score

LEMMA TasksAreAssessed ==
    ASSUME NEW t \in TaskProfile
    PROVE  IsAssessment(assess_complexity(t), assess_risk(t))
<1> DEFINE f == complexity_factors(t)
           g == risk_factors(t)
<1>1. /\ saturating(t.files_affected, 12) \in Factor
      /\ saturating(t.modules_affected, 5) \in Factor
      /\ saturating(t.prior_failures, 3) \in Factor
    BY SaturatingBounds DEF TaskProfile
<1>2. /\ One - t.existing_test_coverage \in Factor
      /\ One - t.reversibility \in Factor
  <2>1. \A x \in Factor : One - x \in Factor
      BY Grid DEF Factor
  <2> QED BY <2>1 DEF TaskProfile
<1>3. f \in ComplexityFactors
    BY <1>1, <1>2 DEF complexity_factors, ComplexityFactors, TaskProfile
<1>4. g \in RiskFactors
    BY <1>1, <1>2 DEF risk_factors, RiskFactors, TaskProfile
<1>5. assess_complexity(t).factors = f /\ assess_risk(t).factors = g
    BY DEF assess_complexity, assess_risk
<1>6. assess_complexity(t).score \in Score
  <2> DEFINE x1 == f.files_affected
             x2 == f.modules_affected
             x3 == f.architectural_impact
             x4 == f.ambiguity
             x5 == f.novelty
             x6 == f.low_test_coverage
  <2>1. assess_complexity(t).score = 4 * x1 + 4 * x2 + 5 * x3 + 3 * x4 + 2 * x5 + 2 * x6
      BY DEF assess_complexity
  <2>2. /\ x1 \in 0..One /\ x2 \in 0..One /\ x3 \in 0..One
        /\ x4 \in 0..One /\ x5 \in 0..One /\ x6 \in 0..One
      BY <1>3 DEF ComplexityFactors, Factor
  <2> HIDE DEF x1, x2, x3, x4, x5, x6
  <2>3. assess_complexity(t).score \in 0..ScoreOne
      BY <2>1, <2>2, Grid
  <2> QED BY <2>3 DEF Score
<1>7. assess_risk(t).score \in Score
  <2> DEFINE x1 == g.security_impact
             x2 == g.data_impact
             x3 == g.irreversibility
             x4 == g.architectural_impact
             x5 == g.prior_failures
  <2>1. assess_risk(t).score = 6 * x1 + 5 * x2 + 4 * x3 + 2 * x4 + 3 * x5
      BY DEF assess_risk
  <2>2. /\ x1 \in 0..One /\ x2 \in 0..One /\ x3 \in 0..One
        /\ x4 \in 0..One /\ x5 \in 0..One
      BY <1>4 DEF RiskFactors, Factor
  <2> HIDE DEF x1, x2, x3, x4, x5
  <2>3. assess_risk(t).score \in 0..ScoreOne
      BY <2>1, <2>2, Grid
  <2> QED BY <2>3 DEF Score
<1> QED BY <1>3, <1>4, <1>5, <1>6, <1>7 DEF IsAssessment

\* One assessment is nowhere above another.
NowhereAbove(c, r, d, s) ==
    /\ \A x \in { "files_affected", "modules_affected", "architectural_impact",
                  "ambiguity", "novelty", "low_test_coverage" } :
           c.factors[x] <= d.factors[x]
    /\ \A x \in CriticalSignals \cup { "architectural_impact", "prior_failures" } :
           r.factors[x] <= s.factors[x]
    /\ c.score <= d.score /\ r.score <= s.score

LEMMA HarderIsAssessedHigher ==
    ASSUME NEW t \in TaskProfile, NEW u \in TaskProfile, IsHarder(t, u)
    PROVE  NowhereAbove(assess_complexity(u), assess_risk(u),
                        assess_complexity(t), assess_risk(t))
<1> DEFINE cu == complexity_factors(u)
           ct == complexity_factors(t)
           ru == risk_factors(u)
           rt == risk_factors(t)
<1>h. /\ u.files_affected <= t.files_affected /\ u.modules_affected <= t.modules_affected
      /\ u.prior_failures <= t.prior_failures
      /\ u.architectural_impact <= t.architectural_impact
      /\ u.security_impact <= t.security_impact /\ u.data_impact <= t.data_impact
      /\ u.ambiguity <= t.ambiguity /\ u.novelty <= t.novelty
      /\ t.reversibility <= u.reversibility
      /\ t.existing_test_coverage <= u.existing_test_coverage
    BY DEF IsHarder, TaskProfile, Factor
<1>t. \A x \in { t, u } :
          /\ x.files_affected \in Nat /\ x.modules_affected \in Nat
          /\ x.prior_failures \in Nat
          /\ x.existing_test_coverage \in Int /\ x.reversibility \in Int
    BY DEF TaskProfile, Factor
<1>1. /\ cu.files_affected <= ct.files_affected
      /\ cu.modules_affected <= ct.modules_affected
      /\ cu.architectural_impact <= ct.architectural_impact
      /\ cu.ambiguity <= ct.ambiguity /\ cu.novelty <= ct.novelty
      /\ cu.low_test_coverage <= ct.low_test_coverage
    BY <1>h, <1>t, SaturatingMonotone, Grid DEF complexity_factors
<1>2. /\ ru.security_impact <= rt.security_impact /\ ru.data_impact <= rt.data_impact
      /\ ru.irreversibility <= rt.irreversibility
      /\ ru.architectural_impact <= rt.architectural_impact
      /\ ru.prior_failures <= rt.prior_failures
    BY <1>h, <1>t, SaturatingMonotone, Grid DEF risk_factors
<1>3. /\ IsAssessment(assess_complexity(u), assess_risk(u))
      /\ IsAssessment(assess_complexity(t), assess_risk(t))
    BY TasksAreAssessed
<1>4. \A x \in { t, u } :
          /\ assess_complexity(x).factors = complexity_factors(x)
          /\ assess_risk(x).factors = risk_factors(x)
          /\ assess_complexity(x).score
                 = 4 * complexity_factors(x).files_affected
                   + 4 * complexity_factors(x).modules_affected
                   + 5 * complexity_factors(x).architectural_impact
                   + 3 * complexity_factors(x).ambiguity
                   + 2 * complexity_factors(x).novelty
                   + 2 * complexity_factors(x).low_test_coverage
          /\ assess_risk(x).score
                 = 6 * risk_factors(x).security_impact + 5 * risk_factors(x).data_impact
                   + 4 * risk_factors(x).irreversibility
                   + 2 * risk_factors(x).architectural_impact
                   + 3 * risk_factors(x).prior_failures
    BY DEF assess_complexity, assess_risk
<1>5. /\ cu \in ComplexityFactors /\ ct \in ComplexityFactors
      /\ ru \in RiskFactors /\ rt \in RiskFactors
    BY <1>3, <1>4 DEF IsAssessment
<1> HIDE DEF cu, ct, ru, rt
<1>6. assess_complexity(u).score <= assess_complexity(t).score
  <2>1. /\ assess_complexity(u).score
               = 4 * cu.files_affected + 4 * cu.modules_affected
                 + 5 * cu.architectural_impact + 3 * cu.ambiguity
                 + 2 * cu.novelty + 2 * cu.low_test_coverage
        /\ assess_complexity(t).score
               = 4 * ct.files_affected + 4 * ct.modules_affected
                 + 5 * ct.architectural_impact + 3 * ct.ambiguity
                 + 2 * ct.novelty + 2 * ct.low_test_coverage
      BY <1>4 DEF cu, ct
  <2> QED BY <1>1, <1>5, <2>1 DEF ComplexityFactors, Factor
<1>7. assess_risk(u).score <= assess_risk(t).score
  <2>1. /\ assess_risk(u).score
               = 6 * ru.security_impact + 5 * ru.data_impact + 4 * ru.irreversibility
                 + 2 * ru.architectural_impact + 3 * ru.prior_failures
        /\ assess_risk(t).score
               = 6 * rt.security_impact + 5 * rt.data_impact + 4 * rt.irreversibility
                 + 2 * rt.architectural_impact + 3 * rt.prior_failures
      BY <1>4 DEF ru, rt
  <2> QED BY <1>2, <1>5, <2>1 DEF RiskFactors, Factor
<1>8. /\ assess_complexity(u).factors = cu /\ assess_complexity(t).factors = ct
      /\ assess_risk(u).factors = ru /\ assess_risk(t).factors = rt
    BY <1>4 DEF cu, ct, ru, rt
<1> QED BY <1>1, <1>2, <1>6, <1>7, <1>8 DEF NowhereAbove, CriticalSignals

-----------------------------------------------------------------------------
(* Routing *)

Weights(p) ==
    p.routing_weights.cost + p.routing_weights.quality + p.routing_weights.latency

LEMMA PolicyTyped ==
    ASSUME NEW p, ValidPolicy(p)
    PROVE  /\ p \in Policy
           /\ p.routing_weights.cost \in Nat /\ p.routing_weights.quality \in Nat
           /\ p.routing_weights.latency \in Nat /\ Weights(p) \in Nat \ {0}
           /\ IsLadder(p.routing_thresholds, FRONTIER)
           /\ IsLadder(p.reasoning_thresholds, MAX)
           /\ p.critical_risk.min_tier \in ModelTier
           /\ p.critical_risk.min_reasoning \in ReasoningEffort
           /\ p.critical_risk.require_review \in BOOLEAN
           /\ p.default_reasoning_floor \in ReasoningEffort
           /\ \A x \in CriticalSignals : p.critical_risk.at[x] \in Factor
           /\ p.multi_agent_risk_threshold \in Score
           /\ p.multi_agent_complexity_threshold \in Score
<1>1. p \in Policy
    BY DEF ValidPolicy
<1>2. /\ p.routing_weights.cost \in Nat /\ p.routing_weights.quality \in Nat
      /\ p.routing_weights.latency \in Nat
    BY <1>1 DEF Policy
<1>3. Weights(p) \in Nat \ {0}
  <2>1. \E w \in { "cost", "quality", "latency" } : p.routing_weights[w] > 0
      BY DEF ValidPolicy
  <2>2. \/ p.routing_weights.cost > 0 \/ p.routing_weights.quality > 0
        \/ p.routing_weights.latency > 0
      BY <2>1
  <2> DEFINE x == p.routing_weights.cost
             y == p.routing_weights.quality
             z == p.routing_weights.latency
  <2>3. /\ x \in Nat /\ y \in Nat /\ z \in Nat /\ (x > 0 \/ y > 0 \/ z > 0)
        /\ Weights(p) = x + y + z
      BY <1>2, <2>2 DEF Weights
  <2> HIDE DEF x, y, z
  <2> QED BY <2>3
<1>4. FRONTIER \in Nat /\ MAX \in Nat
    BY DEF FRONTIER, MAX
<1>5. /\ p.routing_thresholds \in [ 1..FRONTIER -> Score ]
      /\ p.reasoning_thresholds \in [ 1..MAX -> Score ]
    BY <1>1 DEF Policy
<1>6. /\ p.critical_risk.min_tier \in ModelTier
      /\ p.critical_risk.min_reasoning \in ReasoningEffort
      /\ p.critical_risk.require_review \in BOOLEAN
      /\ \A x \in CriticalSignals : p.critical_risk.at[x] \in Factor
    BY <1>1 DEF Policy
<1>7. /\ p.default_reasoning_floor \in ReasoningEffort
      /\ p.multi_agent_risk_threshold \in Score
      /\ p.multi_agent_complexity_threshold \in Score
    BY <1>1 DEF Policy
<1> QED BY <1>1, <1>2, <1>3, <1>4, <1>5, <1>6, <1>7 DEF IsLadder

\* The tier breakpoints, as the weights of a policy move them.
Shifted(p) ==
    [ i \in DOMAIN p.routing_thresholds |->
          clip(p.routing_thresholds[i] + threshold_shift(p)) ]

LEMMA ShiftIsInteger ==
    ASSUME NEW p, ValidPolicy(p)
    PROVE  threshold_shift(p) \in Int
<1> DEFINE a == MaxThresholdShift * (p.routing_weights.cost + p.routing_weights.latency
                                     - p.routing_weights.quality)
<1>1. a \in Int /\ Weights(p) \in Nat \ {0}
    BY PolicyTyped, Grid DEF MaxThresholdShift
<1>2. threshold_shift(p) = a \div Weights(p)
    BY DEF threshold_shift, Weights
<1> HIDE DEF a
<1> QED BY <1>1, <1>2, Quotient

LEMMA ShiftedIsLadder ==
    ASSUME NEW p, ValidPolicy(p)
    PROVE  IsLadder(Shifted(p), FRONTIER)
<1>1. IsLadder(p.routing_thresholds, FRONTIER) /\ threshold_shift(p) \in Int
    BY PolicyTyped, ShiftIsInteger
<1>2. DOMAIN p.routing_thresholds = 1..FRONTIER
    BY <1>1 DEF IsLadder
<1>3. \A i \in 1..FRONTIER : p.routing_thresholds[i] + threshold_shift(p) \in Int
  <2>1. Score \subseteq Int
      BY DEF Score
  <2>2. \A i \in 1..FRONTIER : p.routing_thresholds[i] \in Int
      BY <1>1, <2>1 DEF IsLadder
  <2> HIDE DEF IsLadder
  <2> QED BY <1>1, <2>2
<1>4. \A i \in 1..FRONTIER : clip(p.routing_thresholds[i] + threshold_shift(p)) \in Score
    BY <1>3, ClipMonotone
<1> QED BY <1>1, <1>2, <1>4 DEF IsLadder, Shifted

\* The three parts of a routing decision: the blend of the scores, the override
\* and the floors.
TierByBlend(c, r, p) == HighestCleared((c.score + r.score) \div 2, Shifted(p))

TierOverridden(c, r, p) ==
    IF r.score >= CriticalRiskOverride
    THEN AtLeast(TierByBlend(c, r, p), CriticalRiskMinTier) ELSE TierByBlend(c, r, p)

EffortByBlend(c, r, p) ==
    HighestCleared((7 * c.score + 13 * r.score) \div 20, p.reasoning_thresholds)

EffortFloored(c, r, p) == AtLeast(EffortByBlend(c, r, p), p.default_reasoning_floor)

LEMMA RoutingParts ==
    ASSUME NEW c, NEW r, NEW p
    PROVE  /\ select_model_tier(c, r, p)
                  = IF critical_signals(r, p) # {}
                    THEN AtLeast(TierOverridden(c, r, p), p.critical_risk.min_tier)
                    ELSE TierOverridden(c, r, p)
           /\ select_reasoning_effort(c, r, p)
                  = IF critical_signals(r, p) # {}
                    THEN AtLeast(EffortFloored(c, r, p), p.critical_risk.min_reasoning)
                    ELSE EffortFloored(c, r, p)
BY DEF select_model_tier, select_reasoning_effort, TierOverridden, TierByBlend, Shifted,
       EffortFloored, EffortByBlend

LEMMA BlendsMonotone ==
    ASSUME NEW a \in Score, NEW b \in Score, NEW x \in Score, NEW y \in Score,
           a <= x, b <= y
    PROVE  /\ (a + b) \div 2 \in Int /\ (7 * a + 13 * b) \div 20 \in Int
           /\ (a + b) \div 2 <= (x + y) \div 2
           /\ (7 * a + 13 * b) \div 20 <= (7 * x + 13 * y) \div 20
BY DEF Score, ScoreOne

LEMMA RanksTyped ==
    ASSUME NEW c, NEW r, IsAssessment(c, r), NEW p, ValidPolicy(p)
    PROVE  /\ TierByBlend(c, r, p) \in ModelTier /\ TierOverridden(c, r, p) \in ModelTier
           /\ EffortByBlend(c, r, p) \in ReasoningEffort
           /\ EffortFloored(c, r, p) \in ReasoningEffort
           /\ select_model_tier(c, r, p) \in ModelTier
           /\ select_reasoning_effort(c, r, p) \in ReasoningEffort
<1>1. c.score \in Score /\ r.score \in Score
    BY DEF IsAssessment
<1>2. (c.score + r.score) \div 2 \in Int /\ (7 * c.score + 13 * r.score) \div 20 \in Int
  <2>1. c.score <= c.score /\ r.score <= r.score
      BY <1>1 DEF Score
  <2> QED BY <1>1, <2>1, BlendsMonotone
<1>3. TierByBlend(c, r, p) \in ModelTier
    BY <1>2, ShiftedIsLadder, ClearedIsRank DEF TierByBlend, ModelTier, FAST
<1>4. EffortByBlend(c, r, p) \in ReasoningEffort
    BY <1>2, PolicyTyped, ClearedIsRank DEF EffortByBlend, ReasoningEffort, NONE
<1>5. ASSUME NEW S, NEW x \in S, NEW f \in S PROVE AtLeast(x, f) \in S
    BY DEF AtLeast
<1>6. CriticalRiskMinTier \in ModelTier
    BY DEF CriticalRiskMinTier, ModelTier, FAST, ADVANCED, FRONTIER
<1>7. TierOverridden(c, r, p) \in ModelTier
    BY <1>3, <1>5, <1>6 DEF TierOverridden
<1>8. EffortFloored(c, r, p) \in ReasoningEffort
    BY <1>4, <1>5, PolicyTyped DEF EffortFloored
<1> QED BY <1>3, <1>4, <1>5, <1>7, <1>8, RoutingParts, PolicyTyped

\* A critical signal puts tier and effort at the policy's floors.
LEMMA CriticalMeetsFloors ==
    ASSUME NEW c, NEW r, IsAssessment(c, r), NEW p, ValidPolicy(p),
           critical_signals(r, p) # {}
    PROVE  /\ select_model_tier(c, r, p) >= p.critical_risk.min_tier
           /\ select_reasoning_effort(c, r, p) >= p.critical_risk.min_reasoning
<1> DEFINE mt == p.critical_risk.min_tier
           mr == p.critical_risk.min_reasoning
<1>1. /\ TierOverridden(c, r, p) \in Int /\ EffortFloored(c, r, p) \in Int
      /\ mt \in Int /\ mr \in Int
    BY RanksTyped, PolicyTyped DEF ModelTier, ReasoningEffort
<1>2. /\ select_model_tier(c, r, p) = AtLeast(TierOverridden(c, r, p), mt)
      /\ select_reasoning_effort(c, r, p) = AtLeast(EffortFloored(c, r, p), mr)
    BY RoutingParts
<1> HIDE DEF mt, mr
<1>3. /\ mt <= AtLeast(TierOverridden(c, r, p), mt)
      /\ mr <= AtLeast(EffortFloored(c, r, p), mr)
    BY <1>1, AtLeastMonotone
<1>4. /\ AtLeast(TierOverridden(c, r, p), mt) \in Int
      /\ AtLeast(EffortFloored(c, r, p), mr) \in Int
    BY <1>1, AtLeastMonotone
<1>5. select_model_tier(c, r, p) >= mt /\ select_reasoning_effort(c, r, p) >= mr
    BY <1>1, <1>2, <1>3, <1>4
<1> QED BY <1>5 DEF mt, mr

\* A risk that is critical by the blend alone gets the override's tier and a
\* team: without a signal of 0.85, the architecture or the failures before are
\* at 0.5, where planning adds agents whatever the policy says.
LEMMA CriticalBlend ==
    ASSUME NEW t \in TaskProfile, NEW p, ValidPolicy(p), assess_risk(t).critical,
           \A x \in CriticalSignals : assess_risk(t).factors[x] < CriticalIndividualRisk
    PROVE  /\ select_model_tier(assess_complexity(t), assess_risk(t), p)
                  >= CriticalRiskMinTier
           /\ needs_multi_agent(assess_complexity(t), assess_risk(t), p)
<1> DEFINE c == assess_complexity(t)
           r == assess_risk(t)
           g == risk_factors(t)
           m == 17 * Precision
<1>g. Precision \in Nat \ {0} /\ One = 20 * Precision /\ CriticalIndividualRisk = m
    BY Grid DEF CriticalIndividualRisk
<1>1. /\ IsAssessment(c, r) /\ r.factors = g /\ g \in RiskFactors
      /\ c.factors.architectural_impact = g.architectural_impact
    BY TasksAreAssessed
    DEF IsAssessment, assess_risk, assess_complexity, risk_factors, complexity_factors
<1> DEFINE x1 == g.security_impact
           x2 == g.data_impact
           x3 == g.irreversibility
           x4 == g.architectural_impact
           x5 == g.prior_failures
<1>2. r.score = 6 * x1 + 5 * x2 + 4 * x3 + 2 * x4 + 3 * x5
    BY DEF assess_risk
<1>3. /\ x1 \in 0..One /\ x2 \in 0..One /\ x3 \in 0..One
      /\ x4 \in 0..One /\ x5 \in 0..One
    BY <1>1 DEF RiskFactors, Factor
<1>4. x1 < m /\ x2 < m /\ x3 < m
    BY <1>1, <1>g DEF CriticalSignals
<1>5. r.score >= 340 * Precision
  <2>1. IsCriticalLevel(g, r.score)
      BY DEF assess_risk
  <2>2. ~ \E x \in CriticalSignals : g[x] >= CriticalIndividualRisk
    <3>1. ASSUME NEW x \in CriticalSignals PROVE ~(g[x] >= CriticalIndividualRisk)
      <4>1. g[x] < CriticalIndividualRisk
          BY <1>1
      <4>2. g[x] \in 0..One
          BY <1>1 DEF RiskFactors, Factor, CriticalSignals
      <4> HIDE DEF g
      <4> QED BY <1>g, <4>1, <4>2
    <3> QED BY <3>1
  <2> QED BY <2>1, <2>2 DEF IsCriticalLevel
<1>6. x4 >= 10 * Precision \/ x5 >= 10 * Precision
  <2> HIDE DEF x1, x2, x3, x4, x5, g, r, c
  <2> QED BY <1>g, <1>2, <1>3, <1>4, <1>5
<1>7. needs_multi_agent(c, r, p)
    BY <1>1, <1>6 DEF needs_multi_agent, PlannerArchitectural, PriorFailures
<1>8. select_model_tier(c, r, p) >= CriticalRiskMinTier
  <2> DEFINE b == TierByBlend(c, r, p)
             o == TierOverridden(c, r, p)
             f == p.critical_risk.min_tier
  <2>1. b \in Int /\ o \in Int /\ f \in Int /\ CriticalRiskMinTier \in Int
      BY <1>1, RanksTyped, PolicyTyped DEF ModelTier, CriticalRiskMinTier, ADVANCED
  <2>2. o = AtLeast(b, CriticalRiskMinTier)
      BY <1>5 DEF TierOverridden, CriticalRiskOverride
  <2>3. select_model_tier(c, r, p) \in { o, AtLeast(o, f) }
      BY RoutingParts
  <2> HIDE DEF b, o, f, c, r
  <2>4. o >= CriticalRiskMinTier
      BY <2>1, <2>2 DEF AtLeast
  <2>5. AtLeast(o, f) >= CriticalRiskMinTier
      BY <2>1, <2>4 DEF AtLeast
  <2> QED BY <2>3, <2>4, <2>5
<1> QED BY <1>7, <1>8

\* Routing is monotone in the assessment.
LEMMA RoutingMonotone ==
    ASSUME NEW c, NEW r, IsAssessment(c, r), NEW d, NEW s, IsAssessment(d, s),
           NowhereAbove(c, r, d, s), NEW p, ValidPolicy(p)
    PROVE  /\ critical_signals(r, p) \subseteq critical_signals(s, p)
           /\ select_model_tier(c, r, p) <= select_model_tier(d, s, p)
           /\ select_reasoning_effort(c, r, p) <= select_reasoning_effort(d, s, p)
<1>1. /\ c.score \in Score /\ r.score \in Score /\ d.score \in Score /\ s.score \in Score
      /\ c.score <= d.score /\ r.score <= s.score
    BY DEF IsAssessment, NowhereAbove
<1>2. critical_signals(r, p) \subseteq critical_signals(s, p)
  <2>1. ASSUME NEW x \in CriticalSignals, r.factors[x] >= p.critical_risk.at[x]
        PROVE  s.factors[x] >= p.critical_risk.at[x]
    <3>1. r.factors[x] <= s.factors[x]
        BY DEF NowhereAbove
    <3>2. r.factors[x] \in Factor /\ s.factors[x] \in Factor
        BY DEF IsAssessment, RiskFactors, CriticalSignals
    <3>3. p.critical_risk.at[x] \in Factor
        BY PolicyTyped
    <3>4. Factor \subseteq Int
        BY DEF Factor
    <3>5. /\ r.factors[x] \in Int /\ s.factors[x] \in Int
          /\ p.critical_risk.at[x] \in Int
        BY <3>2, <3>3, <3>4
    <3> QED BY <2>1, <3>1, <3>5
  <2> QED BY <2>1 DEF critical_signals
<1>3. /\ TierByBlend(c, r, p) <= TierByBlend(d, s, p)
      /\ EffortByBlend(c, r, p) <= EffortByBlend(d, s, p)
  <2> DEFINE a == (c.score + r.score) \div 2
             b == (d.score + s.score) \div 2
             e == (7 * c.score + 13 * r.score) \div 20
             f == (7 * d.score + 13 * s.score) \div 20
  <2>1. a \in Int /\ e \in Int /\ a <= b /\ e <= f
      BY <1>1, BlendsMonotone
  <2>2. b \in Int /\ f \in Int
    <3>1. d.score <= d.score /\ s.score <= s.score
        BY <1>1 DEF Score
    <3> QED BY <1>1, <3>1, BlendsMonotone
  <2>3. IsLadder(Shifted(p), FRONTIER) /\ IsLadder(p.reasoning_thresholds, MAX)
      BY ShiftedIsLadder, PolicyTyped
  <2>4. /\ \A i \in 1..FRONTIER : Shifted(p)[i] <= Shifted(p)[i]
        /\ \A i \in 1..MAX : p.reasoning_thresholds[i] <= p.reasoning_thresholds[i]
    <3>1. \A x \in Score : x <= x
        BY DEF Score
    <3> QED BY <2>3, <3>1 DEF IsLadder
  <2>5. /\ TierByBlend(c, r, p) = HighestCleared(a, Shifted(p))
        /\ TierByBlend(d, s, p) = HighestCleared(b, Shifted(p))
        /\ EffortByBlend(c, r, p) = HighestCleared(e, p.reasoning_thresholds)
        /\ EffortByBlend(d, s, p) = HighestCleared(f, p.reasoning_thresholds)
      BY DEF TierByBlend, EffortByBlend
  <2> HIDE DEF a, b, e, f
  <2>6. HighestCleared(a, Shifted(p)) <= HighestCleared(b, Shifted(p))
      BY <2>1, <2>2, <2>3, <2>4, ClearedMonotone
  <2>7. HighestCleared(e, p.reasoning_thresholds) <= HighestCleared(f, p.reasoning_thresholds)
      BY <2>1, <2>2, <2>3, <2>4, ClearedMonotone
  <2> QED BY <2>5, <2>6, <2>7
<1>4. /\ TierByBlend(c, r, p) \in Int /\ TierByBlend(d, s, p) \in Int
      /\ EffortByBlend(c, r, p) \in Int /\ EffortByBlend(d, s, p) \in Int
      /\ p.critical_risk.min_tier \in Int /\ p.critical_risk.min_reasoning \in Int
      /\ p.default_reasoning_floor \in Int /\ CriticalRiskMinTier \in Int
    BY RanksTyped, PolicyTyped
    DEF ModelTier, ReasoningEffort, CriticalRiskMinTier, ADVANCED
<1>5. r.score >= CriticalRiskOverride => s.score >= CriticalRiskOverride
    BY <1>1, Grid DEF Score, CriticalRiskOverride
<1>6. ASSUME NEW x \in Int, NEW y \in Int, x <= y, NEW g \in Int,
             NEW P \in BOOLEAN, NEW Q \in BOOLEAN, P => Q
      PROVE  (IF P THEN AtLeast(x, g) ELSE x) <= (IF Q THEN AtLeast(y, g) ELSE y)
    BY <1>6 DEF AtLeast
<1>7. TierOverridden(c, r, p) <= TierOverridden(d, s, p)
    BY <1>3, <1>4, <1>5, <1>6 DEF TierOverridden
<1>8. EffortFloored(c, r, p) <= EffortFloored(d, s, p)
  <2> DEFINE f == p.default_reasoning_floor
             x == EffortByBlend(c, r, p)
             y == EffortByBlend(d, s, p)
  <2>1. EffortFloored(c, r, p) = AtLeast(x, f) /\ EffortFloored(d, s, p) = AtLeast(y, f)
      BY DEF EffortFloored
  <2>2. f \in Int /\ x \in Int /\ y \in Int /\ x <= y
      BY <1>3, <1>4
  <2> HIDE DEF f, x, y
  <2>3. f <= f
      BY <2>2
  <2>4. AtLeast(x, f) <= AtLeast(y, f)
      BY <2>2, <2>3, AtLeastMonotone
  <2> QED BY <2>1, <2>4
<1>9. /\ TierOverridden(c, r, p) \in Int /\ TierOverridden(d, s, p) \in Int
      /\ EffortFloored(c, r, p) \in Int /\ EffortFloored(d, s, p) \in Int
    BY RanksTyped DEF ModelTier, ReasoningEffort
<1>10. critical_signals(r, p) # {} => critical_signals(s, p) # {}
    BY <1>2
<1>11. select_model_tier(c, r, p) <= select_model_tier(d, s, p)
  <2> DEFINE mt == p.critical_risk.min_tier
             x == TierOverridden(c, r, p)
             y == TierOverridden(d, s, p)
  <2>1. /\ select_model_tier(c, r, p)
               = IF critical_signals(r, p) # {} THEN AtLeast(x, mt) ELSE x
        /\ select_model_tier(d, s, p)
               = IF critical_signals(s, p) # {} THEN AtLeast(y, mt) ELSE y
      BY RoutingParts
  <2>2. x \in Int /\ y \in Int /\ x <= y /\ mt \in Int
      BY <1>4, <1>7, <1>9
  <2> HIDE DEF x, y, mt
  <2> QED BY <1>10, <2>1, <2>2 DEF AtLeast
<1>12. select_reasoning_effort(c, r, p) <= select_reasoning_effort(d, s, p)
  <2> DEFINE mr == p.critical_risk.min_reasoning
             x == EffortFloored(c, r, p)
             y == EffortFloored(d, s, p)
  <2>1. /\ select_reasoning_effort(c, r, p)
               = IF critical_signals(r, p) # {} THEN AtLeast(x, mr) ELSE x
        /\ select_reasoning_effort(d, s, p)
               = IF critical_signals(s, p) # {} THEN AtLeast(y, mr) ELSE y
      BY RoutingParts
  <2>2. x \in Int /\ y \in Int /\ x <= y /\ mr \in Int
      BY <1>4, <1>8, <1>9
  <2> HIDE DEF x, y, mr
  <2> QED BY <1>10, <2>1, <2>2 DEF AtLeast
<1> QED BY <1>2, <1>11, <1>12

-----------------------------------------------------------------------------
(* The team *)

AgentSpec ==
    [ role : { "planner", "researcher", "judge", "builder", "reviewer" },
      tier : ModelTier, reasoning : ReasoningEffort, count : Nat ]

\* What a team comes to, when an agent counts as h says.
Total(h, agents) == SumFunction([ i \in DOMAIN agents |-> h[agents[i]] ])

LEMMA TotalOfParts ==
    ASSUME NEW h \in [ AgentSpec -> Nat ]
    PROVE  /\ \A x \in AgentSpec : Total(h, <<x>>) = h[x]
           /\ Total(h, <<>>) = 0
           /\ \A s \in Seq(AgentSpec) : Total(h, s) \in Nat
           /\ \A s, t \in Seq(AgentSpec) : Total(h, s \o t) = Total(h, s) + Total(h, t)
<1> DEFINE V(s) == [ i \in DOMAIN s |-> h[s[i]] ]
<1>1. ASSUME NEW s \in Seq(AgentSpec)
      PROVE  /\ Total(h, s) = SumFunctionOnSet(V(s), 1..Len(s))
             /\ Len(s) \in Nat /\ \A i \in 1..Len(s) : V(s)[i] = h[s[i]] /\ V(s)[i] \in Nat
    BY DEF Total, SumFunction
<1>2. Total(h, <<>>) = 0
  <2>1. /\ <<>> \in Seq(AgentSpec) /\ 1..Len(<<>>) = {}
      OBVIOUS
  <2> HIDE DEF V
  <2> QED BY <1>1, <2>1, SumOfNone
<1>3. ASSUME NEW s \in Seq(AgentSpec) PROVE Total(h, s) \in Nat
  <2> HIDE DEF V
  <2> QED BY <1>1, SumIsNat
<1>4. ASSUME NEW s \in Seq(AgentSpec), NEW t \in Seq(AgentSpec)
      PROVE  Total(h, s \o t) = Total(h, s) + Total(h, t)
  <2>1. /\ s \o t \in Seq(AgentSpec) /\ Len(s \o t) = Len(s) + Len(t)
        /\ \A i \in 1..Len(s) : (s \o t)[i] = s[i] /\ i \in 1..(Len(s) + Len(t))
        /\ \A i \in 1..Len(t) : /\ (s \o t)[Len(s) + i] = t[i]
                                /\ Len(s) + i \in 1..(Len(s) + Len(t))
      OBVIOUS
  <2> DEFINE m == Len(s)
             n == Len(t)
             f == V(s)
             g == V(t)
             w == V(s \o t)
  <2>2. /\ \A i \in 1..m : f[i] = h[s[i]] /\ f[i] \in Nat
        /\ \A i \in 1..n : g[i] = h[t[i]] /\ g[i] \in Nat
        /\ m \in Nat /\ n \in Nat
      BY <1>1
  <2>3. \A i \in 1..(m + n) : w[i] = h[(s \o t)[i]]
      BY <2>1
  <2>4. /\ Total(h, s) = SumFunctionOnSet(f, 1..m)
        /\ Total(h, t) = SumFunctionOnSet(g, 1..n)
        /\ Total(h, s \o t) = SumFunctionOnSet(w, 1..(m + n))
      BY <1>1, <2>1
  <2>5. /\ \A i \in 1..m : (s \o t)[i] = s[i] /\ i \in 1..(m + n)
        /\ \A i \in 1..n : (s \o t)[m + i] = t[i] /\ m + i \in 1..(m + n)
      BY <2>1
  <2> HIDE DEF m, n, f, g, w
  <2>6. /\ \A i \in 1..m : f[i] \in Nat /\ w[i] = f[i]
        /\ \A i \in 1..n : g[i] \in Nat /\ w[m + i] = g[i]
    <3>1. ASSUME NEW i \in 1..m PROVE f[i] \in Nat /\ w[i] = f[i]
      <4>1. w[i] = h[(s \o t)[i]] /\ (s \o t)[i] = s[i]
          BY <2>3, <2>5
      <4>2. f[i] = h[s[i]] /\ f[i] \in Nat
          BY <2>2
      <4> QED BY <4>1, <4>2
    <3>2. ASSUME NEW i \in 1..n PROVE g[i] \in Nat /\ w[m + i] = g[i]
      <4>1. w[m + i] = h[(s \o t)[m + i]] /\ (s \o t)[m + i] = t[i]
          BY <2>3, <2>5
      <4>2. g[i] = h[t[i]] /\ g[i] \in Nat
          BY <2>2
      <4> QED BY <4>1, <4>2
    <3> QED BY <3>1, <3>2
  <2>7. m \in Nat /\ n \in Nat
      BY <2>2
  <2>8. SumFunctionOnSet(w, 1..(m + n))
            = SumFunctionOnSet(f, 1..m) + SumFunctionOnSet(g, 1..n)
    <3>1. Concatenates(w, f, m, g, n)
        BY <2>6 DEF Concatenates
    <3> QED BY <2>7, <3>1, SumConcatenated
  <2> QED BY <2>4, <2>8
<1>5. ASSUME NEW x \in AgentSpec PROVE Total(h, <<x>>) = h[x]
  <2> DEFINE f == V(<<x>>)
  <2>1. <<x>> \in Seq(AgentSpec) /\ Len(<<x>>) = 1 /\ <<x>>[1] = x
      OBVIOUS
  <2>2. f[1] = h[x] /\ h[x] \in Nat /\ Total(h, <<x>>) = SumFunctionOnSet(f, 1..1)
    <3>1. 1 \in 1..1 /\ DOMAIN <<x>> = 1..1
        OBVIOUS
    <3>2. f[1] = h[x]
        BY <2>1, <3>1
    <3> QED BY <1>1, <2>1, <3>2
  <2> HIDE DEF f
  <2>3. /\ 0 \in Nat /\ 0 + 1 = 1 /\ 1..0 = {}
        /\ \A i \in 1..0 : f[i] \in Nat /\ f[i] = f[i]
      OBVIOUS
  <2>4. SumFunctionOnSet(f, 1..(0 + 1)) = SumFunctionOnSet(f, 1..0) + f[0 + 1]
      BY <2>2, <2>3, SumAppended
  <2>5. SumFunctionOnSet(f, 1..0) = 0
      BY <2>3, SumOfNone
  <2> QED BY <2>2, <2>3, <2>4, <2>5
<1> QED BY <1>2, <1>3, <1>4, <1>5

\* Who joins the team of a task, and on which condition.
Builder(primary) == Agent("builder", primary.tier, primary.reasoning, 1)
Planner(primary) == Agent("planner", primary.tier, LOW, 1)
Researcher(c, primary) ==
    Agent("researcher", OneStepDown(primary.tier), MEDIUM, researcher_count(c))
Judge(r, primary) ==
    Agent("judge", IF r.score >= JudgeRisk THEN OneStepUp(primary.tier) ELSE primary.tier,
          HIGH, 1)
Reviewer(r, primary, p) ==
    Agent("reviewer", IF r.score >= p.multi_agent_risk_threshold
                      THEN OneStepUp(primary.tier) ELSE primary.tier, MEDIUM, 1)

HasPlanner(c) == c.factors.architectural_impact >= PlannerArchitectural
HasResearcher(c) == researcher_count(c) > 0
HasJudge(c, r) == researcher_count(c) >= 2 \/ r.score >= JudgeRisk

FullTeam(c, r, primary, p) ==
    Joins(HasPlanner(c), Planner(primary))
    \o Joins(HasResearcher(c), Researcher(c, primary))
    \o Joins(HasJudge(c, r), Judge(r, primary))
    \o <<Builder(primary), Reviewer(r, primary, p)>>

LEMMA TeamIsBuilt ==
    ASSUME NEW c, NEW r, NEW primary, NEW p
    PROVE  build_execution_strategy(c, r, primary, p)
               = IF needs_multi_agent(c, r, p) THEN FullTeam(c, r, primary, p)
                 ELSE <<Builder(primary)>>
BY DEF build_execution_strategy, FullTeam, Builder, Planner, Researcher, Judge, Reviewer,
       HasPlanner, HasResearcher, HasJudge

Primary == [ tier : ModelTier, reasoning : ReasoningEffort ]

LEMMA ResearcherCounts ==
    ASSUME NEW c, c.factors \in ComplexityFactors
    PROVE  /\ researcher_count(c) = IF c.factors.ambiguity >= DualResearcherAmbiguity
                                    THEN 2
                                    ELSE IF c.factors.ambiguity < ResearcherAmbiguity
                                    THEN 0 ELSE 1
           /\ researcher_count(c) \in 0..2
<1>1. c.factors.ambiguity \in 0..One
    BY DEF ComplexityFactors, Factor
<1> QED BY <1>1, Grid DEF researcher_count, DualResearcherAmbiguity, ResearcherAmbiguity

LEMMA AgentsTyped ==
    ASSUME NEW c, NEW r, IsAssessment(c, r), NEW primary \in Primary, NEW p
    PROVE  /\ Builder(primary) \in AgentSpec /\ Planner(primary) \in AgentSpec
           /\ Researcher(c, primary) \in AgentSpec /\ Judge(r, primary) \in AgentSpec
           /\ Reviewer(r, primary, p) \in AgentSpec
<1>1. primary.tier \in ModelTier /\ primary.reasoning \in ReasoningEffort
    BY DEF Primary
<1>2. /\ OneStepDown(primary.tier) \in ModelTier /\ OneStepUp(primary.tier) \in ModelTier
    BY <1>1 DEF OneStepDown, OneStepUp, Up, ModelTier, FAST, FRONTIER
<1>3. researcher_count(c) \in Nat
    BY ResearcherCounts DEF IsAssessment
<1>4. LOW \in ReasoningEffort /\ MEDIUM \in ReasoningEffort /\ HIGH \in ReasoningEffort
    BY DEF ReasoningEffort, NONE, LOW, MEDIUM, HIGH, MAX
<1>5. Builder(primary) \in AgentSpec /\ Planner(primary) \in AgentSpec
    BY <1>1, <1>4 DEF Builder, Planner, Agent, AgentSpec
<1>6. Researcher(c, primary) \in AgentSpec
    BY <1>2, <1>3, <1>4 DEF Researcher, Agent, AgentSpec
<1>7. Judge(r, primary) \in AgentSpec
    BY <1>1, <1>2, <1>4 DEF Judge, Agent, AgentSpec
<1>8. Reviewer(r, primary, p) \in AgentSpec
    BY <1>1, <1>2, <1>4 DEF Reviewer, Agent, AgentSpec
<1> QED BY <1>5, <1>6, <1>7, <1>8

\* What a team comes to, agent by agent.
Counted(condition, n) == IF condition THEN n ELSE 0

TeamTotal(h, c, r, primary, p) ==
    IF needs_multi_agent(c, r, p)
    THEN Counted(HasPlanner(c), h[Planner(primary)])
         + Counted(HasResearcher(c), h[Researcher(c, primary)])
         + Counted(HasJudge(c, r), h[Judge(r, primary)])
         + h[Builder(primary)] + h[Reviewer(r, primary, p)]
    ELSE h[Builder(primary)]

LEMMA TeamTotals ==
    ASSUME NEW c, NEW r, IsAssessment(c, r), NEW primary \in Primary, NEW p,
           NEW h \in [ AgentSpec -> Nat ]
    PROVE  /\ build_execution_strategy(c, r, primary, p) \in Seq(AgentSpec)
           /\ Total(h, build_execution_strategy(c, r, primary, p))
                  = TeamTotal(h, c, r, primary, p)
<1> DEFINE a1 == Planner(primary)
           a2 == Researcher(c, primary)
           a3 == Judge(r, primary)
           a4 == Builder(primary)
           a5 == Reviewer(r, primary, p)
           s1 == Joins(HasPlanner(c), a1)
           s2 == Joins(HasResearcher(c), a2)
           s3 == Joins(HasJudge(c, r), a3)
<1>1. /\ a1 \in AgentSpec /\ a2 \in AgentSpec /\ a3 \in AgentSpec
      /\ a4 \in AgentSpec /\ a5 \in AgentSpec
    BY AgentsTyped
<1>2. build_execution_strategy(c, r, primary, p)
          = IF needs_multi_agent(c, r, p) THEN s1 \o s2 \o s3 \o <<a4, a5>> ELSE <<a4>>
    BY TeamIsBuilt DEF FullTeam
<1>3. TeamTotal(h, c, r, primary, p)
          = IF needs_multi_agent(c, r, p)
            THEN Counted(HasPlanner(c), h[a1]) + Counted(HasResearcher(c), h[a2])
                 + Counted(HasJudge(c, r), h[a3]) + h[a4] + h[a5]
            ELSE h[a4]
    BY DEF TeamTotal
<1> HIDE DEF a1, a2, a3, a4, a5
<1>4. ASSUME NEW b, NEW x \in AgentSpec
      PROVE  Joins(b, x) \in Seq(AgentSpec) /\ Total(h, Joins(b, x)) = Counted(b, h[x])
    BY TotalOfParts DEF Joins, Counted
<1>5. /\ s1 \in Seq(AgentSpec) /\ Total(h, s1) = Counted(HasPlanner(c), h[a1])
      /\ s2 \in Seq(AgentSpec) /\ Total(h, s2) = Counted(HasResearcher(c), h[a2])
      /\ s3 \in Seq(AgentSpec) /\ Total(h, s3) = Counted(HasJudge(c, r), h[a3])
    BY <1>1, <1>4
<1> HIDE DEF s1, s2, s3
<1>6. /\ <<a4>> \in Seq(AgentSpec) /\ <<a5>> \in Seq(AgentSpec)
      /\ <<a4, a5>> = <<a4>> \o <<a5>> /\ <<a4, a5>> \in Seq(AgentSpec)
  <2>1. ASSUME NEW x \in AgentSpec, NEW y \in AgentSpec
        PROVE  <<x, y>> = <<x>> \o <<y>>
    <3> DEFINE s == <<x, y>>
               t == <<x>> \o <<y>>
    <3>1. s \in Seq(AgentSpec) /\ Len(s) = 2 /\ s[1] = x /\ s[2] = y
        OBVIOUS
    <3>2. <<x>> \in Seq(AgentSpec) /\ <<y>> \in Seq(AgentSpec)
          /\ Len(<<x>>) = 1 /\ Len(<<y>>) = 1 /\ <<x>>[1] = x /\ <<y>>[1] = y
        OBVIOUS
    <3>3. t \in Seq(AgentSpec) /\ Len(t) = 2 /\ t[1] = x /\ t[2] = y
        BY <3>2, ConcatProperties
    <3> HIDE DEF s, t
    <3>4. \A i \in 1..2 : s[i] = t[i]
      <4>1. 1..2 = { 1, 2 }
          OBVIOUS
      <4> QED BY <3>1, <3>3, <4>1
    <3>5. s = t
        BY <3>1, <3>3, <3>4, SeqEqual
    <3> QED BY <3>5 DEF s, t
  <2>2. ASSUME NEW x \in AgentSpec, NEW y \in AgentSpec
        PROVE  <<x>> \in Seq(AgentSpec) /\ <<x, y>> \in Seq(AgentSpec)
      OBVIOUS
  <2> QED BY <1>1, <2>1, <2>2
<1>7. Total(h, <<a4, a5>>) = h[a4] + h[a5] /\ Total(h, <<a4>>) = h[a4]
    BY <1>1, <1>6, TotalOfParts
<1>8. /\ s1 \o s2 \in Seq(AgentSpec) /\ s1 \o s2 \o s3 \in Seq(AgentSpec)
      /\ s1 \o s2 \o s3 \o <<a4, a5>> \in Seq(AgentSpec)
    BY <1>5, <1>6
<1>9. Total(h, s1 \o s2 \o s3 \o <<a4, a5>>)
          = ((Total(h, s1) + Total(h, s2)) + Total(h, s3)) + Total(h, <<a4, a5>>)
  <2> DEFINE t2 == s1 \o s2
             t3 == t2 \o s3
             t4 == <<a4, a5>>
  <2>1. /\ t2 \in Seq(AgentSpec) /\ t3 \in Seq(AgentSpec) /\ t4 \in Seq(AgentSpec)
      BY <1>6, <1>8
  <2>2. Total(h, t2) = Total(h, s1) + Total(h, s2)
      BY <1>5, TotalOfParts
  <2> SUFFICES Total(h, t3 \o t4) = ((Total(h, s1) + Total(h, s2)) + Total(h, s3)) + Total(h, t4)
      OBVIOUS
  <2> HIDE DEF t2, t4
  <2>3. Total(h, t3) = Total(h, t2) + Total(h, s3)
      BY <1>5, <2>1, TotalOfParts
  <2> HIDE DEF t3
  <2>4. Total(h, t3 \o t4) = Total(h, t3) + Total(h, t4)
      BY <2>1, TotalOfParts
  <2> QED BY <2>2, <2>3, <2>4
<1>10. /\ h[a4] \in Nat /\ h[a5] \in Nat /\ Total(h, s1) \in Nat /\ Total(h, s2) \in Nat
       /\ Total(h, s3) \in Nat
    BY <1>1, <1>5, TotalOfParts
<1>11. Total(h, s1 \o s2 \o s3 \o <<a4, a5>>)
           = Counted(HasPlanner(c), h[a1]) + Counted(HasResearcher(c), h[a2])
             + Counted(HasJudge(c, r), h[a3]) + h[a4] + h[a5]
    BY <1>5, <1>7, <1>9, <1>10
<1> QED BY <1>2, <1>3, <1>6, <1>7, <1>8, <1>11

\* A higher assessment staffs everyone whom a lower one staffs.
LEMMA StaffingMonotone ==
    ASSUME NEW c, NEW r, IsAssessment(c, r), NEW d, NEW s, IsAssessment(d, s),
           NowhereAbove(c, r, d, s), NEW p, ValidPolicy(p)
    PROVE  /\ needs_multi_agent(c, r, p) => needs_multi_agent(d, s, p)
           /\ HasPlanner(c) => HasPlanner(d)
           /\ researcher_count(c) <= researcher_count(d)
           /\ HasResearcher(c) => HasResearcher(d)
           /\ HasJudge(c, r) => HasJudge(d, s)
           /\ r.score >= JudgeRisk => s.score >= JudgeRisk
           /\ r.score >= p.multi_agent_risk_threshold
                  => s.score >= p.multi_agent_risk_threshold
<1>1. /\ c.factors.ambiguity \in 0..One /\ d.factors.ambiguity \in 0..One
      /\ c.factors.architectural_impact \in 0..One /\ d.factors.architectural_impact \in 0..One
      /\ r.factors.prior_failures \in 0..One /\ s.factors.prior_failures \in 0..One
      /\ c.score \in 0..ScoreOne /\ d.score \in 0..ScoreOne
      /\ r.score \in 0..ScoreOne /\ s.score \in 0..ScoreOne
    BY DEF IsAssessment, ComplexityFactors, RiskFactors, Factor, Score
<1>2. /\ c.factors.ambiguity <= d.factors.ambiguity
      /\ c.factors.architectural_impact <= d.factors.architectural_impact
      /\ r.factors.prior_failures <= s.factors.prior_failures
      /\ c.score <= d.score /\ r.score <= s.score
    BY DEF NowhereAbove
<1>3. /\ p.multi_agent_complexity_threshold \in 0..ScoreOne
      /\ p.multi_agent_risk_threshold \in 0..ScoreOne
    BY PolicyTyped DEF Score
<1>4. critical_signals(r, p) # {} => critical_signals(s, p) # {}
    BY RoutingMonotone
<1> DEFINE x1 == c.factors.ambiguity             y1 == d.factors.ambiguity
           x2 == c.factors.architectural_impact  y2 == d.factors.architectural_impact
           x3 == r.factors.prior_failures        y3 == s.factors.prior_failures
           x4 == c.score                         y4 == d.score
           x5 == r.score                         y5 == s.score
           m == p.multi_agent_complexity_threshold
           n == p.multi_agent_risk_threshold
           x6 == critical_signals(r, p) # {} /\ p.critical_risk.require_review
           y6 == critical_signals(s, p) # {} /\ p.critical_risk.require_review
<1>a. /\ needs_multi_agent(c, r, p)
            = (x4 >= m \/ x5 >= n \/ x1 >= 10 * Precision
               \/ x2 >= 10 * Precision \/ x3 >= 10 * Precision \/ x6)
      /\ needs_multi_agent(d, s, p)
            = (y4 >= m \/ y5 >= n \/ y1 >= 10 * Precision
               \/ y2 >= 10 * Precision \/ y3 >= 10 * Precision \/ y6)
    BY DEF needs_multi_agent, ResearcherAmbiguity, PlannerArchitectural, PriorFailures
<1>b. /\ HasPlanner(c) = (x2 >= 10 * Precision) /\ HasPlanner(d) = (y2 >= 10 * Precision)
    BY DEF HasPlanner, PlannerArchitectural
<1>c. x6 => y6
    BY <1>4
<1>d. /\ x1 \in 0..One /\ y1 \in 0..One /\ x1 <= y1
      /\ x2 \in 0..One /\ y2 \in 0..One /\ x2 <= y2
      /\ x3 \in 0..One /\ y3 \in 0..One /\ x3 <= y3
      /\ x4 \in 0..ScoreOne /\ y4 \in 0..ScoreOne /\ x4 <= y4
      /\ x5 \in 0..ScoreOne /\ y5 \in 0..ScoreOne /\ x5 <= y5
      /\ m \in 0..ScoreOne /\ n \in 0..ScoreOne
    BY <1>1, <1>2, <1>3
<1>e. /\ r.score >= JudgeRisk => s.score >= JudgeRisk
      /\ r.score >= p.multi_agent_risk_threshold => s.score >= p.multi_agent_risk_threshold
  <2>1. /\ x5 >= 300 * Precision => y5 >= 300 * Precision
        /\ x5 >= n => y5 >= n
    <3> HIDE DEF x5, y5, n
    <3> QED BY <1>d, Grid
  <2> QED BY <2>1 DEF JudgeRisk
<1> HIDE DEF x1, x2, x3, x4, x5, x6, y1, y2, y3, y4, y5, y6, m, n
<1>5. needs_multi_agent(c, r, p) => needs_multi_agent(d, s, p)
  <2>1. /\ x4 >= m => y4 >= m
        /\ x5 >= n => y5 >= n
        /\ x1 >= 10 * Precision => y1 >= 10 * Precision
        /\ x2 >= 10 * Precision => y2 >= 10 * Precision
        /\ x3 >= 10 * Precision => y3 >= 10 * Precision
      BY <1>d, Grid
  <2> QED BY <1>a, <1>c, <2>1
<1>6. /\ HasPlanner(c) => HasPlanner(d)
      /\ r.score >= JudgeRisk => s.score >= JudgeRisk
      /\ r.score >= p.multi_agent_risk_threshold => s.score >= p.multi_agent_risk_threshold
  <2>1. x2 >= 10 * Precision => y2 >= 10 * Precision
      BY <1>d, Grid
  <2> QED BY <1>b, <1>e, <2>1
<1>7. /\ researcher_count(c) <= researcher_count(d)
      /\ researcher_count(c) \in 0..2 /\ researcher_count(d) \in 0..2
  <2>1. /\ researcher_count(c) = IF c.factors.ambiguity >= DualResearcherAmbiguity THEN 2
                                 ELSE IF c.factors.ambiguity < ResearcherAmbiguity THEN 0 ELSE 1
        /\ researcher_count(d) = IF d.factors.ambiguity >= DualResearcherAmbiguity THEN 2
                                 ELSE IF d.factors.ambiguity < ResearcherAmbiguity THEN 0 ELSE 1
      BY ResearcherCounts DEF IsAssessment
  <2>2. /\ DualResearcherAmbiguity \in Int /\ ResearcherAmbiguity \in Int
        /\ ResearcherAmbiguity <= DualResearcherAmbiguity
      BY Grid DEF DualResearcherAmbiguity, ResearcherAmbiguity
  <2>3. /\ c.factors.ambiguity \in Int /\ d.factors.ambiguity \in Int
        /\ c.factors.ambiguity <= d.factors.ambiguity
      BY <1>1, <1>2
  <2> QED BY <2>1, <2>2, <2>3
<1>8. /\ HasResearcher(c) => HasResearcher(d)
      /\ HasJudge(c, r) => HasJudge(d, s)
    BY <1>6, <1>7 DEF HasResearcher, HasJudge
<1> QED BY <1>5, <1>6, <1>7, <1>8

\* h values no agent higher than g values one of at least its tier and count.
ValuedNoHigher(h, g) ==
    \A a, b \in AgentSpec : a.tier <= b.tier /\ a.count <= b.count => h[a] <= g[b]

LEMMA AgentsMonotone ==
    ASSUME NEW c, NEW r, IsAssessment(c, r), NEW d, NEW s, IsAssessment(d, s),
           NowhereAbove(c, r, d, s), NEW p, ValidPolicy(p),
           NEW u \in Primary, NEW v \in Primary, u.tier <= v.tier,
           NEW h, NEW g, ValuedNoHigher(h, g)
    PROVE  /\ h[Builder(u)] <= g[Builder(v)] /\ h[Planner(u)] <= g[Planner(v)]
           /\ h[Researcher(c, u)] <= g[Researcher(d, v)]
           /\ h[Judge(r, u)] <= g[Judge(s, v)]
           /\ h[Reviewer(r, u, p)] <= g[Reviewer(s, v, p)]
<1> DEFINE x == u.tier
           y == v.tier
<1>1. x \in 0..3 /\ y \in 0..3 /\ x <= y
    BY DEF Primary, ModelTier, FAST, FRONTIER
<1>2. /\ r.score >= JudgeRisk => s.score >= JudgeRisk
      /\ r.score >= p.multi_agent_risk_threshold => s.score >= p.multi_agent_risk_threshold
      /\ researcher_count(c) <= researcher_count(d)
    BY StaffingMonotone
<1>3. /\ Builder(u) \in AgentSpec /\ Builder(v) \in AgentSpec
      /\ Planner(u) \in AgentSpec /\ Planner(v) \in AgentSpec
      /\ Researcher(c, u) \in AgentSpec /\ Researcher(d, v) \in AgentSpec
      /\ Judge(r, u) \in AgentSpec /\ Judge(s, v) \in AgentSpec
      /\ Reviewer(r, u, p) \in AgentSpec /\ Reviewer(s, v, p) \in AgentSpec
    BY AgentsTyped
<1>4. /\ OneStepDown(x) <= OneStepDown(y) /\ OneStepUp(x) <= OneStepUp(y)
      /\ x <= OneStepUp(y)
    BY <1>1 DEF OneStepDown, OneStepUp, Up, FAST, FRONTIER
<1>5. /\ Builder(u).tier = x /\ Builder(v).tier = y
      /\ Planner(u).tier = x /\ Planner(v).tier = y
      /\ Builder(u).count = 1 /\ Builder(v).count = 1
      /\ Planner(u).count = 1 /\ Planner(v).count = 1
    BY DEF Builder, Planner, Agent
<1>6. /\ Researcher(c, u).tier = OneStepDown(x) /\ Researcher(d, v).tier = OneStepDown(y)
      /\ Researcher(c, u).count = researcher_count(c)
      /\ Researcher(d, v).count = researcher_count(d)
    BY DEF Researcher, Agent
<1>7. /\ Judge(r, u).tier = IF r.score >= JudgeRisk THEN OneStepUp(x) ELSE x
      /\ Judge(s, v).tier = IF s.score >= JudgeRisk THEN OneStepUp(y) ELSE y
      /\ Judge(r, u).count = 1 /\ Judge(s, v).count = 1
    BY DEF Judge, Agent
<1>8. /\ Reviewer(r, u, p).tier = IF r.score >= p.multi_agent_risk_threshold
                                  THEN OneStepUp(x) ELSE x
      /\ Reviewer(s, v, p).tier = IF s.score >= p.multi_agent_risk_threshold
                                  THEN OneStepUp(y) ELSE y
      /\ Reviewer(r, u, p).count = 1 /\ Reviewer(s, v, p).count = 1
    BY DEF Reviewer, Agent
<1> HIDE DEF x, y
<1>9. Judge(r, u).tier <= Judge(s, v).tier
    BY <1>1, <1>2, <1>4, <1>7
<1>10. Reviewer(r, u, p).tier <= Reviewer(s, v, p).tier
    BY <1>1, <1>2, <1>4, <1>8
<1>11. h[Builder(u)] <= g[Builder(v)] /\ h[Planner(u)] <= g[Planner(v)]
    BY <1>1, <1>3, <1>5 DEF ValuedNoHigher
<1>12. h[Researcher(c, u)] <= g[Researcher(d, v)]
    BY <1>2, <1>3, <1>4, <1>6 DEF ValuedNoHigher
<1>13. h[Judge(r, u)] <= g[Judge(s, v)]
    BY <1>3, <1>7, <1>9 DEF ValuedNoHigher
<1>14. h[Reviewer(r, u, p)] <= g[Reviewer(s, v, p)]
    BY <1>3, <1>8, <1>10 DEF ValuedNoHigher
<1> QED BY <1>11, <1>12, <1>13, <1>14

LEMMA TeamMonotone ==
    ASSUME NEW c, NEW r, IsAssessment(c, r), NEW d, NEW s, IsAssessment(d, s),
           NowhereAbove(c, r, d, s), NEW p, ValidPolicy(p),
           NEW u \in Primary, NEW v \in Primary, u.tier <= v.tier,
           NEW h \in [ AgentSpec -> Nat ], NEW g \in [ AgentSpec -> Nat ],
           ValuedNoHigher(h, g)
    PROVE  TeamTotal(h, c, r, u, p) <= TeamTotal(g, d, s, v, p)
<1> DEFINE h1 == h[Planner(u)]         g1 == g[Planner(v)]
           h2 == h[Researcher(c, u)]   g2 == g[Researcher(d, v)]
           h3 == h[Judge(r, u)]        g3 == g[Judge(s, v)]
           h4 == h[Builder(u)]         g4 == g[Builder(v)]
           h5 == h[Reviewer(r, u, p)]  g5 == g[Reviewer(s, v, p)]
<1>1. /\ h1 <= g1 /\ h2 <= g2 /\ h3 <= g3 /\ h4 <= g4 /\ h5 <= g5
    BY AgentsMonotone
<1>2. /\ h1 \in Nat /\ h2 \in Nat /\ h3 \in Nat /\ h4 \in Nat /\ h5 \in Nat
      /\ g1 \in Nat /\ g2 \in Nat /\ g3 \in Nat /\ g4 \in Nat /\ g5 \in Nat
    BY AgentsTyped
<1>3. /\ needs_multi_agent(c, r, p) => needs_multi_agent(d, s, p)
      /\ HasPlanner(c) => HasPlanner(d)
      /\ HasResearcher(c) => HasResearcher(d)
      /\ HasJudge(c, r) => HasJudge(d, s)
    BY StaffingMonotone
<1>4. /\ TeamTotal(h, c, r, u, p)
             = IF needs_multi_agent(c, r, p)
               THEN Counted(HasPlanner(c), h1) + Counted(HasResearcher(c), h2)
                    + Counted(HasJudge(c, r), h3) + h4 + h5
               ELSE h4
      /\ TeamTotal(g, d, s, v, p)
             = IF needs_multi_agent(d, s, p)
               THEN Counted(HasPlanner(d), g1) + Counted(HasResearcher(d), g2)
                    + Counted(HasJudge(d, s), g3) + g4 + g5
               ELSE g4
    BY DEF TeamTotal
<1> HIDE DEF h1, h2, h3, h4, h5, g1, g2, g3, g4, g5
<1>5. /\ Counted(HasPlanner(c), h1) <= Counted(HasPlanner(d), g1)
      /\ Counted(HasResearcher(c), h2) <= Counted(HasResearcher(d), g2)
      /\ Counted(HasJudge(c, r), h3) <= Counted(HasJudge(d, s), g3)
  <2>1. Counted(HasPlanner(c), h1) <= Counted(HasPlanner(d), g1)
    <3>1. CASE HasPlanner(c)
      <4>1. HasPlanner(d) /\ h1 <= g1
          BY <1>1, <1>3, <3>1
      <4> QED BY <3>1, <4>1 DEF Counted
    <3>2. CASE ~HasPlanner(c)
        BY <1>2, <3>2 DEF Counted
    <3> QED BY <3>1, <3>2
  <2>2. Counted(HasResearcher(c), h2) <= Counted(HasResearcher(d), g2)
    <3>1. CASE HasResearcher(c)
      <4>1. HasResearcher(d) /\ h2 <= g2
          BY <1>1, <1>3, <3>1
      <4> QED BY <3>1, <4>1 DEF Counted
    <3>2. CASE ~HasResearcher(c)
        BY <1>2, <3>2 DEF Counted
    <3> QED BY <3>1, <3>2
  <2>3. Counted(HasJudge(c, r), h3) <= Counted(HasJudge(d, s), g3)
    <3>1. CASE HasJudge(c, r)
      <4>1. HasJudge(d, s) /\ h3 <= g3
          BY <1>1, <1>3, <3>1
      <4> QED BY <3>1, <4>1 DEF Counted
    <3>2. CASE ~HasJudge(c, r)
        BY <1>2, <3>2 DEF Counted
    <3> QED BY <3>1, <3>2
  <2> QED BY <2>1, <2>2, <2>3
<1>6. /\ Counted(HasPlanner(c), h1) \in Nat /\ Counted(HasPlanner(d), g1) \in Nat
      /\ Counted(HasResearcher(c), h2) \in Nat /\ Counted(HasResearcher(d), g2) \in Nat
      /\ Counted(HasJudge(c, r), h3) \in Nat /\ Counted(HasJudge(d, s), g3) \in Nat
    BY <1>2 DEF Counted
<1> QED BY <1>1, <1>2, <1>3, <1>4, <1>5, <1>6

\* The two things a plan adds up: its agents, and what each costs.
Counts == [ a \in AgentSpec |-> a.count ]
Costs(tokens) == [ a \in AgentSpec |-> estimate_cost(a.tier, tokens) * a.count ]

LEMMA CostsTyped ==
    ASSUME NEW n \in Nat
    PROVE  Counts \in [ AgentSpec -> Nat ] /\ Costs(n) \in [ AgentSpec -> Nat ]
<1>1. ASSUME NEW a \in AgentSpec
      PROVE  a.count \in Nat /\ estimate_cost(a.tier, n) * a.count \in Nat
  <2>1. a.count \in Nat /\ a.tier \in 0..3
      BY DEF AgentSpec, ModelTier, FAST, FRONTIER
  <2>2. CostPer1kTokens(a.tier) \in Nat
      BY <2>1 DEF CostPer1kTokens, FAST, STANDARD, ADVANCED, FRONTIER
  <2>3. estimate_cost(a.tier, n) \in Nat
      BY <2>2 DEF estimate_cost
  <2> QED BY <2>1, <2>3
<1> QED BY <1>1 DEF Counts, Costs

LEMMA CostsMonotone ==
    ASSUME NEW m \in Nat, NEW n \in Nat, m <= n
    PROVE  ValuedNoHigher(Counts, Counts) /\ ValuedNoHigher(Costs(m), Costs(n))
<1>1. ValuedNoHigher(Counts, Counts)
    BY DEF ValuedNoHigher, Counts
<1>2. ASSUME NEW x \in 0..3, NEW y \in 0..3, x <= y
      PROVE  /\ CostPer1kTokens(x) \in Nat /\ CostPer1kTokens(y) \in Nat
             /\ CostPer1kTokens(x) <= CostPer1kTokens(y)
    BY <1>2 DEF CostPer1kTokens, FAST, STANDARD, ADVANCED, FRONTIER
<1>3. ASSUME NEW a \in AgentSpec, NEW b \in AgentSpec, a.tier <= b.tier, a.count <= b.count
      PROVE  Costs(m)[a] <= Costs(n)[b]
  <2>1. /\ a.tier \in 0..3 /\ b.tier \in 0..3 /\ a.count \in Nat /\ b.count \in Nat
      BY DEF AgentSpec, ModelTier, FAST, FRONTIER
  <2> DEFINE x == CostPer1kTokens(a.tier)
             y == CostPer1kTokens(b.tier)
  <2>2. x \in Nat /\ y \in Nat /\ x <= y
      BY <1>2, <1>3, <2>1
  <2>3. /\ Costs(m)[a] = (x * m) * a.count
        /\ Costs(n)[b] = (y * n) * b.count
      BY DEF Costs, estimate_cost
  <2> HIDE DEF x, y
  <2>4. x * m <= y * n /\ x * m \in Nat /\ y * n \in Nat
      BY <2>2, ProductMonotone
  <2>5. (x * m) * a.count <= (y * n) * b.count
      BY <1>3, <2>1, <2>4, ProductMonotone
  <2> QED BY <2>3, <2>5
<1>4. ValuedNoHigher(Costs(m), Costs(n))
    BY <1>3 DEF ValuedNoHigher
<1> QED BY <1>1, <1>4

LEMMA TeamSums ==
    ASSUME NEW s \in Seq(AgentSpec), NEW n \in Nat
    PROVE  agent_count(s) = Total(Counts, s) /\ TeamCost(s, n) = Total(Costs(n), s)
<1>1. \A i \in DOMAIN s : s[i] \in AgentSpec
    OBVIOUS
<1>2. [ i \in DOMAIN s |-> s[i].count ] = [ i \in DOMAIN s |-> Counts[s[i]] ]
    BY <1>1 DEF Counts
<1>3. [ i \in DOMAIN s |-> estimate_cost(s[i].tier, n) * s[i].count ]
          = [ i \in DOMAIN s |-> Costs(n)[s[i]] ]
    BY <1>1 DEF Costs
<1> QED BY <1>2, <1>3 DEF agent_count, TeamCost, Total

\* A reviewer is on every team but the lone builder.
LEMMA ReviewedTeams ==
    ASSUME NEW c, NEW r, IsAssessment(c, r), NEW primary \in Primary, NEW p
    PROVE  LET agents == build_execution_strategy(c, r, primary, p)
           IN  (\E i \in DOMAIN agents : agents[i].role = "reviewer")
                   <=> needs_multi_agent(c, r, p)
<1> DEFINE a4 == Builder(primary)
           a5 == Reviewer(r, primary, p)
           s == Joins(HasPlanner(c), Planner(primary))
                \o Joins(HasResearcher(c), Researcher(c, primary))
                \o Joins(HasJudge(c, r), Judge(r, primary))
<1>1. build_execution_strategy(c, r, primary, p)
          = IF needs_multi_agent(c, r, p) THEN s \o <<a4, a5>> ELSE <<a4>>
    BY TeamIsBuilt DEF FullTeam
<1>2. a4.role = "builder" /\ a5.role = "reviewer"
    BY DEF Builder, Reviewer, Agent
<1>3. s \in Seq(AgentSpec)
  <2>1. ASSUME NEW b, NEW x \in AgentSpec PROVE Joins(b, x) \in Seq(AgentSpec)
      BY DEF Joins
  <2>2. /\ Joins(HasPlanner(c), Planner(primary)) \in Seq(AgentSpec)
        /\ Joins(HasResearcher(c), Researcher(c, primary)) \in Seq(AgentSpec)
        /\ Joins(HasJudge(c, r), Judge(r, primary)) \in Seq(AgentSpec)
      BY <2>1, AgentsTyped
  <2> QED BY <2>2
<1>4. a4 \in AgentSpec /\ a5 \in AgentSpec
    BY AgentsTyped
<1> HIDE DEF a4, a5, s
<1>5. Len(s) + 2 \in DOMAIN (s \o <<a4, a5>>) /\ (s \o <<a4, a5>>)[Len(s) + 2] = a5
    BY <1>3, <1>4
<1>6. DOMAIN <<a4>> = { 1 } /\ <<a4>>[1] = a4
    OBVIOUS
<1> QED BY <1>1, <1>2, <1>5, <1>6

LEMMA ContextMonotone ==
    ASSUME NEW t \in TaskProfile, NEW c, c.score \in Score
    PROVE  /\ desired_context_budget(t, c) \in Int
           /\ AtLeastOne(desired_context_budget(t, c)) \in Nat
           /\ \A u \in TaskProfile : \A d :
                  /\ d.score \in Score /\ c.score <= d.score
                  /\ t.expected_output_tokens <= u.expected_output_tokens
                  => /\ desired_context_budget(t, c) <= desired_context_budget(u, d)
                     /\ AtLeastOne(desired_context_budget(t, c))
                            <= AtLeastOne(desired_context_budget(u, d))
<1>1. ASSUME NEW u \in TaskProfile, NEW d, d.score \in Score
      PROVE  /\ u.expected_output_tokens \in Nat
             /\ desired_context_budget(u, d)
                    = (u.expected_output_tokens * (2 * ScoreOne + 4 * d.score)) \div ScoreOne
             /\ 2 * ScoreOne + 4 * d.score \in Nat
             /\ u.expected_output_tokens * (2 * ScoreOne + 4 * d.score) \in Int
             /\ desired_context_budget(u, d) \in Int
  <2> DEFINE e == u.expected_output_tokens
             x == d.score
  <2>1. e \in Nat /\ x \in Nat
      BY <1>1 DEF TaskProfile, Score
  <2>2. desired_context_budget(u, d) = (e * (2 * ScoreOne + 4 * x)) \div ScoreOne
      BY DEF desired_context_budget
  <2> SUFFICES /\ e \in Nat
               /\ desired_context_budget(u, d) = (e * (2 * ScoreOne + 4 * x)) \div ScoreOne
               /\ 2 * ScoreOne + 4 * x \in Nat /\ e * (2 * ScoreOne + 4 * x) \in Int
               /\ desired_context_budget(u, d) \in Int
      OBVIOUS
  <2> HIDE DEF e, x
  <2>3. 2 * ScoreOne + 4 * x \in Nat /\ e * (2 * ScoreOne + 4 * x) \in Int
      BY <2>1, Grid
  <2>4. (e * (2 * ScoreOne + 4 * x)) \div ScoreOne \in Int
      BY <2>3, Grid, Quotient
  <2> QED BY <2>1, <2>2, <2>3, <2>4
<1>2. ASSUME NEW x \in Int, NEW y \in Int, x <= y
      PROVE  AtLeastOne(x) \in Nat /\ AtLeastOne(x) <= AtLeastOne(y)
    BY <1>2 DEF AtLeastOne
<1>3. ASSUME NEW u \in TaskProfile, NEW d, d.score \in Score, c.score <= d.score,
             t.expected_output_tokens <= u.expected_output_tokens
      PROVE  desired_context_budget(t, c) <= desired_context_budget(u, d)
  <2> DEFINE e == t.expected_output_tokens
             f == u.expected_output_tokens
             x == c.score
             y == d.score
  <2>1. /\ e \in Nat /\ f \in Nat /\ e <= f /\ x \in Nat /\ y \in Nat /\ x <= y
      BY <1>1, <1>3 DEF Score
  <2>2. /\ desired_context_budget(t, c) = (e * (2 * ScoreOne + 4 * x)) \div ScoreOne
        /\ desired_context_budget(u, d) = (f * (2 * ScoreOne + 4 * y)) \div ScoreOne
      BY <1>1, <1>3
  <2> HIDE DEF e, f, x, y
  <2> DEFINE a == e * (2 * ScoreOne + 4 * x)
             b == f * (2 * ScoreOne + 4 * y)
  <2>3. a \in Nat /\ b \in Nat /\ a <= b
    <3>1. /\ 2 * ScoreOne + 4 * x \in Nat /\ 2 * ScoreOne + 4 * y \in Nat
          /\ 2 * ScoreOne + 4 * x <= 2 * ScoreOne + 4 * y
        BY <2>1, Grid
    <3>2. e * (2 * ScoreOne + 4 * x) \in Nat /\ f * (2 * ScoreOne + 4 * y) \in Nat
        BY <2>1, <3>1
    <3> QED BY <2>1, <3>1, <3>2, ProductMonotone
  <2> HIDE DEF a, b
  <2>4. a \div ScoreOne <= b \div ScoreOne
    <3>1. a * ScoreOne <= b * ScoreOne /\ a \in Int /\ b \in Int /\ ScoreOne \in Nat \ {0}
        BY <2>3, Grid, ProductMonotone
    <3> QED BY <3>1, QuotientMonotone
  <2> QED BY <2>2, <2>4 DEF a, b
<1>4. desired_context_budget(t, c) \in Int
    BY <1>1
<1>5. AtLeastOne(desired_context_budget(t, c)) \in Nat
  <2> DEFINE x == desired_context_budget(t, c)
  <2>1. x \in Int /\ x <= x
      BY <1>4
  <2> HIDE DEF x
  <2>2. AtLeastOne(x) \in Nat
      BY <1>2, <2>1
  <2> QED BY <2>2 DEF x
<1> QED BY <1>1, <1>2, <1>3, <1>4, <1>5

-----------------------------------------------------------------------------
(* The plan *)

\* What the plan of a task is made of.
RouteOf(t, p) == route(assess_complexity(t), assess_risk(t), p)
TeamOf(t, p) ==
    build_execution_strategy(assess_complexity(t), assess_risk(t), RouteOf(t, p), p)
DesiredOf(t) == desired_context_budget(t, assess_complexity(t))
ContextOf(t) == AtLeastOne(DesiredOf(t))
SizeOf(h, t, p) ==
    TeamTotal(h, assess_complexity(t), assess_risk(t), RouteOf(t, p), p)
CostOf(t, p) == SizeOf(Costs(ContextOf(t)), t, p)
ReviewedIs(t, p) == needs_multi_agent(assess_complexity(t), assess_risk(t), p)

LEMMA PlanTyped ==
    ASSUME NEW t \in TaskProfile, NEW p, ValidPolicy(p)
    PROVE  /\ RouteOf(t, p) \in Primary
           /\ RouteOf(t, p).tier
                  = select_model_tier(assess_complexity(t), assess_risk(t), p)
           /\ RouteOf(t, p).reasoning
                  = select_reasoning_effort(assess_complexity(t), assess_risk(t), p)
           /\ DesiredOf(t) \in Int /\ ContextOf(t) \in Nat
           /\ SizeOf(Counts, t, p) \in Nat /\ CostOf(t, p) \in Nat
           /\ TeamOf(t, p) \in Seq(AgentSpec)
           /\ agent_count(TeamOf(t, p)) = SizeOf(Counts, t, p)
           /\ TeamCost(TeamOf(t, p), ContextOf(t)) = CostOf(t, p)
<1> DEFINE c == assess_complexity(t)
           r == assess_risk(t)
           u == RouteOf(t, p)
           n == ContextOf(t)
<1>1. IsAssessment(c, r)
    BY TasksAreAssessed
<1>2. c.score \in Score
    BY <1>1 DEF IsAssessment
<1>3. DesiredOf(t) \in Int /\ n \in Nat
    BY <1>2, ContextMonotone DEF DesiredOf, ContextOf
<1>4. /\ u.tier = select_model_tier(c, r, p)
      /\ u.reasoning = select_reasoning_effort(c, r, p)
      /\ u \in Primary
    BY <1>1, RanksTyped DEF RouteOf, route, Primary
<1>5. /\ TeamOf(t, p) = build_execution_strategy(c, r, u, p)
      /\ SizeOf(Counts, t, p) = TeamTotal(Counts, c, r, u, p)
      /\ CostOf(t, p) = TeamTotal(Costs(n), c, r, u, p)
    BY DEF TeamOf, CostOf, SizeOf
<1> SUFFICES /\ DesiredOf(t) \in Int /\ n \in Nat
             /\ SizeOf(Counts, t, p) \in Nat /\ CostOf(t, p) \in Nat
             /\ TeamOf(t, p) \in Seq(AgentSpec)
             /\ agent_count(TeamOf(t, p)) = SizeOf(Counts, t, p)
             /\ TeamCost(TeamOf(t, p), n) = CostOf(t, p)
    BY <1>4
<1> HIDE DEF c, r, u, n
<1>6. /\ TeamOf(t, p) \in Seq(AgentSpec)
      /\ Total(Counts, TeamOf(t, p)) = SizeOf(Counts, t, p)
      /\ Total(Costs(n), TeamOf(t, p)) = CostOf(t, p)
    BY <1>1, <1>3, <1>4, <1>5, CostsTyped, TeamTotals
<1>7. /\ Total(Counts, TeamOf(t, p)) \in Nat
      /\ Total(Costs(n), TeamOf(t, p)) \in Nat
    BY <1>3, <1>6, CostsTyped, TotalOfParts
<1>8. /\ agent_count(TeamOf(t, p)) = Total(Counts, TeamOf(t, p))
      /\ TeamCost(TeamOf(t, p), n) = Total(Costs(n), TeamOf(t, p))
    BY <1>3, <1>6, TeamSums
<1> QED BY <1>3, <1>6, <1>7, <1>8

\* A plan within every budget.
WithinBudget(t, p) ==
    /\ SizeOf(Counts, t, p) <= p.budget.max_agents
    /\ DesiredOf(t) <= p.budget.max_context_budget_tokens
    /\ CostOf(t, p) <= p.budget.max_estimated_cost
    /\ ContextOf(t) * SizeOf(Counts, t, p) <= p.budget.max_estimated_tokens

LEMMA PlanFields ==
    ASSUME NEW t \in TaskProfile, NEW p, ValidPolicy(p)
    PROVE  /\ build_execution_plan(t, p).primary_model = RouteOf(t, p)
           /\ agent_count(build_execution_plan(t, p).agents) = SizeOf(Counts, t, p)
           /\ build_execution_plan(t, p).context_budget_tokens = ContextOf(t)
           /\ build_execution_plan(t, p).max_estimated_cost = CostOf(t, p)
           /\ build_execution_plan(t, p).review_required <=> ReviewedIs(t, p)
           /\ IsReturned(build_execution_plan(t, p)) <=> WithinBudget(t, p)
<1> DEFINE x == build_execution_plan(t, p)
<1>1. /\ x.primary_model = RouteOf(t, p) /\ x.agents = TeamOf(t, p)
      /\ x.context_budget_tokens = ContextOf(t)
      /\ x.max_estimated_cost = TeamCost(TeamOf(t, p), ContextOf(t))
    BY DEF build_execution_plan, RouteOf, TeamOf, ContextOf, DesiredOf
<1>2. x.review_required <=> \E i \in DOMAIN TeamOf(t, p) : TeamOf(t, p)[i].role = "reviewer"
    BY DEF build_execution_plan, RouteOf, TeamOf
<1>3. x.refusal
          = IF agent_count(TeamOf(t, p)) > p.budget.max_agents THEN "agents"
            ELSE IF DesiredOf(t) > p.budget.max_context_budget_tokens THEN "context"
            ELSE IF TeamCost(TeamOf(t, p), ContextOf(t)) > p.budget.max_estimated_cost
            THEN "cost"
            ELSE IF TeamTokens(TeamOf(t, p), ContextOf(t)) > p.budget.max_estimated_tokens
            THEN "tokens"
            ELSE NotRefused
    BY DEF build_execution_plan, RouteOf, TeamOf, ContextOf, DesiredOf
<1>4. x.review_required <=> ReviewedIs(t, p)
  <2>1. IsAssessment(assess_complexity(t), assess_risk(t)) /\ RouteOf(t, p) \in Primary
      BY TasksAreAssessed, PlanTyped
  <2>2. (\E i \in DOMAIN TeamOf(t, p) : TeamOf(t, p)[i].role = "reviewer")
            <=> ReviewedIs(t, p)
      BY <2>1, ReviewedTeams DEF TeamOf, ReviewedIs
  <2> QED BY <1>2, <2>2
<1>5. IsReturned(x) <=> WithinBudget(t, p)
  <2> DEFINE a == SizeOf(Counts, t, p)
             d == DesiredOf(t)
             k == CostOf(t, p)
             n == ContextOf(t) * SizeOf(Counts, t, p)
             b1 == p.budget.max_agents
             b2 == p.budget.max_context_budget_tokens
             b3 == p.budget.max_estimated_cost
             b4 == p.budget.max_estimated_tokens
  <2>1. a \in Nat /\ d \in Int /\ k \in Nat /\ ContextOf(t) \in Nat
      BY PlanTyped
  <2>2. n \in Nat
      BY <2>1
  <2>3. b1 \in Nat /\ b2 \in Nat /\ b3 \in Nat /\ b4 \in Nat
      BY PolicyTyped DEF Policy
  <2>4. x.refusal = IF a > b1 THEN "agents" ELSE IF d > b2 THEN "context"
                    ELSE IF k > b3 THEN "cost" ELSE IF n > b4 THEN "tokens"
                    ELSE NotRefused
      BY <1>3, PlanTyped DEF TeamTokens
  <2>5. WithinBudget(t, p) <=> a <= b1 /\ d <= b2 /\ k <= b3 /\ n <= b4
      BY DEF WithinBudget
  <2> HIDE DEF a, d, k, n, b1, b2, b3, b4
  <2>6. IsReturned(x) <=> ~(a > b1) /\ ~(d > b2) /\ ~(k > b3) /\ ~(n > b4)
      BY <2>4 DEF IsReturned, NotRefused
  <2>7. /\ ~(a > b1) <=> a <= b1
        /\ ~(d > b2) <=> d <= b2
        /\ ~(k > b3) <=> k <= b3
        /\ ~(n > b4) <=> n <= b4
      BY <2>1, <2>2, <2>3
  <2> QED BY <2>5, <2>6, <2>7
<1>6. agent_count(x.agents) = SizeOf(Counts, t, p)
    BY <1>1, PlanTyped
<1>7. x.max_estimated_cost = CostOf(t, p)
    BY <1>1, PlanTyped
<1> QED BY <1>1, <1>4, <1>5, <1>6, <1>7

\* The plan of a harder task is nowhere the smaller one.
LEMMA HarderPlan ==
    ASSUME NEW t \in TaskProfile, NEW u \in TaskProfile, IsHarder(t, u),
           NEW p, ValidPolicy(p)
    PROVE  /\ RouteOf(u, p).tier <= RouteOf(t, p).tier
           /\ RouteOf(u, p).reasoning <= RouteOf(t, p).reasoning
           /\ SizeOf(Counts, u, p) <= SizeOf(Counts, t, p)
           /\ DesiredOf(u) <= DesiredOf(t) /\ ContextOf(u) <= ContextOf(t)
           /\ CostOf(u, p) <= CostOf(t, p)
           /\ ReviewedIs(u, p) => ReviewedIs(t, p)
           /\ WithinBudget(t, p) => WithinBudget(u, p)
<1> DEFINE c == assess_complexity(u)
           r == assess_risk(u)
           d == assess_complexity(t)
           s == assess_risk(t)
<1>1. IsAssessment(c, r) /\ IsAssessment(d, s) /\ NowhereAbove(c, r, d, s)
    BY TasksAreAssessed, HarderIsAssessedHigher
<1>2. /\ select_model_tier(c, r, p) <= select_model_tier(d, s, p)
      /\ select_reasoning_effort(c, r, p) <= select_reasoning_effort(d, s, p)
    BY <1>1, RoutingMonotone
<1>3. /\ RouteOf(u, p).tier <= RouteOf(t, p).tier
      /\ RouteOf(u, p).reasoning <= RouteOf(t, p).reasoning
    BY <1>2, PlanTyped
<1>4. DesiredOf(u) <= DesiredOf(t) /\ ContextOf(u) <= ContextOf(t)
  <2>1. u.expected_output_tokens <= t.expected_output_tokens
      BY DEF IsHarder, TaskProfile
  <2>2. c.score \in Score /\ d.score \in Score /\ c.score <= d.score
      BY <1>1 DEF IsAssessment, NowhereAbove
  <2>3. /\ desired_context_budget(u, c) <= desired_context_budget(t, d)
        /\ AtLeastOne(desired_context_budget(u, c))
               <= AtLeastOne(desired_context_budget(t, d))
    <3> HIDE DEF c, d
    <3> QED BY <2>1, <2>2, ContextMonotone
  <2> QED BY <2>3 DEF DesiredOf, ContextOf
<1>5. ReviewedIs(u, p) => ReviewedIs(t, p)
    BY <1>1, StaffingMonotone DEF ReviewedIs
<1>6. /\ SizeOf(Counts, u, p) <= SizeOf(Counts, t, p)
      /\ CostOf(u, p) <= CostOf(t, p)
  <2>1. /\ RouteOf(u, p) \in Primary /\ RouteOf(t, p) \in Primary
        /\ ContextOf(u) \in Nat /\ ContextOf(t) \in Nat
      BY PlanTyped
  <2>2. /\ ValuedNoHigher(Counts, Counts)
        /\ ValuedNoHigher(Costs(ContextOf(u)), Costs(ContextOf(t)))
      BY <1>4, <2>1, CostsMonotone
  <2>3. /\ Counts \in [ AgentSpec -> Nat ]
        /\ Costs(ContextOf(u)) \in [ AgentSpec -> Nat ]
        /\ Costs(ContextOf(t)) \in [ AgentSpec -> Nat ]
      BY <2>1, CostsTyped
  <2> HIDE DEF c, r, d, s
  <2>4. /\ TeamTotal(Counts, c, r, RouteOf(u, p), p)
               <= TeamTotal(Counts, d, s, RouteOf(t, p), p)
        /\ TeamTotal(Costs(ContextOf(u)), c, r, RouteOf(u, p), p)
               <= TeamTotal(Costs(ContextOf(t)), d, s, RouteOf(t, p), p)
      BY <1>1, <1>3, <2>1, <2>2, <2>3, TeamMonotone
  <2> QED BY <2>4 DEF SizeOf, CostOf, c, r, d, s
<1>7. WithinBudget(t, p) => WithinBudget(u, p)
  <2> DEFINE x1 == SizeOf(Counts, u, p)  y1 == SizeOf(Counts, t, p)
             x2 == DesiredOf(u)          y2 == DesiredOf(t)
             x3 == CostOf(u, p)          y3 == CostOf(t, p)
             x4 == ContextOf(u)          y4 == ContextOf(t)
             b1 == p.budget.max_agents
             b2 == p.budget.max_context_budget_tokens
             b3 == p.budget.max_estimated_cost
             b4 == p.budget.max_estimated_tokens
  <2>1. /\ x1 \in Nat /\ y1 \in Nat /\ x2 \in Int /\ y2 \in Int /\ x3 \in Nat /\ y3 \in Nat
        /\ x4 \in Nat /\ y4 \in Nat
      BY PlanTyped
  <2>2. x1 <= y1 /\ x2 <= y2 /\ x3 <= y3 /\ x4 <= y4
      BY <1>4, <1>6
  <2>3. b1 \in Nat /\ b2 \in Nat /\ b3 \in Nat /\ b4 \in Nat
      BY PolicyTyped DEF Policy
  <2>4. /\ WithinBudget(u, p) <=> x1 <= b1 /\ x2 <= b2 /\ x3 <= b3 /\ x4 * x1 <= b4
        /\ WithinBudget(t, p) <=> y1 <= b1 /\ y2 <= b2 /\ y3 <= b3 /\ y4 * y1 <= b4
      BY DEF WithinBudget
  <2> HIDE DEF x1, x2, x3, x4, y1, y2, y3, y4, b1, b2, b3, b4
  <2>5. x4 * x1 <= y4 * y1 /\ x4 * x1 \in Nat /\ y4 * y1 \in Nat
      BY <2>1, <2>2, ProductMonotone
  <2>6. /\ y1 <= b1 => x1 <= b1
        /\ y2 <= b2 => x2 <= b2
        /\ y3 <= b3 => x3 <= b3
        /\ y4 * y1 <= b4 => x4 * x1 <= b4
      BY <2>1, <2>2, <2>3, <2>5
  <2> QED BY <2>4, <2>6
<1> QED BY <1>3, <1>4, <1>5, <1>6, <1>7

\* More weight on cost and latency and less on quality moves the breakpoints up.
LEMMA ShiftMonotone ==
    ASSUME NEW p, ValidPolicy(p), NEW q, ValidPolicy(q), IsThriftier(p, q)
    PROVE  threshold_shift(q) <= threshold_shift(p)
<1> DEFINE a == p.routing_weights.cost     x == q.routing_weights.cost
           b == p.routing_weights.latency  y == q.routing_weights.latency
           k == p.routing_weights.quality  z == q.routing_weights.quality
<1>1. /\ a \in Nat /\ b \in Nat /\ k \in Nat /\ x \in Nat /\ y \in Nat /\ z \in Nat
      /\ Weights(p) \in Nat \ {0} /\ Weights(q) \in Nat \ {0}
    BY PolicyTyped
<1>2. /\ Weights(p) = a + k + b /\ Weights(q) = x + z + y
      /\ threshold_shift(p) = (MaxThresholdShift * (a + b - k)) \div (a + k + b)
      /\ threshold_shift(q) = (MaxThresholdShift * (x + y - z)) \div (x + z + y)
    BY DEF Weights, threshold_shift
<1>3. x <= a /\ y <= b /\ k <= z
    BY <1>1 DEF IsThriftier
<1> HIDE DEF a, b, k, x, y, z
<1> DEFINE m == a + b
           n == x + y
<1>4. /\ m \in Nat /\ n \in Nat /\ n <= m
      /\ a + b - k = m - k /\ a + k + b = m + k
      /\ x + y - z = n - z /\ x + z + y = n + z
    BY <1>1, <1>3
<1>5. m + k \in Nat \ {0} /\ n + z \in Nat \ {0}
    BY <1>1, <1>2, <1>4
<1> HIDE DEF m, n
<1>s. MaxThresholdShift \in Nat
    BY Grid DEF MaxThresholdShift
<1>6. (n - z) * (m + k) <= (m - k) * (n + z)
  <2>1. n * k <= m * z
      BY <1>1, <1>3, <1>4, ProductMonotone
  <2>2. /\ (n - z) * (m + k) = n * m + n * k - m * z - z * k
        /\ (m - k) * (n + z) = n * m + m * z - n * k - z * k
      BY <1>1, <1>4
  <2>3. n * k \in Int /\ m * z \in Int /\ n * m \in Int /\ z * k \in Int
      BY <1>1, <1>4
  <2> QED BY <2>1, <2>2, <2>3
<1>7. (MaxThresholdShift * (n - z)) * (m + k) <= (MaxThresholdShift * (m - k)) * (n + z)
  <2> DEFINE i == (n - z) * (m + k)
             j == (m - k) * (n + z)
  <2>1. /\ (MaxThresholdShift * (n - z)) * (m + k) = MaxThresholdShift * i
        /\ (MaxThresholdShift * (m - k)) * (n + z) = MaxThresholdShift * j
      BY <1>1, <1>4, <1>s
  <2>2. i \in Int /\ j \in Int /\ i <= j
      BY <1>1, <1>4, <1>6
  <2> HIDE DEF i, j
  <2>3. MaxThresholdShift * i <= MaxThresholdShift * j
      BY <1>s, <2>2
  <2> QED BY <2>1, <2>3
<1>8. MaxThresholdShift * (n - z) \in Int /\ MaxThresholdShift * (m - k) \in Int
    BY <1>1, <1>4, <1>s
<1>9. (MaxThresholdShift * (n - z)) \div (n + z) <= (MaxThresholdShift * (m - k)) \div (m + k)
    BY <1>5, <1>7, <1>8, QuotientMonotone
<1> QED BY <1>2, <1>4, <1>9

\* The weights are all in which a policy and a thriftier one differ.
LEMMA ThriftierAgrees ==
    ASSUME NEW p, ValidPolicy(p), NEW q, ValidPolicy(q), IsThriftier(p, q)
    PROVE  /\ p.routing_thresholds = q.routing_thresholds
           /\ p.reasoning_thresholds = q.reasoning_thresholds
           /\ p.critical_risk = q.critical_risk
           /\ p.default_reasoning_floor = q.default_reasoning_floor
           /\ p.multi_agent_risk_threshold = q.multi_agent_risk_threshold
           /\ p.multi_agent_complexity_threshold = q.multi_agent_complexity_threshold
<1>1. p = [ q EXCEPT !.routing_weights = p.routing_weights ] /\ q \in Policy
    BY PolicyTyped DEF IsThriftier
<1> DEFINE w == p.routing_weights
<1>2. p = [ q EXCEPT !.routing_weights = w ]
    BY <1>1
<1> HIDE DEF w
<1> QED BY <1>1, <1>2 DEF Policy

LEMMA ThriftierRoute ==
    ASSUME NEW c, NEW r, IsAssessment(c, r),
           NEW p, ValidPolicy(p), NEW q, ValidPolicy(q), IsThriftier(p, q)
    PROVE  /\ select_model_tier(c, r, p) <= select_model_tier(c, r, q)
           /\ select_reasoning_effort(c, r, p) = select_reasoning_effort(c, r, q)
<1>1. critical_signals(r, p) = critical_signals(r, q)
    BY ThriftierAgrees DEF critical_signals
<1>2. EffortFloored(c, r, p) = EffortFloored(c, r, q)
    BY ThriftierAgrees DEF EffortFloored, EffortByBlend
<1>3. select_reasoning_effort(c, r, p) = select_reasoning_effort(c, r, q)
    BY <1>1, <1>2, RoutingParts, ThriftierAgrees
<1>4. TierByBlend(c, r, p) <= TierByBlend(c, r, q)
  <2> DEFINE s == (c.score + r.score) \div 2
             bp == Shifted(p)
             bq == Shifted(q)
  <2>1. s \in Int /\ s <= s
    <3>1. c.score \in Score /\ r.score \in Score
        BY DEF IsAssessment
    <3>2. c.score <= c.score /\ r.score <= r.score
        BY <3>1 DEF Score
    <3> QED BY <3>1, <3>2, BlendsMonotone
  <2>2. IsLadder(bp, FRONTIER) /\ IsLadder(bq, FRONTIER)
      BY ShiftedIsLadder
  <2>3. \A i \in 1..FRONTIER : bq[i] <= bp[i]
    <3> DEFINE x == threshold_shift(q)
               y == threshold_shift(p)
               tp == p.routing_thresholds
               tq == q.routing_thresholds
    <3>1. x \in Int /\ y \in Int /\ x <= y
        BY ShiftMonotone, ShiftIsInteger
    <3>2. tp = tq /\ IsLadder(tp, FRONTIER)
        BY ThriftierAgrees, PolicyTyped
    <3>3. /\ bp = [ i \in DOMAIN tp |-> clip(tp[i] + y) ]
          /\ bq = [ i \in DOMAIN tq |-> clip(tq[i] + x) ]
        BY DEF Shifted
    <3> HIDE DEF x, y, tp, tq, bp, bq
    <3> TAKE i \in 1..FRONTIER
    <3>4. tp[i] \in Score /\ i \in DOMAIN tp /\ i \in DOMAIN tq /\ tq[i] = tp[i]
        BY <3>2 DEF IsLadder
    <3>5. tp[i] + x \in Int /\ tp[i] + y \in Int /\ tp[i] + x <= tp[i] + y
        BY <3>1, <3>4 DEF Score
    <3>6. clip(tp[i] + x) <= clip(tp[i] + y)
        BY <3>5, ClipMonotone
    <3> QED BY <3>3, <3>4, <3>6
  <2>4. TierByBlend(c, r, p) = HighestCleared(s, bp)
        /\ TierByBlend(c, r, q) = HighestCleared(s, bq)
      BY DEF TierByBlend
  <2> HIDE DEF s, bp, bq
  <2> QED BY <2>1, <2>2, <2>3, <2>4, ClearedMonotone
<1>5. /\ TierByBlend(c, r, p) \in Int /\ TierByBlend(c, r, q) \in Int
      /\ TierOverridden(c, r, p) \in Int /\ TierOverridden(c, r, q) \in Int
      /\ q.critical_risk.min_tier \in Int /\ CriticalRiskMinTier \in Int
      /\ CriticalRiskMinTier <= CriticalRiskMinTier
    BY RanksTyped, PolicyTyped DEF ModelTier, CriticalRiskMinTier, ADVANCED
<1>6. TierOverridden(c, r, p) <= TierOverridden(c, r, q)
    BY <1>4, <1>5, AtLeastMonotone DEF TierOverridden
<1>7. select_model_tier(c, r, p) <= select_model_tier(c, r, q)
  <2> DEFINE mt == q.critical_risk.min_tier
             x == TierOverridden(c, r, p)
             y == TierOverridden(c, r, q)
  <2>1. /\ select_model_tier(c, r, p)
               = IF critical_signals(r, q) # {} THEN AtLeast(x, mt) ELSE x
        /\ select_model_tier(c, r, q)
               = IF critical_signals(r, q) # {} THEN AtLeast(y, mt) ELSE y
      BY <1>1, RoutingParts, ThriftierAgrees
  <2>2. x \in Int /\ y \in Int /\ x <= y /\ mt \in Int
      BY <1>5, <1>6
  <2> HIDE DEF x, y, mt
  <2> QED BY <2>1, <2>2 DEF AtLeast
<1> QED BY <1>3, <1>7

\* The plan of a task under a thriftier policy: the same team, of tiers that are
\* nowhere higher.
LEMMA ThriftierPlan ==
    ASSUME NEW t \in TaskProfile,
           NEW p, ValidPolicy(p), NEW q, ValidPolicy(q), IsThriftier(p, q)
    PROVE  /\ RouteOf(t, p).tier <= RouteOf(t, q).tier
           /\ RouteOf(t, p).reasoning = RouteOf(t, q).reasoning
           /\ SizeOf(Counts, t, p) = SizeOf(Counts, t, q)
           /\ CostOf(t, p) <= CostOf(t, q)
<1> DEFINE c == assess_complexity(t)
           r == assess_risk(t)
           u == RouteOf(t, p)
           v == RouteOf(t, q)
           n == ContextOf(t)
<1>1. IsAssessment(c, r)
    BY TasksAreAssessed
<1>2. /\ u \in Primary /\ v \in Primary /\ n \in Nat
      /\ u.tier <= v.tier /\ u.reasoning = v.reasoning
    BY <1>1, ThriftierRoute, PlanTyped
<1>3. /\ SizeOf(Counts, t, p) = TeamTotal(Counts, c, r, u, p)
      /\ SizeOf(Counts, t, q) = TeamTotal(Counts, c, r, v, q)
      /\ CostOf(t, p) = TeamTotal(Costs(n), c, r, u, p)
      /\ CostOf(t, q) = TeamTotal(Costs(n), c, r, v, q)
    BY DEF SizeOf, CostOf
<1> SUFFICES /\ TeamTotal(Counts, c, r, u, p) = TeamTotal(Counts, c, r, v, q)
             /\ TeamTotal(Costs(n), c, r, u, p) <= TeamTotal(Costs(n), c, r, v, q)
    BY <1>2, <1>3
<1> HIDE DEF c, r, u, v, n
<1>4. \A h : TeamTotal(h, c, r, u, p) = TeamTotal(h, c, r, u, q)
  <2>1. needs_multi_agent(c, r, p) <=> needs_multi_agent(c, r, q)
      BY ThriftierAgrees DEF needs_multi_agent, critical_signals
  <2>2. Reviewer(r, u, p) = Reviewer(r, u, q)
      BY ThriftierAgrees DEF Reviewer
  <2> QED BY <2>1, <2>2 DEF TeamTotal
<1>5. NowhereAbove(c, r, c, r)
  <2>1. \A x \in Score \cup Factor : x <= x
      BY DEF Score, Factor
  <2> QED BY <1>1, <2>1
      DEF IsAssessment, NowhereAbove, ComplexityFactors, RiskFactors, CriticalSignals
<1>6. TeamTotal(Costs(n), c, r, u, q) <= TeamTotal(Costs(n), c, r, v, q)
  <2>1. n <= n
      BY <1>2
  <2>2. ValuedNoHigher(Costs(n), Costs(n)) /\ Costs(n) \in [ AgentSpec -> Nat ]
      BY <1>2, <2>1, CostsMonotone, CostsTyped
  <2> QED BY <1>1, <1>2, <1>5, <2>2, TeamMonotone
<1>7. TeamTotal(Counts, c, r, u, q) = TeamTotal(Counts, c, r, v, q)
  <2>1. ASSUME NEW w \in Primary
        PROVE  /\ Counts[Builder(w)] = 1 /\ Counts[Planner(w)] = 1
               /\ Counts[Researcher(c, w)] = researcher_count(c)
               /\ Counts[Judge(r, w)] = 1 /\ Counts[Reviewer(r, w, q)] = 1
    <3>1. /\ Builder(w) \in AgentSpec /\ Planner(w) \in AgentSpec
          /\ Researcher(c, w) \in AgentSpec /\ Judge(r, w) \in AgentSpec
          /\ Reviewer(r, w, q) \in AgentSpec
        BY <1>1, AgentsTyped
    <3>2. /\ Builder(w).count = 1 /\ Planner(w).count = 1
          /\ Researcher(c, w).count = researcher_count(c)
          /\ Judge(r, w).count = 1 /\ Reviewer(r, w, q).count = 1
        BY DEF Builder, Planner, Researcher, Judge, Reviewer, Agent
    <3> QED BY <3>1, <3>2 DEF Counts
  <2> QED BY <1>2, <2>1 DEF TeamTotal
<1> QED BY <1>4, <1>6, <1>7

-----------------------------------------------------------------------------
(* The sessions *)

\* A session's plan is the plan of its task under its policy: what each theorem
\* below needs of a state.
PlanIsCurrent ==
    /\ policy \in Policies /\ task \in Tasks
    /\ exec_plan = build_execution_plan(task, policy)

LEMMA PlanIsAlwaysCurrent == PlanSpec => []PlanIsCurrent
<1>1. PlanInit => PlanIsCurrent
    BY DEF PlanInit, PlanIsCurrent
<1>2. PlanIsCurrent /\ [PlanNext]_planVars => PlanIsCurrent'
  <2> SUFFICES ASSUME PlanIsCurrent, [PlanNext]_planVars PROVE PlanIsCurrent'
      OBVIOUS
  <2>1. CASE PlanAnotherTask
      BY <2>1 DEF PlanAnotherTask, cmd_plan, PlanIsCurrent
  <2>2. CASE PlanUnderAnotherPolicy
      BY <2>2 DEF PlanUnderAnotherPolicy, cmd_plan, PlanIsCurrent
  <2>3. CASE UNCHANGED planVars
      BY <2>3 DEF planVars, PlanIsCurrent
  <2> QED BY <2>1, <2>2, <2>3 DEF PlanNext
<1> QED BY <1>1, <1>2, PTL DEF PlanSpec

LEMMA CurrentPlanIsTyped ==
    ASSUME PlanIsCurrent
    PROVE  task \in TaskProfile /\ ValidPolicy(policy)
BY PoliciesAssumption, TasksAssumption DEF PlanIsCurrent

\* A critical signal, however low the blended scores, puts the primary model at
\* the policy's floors and has the work reviewed; a risk that is CRITICAL by the
\* blend alone has the override's tier and a review, whatever the policy says.
THEOREM CriticalRiskIsMet == PlanSpec => []CriticalRiskIsHonoured
<1>1. PlanIsCurrent => CriticalRiskIsHonoured
  <2> SUFFICES ASSUME PlanIsCurrent PROVE CriticalRiskIsHonoured
      OBVIOUS
  <2> DEFINE c == assess_complexity(task)
             r == assess_risk(task)
             cr == policy.critical_risk
  <2>1. /\ task \in TaskProfile /\ ValidPolicy(policy)
        /\ exec_plan = build_execution_plan(task, policy)
      BY CurrentPlanIsTyped DEF PlanIsCurrent
  <2>2. ASSUME r.critical, \A x \in CriticalSignals : r.factors[x] < CriticalIndividualRisk
        PROVE  /\ exec_plan.primary_model.tier >= CriticalRiskMinTier
               /\ exec_plan.review_required
    <3>1. /\ select_model_tier(c, r, policy) >= CriticalRiskMinTier
          /\ needs_multi_agent(c, r, policy)
        BY <2>1, <2>2, CriticalBlend
    <3>2. exec_plan.primary_model.tier = select_model_tier(c, r, policy)
        BY <2>1, PlanFields, PlanTyped
    <3>3. exec_plan.review_required <=> needs_multi_agent(c, r, policy)
        BY <2>1, PlanFields DEF ReviewedIs
    <3> QED BY <3>1, <3>2, <3>3
  <2>3. ASSUME critical_signals(r, policy) # {}
        PROVE  /\ exec_plan.primary_model.tier >= cr.min_tier
               /\ exec_plan.primary_model.reasoning >= cr.min_reasoning
               /\ cr.require_review => exec_plan.review_required
    <3>1. IsAssessment(c, r)
        BY <2>1, TasksAreAssessed
    <3>2. /\ select_model_tier(c, r, policy) >= cr.min_tier
          /\ select_reasoning_effort(c, r, policy) >= cr.min_reasoning
        BY <2>1, <2>3, <3>1, CriticalMeetsFloors
    <3>3. /\ exec_plan.primary_model.tier = select_model_tier(c, r, policy)
          /\ exec_plan.primary_model.reasoning = select_reasoning_effort(c, r, policy)
        BY <2>1, PlanFields, PlanTyped
    <3>4. cr.require_review => needs_multi_agent(c, r, policy)
        BY <2>3 DEF needs_multi_agent
    <3>5. exec_plan.review_required <=> needs_multi_agent(c, r, policy)
        BY <2>1, PlanFields DEF ReviewedIs
    <3> QED BY <3>2, <3>3, <3>4, <3>5
  <2> QED BY <2>2, <2>3 DEF CriticalRiskIsHonoured
<1> QED BY <1>1, PlanIsAlwaysCurrent, PTL

\* The plan of a harder task has at least the tier, effort, team, context and
\* cost of the other's, keeps its review, and is refused where the other is.
THEOREM HarderTasksPlanHigher == PlanSpec => HarderIsNeverCheaper
<1> DEFINE Higher ==
        policy' = policy /\ IsHarder(task', task) =>
          /\ exec_plan'.primary_model.tier >= exec_plan.primary_model.tier
          /\ exec_plan'.primary_model.reasoning >= exec_plan.primary_model.reasoning
          /\ agent_count(exec_plan'.agents) >= agent_count(exec_plan.agents)
          /\ exec_plan'.context_budget_tokens >= exec_plan.context_budget_tokens
          /\ exec_plan'.max_estimated_cost >= exec_plan.max_estimated_cost
          /\ exec_plan.review_required => exec_plan'.review_required
          /\ IsReturned(exec_plan') => IsReturned(exec_plan)
<1>1. PlanIsCurrent /\ PlanIsCurrent' => Higher
  <2> SUFFICES ASSUME PlanIsCurrent, PlanIsCurrent', policy' = policy,
                      IsHarder(task', task)
               PROVE  Higher
      OBVIOUS
  <2>1. /\ task \in TaskProfile /\ task' \in TaskProfile /\ ValidPolicy(policy)
        /\ exec_plan = build_execution_plan(task, policy)
        /\ exec_plan' = build_execution_plan(task', policy)
      BY PoliciesAssumption, TasksAssumption DEF PlanIsCurrent
  <2> DEFINE t == task'
             u == task
             p == policy
  <2>2. /\ RouteOf(u, p).tier <= RouteOf(t, p).tier
        /\ RouteOf(u, p).reasoning <= RouteOf(t, p).reasoning
        /\ SizeOf(Counts, u, p) <= SizeOf(Counts, t, p)
        /\ ContextOf(u) <= ContextOf(t)
        /\ CostOf(u, p) <= CostOf(t, p)
        /\ ReviewedIs(u, p) => ReviewedIs(t, p)
        /\ WithinBudget(t, p) => WithinBudget(u, p)
      BY <2>1, HarderPlan
  <2>3. ASSUME NEW x \in TaskProfile
        PROVE  /\ RouteOf(x, p).tier \in Int /\ RouteOf(x, p).reasoning \in Int
               /\ SizeOf(Counts, x, p) \in Int /\ ContextOf(x) \in Int
               /\ CostOf(x, p) \in Int
      BY <2>1, PlanTyped DEF Primary, ModelTier, ReasoningEffort
  <2>4. /\ RouteOf(t, p).tier >= RouteOf(u, p).tier
        /\ RouteOf(t, p).reasoning >= RouteOf(u, p).reasoning
        /\ SizeOf(Counts, t, p) >= SizeOf(Counts, u, p)
        /\ ContextOf(t) >= ContextOf(u)
        /\ CostOf(t, p) >= CostOf(u, p)
      BY <2>1, <2>2, <2>3
  <2> QED BY <2>1, <2>2, <2>4, PlanFields
<1>2. PlanIsCurrent /\ PlanIsCurrent' => [Higher]_planVars
    BY <1>1
<1>3. HarderIsNeverCheaper <=> [][Higher]_planVars
    BY DEF HarderIsNeverCheaper
<1> HIDE DEF Higher
<1> QED BY <1>2, <1>3, PlanIsAlwaysCurrent, PTL

\* More weight on cost or latency, or less on quality, keeps the effort and the
\* team and raises neither the tier nor the cost.
THEOREM ThriftierPoliciesPlanLower == PlanSpec => ThriftNeverRaisesTier
<1> DEFINE Lower ==
        task' = task /\ IsThriftier(policy', policy) =>
          /\ exec_plan'.primary_model.tier <= exec_plan.primary_model.tier
          /\ exec_plan'.primary_model.reasoning = exec_plan.primary_model.reasoning
          /\ agent_count(exec_plan'.agents) = agent_count(exec_plan.agents)
          /\ exec_plan'.max_estimated_cost <= exec_plan.max_estimated_cost
<1>1. PlanIsCurrent /\ PlanIsCurrent' => Lower
  <2> SUFFICES ASSUME PlanIsCurrent, PlanIsCurrent', task' = task,
                      IsThriftier(policy', policy)
               PROVE  Lower
      OBVIOUS
  <2>1. /\ task \in TaskProfile /\ ValidPolicy(policy) /\ ValidPolicy(policy')
        /\ exec_plan = build_execution_plan(task, policy)
        /\ exec_plan' = build_execution_plan(task, policy')
      BY PoliciesAssumption, TasksAssumption DEF PlanIsCurrent
  <2> QED BY <2>1, ThriftierPlan, PlanFields
<1>2. PlanIsCurrent /\ PlanIsCurrent' => [Lower]_planVars
    BY <1>1
<1>3. ThriftNeverRaisesTier <=> [][Lower]_planVars
    BY DEF ThriftNeverRaisesTier
<1> HIDE DEF Lower
<1> QED BY <1>2, <1>3, PlanIsAlwaysCurrent, PTL

-----------------------------------------------------------------------------
(* The watchdog of a plan *)

\* A planned watchdog is made from a plan that planning returns.
LEMMA PlannedIsFromPlan ==
    ASSUME NEW s \in Setups, s.planned
    PROVE  \E plan \in ReturnedPlans : s = from_plan(plan)
BY OnePolicyAssumption

\* What is charged at the start is what planning compared with the budgets.
LEMMA ReturnedPlanFits ==
    ASSUME NEW plan \in ReturnedPlans
    PROVE  /\ ~(from_plan(plan).initial.tokens > MaxTokens)
           /\ ~(from_plan(plan).initial.cost > MaxCost)
<1>1. PICK t \in PlannedTasks : plan = build_execution_plan(t, ThePolicy)
    BY DEF ReturnedPlans
<1>2. IsReturned(plan)
    BY DEF ReturnedPlans
<1> DEFINE agents == plan.agents
           context == plan.context_budget_tokens
           cost == plan.max_estimated_cost
<1>3. /\ from_plan(plan).initial.tokens = TeamTokens(agents, context)
      /\ from_plan(plan).initial.cost = cost
    BY DEF from_plan, TeamTokens
<1>4. /\ ~(TeamTokens(agents, context) > ThePolicy.budget.max_estimated_tokens)
      /\ ~(cost > ThePolicy.budget.max_estimated_cost)
    BY <1>1, <1>2 DEF build_execution_plan, IsReturned, NotRefused
<1> QED BY <1>3, <1>4, OnePolicyAssumption

\* Every plan that planning returns can be started: what its watchdog charges
\* fits the empty ledger.
THEOREM ReturnedPlansCanStart == Spec => []PlannedStartIsAdmitted
<1>1. WatchdogInv => PlannedStartIsAdmitted
  <2> SUFFICES ASSUME WatchdogInv, ~started, setup.planned
               PROVE  can_afford(used, setup.initial.tokens, setup.initial.cost)
      BY DEF PlannedStartIsAdmitted
  <2>1. used = NothingUsed /\ setup \in Setups
      BY DEF WatchdogInv, StartInv, WalkInv, TypeOK
  <2> DEFINE x == setup.initial.tokens
             y == setup.initial.cost
  <2>2. ~(x > MaxTokens) /\ ~(y > MaxCost)
      BY <2>1, PlannedIsFromPlan, ReturnedPlanFits
  <2>3. x \in Nat /\ y \in Nat
      BY <2>1, WatchdogAssumption DEF Setup, Usage
  <2>4. used.tokens = 0 /\ used.cost = 0
      BY <2>1 DEF NothingUsed
  <2> HIDE DEF x, y
  <2>5. can_afford(used, x, y)
      BY <2>2, <2>3, <2>4, CeilingAssumption DEF can_afford
  <2> QED BY <2>5 DEF x, y
<1> QED BY <1>1, WatchdogInvHolds, PTL

\* The estimate for the whole team is in the ledger once a planned execution
\* has started, and its escalations and recoveries get only what is left.
THEOREM PlannedWorkIsCharged == Spec => []PlannedWorkIsNotFree
<1>1. WatchdogInv /\ BudgetAccounted /\ BudgetWithinCeilings => PlannedWorkIsNotFree
  <2> SUFFICES ASSUME WatchdogInv, BudgetAccounted, BudgetWithinCeilings,
                      started, setup.planned
               PROVE  \E plan \in ReturnedPlans :
                          /\ plan.context_budget_tokens = setup.context_budget_tokens
                          /\ plan.primary_model.tier = setup.tier
                          /\ plan.context_budget_tokens * agent_count(plan.agents)
                             + setup.context_budget_tokens
                                   * (escalations_used + RecoveriesStarted)
                                 <= MaxTokens
      BY DEF PlannedWorkIsNotFree
  <2>1. setup \in Setups
      BY DEF WatchdogInv, WalkInv, TypeOK
  <2>2. PICK plan \in ReturnedPlans : setup = from_plan(plan)
      BY <2>1, PlannedIsFromPlan
  <2>3. used.tokens = setup.initial.tokens
            + setup.context_budget_tokens * (escalations_used + RecoveriesStarted)
      BY DEF BudgetAccounted, StartCharges
  <2>4. used.tokens <= MaxTokens
      BY DEF BudgetWithinCeilings, WithinCeilings
  <2>5. /\ setup.context_budget_tokens = plan.context_budget_tokens
        /\ setup.tier = plan.primary_model.tier
        /\ setup.initial.tokens = plan.context_budget_tokens * agent_count(plan.agents)
      BY <2>2 DEF from_plan
  <2> WITNESS plan \in ReturnedPlans
  <2> QED BY <2>3, <2>4, <2>5
<1> QED BY <1>1, WatchdogInvHolds, EveryChargeIsAccounted, CeilingsHold, PTL
=============================================================================
