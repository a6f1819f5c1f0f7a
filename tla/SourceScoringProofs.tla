------------------------- MODULE SourceScoringProofs -------------------------
(***************************************************************************)
(* Proofs about SourceScoring for every set of domains and ages, every     *)
(* number of citations and every setting of the weights and thresholds;    *)
(* where a property rests on the weights, its theorem says on which of     *)
(* their values.                                                           *)
(*                                                                         *)
(* The invariant is that a score is one the cluster may have.  The rest is *)
(* arithmetic: more, or better, evidence never lowers the weighted value   *)
(* (WeightedMonotone), which clamping and rounding preserve (Rounding).    *)
(***************************************************************************)
EXTENDS SourceScoring, FiniteSetTheorems, WellFoundedInduction, TLAPS

(* Sums *)

\* What induction on the numbers is made of: a set of them has a least one.
LEMMA LeastNatural ==
  ASSUME NEW S, S \subseteq Nat, S # {}
  PROVE  \E m \in S : \A k \in S : m <= k
  <1>1. \E m \in S : \A k \in S : ~ (<<k, m>> \in OpToRel(<, Nat))
    BY NatLessThanWellFounded, WFMin
  <1>2. PICK m \in S : \A k \in S : ~ (<<k, m>> \in OpToRel(<, Nat))
    BY <1>1
  <1>3. ASSUME NEW k \in S PROVE m <= k
    <2>1. <<k, m>> \notin OpToRel(<, Nat)
      BY <1>2
    <2>2. ~(k < m)
      BY <2>1 DEF OpToRel
    <2> QED BY <2>2
  <1> QED BY <1>3

\* g holds the sums of the first 0 .. n elements of f.
Partial(f, n, g) == g = [i \in 0 .. n |-> IF i = 0 THEN 0 ELSE g[i - 1] + f[i]]

LEMMA PartialAt ==
  ASSUME NEW f, NEW n \in Nat, NEW g, Partial(f, n, g)
  PROVE  \A i \in 0 .. n : g[i] = IF i = 0 THEN 0 ELSE g[i - 1] + f[i]
  BY DEF Partial

LEMMA PartialExists ==
  ASSUME NEW f \in Seq(Int), NEW n \in 0 .. Len(f)
  PROVE  \E g \in [0 .. n -> Int] : Partial(f, n, g)
  <1> DEFINE Bad == {k \in 0 .. Len(f) : ~ \E g \in [0 .. k -> Int] : Partial(f, k, g)}
  <1> SUFFICES ASSUME n \in Bad PROVE FALSE
    OBVIOUS
  <1>1. PICK k \in Bad : \A j \in Bad : k <= j
    <2>1. Bad \subseteq Nat /\ Bad # {}
      OBVIOUS
    <2> HIDE DEF Bad
    <2> QED BY <2>1, LeastNatural
  <1>2. CASE k = 0
    <2>1. [i \in 0 .. 0 |-> 0] \in [0 .. 0 -> Int] /\ Partial(f, 0, [i \in 0 .. 0 |-> 0])
      BY DEF Partial
    <2> QED BY <1>1, <1>2, <2>1
  <1>3. CASE k # 0
    <2>1. k - 1 \in 0 .. Len(f) /\ k - 1 \notin Bad
      BY <1>1, <1>3
    <2>2. PICK g \in [0 .. k - 1 -> Int] : Partial(f, k - 1, g)
      BY <2>1
    <2> DEFINE h == [i \in 0 .. k |-> IF i = k THEN g[k - 1] + f[k] ELSE g[i]]
    <2>3. h \in [0 .. k -> Int]
      BY <1>1, <1>3
    <2>4. ASSUME NEW i \in 0 .. k PROVE h[i] = IF i = 0 THEN 0 ELSE h[i - 1] + f[i]
      <3>0. k \in Nat /\ k <= Len(f)
        BY <1>1
      <3>1. ASSUME NEW j \in 0 .. k - 1 PROVE g[j] = IF j = 0 THEN 0 ELSE g[j - 1] + f[j]
        BY <2>2, <3>0 DEF Partial
      <3>2. CASE i = k
        BY <3>2, <3>0, <1>3
      <3>3. CASE i # k
        <4>1. i \in 0 .. k - 1
          BY <3>3, <3>0
        <4>2. h[i] = g[i] /\ (i # 0 => h[i - 1] = g[i - 1])
          BY <4>1, <3>0
        <4> QED BY <4>1, <4>2, <3>1
      <3> QED BY <3>2, <3>3
    <2>5. Partial(f, k, h)
      BY <2>4 DEF Partial
    <2> QED BY <1>1, <2>3, <2>5
  <1> QED BY <1>2, <1>3

LEMMA PartialUnique ==
  ASSUME NEW f, NEW n \in Nat, NEW g, NEW h, Partial(f, n, g), Partial(f, n, h)
  PROVE  g[n] = h[n]
  <1> DEFINE Bad == {k \in 0 .. n : g[k] # h[k]}
  <1> SUFFICES ASSUME n \in Bad PROVE FALSE
    OBVIOUS
  <1>1. PICK k \in Bad : \A j \in Bad : k <= j
    <2>1. Bad \subseteq Nat /\ Bad # {}
      OBVIOUS
    <2> HIDE DEF Bad
    <2> QED BY <2>1, LeastNatural
  <1>2. g[k] = (IF k = 0 THEN 0 ELSE g[k - 1] + f[k]) /\ h[k] = (IF k = 0 THEN 0 ELSE h[k - 1] + f[k])
    BY <1>1, PartialAt
  <1>3. k # 0
    BY <1>1, <1>2
  <1>4. k - 1 \in 0 .. n /\ k - 1 \notin Bad
    BY <1>1, <1>3
  <1>5. g[k - 1] = h[k - 1]
    BY <1>4
  <1> QED BY <1>1, <1>2, <1>3, <1>5

\* sum is the last of the partial sums.
LEMMA SumIsPartial ==
  ASSUME NEW f \in Seq(Int)
  PROVE  \E g \in [0 .. Len(f) -> Int] : Partial(f, Len(f), g) /\ sum(f) = g[Len(f)]
  <1> DEFINE total == CHOOSE g : Partial(f, Len(f), g)
  <1>1. PICK g \in [0 .. Len(f) -> Int] : Partial(f, Len(f), g)
    BY PartialExists
  <1>2. Partial(f, Len(f), total)
    BY <1>1
  <1>3. sum(f) = total[Len(f)]
    BY DEF sum, Partial
  <1>4. total[Len(f)] = g[Len(f)]
    BY <1>1, <1>2, PartialUnique
  <1> QED BY <1>1, <1>3, <1>4

\* Sequences of equal length, element by element no larger, have no larger sum.
LEMMA SumMonotone ==
  ASSUME NEW f \in Seq(Int), NEW e \in Seq(Int), Len(f) = Len(e),
         \A i \in 1 .. Len(f) : f[i] <= e[i]
  PROVE  sum(f) <= sum(e)
  <1>0. Len(f) \in Nat
    OBVIOUS
  <1>1. PICK g \in [0 .. Len(f) -> Int] : Partial(f, Len(f), g) /\ sum(f) = g[Len(f)]
    BY SumIsPartial
  <1>2. PICK h \in [0 .. Len(f) -> Int] : Partial(e, Len(f), h) /\ sum(e) = h[Len(f)]
    BY SumIsPartial
  <1> DEFINE Bad == {k \in 0 .. Len(f) : ~(g[k] <= h[k])}
  <1> SUFFICES ASSUME Len(f) \in Bad PROVE FALSE
    BY <1>0, <1>1, <1>2
  <1>3. PICK k \in Bad : \A j \in Bad : k <= j
    <2>1. Bad \subseteq Nat /\ Bad # {}
      OBVIOUS
    <2> HIDE DEF Bad
    <2> QED BY <2>1, LeastNatural
  <1>4. /\ g[k] = (IF k = 0 THEN 0 ELSE g[k - 1] + f[k])
        /\ h[k] = (IF k = 0 THEN 0 ELSE h[k - 1] + e[k])
    <2>1. \A i \in 0 .. Len(f) : g[i] = IF i = 0 THEN 0 ELSE g[i - 1] + f[i]
      BY <1>0, <1>1, PartialAt
    <2>2. \A i \in 0 .. Len(f) : h[i] = IF i = 0 THEN 0 ELSE h[i - 1] + e[i]
      BY <1>0, <1>2, PartialAt
    <2> QED BY <1>3, <2>1, <2>2
  <1>5. k # 0
    BY <1>3, <1>4
  <1>6. k - 1 \in 0 .. Len(f) /\ k - 1 \notin Bad
    BY <1>3, <1>5
  <1>7. g[k - 1] <= h[k - 1] /\ f[k] <= e[k] /\ f[k] \in Int /\ e[k] \in Int
    BY <1>3, <1>5, <1>6
  <1>8. g[k - 1] \in Int /\ h[k - 1] \in Int
    BY <1>6
  <1> QED BY <1>3, <1>4, <1>5, <1>7, <1>8

\* A sum lies between its length times the least and the greatest of its elements.
LEMMA SumBounds ==
  ASSUME NEW f \in Seq(Int), NEW lo \in Int, NEW hi \in Int,
         \A i \in 1 .. Len(f) : lo <= f[i] /\ f[i] <= hi
  PROVE  sum(f) \in Int /\ lo * Len(f) <= sum(f) /\ sum(f) <= hi * Len(f)
  <1>0. Len(f) \in Nat
    OBVIOUS
  <1>1. PICK g \in [0 .. Len(f) -> Int] : Partial(f, Len(f), g) /\ sum(f) = g[Len(f)]
    BY SumIsPartial
  <1>2. \A i \in 0 .. Len(f) : g[i] = IF i = 0 THEN 0 ELSE g[i - 1] + f[i]
    BY <1>0, <1>1, PartialAt
  <1> DEFINE Within(k) == lo * k <= g[k] /\ g[k] <= hi * k
             Bad == {k \in 0 .. Len(f) : ~Within(k)}
  <1> SUFFICES ASSUME Len(f) \in Bad PROVE FALSE
    BY <1>0, <1>1
  <1>3. PICK k \in Bad : \A j \in Bad : k <= j
    <2> HIDE DEF Within
    <2>1. Bad \subseteq Nat /\ Bad # {}
      OBVIOUS
    <2> HIDE DEF Bad
    <2> QED BY <2>1, LeastNatural
  <1>4. k \in 0 .. Len(f) /\ g[k] = (IF k = 0 THEN 0 ELSE g[k - 1] + f[k])
    BY <1>2, <1>3
  <1>5. k # 0
    BY <1>3, <1>4
  <1>6. k - 1 \in 0 .. Len(f) /\ Within(k - 1)
    BY <1>3, <1>5
  <1>7. lo <= f[k] /\ f[k] <= hi /\ f[k] \in Int /\ g[k - 1] \in Int
    <2> HIDE DEF Within
    <2>1. k \in 1 .. Len(f) /\ k - 1 \in 0 .. Len(f)
      BY <1>0, <1>4, <1>5
    <2> QED BY <2>1
  <1>8. lo * (k - 1) = lo * k - lo /\ hi * (k - 1) = hi * k - hi
    BY <1>4
  <1>9. lo * k \in Int /\ hi * k \in Int
    BY <1>4
  <1>10. Within(k)
    BY <1>4, <1>5, <1>6, <1>7, <1>8, <1>9
  <1> QED BY <1>3, <1>10

-----------------------------------------------------------------------------
(* Clamping and rounding *)

LEMMA Clamping ==
  ASSUME NEW n \in Int, NEW d \in Nat
  PROVE  clamped(n, d) \in 0 .. d
  BY DEF clamped

\* r is nearest to n / d among the ten-thousandths.
Nearest(r, n, d) == r \in 0 .. 10000 /\ 2 * (10000 * n - r * d) <= d /\ 2 * (r * d - 10000 * n) <= d

\* The ten-thousandths of a value between 0 and 1 lie between 0 and 10000.
LEMMA RoundedRange ==
  ASSUME NEW n \in Nat, NEW d \in Nat \ {0}, n <= d, NEW r \in rounded(n, d)
  PROVE  Nearest(r, n, d)
  <1>1. r \in Int /\ 2 * (10000 * n - r * d) <= d /\ 2 * (r * d - 10000 * n) <= d
    BY DEF rounded
  <1>2. r * d \in Int
    BY <1>1
  <1>3. ASSUME r < 0 PROVE FALSE
    <2>1. r * d <= (-1) * d
      BY <1>1, <1>3
    <2> QED BY <1>1, <1>2, <2>1
  <1>4. ASSUME r > 10000 PROVE FALSE
    <2>1. r * d >= 10001 * d
      BY <1>1, <1>4
    <2> QED BY <1>1, <1>2, <2>1
  <1> QED BY <1>1, <1>3, <1>4 DEF Nearest

\* There is one.
LEMMA RoundedExists ==
  ASSUME NEW n \in Nat, NEW d \in Nat \ {0}
  PROVE  rounded(n, d) # {}
  <1> DEFINE down == (10000 * n) \div d
             left == (10000 * n) % d
  <1>1. down \in Int /\ left \in 0 .. d - 1 /\ 10000 * n = d * down + left
    OBVIOUS
  <1>2. down * d = d * down /\ (down + 1) * d = d * down + d /\ d * down \in Int
    BY <1>1
  <1>3. rounded(n, d) = {r \in {down, down + 1} : 2 * (10000 * n - r * d) <= d /\ 2 * (r * d - 10000 * n) <= d}
    BY DEF rounded
  <1> HIDE DEF down, left
  <1>4. CASE 2 * left <= d
    <2>1. 2 * (10000 * n - down * d) <= d /\ 2 * (down * d - 10000 * n) <= d
      BY <1>1, <1>2, <1>4
    <2> QED BY <1>3, <2>1
  <1>5. CASE 2 * left > d
    <2>1. 2 * (10000 * n - (down + 1) * d) <= d /\ 2 * ((down + 1) * d - 10000 * n) <= d
      BY <1>1, <1>2, <1>5
    <2> QED BY <1>3, <2>1
  <1> QED BY <1>1, <1>4, <1>5

\* Rounding keeps the order of two values, and, where they differ by more
\* than a ten-thousandth, keeps them apart.
LEMMA Rounding ==
  ASSUME NEW n \in Nat, NEW m \in Nat, NEW d \in Nat \ {0}, n <= d, m <= d,
         NEW r \in rounded(n, d), NEW s \in rounded(m, d)
  PROVE  /\ n < m => r <= s
         /\ 10000 * (m - n) > d => r < s
  <1>1. Nearest(r, n, d)
    BY RoundedRange
  <1>2. Nearest(s, m, d)
    BY RoundedRange
  <1> DEFINE R == r * d
             S == s * d
  <1>3. r \in Int /\ s \in Int /\ R \in Int /\ S \in Int
    BY <1>1, <1>2 DEF Nearest
  <1>4. /\ 2 * (10000 * n - R) <= d /\ 2 * (R - 10000 * n) <= d
        /\ 2 * (10000 * m - S) <= d /\ 2 * (S - 10000 * m) <= d
    BY <1>1, <1>2 DEF Nearest
  <1>5. ASSUME n < m, r > s PROVE FALSE
    <2>1. r * d >= (s + 1) * d
      BY <1>3, <1>5
    <2>2. (s + 1) * d = s * d + d
      BY <1>3
    <2>3. R >= S + d
      BY <1>3, <2>1, <2>2
    <2> HIDE DEF R, S
    <2> QED BY <1>3, <1>4, <1>5, <2>3
  <1>6. ASSUME 10000 * (m - n) > d, r >= s PROVE FALSE
    <2>1. R >= S
      BY <1>3, <1>6
    <2> HIDE DEF R, S
    <2> QED BY <1>3, <1>4, <1>6, <2>1
  <1> QED BY <1>3, <1>5, <1>6

-----------------------------------------------------------------------------
(* The weighted value *)

LEMMA Weights ==
  /\ weight_agreement \in Nat /\ weight_source_quality \in Nat /\ weight_independence \in Nat
  /\ weight_recency \in Nat /\ weight_contradiction \in Nat
  /\ threshold_high \in 0 .. 10000 /\ threshold_medium \in 0 .. 10000
  /\ threshold_high >= threshold_medium
  <1>1. /\ weight_agreement \in 0 .. 100 /\ weight_source_quality \in 0 .. 100
        /\ weight_independence \in 0 .. 100 /\ weight_recency \in 0 .. 100
        /\ weight_contradiction \in 0 .. 100
    BY WeightsAssumption
  <1>2. threshold_high \in 0 .. 10000 /\ threshold_medium \in 0 .. 10000
    BY WeightsAssumption
  <1> QED BY <1>1, <1>2, WeightsAssumption

LEMMA TimesMonotone ==
  ASSUME NEW k \in Nat, NEW x \in Int, NEW y \in Int, x <= y
  PROVE  k * x <= k * y
  OBVIOUS

\* weighted, of n citations with the given agreement, sums and penalty.
value(n, a, q, i, r, p) ==
    10 * n * weight_agreement * a
    + 3 * weight_source_quality * q
    + 30 * weight_independence * i
    + 3 * weight_recency * r
    - 30 * n * weight_contradiction * p

\* More agreement, quality, independence and recency and less contradiction
\* give no smaller value.
LEMMA WeightedMonotone ==
  ASSUME NEW n \in Nat,
         NEW a \in Int, NEW q \in Int, NEW i \in Int, NEW r \in Int, NEW p \in Int,
         NEW b \in Int, NEW u \in Int, NEW j \in Int, NEW s \in Int, NEW o \in Int,
         a <= b, q <= u, i <= j, r <= s, o <= p
  PROVE  /\ value(n, a, q, i, r, p) \in Int
         /\ value(n, a, q, i, r, p) <= value(n, b, u, j, s, o)
  <1> DEFINE wa == 10 * n * weight_agreement
             wq == 3 * weight_source_quality
             wi == 30 * weight_independence
             wr == 3 * weight_recency
             wc == 30 * n * weight_contradiction
  <1>1. wa \in Nat /\ wq \in Nat /\ wi \in Nat /\ wr \in Nat /\ wc \in Nat
    BY Weights
  <1>2. /\ value(n, a, q, i, r, p) = wa * a + wq * q + wi * i + wr * r - wc * p
        /\ value(n, b, u, j, s, o) = wa * b + wq * u + wi * j + wr * s - wc * o
    BY DEF value
  <1> HIDE DEF wa, wq, wi, wr, wc
  <1>3. wa * a <= wa * b /\ wq * q <= wq * u /\ wi * i <= wi * j /\ wr * r <= wr * s /\ wc * o <= wc * p
    BY <1>1, TimesMonotone
  <1>4. /\ wa * a \in Int /\ wq * q \in Int /\ wi * i \in Int /\ wr * r \in Int /\ wc * p \in Int
        /\ wa * b \in Int /\ wq * u \in Int /\ wi * j \in Int /\ wr * s \in Int /\ wc * o \in Int
    BY <1>1
  <1> QED BY <1>2, <1>3, <1>4

\* What a contradiction costs.
LEMMA PenaltyWorth ==
  ASSUME NEW n \in Nat, NEW a \in Int, NEW q \in Int, NEW i \in Int, NEW r \in Int
  PROVE  value(n, a, q, i, r, 0) = value(n, a, q, i, r, 1) + 30 * n * weight_contradiction
  <1> DEFINE wa == 10 * n * weight_agreement
             wq == 3 * weight_source_quality
             wi == 30 * weight_independence
             wr == 3 * weight_recency
             wc == 30 * n * weight_contradiction
  <1>1. wa \in Nat /\ wq \in Nat /\ wi \in Nat /\ wr \in Nat /\ wc \in Nat
    BY Weights
  <1>2. /\ value(n, a, q, i, r, 0) = wa * a + wq * q + wi * i + wr * r - wc * 0
        /\ value(n, a, q, i, r, 1) = wa * a + wq * q + wi * i + wr * r - wc * 1
    BY DEF value
  <1> HIDE DEF wa, wq, wi, wr, wc
  <1>3. wc * 0 = 0 /\ wc * 1 = wc
    BY <1>1
  <1>4. value(n, a, q, i, r, 0) = value(n, a, q, i, r, 1) + wc
    BY <1>1, <1>2, <1>3
  <1> QED BY <1>4 DEF wc

-----------------------------------------------------------------------------
(* Clusters *)

LEMMA QualityRange == \A d : quality(d) \in Int /\ 5 <= quality(d) /\ quality(d) <= 10
  BY DEF quality

LEMMA RecencyRange ==
  ASSUME NEW age \in Ages
  PROVE  recency(age) \in Int /\ 3 <= recency(age) /\ recency(age) <= 10
  <1>1. CASE age = unknown
    BY <1>1 DEF recency
  <1>2. CASE age # unknown
    <2>1. age \in Int
      BY <1>2, AgesAssumption
    <2> QED BY <1>2, <2>1 DEF recency
  <1> QED BY <1>1, <1>2

\* A newer source is no less recent.
LEMMA RecencyMonotone ==
  ASSUME NEW a \in Ages, NEW b \in Ages, unknown \notin {a, b}, a < b
  PROVE  recency(b) <= recency(a)
  <1>1. a \in Int /\ b \in Int /\ a # unknown /\ b # unknown
    BY AgesAssumption
  <1> QED BY <1>1 DEF recency

\* The shape of a cluster.
LEMMA ClusterShape ==
  ASSUME NEW c \in ClaimCluster
  PROVE  /\ Len(c.cited) \in Nat \ {0}
         /\ c.cited \in [1 .. Len(c.cited) -> Citation]
         /\ c.agent_agreement \in 1 .. 3
         /\ c.contradicted \in BOOLEAN
         /\ penalty(c) \in {0, 1}
         /\ denominator(c) \in Nat \ {0}
  <1>1. c.cited \in Citations /\ c.agent_agreement \in 1 .. 3 /\ c.contradicted \in BOOLEAN
    BY DEF ClaimCluster
  <1>2. PICK n \in 1 .. MaxCitations : c.cited \in [1 .. n -> Citation]
    BY <1>1 DEF Citations
  <1>3. n \in Nat \ {0}
    BY BoundAssumption
  <1>4. Len(c.cited) = n
    BY <1>2, <1>3
  <1> QED BY <1>1, <1>2, <1>3, <1>4 DEF penalty, denominator

\* The sums and counts a cluster's value is made of, and their ranges.
LEMMA ClusterSums ==
  ASSUME NEW c \in ClaimCluster, NEW n, n = Len(c.cited)
  PROVE  /\ qualities(c) \in Seq(Int) /\ Len(qualities(c)) = n
         /\ recencies(c) \in Seq(Int) /\ Len(recencies(c)) = n
         /\ sum(qualities(c)) \in Int /\ 5 * n <= sum(qualities(c)) /\ sum(qualities(c)) <= 10 * n
         /\ sum(recencies(c)) \in Int /\ 3 * n <= sum(recencies(c)) /\ sum(recencies(c)) <= 10 * n
  <1>1. n \in Nat /\ c.cited \in [1 .. n -> Citation]
    BY ClusterShape
  <1>2. DOMAIN c.cited = 1 .. n /\ \A i \in 1 .. n : c.cited[i].age \in Ages
    BY <1>1 DEF Citation
  <1>3. qualities(c) \in [1 .. n -> Int] /\ recencies(c) \in [1 .. n -> Int]
    BY <1>2, QualityRange, RecencyRange DEF qualities, recencies
  <1>4. /\ qualities(c) \in Seq(Int) /\ Len(qualities(c)) = n
        /\ recencies(c) \in Seq(Int) /\ Len(recencies(c)) = n
    BY <1>1, <1>3
  <1>5. \A i \in 1 .. Len(qualities(c)) : 5 <= qualities(c)[i] /\ qualities(c)[i] <= 10
    BY <1>2, <1>4, QualityRange DEF qualities
  <1>6. \A i \in 1 .. Len(recencies(c)) : 3 <= recencies(c)[i] /\ recencies(c)[i] <= 10
    BY <1>2, <1>4, RecencyRange DEF recencies
  <1>0. 3 \in Int /\ 5 \in Int /\ 10 \in Int
    OBVIOUS
  <1>7. /\ sum(qualities(c)) \in Int /\ 5 * Len(qualities(c)) <= sum(qualities(c))
        /\ sum(qualities(c)) <= 10 * Len(qualities(c))
    BY <1>0, <1>4, <1>5, SumBounds, Zenon
  <1>8. /\ sum(recencies(c)) \in Int /\ 3 * Len(recencies(c)) <= sum(recencies(c))
        /\ sum(recencies(c)) <= 10 * Len(recencies(c))
    BY <1>0, <1>4, <1>6, SumBounds, Zenon
  <1> QED BY <1>4, <1>7, <1>8

LEMMA ClusterDomains ==
  ASSUME NEW c \in ClaimCluster
  PROVE  /\ IsFiniteSet(identities(c))
         /\ independence(c) \in 1 .. Len(c.cited)
  <1> DEFINE n == Len(c.cited)
             host == [i \in 1 .. n |-> c.cited[i].domain]
  <1>1. n \in Nat \ {0} /\ DOMAIN c.cited = 1 .. n
    BY ClusterShape
  <1>2. identities(c) = {c.cited[i].domain : i \in 1 .. n}
    BY <1>1 DEF identities
  <1>3. host \in Surjection(1 .. n, identities(c))
    BY <1>2 DEF Surjection
  <1>4. IsFiniteSet(1 .. n) /\ Cardinality(1 .. n) = n
    <2> HIDE DEF n
    <2> QED BY <1>1, FS_Interval
  <1>5. IsFiniteSet(identities(c)) /\ Cardinality(identities(c)) <= n
    <2> HIDE DEF n, host
    <2>1. IsFiniteSet(identities(c)) /\ Cardinality(identities(c)) <= Cardinality(1 .. n)
      BY <1>3, <1>4, FS_Surjection, Zenon
    <2> QED BY <1>4, <2>1
  <1>6. Cardinality(identities(c)) \in Nat
    BY <1>5, FS_CardinalityType
  <1>7. identities(c) # {}
    <2>1. 1 \in 1 .. n
      BY <1>1
    <2>2. c.cited[1].domain \in identities(c)
      BY <1>2, <2>1
    <2> QED BY <2>2
  <1>8. Cardinality(identities(c)) # 0
    BY <1>5, <1>7, FS_EmptySet
  <1> QED BY <1>1, <1>5, <1>6, <1>8 DEF independence

\* A cluster's value in terms of its sums and counts.
LEMMA ClusterValue ==
  ASSUME NEW c \in ClaimCluster
  PROVE  /\ weighted(c) = value(Len(c.cited), c.agent_agreement, sum(qualities(c)),
                              independence(c), sum(recencies(c)), penalty(c))
         /\ weighted(c) \in Int
  <1>1. weighted(c) = value(Len(c.cited), c.agent_agreement, sum(qualities(c)),
                            independence(c), sum(recencies(c)), penalty(c))
    BY DEF weighted, value
  <1>2. Len(c.cited) \in Nat /\ c.agent_agreement \in Int /\ penalty(c) \in Int
    BY ClusterShape
  <1>3. sum(qualities(c)) \in Int /\ sum(recencies(c)) \in Int
    BY ClusterSums
  <1>4. independence(c) \in Int
    BY ClusterDomains
  <1>5. \A i \in Int : i <= i
    OBVIOUS
  <1>6. value(Len(c.cited), c.agent_agreement, sum(qualities(c)),
              independence(c), sum(recencies(c)), penalty(c)) \in Int
    BY <1>2, <1>3, <1>4, <1>5, WeightedMonotone, Zenon
  <1> QED BY <1>1, <1>6

\* A higher score has no lower a tier.
LEMMA TierMonotone ==
  ASSUME NEW f \in Int, NEW g \in Int, f <= g
  PROVE  rank[tier(f)] <= rank[tier(g)]
  <1>1. threshold_high \in Int /\ threshold_medium \in Int /\ threshold_high >= threshold_medium
    BY Weights
  <1>2. rank.low = 1 /\ rank.medium = 2 /\ rank.high = 3
    BY DEF rank
  <1>3. rank[tier(f)] \in 1 .. 3 /\ rank[tier(g)] \in 1 .. 3
    BY <1>1, <1>2 DEF tier
  <1>4. CASE g >= threshold_high
    BY <1>1, <1>2, <1>3, <1>4 DEF tier
  <1>5. CASE g < threshold_high /\ g >= threshold_medium
    BY <1>1, <1>2, <1>3, <1>5 DEF tier
  <1>6. CASE g < threshold_medium
    BY <1>1, <1>2, <1>3, <1>6 DEF tier
  <1> QED BY <1>1, <1>4, <1>5, <1>6

\* Of two clusters with as many citations, the one of the larger value is
\* scored no lower.
LEMMA ScoresMonotone ==
  ASSUME NEW c \in ClaimCluster, NEW e \in ClaimCluster, Len(c.cited) = Len(e.cited),
         weighted(c) <= weighted(e)
  PROVE  \/ final_scores(c) = final_scores(e)
         \/ \A f \in final_scores(c), g \in final_scores(e) :
                f <= g /\ rank[tier(f)] <= rank[tier(g)]
  <1> DEFINE d == denominator(c)
             m == clamped(weighted(c), d)
             n == clamped(weighted(e), d)
  <1>1. d = denominator(e) /\ d \in Nat \ {0}
    BY ClusterShape DEF denominator
  <1>2. weighted(c) \in Int /\ weighted(e) \in Int
    BY ClusterValue
  <1>3. m \in 0 .. d /\ n \in 0 .. d
    BY <1>1, <1>2, Clamping
  <1>4. m <= n
    BY <1>1, <1>2 DEF clamped
  <1>5. final_scores(c) = rounded(m, d) /\ final_scores(e) = rounded(n, d)
    BY <1>1 DEF final_scores
  <1> HIDE DEF d, m, n
  <1>6. CASE m = n
    BY <1>5, <1>6
  <1>7. CASE m < n
    <2> SUFFICES ASSUME NEW f \in rounded(m, d), NEW g \in rounded(n, d)
                 PROVE  f <= g /\ rank[tier(f)] <= rank[tier(g)]
      BY <1>5
    <2>1. m \in Nat /\ n \in Nat /\ m <= d /\ n <= d
      BY <1>1, <1>3
    <2>2. f <= g
      BY <1>1, <1>7, <2>1, Rounding
    <2>3. Nearest(f, m, d) /\ Nearest(g, n, d)
      BY <1>1, <2>1, RoundedRange
    <2>4. f \in Int /\ g \in Int
      BY <2>3 DEF Nearest
    <2> QED BY <2>2, <2>4, TierMonotone
  <1> QED BY <1>3, <1>4, <1>6, <1>7

\* As many citations, each as good, and as much besides, give no smaller value.
LEMMA WeightedCompare ==
  ASSUME NEW c \in ClaimCluster, NEW e \in ClaimCluster, Len(c.cited) = Len(e.cited),
         c.agent_agreement <= e.agent_agreement,
         \A k \in 1 .. Len(c.cited) :
             /\ quality(c.cited[k].domain) <= quality(e.cited[k].domain)
             /\ recency(c.cited[k].age) <= recency(e.cited[k].age),
         independence(c) <= independence(e), penalty(e) <= penalty(c)
  PROVE  weighted(c) <= weighted(e)
  <1> DEFINE n == Len(c.cited)
  <1>1. DOMAIN c.cited = 1 .. n /\ DOMAIN e.cited = 1 .. n
    BY ClusterShape
  <1>2. /\ qualities(c) \in Seq(Int) /\ Len(qualities(c)) = n
        /\ recencies(c) \in Seq(Int) /\ Len(recencies(c)) = n
        /\ sum(qualities(c)) \in Int /\ sum(recencies(c)) \in Int
    BY ClusterSums
  <1>3. /\ qualities(e) \in Seq(Int) /\ Len(qualities(e)) = n
        /\ recencies(e) \in Seq(Int) /\ Len(recencies(e)) = n
        /\ sum(qualities(e)) \in Int /\ sum(recencies(e)) \in Int
    BY ClusterSums
  <1>4. \A k \in 1 .. n : qualities(c)[k] <= qualities(e)[k] /\ recencies(c)[k] <= recencies(e)[k]
    BY <1>1 DEF qualities, recencies
  <1>5. sum(qualities(c)) <= sum(qualities(e)) /\ sum(recencies(c)) <= sum(recencies(e))
    BY <1>2, <1>3, <1>4, SumMonotone
  <1>6. /\ n \in Nat /\ c.agent_agreement \in Int /\ penalty(c) \in Int
        /\ e.agent_agreement \in Int /\ penalty(e) \in Int
    BY ClusterShape
  <1>7. independence(c) \in Int /\ independence(e) \in Int
    BY ClusterDomains
  <1>8. /\ weighted(c) = value(n, c.agent_agreement, sum(qualities(c)),
                              independence(c), sum(recencies(c)), penalty(c))
        /\ weighted(e) = value(n, e.agent_agreement, sum(qualities(e)),
                              independence(e), sum(recencies(e)), penalty(e))
    BY ClusterValue
  <1> HIDE DEF n
  <1>9. value(n, c.agent_agreement, sum(qualities(c)), independence(c), sum(recencies(c)), penalty(c))
        <= value(n, e.agent_agreement, sum(qualities(e)), independence(e), sum(recencies(e)), penalty(e))
    BY <1>2, <1>3, <1>5, <1>6, <1>7, WeightedMonotone, Zenon
  <1> QED BY <1>8, <1>9

\* The cluster with another domain, or another age, for its citation i.
LEMMA DomainChanged ==
  ASSUME NEW c \in ClaimCluster, NEW i \in DOMAIN c.cited, NEW d \in Domains,
         NEW e, e = [c EXCEPT !.cited[i].domain = d]
  PROVE  /\ e \in ClaimCluster
         /\ Len(e.cited) = Len(c.cited)
         /\ \A k \in 1 .. Len(c.cited) :
                /\ e.cited[k].domain = IF k = i THEN d ELSE c.cited[k].domain
                /\ e.cited[k].age = c.cited[k].age
         /\ e.agent_agreement = c.agent_agreement
         /\ e.contradicted = c.contradicted
  <1>1. PICK n \in 1 .. MaxCitations : c.cited \in [1 .. n -> Citation]
    BY DEF ClaimCluster, Citations
  <1>2. n \in Nat /\ Len(c.cited) = n /\ DOMAIN c.cited = 1 .. n
    BY <1>1, BoundAssumption
  <1>3. e.cited = [c.cited EXCEPT ![i] = [@ EXCEPT !.domain = d]]
    BY DEF ClaimCluster
  <1>4. [c.cited[i] EXCEPT !.domain = d] \in Citation
    BY <1>1, <1>2 DEF Citation
  <1>5. e.cited \in [1 .. n -> Citation]
    BY <1>1, <1>2, <1>3, <1>4
  <1>6. Len(e.cited) = n
    BY <1>2, <1>5
  <1>7. /\ e.agent_agreement = c.agent_agreement /\ e.contradicted = c.contradicted
        /\ c.agent_agreement \in 1 .. 3 /\ c.contradicted \in BOOLEAN /\ c.agent_agreement <= Len(c.cited)
    BY DEF ClaimCluster
  <1>8. e.cited \in Citations
    BY <1>5 DEF Citations
  <1>9. e \in [agent_agreement : 1 .. 3, cited : Citations, contradicted : BOOLEAN]
    BY <1>7, <1>8 DEF ClaimCluster
  <1>10. e \in ClaimCluster
    BY <1>2, <1>6, <1>7, <1>9 DEF ClaimCluster
  <1>11. \A k \in 1 .. n : /\ e.cited[k].domain = IF k = i THEN d ELSE c.cited[k].domain
                           /\ e.cited[k].age = c.cited[k].age
    BY <1>1, <1>2, <1>3 DEF Citation
  <1> QED BY <1>2, <1>6, <1>7, <1>10, <1>11

LEMMA AgeChanged ==
  ASSUME NEW c \in ClaimCluster, NEW i \in DOMAIN c.cited, NEW a \in Ages,
         NEW e, e = [c EXCEPT !.cited[i].age = a]
  PROVE  /\ e \in ClaimCluster
         /\ Len(e.cited) = Len(c.cited)
         /\ \A k \in 1 .. Len(c.cited) :
                /\ e.cited[k].age = IF k = i THEN a ELSE c.cited[k].age
                /\ e.cited[k].domain = c.cited[k].domain
         /\ e.agent_agreement = c.agent_agreement
         /\ e.contradicted = c.contradicted
  <1>1. PICK n \in 1 .. MaxCitations : c.cited \in [1 .. n -> Citation]
    BY DEF ClaimCluster, Citations
  <1>2. n \in Nat /\ Len(c.cited) = n /\ DOMAIN c.cited = 1 .. n
    BY <1>1, BoundAssumption
  <1>3. e.cited = [c.cited EXCEPT ![i] = [@ EXCEPT !.age = a]]
    BY DEF ClaimCluster
  <1>4. [c.cited[i] EXCEPT !.age = a] \in Citation
    BY <1>1, <1>2 DEF Citation
  <1>5. e.cited \in [1 .. n -> Citation]
    BY <1>1, <1>2, <1>3, <1>4
  <1>6. Len(e.cited) = n
    BY <1>2, <1>5
  <1>7. /\ e.agent_agreement = c.agent_agreement /\ e.contradicted = c.contradicted
        /\ c.agent_agreement \in 1 .. 3 /\ c.contradicted \in BOOLEAN /\ c.agent_agreement <= Len(c.cited)
    BY DEF ClaimCluster
  <1>8. e.cited \in Citations
    BY <1>5 DEF Citations
  <1>9. e \in [agent_agreement : 1 .. 3, cited : Citations, contradicted : BOOLEAN]
    BY <1>7, <1>8 DEF ClaimCluster
  <1>10. e \in ClaimCluster
    BY <1>2, <1>6, <1>7, <1>9 DEF ClaimCluster
  <1>11. \A k \in 1 .. n : /\ e.cited[k].age = IF k = i THEN a ELSE c.cited[k].age
                           /\ e.cited[k].domain = c.cited[k].domain
    BY <1>1, <1>2, <1>3 DEF Citation
  <1> QED BY <1>2, <1>6, <1>7, <1>10, <1>11

-----------------------------------------------------------------------------
(* The specification *)

\* The score is one that the cluster may have.
IInv ==
    /\ cluster \in ClaimCluster
    /\ score # NoScore => \E f \in final_scores(cluster) : score = [final |-> f, tier |-> tier(f)]

\* Every score given is one that score_claims may compute for the cluster, with
\* the tier of its value.
THEOREM Invariance == Spec => []IInv
  <1>1. Init => IInv
    BY DEF Init, IInv
  <1>2. IInv /\ [Next]_vars => IInv'
    <2> SUFFICES ASSUME IInv, [Next]_vars PROVE IInv'
      OBVIOUS
    <2>1. CASE ScoreCluster
      <3>1. final_scores(cluster)' = final_scores(cluster) /\ cluster' = cluster
        BY <2>1 DEF ScoreCluster
      <3> QED BY <2>1, <3>1 DEF IInv, ScoreCluster
    <2>2. CASE UNCHANGED vars
      BY <2>2 DEF IInv, vars
    <2> QED BY <2>1, <2>2 DEF Next
  <1> QED BY <1>1, <1>2, PTL DEF Spec

\* Every cluster has a score, and it lies between 0 and 1.
THEOREM EveryClusterHasAScore ==
  \A c \in ClaimCluster : final_scores(c) # {} /\ final_scores(c) \subseteq 0 .. 10000
  <1> SUFFICES ASSUME NEW c \in ClaimCluster
               PROVE  final_scores(c) # {} /\ final_scores(c) \subseteq 0 .. 10000
    OBVIOUS
  <1> DEFINE d == denominator(c)
             m == clamped(weighted(c), d)
  <1>1. d \in Nat \ {0} /\ m \in 0 .. d
    BY ClusterShape, ClusterValue, Clamping
  <1>2. final_scores(c) = rounded(m, d)
    BY DEF final_scores
  <1> HIDE DEF d, m
  <1>3. m \in Nat /\ m <= d
    BY <1>1
  <1>4. rounded(m, d) # {}
    BY <1>1, <1>3, RoundedExists
  <1>5. ASSUME NEW r \in rounded(m, d) PROVE r \in 0 .. 10000
    <2>1. Nearest(r, m, d)
      BY <1>1, <1>3, RoundedRange
    <2> QED BY <2>1 DEF Nearest
  <1> QED BY <1>2, <1>4, <1>5

LEMMA ScoreShape ==
  ASSUME IInv, score # NoScore
  PROVE  /\ cluster \in ClaimCluster
         /\ score.final \in final_scores(cluster)
         /\ score.tier = tier(score.final)
  BY DEF IInv

\* Another cluster of as many citations and no smaller value.
LEMMA NoWorse ==
  ASSUME IInv, score # NoScore, NEW c \in ClaimCluster, Len(c.cited) = Len(cluster.cited),
         weighted(cluster) <= weighted(c)
  PROVE  AtLeast(c)
  BY ScoreShape, ScoresMonotone DEF AtLeast

LEMMA NoBetter ==
  ASSUME IInv, score # NoScore, NEW c \in ClaimCluster, Len(c.cited) = Len(cluster.cited),
         weighted(c) <= weighted(cluster)
  PROVE  AtMost(c)
  BY ScoreShape, ScoresMonotone DEF AtMost

-----------------------------------------------------------------------------
(* Better sources *)

\* Replacing one domain by one not yet cited leaves as many.
LEMMA NewDomain ==
  ASSUME NEW c \in ClaimCluster, NEW i \in DOMAIN c.cited, NEW d \in Domains \ identities(c),
         NEW e, e = [c EXCEPT !.cited[i].domain = d]
  PROVE  independence(c) <= independence(e)
  <1> DEFINE u == c.cited[i].domain
             kept == identities(c) \ {u}
  <1>1. /\ e \in ClaimCluster /\ Len(e.cited) = Len(c.cited)
        /\ \A k \in 1 .. Len(c.cited) :
               e.cited[k].domain = IF k = i THEN d ELSE c.cited[k].domain
    BY DomainChanged
  <1>2. DOMAIN c.cited = 1 .. Len(c.cited) /\ DOMAIN e.cited = 1 .. Len(c.cited)
    BY <1>1, ClusterShape
  <1>3. kept \cup {d} \subseteq identities(e)
    BY <1>1, <1>2 DEF identities
  <1>4. u \in identities(c) /\ d \notin identities(c)
    BY DEF identities
  <1>5. IsFiniteSet(identities(c)) /\ IsFiniteSet(identities(e))
    BY <1>1, ClusterDomains
  <1> HIDE DEF u
  <1>6. IsFiniteSet(kept) /\ Cardinality(kept) = Cardinality(identities(c)) - 1
    BY <1>4, <1>5, FS_RemoveElement
  <1>7. Cardinality(kept \cup {d}) = Cardinality(kept) + 1
    BY <1>4, <1>6, FS_AddElement
  <1>8. Cardinality(kept \cup {d}) <= Cardinality(identities(e))
    BY <1>3, <1>5, FS_Subset
  <1>9. Cardinality(identities(c)) \in Nat /\ Cardinality(identities(e)) \in Nat
    BY <1>5, FS_CardinalityType
  <1> HIDE DEF kept
  <1> QED BY <1>6, <1>7, <1>8, <1>9 DEF independence

\* Whatever the weights: a domain listed as of high quality, or official, is
\* never worth less than another, nor a newer source less than an older one.
THEOREM BetterSourcesCountMoreHolds == Spec => []BetterSourcesCountMore
  <1>1. ASSUME IInv, score # NoScore, NEW i \in DOMAIN cluster.cited,
               NEW d \in (GovEdu \cup HIGH_QUALITY_DOMAINS) \ identities(cluster)
        PROVE  AtLeast([cluster EXCEPT !.cited[i].domain = d])
    <2> DEFINE e == [cluster EXCEPT !.cited[i].domain = d]
    <2>1. cluster \in ClaimCluster /\ d \in Domains \ identities(cluster)
      BY <1>1, DomainsAssumption DEF IInv
    <2>2. /\ e \in ClaimCluster /\ Len(e.cited) = Len(cluster.cited)
          /\ \A k \in 1 .. Len(cluster.cited) :
                 /\ e.cited[k].domain = IF k = i THEN d ELSE cluster.cited[k].domain
                 /\ e.cited[k].age = cluster.cited[k].age
          /\ e.agent_agreement = cluster.agent_agreement /\ e.contradicted = cluster.contradicted
      BY <2>1, DomainChanged
    <2>3. independence(cluster) <= independence(e)
      BY <2>1, NewDomain
    <2> HIDE DEF e
    <2>4. \A k \in 1 .. Len(cluster.cited) : quality(cluster.cited[k].domain) <= quality(e.cited[k].domain)
      BY <2>2, QualityRange DEF quality
    <2>5. \A k \in 1 .. Len(cluster.cited) :
              recency(cluster.cited[k].age) <= recency(e.cited[k].age)
      <3>1. \A k \in 1 .. Len(cluster.cited) : cluster.cited[k].age \in Ages
        BY <2>1, ClusterShape DEF Citation
      <3> QED BY <2>2, <3>1, RecencyRange
    <2>6. penalty(e) = penalty(cluster) /\ penalty(e) \in Int /\ cluster.agent_agreement \in Int
      BY <2>1, <2>2, ClusterShape DEF penalty
    <2>7. penalty(e) <= penalty(cluster) /\ cluster.agent_agreement <= e.agent_agreement
      BY <2>2, <2>6
    <2>8. weighted(cluster) <= weighted(e)
      BY <2>1, <2>2, <2>3, <2>4, <2>5, <2>7, WeightedCompare
    <2>9. AtLeast(e)
      BY <1>1, <2>2, <2>8, NoWorse
    <2> QED BY <2>9 DEF e
  <1>2. ASSUME IInv, score # NoScore, NEW i \in DOMAIN cluster.cited, NEW a \in Ages,
               unknown \notin {a, cluster.cited[i].age}, a < cluster.cited[i].age
        PROVE  AtLeast([cluster EXCEPT !.cited[i].age = a])
    <2> DEFINE e == [cluster EXCEPT !.cited[i].age = a]
    <2>1. cluster \in ClaimCluster
      BY <1>2 DEF IInv
    <2>2. /\ e \in ClaimCluster /\ Len(e.cited) = Len(cluster.cited)
          /\ \A k \in 1 .. Len(cluster.cited) :
                 /\ e.cited[k].age = IF k = i THEN a ELSE cluster.cited[k].age
                 /\ e.cited[k].domain = cluster.cited[k].domain
          /\ e.agent_agreement = cluster.agent_agreement /\ e.contradicted = cluster.contradicted
      BY <2>1, AgeChanged
    <2>3. DOMAIN cluster.cited = 1 .. Len(cluster.cited) /\ DOMAIN e.cited = 1 .. Len(cluster.cited)
      BY <2>1, <2>2, ClusterShape
    <2> HIDE DEF e
    <2>4. identities(e) = identities(cluster)
      BY <2>2, <2>3 DEF identities
    <2>5. independence(cluster) <= independence(e)
      <3>1. independence(cluster) \in Int
        BY <2>1, ClusterDomains
      <3> QED BY <2>4, <3>1 DEF independence
    <2>6. \A k \in 1 .. Len(cluster.cited) : cluster.cited[k].age \in Ages
      BY <2>1, ClusterShape DEF Citation
    <2>7. \A k \in 1 .. Len(cluster.cited) :
              recency(cluster.cited[k].age) <= recency(e.cited[k].age)
      <3>1. recency(cluster.cited[i].age) <= recency(a)
        BY <1>2, <2>3, <2>6, RecencyMonotone
      <3> QED BY <2>2, <2>6, <3>1, RecencyRange
    <2>8. \A k \in 1 .. Len(cluster.cited) : quality(cluster.cited[k].domain) <= quality(e.cited[k].domain)
      BY <2>2, QualityRange
    <2>9. penalty(e) = penalty(cluster) /\ penalty(e) \in Int /\ cluster.agent_agreement \in Int
      BY <2>1, <2>2, ClusterShape DEF penalty
    <2>10. penalty(e) <= penalty(cluster) /\ cluster.agent_agreement <= e.agent_agreement
      BY <2>2, <2>9
    <2>11. weighted(cluster) <= weighted(e)
      BY <2>1, <2>2, <2>5, <2>7, <2>8, <2>10, WeightedCompare
    <2>12. AtLeast(e)
      BY <1>2, <2>2, <2>11, NoWorse
    <2> QED BY <2>12 DEF e
  <1>3. IInv => BetterSourcesCountMore
    BY <1>1, <1>2 DEF BetterSourcesCountMore
  <1> QED BY <1>3, Invariance, PTL

-----------------------------------------------------------------------------
(* More evidence *)

\* The value never leaves 0 .. 1: the weights of the evidence add up to no more
\* than 1, and the poorest evidence outweighs a contradiction.
Unclamped ==
    /\ weight_agreement + weight_source_quality + weight_independence + weight_recency <= 100
    /\ 30 * weight_contradiction <= 10 * weight_agreement + 15 * weight_source_quality + 9 * weight_recency

LEMMA ValueRange ==
  ASSUME Unclamped, NEW c \in ClaimCluster
  PROVE  0 <= weighted(c) /\ weighted(c) <= denominator(c)
  <1> DEFINE n == Len(c.cited)
  <1>1. /\ n \in Nat \ {0} /\ c.agent_agreement \in 1 .. 3 /\ penalty(c) \in {0, 1}
    BY ClusterShape
  <1>2. /\ sum(qualities(c)) \in Int /\ 5 * n <= sum(qualities(c)) /\ sum(qualities(c)) <= 10 * n
        /\ sum(recencies(c)) \in Int /\ 3 * n <= sum(recencies(c)) /\ sum(recencies(c)) <= 10 * n
    BY ClusterSums
  <1>3. independence(c) \in 1 .. n
    BY ClusterDomains
  <1>4. weighted(c) = value(n, c.agent_agreement, sum(qualities(c)),
                            independence(c), sum(recencies(c)), penalty(c))
    BY ClusterValue
  <1>5. denominator(c) = 3000 * n
    BY DEF denominator
  <1> HIDE DEF n
  <1>6. /\ n \in Nat /\ 5 * n \in Int /\ 10 * n \in Int /\ 3 * n \in Int
        /\ 0 \in Int /\ 1 \in Int /\ 3 \in Int /\ n \in Int
        /\ c.agent_agreement \in Int /\ independence(c) \in Int /\ penalty(c) \in Int
        /\ 1 <= c.agent_agreement /\ c.agent_agreement <= 3 /\ 0 <= independence(c)
        /\ independence(c) <= n /\ 0 <= penalty(c) /\ penalty(c) <= 1
    BY <1>1, <1>3
  <1>7. value(n, 1, 5 * n, 0, 3 * n, 1) <= weighted(c)
    <2>1. value(n, 1, 5 * n, 0, 3 * n, 1) <= value(n, c.agent_agreement, sum(qualities(c)), independence(c), sum(recencies(c)), penalty(c))
      BY <1>2, <1>6, WeightedMonotone, Zenon
    <2> QED BY <1>4, <2>1
  <1>8. weighted(c) <= value(n, 3, 10 * n, n, 10 * n, 0)
    <2>1. value(n, c.agent_agreement, sum(qualities(c)), independence(c), sum(recencies(c)), penalty(c)) <= value(n, 3, 10 * n, n, 10 * n, 0)
      BY <1>2, <1>6, WeightedMonotone, Zenon
    <2> QED BY <1>4, <2>1
  <1>9. weighted(c) \in Int
    BY ClusterValue
  <1>10. 0 <= value(n, 1, 5 * n, 0, 3 * n, 1)
    <2> DEFINE least == 10 * weight_agreement + 15 * weight_source_quality + 9 * weight_recency
                        - 30 * weight_contradiction
    <2>1. least \in Nat
      BY Weights DEF Unclamped
    <2>2. value(n, 1, 5 * n, 0, 3 * n, 1) = n * least
      BY <1>1, Weights DEF value
    <2> HIDE DEF least
    <2>3. n * least \in Nat
      BY <1>1, <2>1
    <2> QED BY <2>2, <2>3
  <1>11. value(n, 3, 10 * n, n, 10 * n, 0) <= 3000 * n
    <2> DEFINE most == weight_agreement + weight_source_quality + weight_independence + weight_recency
    <2>1. most \in Int /\ most <= 100
      BY Weights DEF Unclamped
    <2>2. value(n, 3, 10 * n, n, 10 * n, 0) = (30 * n) * most
      BY <1>1, Weights DEF value
    <2> HIDE DEF most
    <2>3. 30 * n \in Nat
      BY <1>1
    <2>4. (30 * n) * most <= (30 * n) * 100
      BY <2>1, <2>3, TimesMonotone
    <2>5. (30 * n) * 100 = 3000 * n
      BY <1>1
    <2> QED BY <2>2, <2>4, <2>5
  <1>12. value(n, 1, 5 * n, 0, 3 * n, 1) \in Int /\ value(n, 3, 10 * n, n, 10 * n, 0) \in Int
    BY <1>1, Weights DEF value
  <1>13. denominator(c) \in Int
    BY ClusterShape
  <1> QED BY <1>5, <1>7, <1>8, <1>9, <1>10, <1>11, <1>12, <1>13

\* Where nothing is clamped, a value lower by more than a ten-thousandth is a
\* lower score.
LEMMA StrictlyBelow ==
  ASSUME Unclamped, IInv, score # NoScore,
         NEW e \in ClaimCluster, Len(e.cited) = Len(cluster.cited),
         10000 * (weighted(cluster) - weighted(e)) > denominator(cluster)
  PROVE  Below(e)
  <1> DEFINE d == denominator(cluster)
             m == weighted(e)
             n == weighted(cluster)
  <1>1. cluster \in ClaimCluster /\ score.final \in final_scores(cluster)
    BY ScoreShape
  <1>2. d = denominator(e) /\ d \in Nat \ {0}
    BY <1>1, ClusterShape DEF denominator
  <1>3. m \in Int /\ n \in Int /\ 0 <= m /\ m <= d /\ 0 <= n /\ n <= d
    BY <1>1, <1>2, ClusterValue, ValueRange
  <1>4. clamped(m, d) = m /\ clamped(n, d) = n
    BY <1>2, <1>3 DEF clamped
  <1>5. final_scores(e) = rounded(m, d) /\ final_scores(cluster) = rounded(n, d)
    BY <1>2, <1>4 DEF final_scores
  <1>6. 10000 * (n - m) > d
    OBVIOUS
  <1> HIDE DEF d, m, n
  <1>7. m \in Nat /\ n \in Nat
    BY <1>3
  <1>8. ASSUME NEW f \in final_scores(e) PROVE f < score.final
    <2>1. f \in rounded(m, d) /\ score.final \in rounded(n, d)
      BY <1>1, <1>5
    <2> QED BY <1>2, <1>3, <1>6, <1>7, <2>1, Rounding
  <1> QED BY <1>8 DEF Below

\* Where contradictions have a weight and nothing is clamped: one more agent
\* on the same citations never lowers score or tier, and a contradiction
\* lowers the score and never raises the tier.
THEOREM EvidenceCountsHolds ==
  ASSUME Unclamped, weight_contradiction > 0
  PROVE  Spec => []EvidenceCountsTheRightWay
  <1>1. ASSUME IInv, score # NoScore, [cluster EXCEPT !.agent_agreement = @ + 1] \in ClaimCluster
        PROVE  AtLeast([cluster EXCEPT !.agent_agreement = @ + 1])
    <2> DEFINE e == [cluster EXCEPT !.agent_agreement = @ + 1]
    <2>1. cluster \in ClaimCluster /\ e \in ClaimCluster
      BY <1>1 DEF IInv
    <2>2. /\ e.cited = cluster.cited /\ e.contradicted = cluster.contradicted
          /\ e.agent_agreement = cluster.agent_agreement + 1
      BY <2>1 DEF ClaimCluster
    <2> HIDE DEF e
    <2>3. cluster.agent_agreement \in Int /\ penalty(cluster) \in Int /\ independence(cluster) \in Int
      BY <2>1, ClusterShape, ClusterDomains
    <2>4. independence(e) = independence(cluster) /\ penalty(e) = penalty(cluster)
      BY <2>2 DEF independence, identities, penalty
    <2>5. \A k \in 1 .. Len(cluster.cited) :
              /\ quality(cluster.cited[k].domain) <= quality(e.cited[k].domain)
              /\ recency(cluster.cited[k].age) <= recency(e.cited[k].age)
      <3>1. \A k \in 1 .. Len(cluster.cited) : cluster.cited[k].age \in Ages
        BY <2>1, ClusterShape DEF Citation
      <3> QED BY <2>2, <3>1, QualityRange, RecencyRange
    <2>6. cluster.agent_agreement <= e.agent_agreement /\ penalty(e) <= penalty(cluster)
          /\ independence(cluster) <= independence(e)
      BY <2>2, <2>3, <2>4
    <2>7. weighted(cluster) <= weighted(e)
      BY <2>1, <2>2, <2>5, <2>6, WeightedCompare
    <2>8. AtLeast(e)
      BY <1>1, <2>1, <2>2, <2>7, NoWorse
    <2> QED BY <2>8 DEF e
  <1>2. ASSUME IInv, score # NoScore, ~cluster.contradicted
        PROVE  LET contested == [cluster EXCEPT !.contradicted = TRUE]
               IN  AtMost(contested) /\ Below(contested)
    <2> DEFINE e == [cluster EXCEPT !.contradicted = TRUE]
               n == Len(cluster.cited)
    <2>1. cluster \in ClaimCluster
      BY <1>2 DEF IInv
    <2>2. /\ e \in ClaimCluster /\ e.cited = cluster.cited /\ e.contradicted
          /\ e.agent_agreement = cluster.agent_agreement
      BY <2>1 DEF ClaimCluster
    <2> HIDE DEF e
    <2>3. penalty(cluster) = 0 /\ penalty(e) = 1
      BY <1>2, <2>2 DEF penalty
    <2>4. qualities(e) = qualities(cluster) /\ recencies(e) = recencies(cluster)
          /\ independence(e) = independence(cluster)
      BY <2>2 DEF qualities, recencies, independence, identities
    <2>5. n \in Nat \ {0} /\ cluster.agent_agreement \in Int
      BY <2>1, ClusterShape
    <2>6. sum(qualities(cluster)) \in Int /\ sum(recencies(cluster)) \in Int
      BY <2>1, ClusterSums
    <2>7. independence(cluster) \in Int
      BY <2>1, ClusterDomains
    <2> DEFINE without == value(n, cluster.agent_agreement, sum(qualities(cluster)),
                                independence(cluster), sum(recencies(cluster)), 0)
               with == value(n, cluster.agent_agreement, sum(qualities(cluster)),
                             independence(cluster), sum(recencies(cluster)), 1)
               loss == 30 * n * weight_contradiction
    <2>8. weighted(cluster) = without /\ weighted(e) = with
      BY <2>1, <2>2, <2>3, <2>4, ClusterValue
    <2>9. without = with + loss
      BY <2>5, <2>6, <2>7, PenaltyWorth
    <2>10. 30 * n <= loss /\ loss \in Int
      <3>1. 30 * n \in Nat /\ 1 <= weight_contradiction /\ weight_contradiction \in Int
        BY <2>5, Weights
      <3> HIDE DEF n
      <3>2. (30 * n) * 1 <= (30 * n) * weight_contradiction
        BY <3>1, TimesMonotone
      <3> QED BY <3>1, <3>2
    <2>11. denominator(cluster) = 3000 * n
      BY DEF denominator
    <2>12. weighted(cluster) \in Int /\ weighted(e) \in Int
      BY <2>1, <2>2, ClusterValue
    <2> HIDE DEF n, without, with, loss
    <2>13. weighted(e) <= weighted(cluster) /\ 10000 * (weighted(cluster) - weighted(e)) > denominator(cluster)
      BY <2>5, <2>8, <2>9, <2>10, <2>11, <2>12
    <2>14. AtMost(e)
      BY <1>2, <2>2, <2>13, NoBetter
    <2>15. Below(e)
      BY <1>2, <2>2, <2>13, StrictlyBelow
    <2> QED BY <2>14, <2>15 DEF e
  <1>3. IInv => EvidenceCountsTheRightWay
    BY <1>1, <1>2 DEF EvidenceCountsTheRightWay
  <1> QED BY <1>3, Invariance, PTL

\* Citing a domain again in place of an independent one leaves one less.
LEMMA RepeatedDomain ==
  ASSUME NEW c \in ClaimCluster, NEW i \in DOMAIN c.cited, NEW j \in DOMAIN c.cited,
         c.cited[i].domain # c.cited[j].domain,
         \A k \in DOMAIN c.cited \ {j} : c.cited[k].domain # c.cited[j].domain,
         NEW e, e = [c EXCEPT !.cited[j].domain = c.cited[i].domain]
  PROVE  e \in ClaimCluster /\ independence(e) = independence(c) - 1
  <1> DEFINE d == c.cited[i].domain
             u == c.cited[j].domain
  <1>0. d \in Domains
    BY ClusterShape DEF Citation
  <1>1. /\ e \in ClaimCluster /\ Len(e.cited) = Len(c.cited)
        /\ \A k \in 1 .. Len(c.cited) :
               e.cited[k].domain = IF k = j THEN d ELSE c.cited[k].domain
    BY <1>0, DomainChanged
  <1>2. DOMAIN c.cited = 1 .. Len(c.cited) /\ DOMAIN e.cited = 1 .. Len(c.cited)
    BY <1>1, ClusterShape
  <1>3. identities(e) = identities(c) \ {u}
    BY <1>1, <1>2 DEF identities
  <1>4. u \in identities(c)
    BY DEF identities
  <1>5. IsFiniteSet(identities(c))
    BY ClusterDomains
  <1> HIDE DEF u
  <1>6. Cardinality(identities(e)) = Cardinality(identities(c)) - 1
    BY <1>3, <1>4, <1>5, FS_RemoveElement
  <1> QED BY <1>1, <1>6 DEF independence

\* Where independence has a weight that counts among so many citations and
\* nothing is clamped: citing a second page of a domain instead of an
\* independent domain of the same quality lowers the score.
THEOREM RepeatedDomainsCountLessHolds ==
  ASSUME Unclamped, 100 * weight_independence > MaxCitations
  PROVE  Spec => []RepeatedDomainsCountLess
  <1>1. ASSUME IInv, score # NoScore, NEW i \in DOMAIN cluster.cited, NEW j \in DOMAIN cluster.cited,
               quality(cluster.cited[i].domain) = quality(cluster.cited[j].domain),
               \A k \in DOMAIN cluster.cited \ {j} : cluster.cited[k].domain # cluster.cited[j].domain,
               cluster.cited[i].domain # cluster.cited[j].domain
        PROVE  Below([cluster EXCEPT !.cited[j].domain = cluster.cited[i].domain])
    <2> DEFINE e == [cluster EXCEPT !.cited[j].domain = cluster.cited[i].domain]
               n == Len(cluster.cited)
    <2>1. cluster \in ClaimCluster
      BY <1>1 DEF IInv
    <2>2. cluster.cited[i].domain \in Domains
      BY <2>1, ClusterShape DEF Citation
    <2>3. /\ e \in ClaimCluster /\ Len(e.cited) = n
          /\ \A k \in 1 .. n :
                 /\ e.cited[k].domain = IF k = j THEN cluster.cited[i].domain ELSE cluster.cited[k].domain
                 /\ e.cited[k].age = cluster.cited[k].age
          /\ e.agent_agreement = cluster.agent_agreement
          /\ e.contradicted = cluster.contradicted
      BY <2>1, <2>2, DomainChanged
    <2>4. independence(e) = independence(cluster) - 1
      BY <1>1, <2>1, RepeatedDomain
    <2> HIDE DEF e
    <2>5. DOMAIN cluster.cited = 1 .. n /\ DOMAIN e.cited = 1 .. n
      BY <2>1, <2>3, ClusterShape
    <2>6. qualities(e) = qualities(cluster) /\ recencies(e) = recencies(cluster)
      BY <1>1, <2>3, <2>5 DEF qualities, recencies
    <2>7. penalty(e) = penalty(cluster)
      BY <2>3 DEF penalty
    <2>8. n \in Nat \ {0} /\ cluster.agent_agreement \in Int /\ penalty(cluster) \in Int
      BY <2>1, ClusterShape
    <2>9. sum(qualities(cluster)) \in Int /\ sum(recencies(cluster)) \in Int
      BY <2>1, ClusterSums
    <2>10. independence(cluster) \in Int
      BY <2>1, ClusterDomains
    <2> DEFINE more == value(n, cluster.agent_agreement, sum(qualities(cluster)),
                             independence(cluster), sum(recencies(cluster)), penalty(cluster))
               less == value(n, cluster.agent_agreement, sum(qualities(cluster)),
                             independence(e), sum(recencies(cluster)), penalty(cluster))
    <2>11. weighted(cluster) = more /\ weighted(e) = less
      BY <2>1, <2>3, <2>6, <2>7, ClusterValue
    <2>12. more = less + 30 * weight_independence
      <3> DEFINE w == 30 * weight_independence
                 start == 10 * n * weight_agreement * cluster.agent_agreement
                          + 3 * weight_source_quality * sum(qualities(cluster))
                 rest == 3 * weight_recency * sum(recencies(cluster))
                 loss == 30 * n * weight_contradiction * penalty(cluster)
      <3>1. start \in Int /\ rest \in Int /\ loss \in Int /\ w \in Int
        <4> HIDE DEF n
        <4>1. 10 * n * weight_agreement \in Int /\ 3 * weight_source_quality \in Int
              /\ 3 * weight_recency \in Int /\ 30 * n * weight_contradiction \in Int /\ w \in Int
          BY <2>8, Weights
        <4>2. start \in Int
          BY <2>8, <2>9, <4>1
        <4>3. rest \in Int
          BY <2>9, <4>1
        <4>4. loss \in Int
          BY <2>8, <4>1
        <4> QED BY <4>1, <4>2, <4>3, <4>4
      <3>2. /\ more = start + w * independence(cluster) + rest - loss
            /\ less = start + w * independence(e) + rest - loss
        BY DEF value
      <3> HIDE DEF w, start, rest, loss, more, less
      <3>3. w * independence(cluster) = w * independence(e) + w /\ w * independence(e) \in Int
        BY <2>4, <2>10, <3>1
      <3>4. more = less + w
        BY <3>1, <3>2, <3>3
      <3> QED BY <3>4 DEF w
    <2>13. n <= MaxCitations
      <3>1. PICK m \in 1 .. MaxCitations : cluster.cited \in [1 .. m -> Citation]
        BY <2>1 DEF ClaimCluster, Citations
      <3>2. m \in Nat /\ m <= MaxCitations
        BY BoundAssumption
      <3>3. n = m
        BY <3>1, <3>2
      <3> QED BY <3>2, <3>3
    <2>14. denominator(cluster) = 3000 * n
      BY DEF denominator
    <2>15. weighted(cluster) \in Int /\ weighted(e) \in Int
      BY <2>1, <2>3, ClusterValue
    <2>16. 10000 * (weighted(cluster) - weighted(e)) > denominator(cluster)
      <3> HIDE DEF n, more, less
      <3>1. weighted(cluster) = weighted(e) + 30 * weight_independence
        BY <2>11, <2>12
      <3>2. n < 100 * weight_independence
        BY <2>8, <2>13, Weights, BoundAssumption
      <3> QED BY <2>8, <2>14, <2>15, <3>1, <3>2, Weights
    <2>17. Below(e)
      BY <1>1, <2>3, <2>16, StrictlyBelow
    <2> QED BY <2>17 DEF e
  <1>2. IInv => RepeatedDomainsCountLess
    BY <1>1 DEF RepeatedDomainsCountLess
  <1> QED BY <1>2, Invariance, PTL

-----------------------------------------------------------------------------
(* Tiers *)

\* x / 3000 rounds to t ten-thousandths or more, or to fewer.
CanReach(x, t) == 6 * t <= 20 * x + 3
CanMiss(x, t) == 20 * x + 3 <= 6 * t

\* The tiers keep their meaning: the best value of one agent's claim, and of a
\* contested claim of two, stays under "high", and the poorest of three agents
\* reaches "medium".
TiersSeparated ==
    LET best == 30 * (weight_source_quality + weight_independence + weight_recency)
        worst == 15 * weight_source_quality + 9 * weight_recency
    IN  /\ ~CanReach(10 * weight_agreement + best, threshold_high)
        /\ ~CanReach(20 * weight_agreement + best - 30 * weight_contradiction, threshold_high)
        /\ ~CanMiss(30 * weight_agreement + worst, threshold_medium)

\* f is the score of the value w of n citations, and the value x of one.
Scored(f, w, n) == Nearest(f, w, 3000 * n)
Mean(w, n, x) == w = n * x

\* What the score of a value that is at most, or at least, x / 3000 can be.
LEMMA ScoreAtMost ==
  ASSUME NEW n \in Nat \ {0}, NEW x \in Int, NEW w \in Int, NEW m \in Int, Mean(m, n, x), w <= m,
         NEW f, Scored(f, w, n), NEW t \in Int, f >= t
  PROVE  CanReach(x, t)
  <1> DEFINE y == 6 * t - 20 * x - 3
  <1>0. w <= n * x
    BY DEF Mean
  <1>1. f \in Int /\ 2 * (f * (3000 * n) - 10000 * w) <= 3000 * n
    BY DEF Scored, Nearest
  <1>2. (3000 * n) * t <= (3000 * n) * f
    <2>1. 3000 * n \in Nat
      OBVIOUS
    <2> QED BY <1>1, <2>1, TimesMonotone
  <1>3. f * (3000 * n) = (3000 * n) * f /\ (3000 * n) * f \in Int /\ (3000 * n) * t \in Int /\ n * x \in Int
    BY <1>1
  <1>4. 2 * ((3000 * n) * t) <= 3000 * n + 20000 * (n * x)
    BY <1>0, <1>1, <1>2, <1>3
  <1>5. y \in Int /\ 1000 * (n * y) = 2 * ((3000 * n) * t) - 20000 * (n * x) - 3000 * n
    OBVIOUS
  <1> HIDE DEF y
  <1>6. n * y <= 0
    BY <1>3, <1>4, <1>5
  <1>7. ~(y >= 1)
    <2> SUFFICES ASSUME y >= 1 PROVE FALSE
      OBVIOUS
    <2>1. n * 1 <= n * y
      BY <1>5, TimesMonotone
    <2>2. n * y \in Int
      BY <1>5
    <2> QED BY <1>6, <2>1, <2>2
  <1> QED BY <1>5, <1>7 DEF y, CanReach

LEMMA ScoreAtLeast ==
  ASSUME NEW n \in Nat \ {0}, NEW x \in Int, NEW w \in Int, NEW m \in Int, Mean(m, n, x), m <= w,
         NEW f, Scored(f, w, n), NEW t \in Int, f < t
  PROVE  CanMiss(x, t)
  <1> DEFINE y == 20 * x + 3 - 6 * t
  <1>0. n * x <= w
    BY DEF Mean
  <1>1. f \in Int /\ 2 * (10000 * w - f * (3000 * n)) <= 3000 * n
    BY DEF Scored, Nearest
  <1>2. (3000 * n) * f <= (3000 * n) * (t - 1)
    <2>1. 3000 * n \in Nat /\ t - 1 \in Int /\ f <= t - 1
      BY <1>1
    <2> QED BY <1>1, <2>1, TimesMonotone
  <1>3. /\ f * (3000 * n) = (3000 * n) * f /\ (3000 * n) * (t - 1) = (3000 * n) * t - 3000 * n
        /\ (3000 * n) * f \in Int /\ (3000 * n) * t \in Int /\ n * x \in Int
    BY <1>1
  <1>4. 20000 * (n * x) + 3000 * n <= 2 * ((3000 * n) * t)
    BY <1>0, <1>1, <1>2, <1>3
  <1>5. y \in Int /\ 1000 * (n * y) = 20000 * (n * x) + 3000 * n - 2 * ((3000 * n) * t)
    OBVIOUS
  <1> HIDE DEF y
  <1>6. n * y <= 0
    BY <1>3, <1>4, <1>5
  <1>7. ~(y >= 1)
    <2> SUFFICES ASSUME y >= 1 PROVE FALSE
      OBVIOUS
    <2>1. n * 1 <= n * y
      BY <1>5, TimesMonotone
    <2>2. n * y \in Int
      BY <1>5
    <2> QED BY <1>6, <2>1, <2>2
  <1> QED BY <1>5, <1>7 DEF y, CanMiss

\* The value of a cluster with at most, or at least, the given agreement and
\* penalty.
LEMMA ValueAtMost ==
  ASSUME NEW c \in ClaimCluster, NEW b \in Int, NEW o \in Int, c.agent_agreement <= b, o <= penalty(c)
  PROVE  weighted(c) <=
             Len(c.cited) * (10 * b * weight_agreement
                 + 30 * (weight_source_quality + weight_independence + weight_recency)
                 - 30 * weight_contradiction * o)
  <1> DEFINE n == Len(c.cited)
             x == 10 * b * weight_agreement
                  + 30 * (weight_source_quality + weight_independence + weight_recency)
                  - 30 * weight_contradiction * o
  <1>1. /\ n \in Nat /\ 10 * n \in Int /\ n \in Int /\ c.agent_agreement \in Int /\ penalty(c) \in Int
    BY ClusterShape
  <1>2. /\ sum(qualities(c)) \in Int /\ sum(qualities(c)) <= 10 * n
        /\ sum(recencies(c)) \in Int /\ sum(recencies(c)) <= 10 * n
    BY ClusterSums
  <1>3. independence(c) \in Int /\ independence(c) <= n
    BY ClusterDomains
  <1>4. weighted(c) = value(n, c.agent_agreement, sum(qualities(c)),
                            independence(c), sum(recencies(c)), penalty(c))
    BY ClusterValue
  <1> HIDE DEF n
  <1>5. value(n, c.agent_agreement, sum(qualities(c)), independence(c), sum(recencies(c)), penalty(c))
        <= value(n, b, 10 * n, n, 10 * n, o)
    BY <1>1, <1>2, <1>3, WeightedMonotone, Zenon
  <1>6. value(n, b, 10 * n, n, 10 * n, o) = n * x
    BY <1>1, Weights DEF value
  <1> HIDE DEF x
  <1>7. weighted(c) <= n * x
    BY <1>4, <1>5, <1>6
  <1> QED BY <1>7 DEF n, x

LEMMA ValueAtLeast ==
  ASSUME NEW c \in ClaimCluster, c.agent_agreement = 3, penalty(c) = 0
  PROVE  Len(c.cited) * (30 * weight_agreement + 15 * weight_source_quality + 9 * weight_recency)
         <= weighted(c)
  <1> DEFINE n == Len(c.cited)
             x == 30 * weight_agreement + 15 * weight_source_quality + 9 * weight_recency
  <1>1. /\ n \in Nat /\ 5 * n \in Int /\ 3 * n \in Int /\ 0 \in Int /\ 3 \in Int
        /\ c.agent_agreement \in Int /\ penalty(c) \in Int
        /\ 3 <= c.agent_agreement /\ penalty(c) <= 0
    BY ClusterShape
  <1>2. /\ sum(qualities(c)) \in Int /\ 5 * n <= sum(qualities(c))
        /\ sum(recencies(c)) \in Int /\ 3 * n <= sum(recencies(c))
    BY ClusterSums
  <1>3. independence(c) \in Int /\ 0 <= independence(c)
    BY ClusterDomains
  <1>4. weighted(c) = value(n, c.agent_agreement, sum(qualities(c)),
                            independence(c), sum(recencies(c)), penalty(c))
    BY ClusterValue
  <1> HIDE DEF n
  <1>5. value(n, 3, 5 * n, 0, 3 * n, 0)
        <= value(n, c.agent_agreement, sum(qualities(c)), independence(c), sum(recencies(c)), penalty(c))
    BY <1>1, <1>2, <1>3, WeightedMonotone, Zenon
  <1>6. value(n, 3, 5 * n, 0, 3 * n, 0) = n * x
    BY <1>1, Weights DEF value
  <1> HIDE DEF x
  <1>7. n * x <= weighted(c)
    BY <1>4, <1>5, <1>6
  <1> QED BY <1>7 DEF n, x

\* A claim of one agent is never "high", nor a contested one unless all three
\* made it, and an uncontested claim all three made is never "low".
THEOREM TierReflectsAgreementHolds ==
  ASSUME Unclamped, TiersSeparated
  PROVE  Spec => []TierReflectsAgreement
  <1> DEFINE n == Len(cluster.cited)
             f == score.final
             w == weighted(cluster)
             evidence == 30 * (weight_source_quality + weight_independence + weight_recency)
  <1>0. evidence \in Int /\ threshold_high \in Int /\ threshold_medium \in Int
        /\ weight_agreement \in Int /\ weight_contradiction \in Int
        /\ weight_source_quality \in Int /\ weight_recency \in Int
    BY Weights
  <1>1. ASSUME IInv, score # NoScore
        PROVE  /\ cluster \in ClaimCluster /\ n \in Nat \ {0}
               /\ Scored(f, w, n) /\ f \in Int /\ w \in Int
               /\ score.tier = tier(f)
               /\ cluster.agent_agreement \in 1 .. 3
               /\ penalty(cluster) = IF cluster.contradicted THEN 1 ELSE 0
    <2>1. cluster \in ClaimCluster /\ f \in final_scores(cluster) /\ score.tier = tier(f)
      BY <1>1, ScoreShape
    <2>2. /\ n \in Nat \ {0} /\ denominator(cluster) \in Nat \ {0}
          /\ denominator(cluster) = 3000 * n /\ cluster.agent_agreement \in 1 .. 3
      BY <2>1, ClusterShape DEF denominator
    <2>3. w \in Int /\ 0 <= w /\ w <= denominator(cluster)
      BY <2>1, ClusterValue, ValueRange
    <2>4. final_scores(cluster) = rounded(w, denominator(cluster))
      BY <2>2, <2>3 DEF final_scores, clamped
    <2>5. w \in Nat
      BY <2>3
    <2> HIDE DEF f, w, n
    <2>6. Nearest(f, w, denominator(cluster))
      BY <2>1, <2>2, <2>3, <2>4, <2>5, RoundedRange
    <2>7. f \in Int
      BY <2>6 DEF Nearest
    <2> QED BY <2>1, <2>2, <2>3, <2>6, <2>7 DEF penalty, Scored
  <1>2. ASSUME IInv, score # NoScore, score.tier = "high"
        PROVE  cluster.agent_agreement >= 2
    <2> SUFFICES ASSUME cluster.agent_agreement = 1 PROVE FALSE
      BY <1>1, <1>2
    <2> DEFINE x == 10 * weight_agreement + evidence
    <2>1. f >= threshold_high
      BY <1>0, <1>1, <1>2 DEF tier
    <2>2. 0 <= penalty(cluster) /\ 0 \in Int /\ 1 \in Int /\ cluster.agent_agreement <= 1
      BY <1>1, <1>2
    <2>3. x \in Int /\ x = 10 * 1 * weight_agreement + evidence - 30 * weight_contradiction * 0
      BY <1>0
    <2>4. w <= n * x
      BY <1>1, <1>2, <2>2, <2>3, ValueAtMost
    <2>5. ~CanReach(x, threshold_high)
      BY DEF TiersSeparated
    <2>6. n \in Nat \ {0} /\ w \in Int /\ Scored(f, w, n)
      BY <1>1, <1>2
    <2> HIDE DEF n, f, w, x
    <2>7. n * x \in Int /\ Mean(n * x, n, x)
      BY <2>3, <2>6 DEF Mean
    <2> QED BY <1>0, <2>1, <2>3, <2>4, <2>5, <2>6, <2>7, ScoreAtMost
  <1>3. ASSUME IInv, score # NoScore, score.tier = "high", cluster.contradicted
        PROVE  cluster.agent_agreement = 3
    <2> SUFFICES ASSUME cluster.agent_agreement <= 2 PROVE FALSE
      BY <1>1, <1>3
    <2> DEFINE x == 20 * weight_agreement + evidence - 30 * weight_contradiction
    <2>1. f >= threshold_high
      BY <1>0, <1>1, <1>3 DEF tier
    <2>2. 1 <= penalty(cluster) /\ 1 \in Int /\ 2 \in Int
      BY <1>1, <1>3
    <2>3. x \in Int /\ x = 10 * 2 * weight_agreement + evidence - 30 * weight_contradiction * 1
      BY <1>0
    <2>4. w <= n * x
      BY <1>1, <1>3, <2>2, <2>3, ValueAtMost
    <2>5. ~CanReach(x, threshold_high)
      BY DEF TiersSeparated
    <2>6. n \in Nat \ {0} /\ w \in Int /\ Scored(f, w, n)
      BY <1>1, <1>3
    <2> HIDE DEF n, f, w, x
    <2>7. n * x \in Int /\ Mean(n * x, n, x)
      BY <2>3, <2>6 DEF Mean
    <2> QED BY <1>0, <2>1, <2>3, <2>4, <2>5, <2>6, <2>7, ScoreAtMost
  <1>4. ASSUME IInv, score # NoScore, score.tier = "low"
        PROVE  cluster.agent_agreement < 3 \/ cluster.contradicted
    <2> SUFFICES ASSUME cluster.agent_agreement = 3, ~cluster.contradicted PROVE FALSE
      BY <1>1, <1>4
    <2> DEFINE x == 30 * weight_agreement + (15 * weight_source_quality + 9 * weight_recency)
    <2>1. f < threshold_medium
      BY <1>0, <1>1, <1>4 DEF tier
    <2>2. x \in Int /\ x = 30 * weight_agreement + 15 * weight_source_quality + 9 * weight_recency
      BY <1>0
    <2>3. n * x <= w
      BY <1>1, <1>4, <2>2, ValueAtLeast
    <2>4. ~CanMiss(x, threshold_medium)
      BY DEF TiersSeparated
    <2>5. n \in Nat \ {0} /\ w \in Int /\ Scored(f, w, n)
      BY <1>1, <1>4
    <2> HIDE DEF n, f, w, x
    <2>6. n * x \in Int /\ Mean(n * x, n, x)
      BY <2>2, <2>5 DEF Mean
    <2> QED BY <1>0, <2>1, <2>2, <2>3, <2>4, <2>5, <2>6, ScoreAtLeast
  <1>5. IInv => TierReflectsAgreement
    BY <1>2, <1>3, <1>4 DEF TierReflectsAgreement
  <1> QED BY <1>5, Invariance, PTL

\* The weights and thresholds of app/core/config.py satisfy what the theorems ask.
THEOREM DefaultsQualify ==
  ASSUME weight_agreement = 35, weight_source_quality = 25, weight_independence = 20,
         weight_recency = 10, weight_contradiction = 10,
         threshold_high = 7500, threshold_medium = 5000
  PROVE  Unclamped /\ TiersSeparated /\ weight_contradiction > 0 /\ 100 * weight_independence = 2000
  BY DEF Unclamped, TiersSeparated, CanReach, CanMiss
=============================================================================
