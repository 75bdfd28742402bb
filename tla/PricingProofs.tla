--------------------------- MODULE PricingProofs ---------------------------
(***************************************************************************)
(* Proofs about Pricing for any sources, quotes, tolerance and minimum:    *)
(* one source cannot move a price out of the range of the others, a        *)
(* majority that agrees is priced, and what is priced has a positive       *)
(* price.                                                                  *)
(***************************************************************************)
EXTENDS Pricing, SumsAndMedians

-----------------------------------------------------------------------------
(* The tolerance *)

\* A price is within the tolerance when it is near the reference on either
\* side.
LEMMA WithinMeans ==
    ASSUME NEW p \in Int, NEW ref2 \in Int
    PROVE  Within(p, ref2) <=>
              /\ (2 * p - ref2) * 10000 <= MaxDeviationBps * ref2
              /\ (ref2 - 2 * p) * 10000 <= MaxDeviationBps * ref2
<1> DEFINE d == 2 * p - ref2
           m == MaxDeviationBps * ref2
<1>1. d \in Int /\ m \in Int /\ ref2 - 2 * p = -d
  BY PricingAssumption
<1> HIDE DEF d, m
<1>2. Magnitude(d) * 10000 <= m <=> d * 10000 <= m /\ (-d) * 10000 <= m
  <2>1. CASE d < 0
    BY <1>1, <2>1 DEF Magnitude
  <2>2. CASE d >= 0
    BY <1>1, <2>2 DEF Magnitude
  <2>3. QED
    BY <1>1, <2>1, <2>2
<1>3. QED
  BY <1>1, <1>2 DEF Within, d, m

\* A larger factor makes no smaller product with a factor that is not negative.
LEMMA Monotone ==
    \A a, b \in Int, p \in Nat : a <= b => a * p <= b * p
  OBVIOUS

\* Between two prices that agree, one on each side of the reference, every
\* price that agrees with both is within the tolerance.
LEMMA BetweenAgreeing ==
    ASSUME NEW p \in Nat, NEW low \in Nat, NEW high \in Nat, NEW ref2 \in Nat,
           2 * low <= ref2, ref2 <= 2 * high,
           (p - low) * 10000 <= MaxDeviationBps * low,
           (high - p) * 10000 <= MaxDeviationBps * p
    PROVE  Within(p, ref2)
<1> DEFINE m == MaxDeviationBps
<1>1. m \in Nat
  BY PricingAssumption
<1> HIDE DEF m
<1>2. (2 * p - ref2) * 10000 <= m * ref2
  <2>1. (2 * p - ref2) * 10000 <= 2 * ((p - low) * 10000)
    OBVIOUS
  <2>2. (2 * low) * m <= ref2 * m
    BY <1>1, Monotone
  <2>3. (2 * low) * m = 2 * (m * low) /\ ref2 * m = m * ref2 /\ m * low \in Int
        /\ m * ref2 \in Int
    BY <1>1
  <2>4. (p - low) * 10000 <= m * low
    BY DEF m
  <2>5. QED
    BY <1>1, <2>1, <2>2, <2>3, <2>4
<1>3. (ref2 - 2 * p) * 10000 <= m * ref2
  <2>1. CASE ref2 <= 2 * p
    <3>1. (ref2 - 2 * p) * 10000 <= 0
      BY <2>1
    <3>2. m * ref2 >= 0 /\ m * ref2 \in Int
      BY <1>1
    <3>3. QED
      BY <3>1, <3>2
  <2>2. CASE 2 * p <= ref2
    <3>1. (ref2 - 2 * p) * 10000 <= 2 * ((high - p) * 10000)
      OBVIOUS
    <3>2. (2 * p) * m <= ref2 * m
      BY <1>1, <2>2, Monotone
    <3>3. (2 * p) * m = 2 * (m * p) /\ ref2 * m = m * ref2 /\ m * p \in Int
          /\ m * ref2 \in Int
      BY <1>1
    <3>4. (high - p) * 10000 <= m * p
      BY DEF m
    <3>5. QED
      BY <1>1, <3>1, <3>2, <3>3, <3>4
  <2>3. QED
    BY <2>1, <2>2
<1>4. QED
  BY <1>2, <1>3, WithinMeans DEF m

-----------------------------------------------------------------------------
(* The states *)

\* What was collected is what the sources answered, and the verdict is the one
\* of reconcile on it.
PriceInv ==
    /\ phase \in {"asked", "collected", "reconciled"}
    /\ results \in [Source -> Amount \union {Missing, Failed}]
    /\ phase # "asked" =>
          quotes = Only(results, {s \in Source : results[s] \in Amount})
    /\ phase = "reconciled" => verdict = Reconciled(quotes)

\* It holds throughout.
LEMMA PriceInvariant == Spec => []PriceInv
<1>1. Init => PriceInv
  BY DEF Init, PriceInv
<1>2. PriceInv /\ [Next]_vars => PriceInv'
  <2> SUFFICES ASSUME PriceInv, [Next]_vars PROVE PriceInv'
    OBVIOUS
  <2>1. CASE UNCHANGED vars
    BY <2>1 DEF PriceInv, vars
  <2>2. CASE Collect
    BY <2>2 DEF PriceInv, Collect
  <2>3. CASE Reconcile
    BY <2>3 DEF PriceInv, Reconcile
  <2>4. QED
    BY <2>1, <2>2, <2>3 DEF Next
<1>3. QED
  BY <1>1, <1>2, PTL DEF Spec

\* The median of the usable answers, and who is within the tolerance of it.
Ref2 == Reference2(Only(results, Answered))
Kept == {s \in Answered : Within(results[s], Ref2)}

\* Usable answers are numbers, and finitely many.
LEMMA AnsweredType ==
    ASSUME PriceInv
    PROVE  /\ IsFiniteSet(Answered) /\ Cardinality(Answered) \in Nat
           /\ \A s \in Answered : results[s] \in Nat \ {0}
           /\ \A S \in SUBSET Answered :
                 /\ IsFiniteSet(S) /\ Cardinality(S) \in Nat
                 /\ DOMAIN Only(results, S) = S
                 /\ \A s \in S : Only(results, S)[s] = results[s]
<1>1. Answered \in SUBSET Source
  BY DEF Answered
<1>2. IsFiniteSet(Answered) /\ Cardinality(Answered) \in Nat
  BY <1>1, PricingAssumption, FS_Subset, FS_CardinalityType
<1>3. \A s \in Answered : results[s] \in Nat \ {0}
  <2>1. SUFFICES ASSUME NEW s \in Answered PROVE results[s] \in Nat \ {0}
    OBVIOUS
  <2>2. results[s] \in Int /\ results[s] > 0
    BY PricingAssumption DEF Answered
  <2>3. QED
    BY <2>2
<1>4. ASSUME NEW S \in SUBSET Answered
      PROVE  /\ IsFiniteSet(S) /\ Cardinality(S) \in Nat
             /\ DOMAIN Only(results, S) = S
             /\ \A s \in S : Only(results, S)[s] = results[s]
  BY <1>2, FS_Subset, FS_CardinalityType DEF Only
<1>5. QED
  BY <1>2, <1>3, <1>4

\* The verdict, in terms of what the sources answered.
LEMMA VerdictMeans ==
    ASSUME PriceInv, phase = "reconciled"
    PROVE  /\ Priced <=> /\ Cardinality(Answered) >= MinSources
                         /\ Cardinality(Kept) >= MinSources
           /\ Priced => /\ verdict.price2 = Median2(Only(results, Kept))
                        /\ verdict.sources = Kept
<1> DEFINE A == {s \in Source : results[s] \in Amount}
<1>1. quotes = Only(results, A) /\ verdict = Reconciled(quotes)
  BY DEF PriceInv
<1>2. Usable(quotes) = Answered
  BY <1>1 DEF Usable, Answered, Only
<1>3. ASSUME NEW S \in SUBSET Answered PROVE Only(quotes, S) = Only(results, S)
  <2>1. S \subseteq A
    BY DEF Answered
  <2>2. \A s \in S : quotes[s] = results[s]
    BY <1>1, <2>1 DEF Only
  <2>3. QED
    BY <2>2 DEF Only
<1>4. Only(quotes, Usable(quotes)) = Only(results, Answered)
  BY <1>2, <1>3
<1>5. {s \in Usable(quotes) : Within(quotes[s], Reference2(Only(quotes, Usable(quotes))))}
        = Kept
  <2>1. \A s \in Answered : quotes[s] = results[s]
    BY <1>1 DEF Answered, Only
  <2>2. QED
    BY <1>2, <1>4, <2>1 DEF Kept, Ref2
<1>6. Only(quotes, Kept) = Only(results, Kept) /\ DOMAIN Only(results, Kept) = Kept
  BY <1>3 DEF Kept, Only
<1>7. Cardinality(Answered) \in Nat /\ Cardinality(Kept) \in Nat
  BY AnsweredType DEF Kept
<1>8. verdict =
        IF Cardinality(Answered) < MinSources
        THEN [reason |-> "too_few_sources", price2 |-> 0, sources |-> Answered]
        ELSE IF Cardinality(Kept) < MinSources
        THEN [reason |-> "no_consensus", price2 |-> 0, sources |-> Answered]
        ELSE [reason |-> "none", price2 |-> Median2(Only(results, Kept)), sources |-> Kept]
  BY <1>1, <1>2, <1>5, <1>6 DEF Reconciled
<1>9. MinSources \in Nat
  BY PricingAssumption
<1> HIDE DEF A
<1>10. CASE Cardinality(Answered) < MinSources
  BY <1>7, <1>8, <1>9, <1>10 DEF Priced
<1>11. CASE Cardinality(Answered) >= MinSources /\ Cardinality(Kept) < MinSources
  BY <1>7, <1>8, <1>9, <1>11 DEF Priced
<1>12. CASE Cardinality(Answered) >= MinSources /\ Cardinality(Kept) >= MinSources
  BY <1>7, <1>8, <1>9, <1>12 DEF Priced
<1>13. QED
  BY <1>7, <1>9, <1>10, <1>11, <1>12

-----------------------------------------------------------------------------
(* The properties *)

\* A majority that agrees is within the tolerance.
LEMMA MajorityIsKept ==
    ASSUME PriceInv, NEW S \in SUBSET Answered, Agree(S),
           2 * Cardinality(S) > Cardinality(Answered)
    PROVE  S \subseteq Kept
<1> DEFINE q == Only(results, Answered)
<1>1. /\ IsFiniteSet(Answered) /\ DOMAIN q = Answered
      /\ \A s \in Answered : q[s] = results[s] /\ results[s] \in Nat
  BY AnsweredType
<1>2. Ref2 = Median2(q)
  BY DEF Ref2, Reference2
<1> HIDE DEF q
<1>3. /\ Ref2 \in Nat
      /\ \E t \in S : 2 * q[t] <= Ref2
      /\ \E u \in S : Ref2 <= 2 * q[u]
  BY <1>1, <1>2, MedianOfMajority
<1>4. PICK t \in S : 2 * results[t] <= Ref2
  BY <1>1, <1>3
<1>5. PICK u \in S : Ref2 <= 2 * results[u]
  BY <1>1, <1>3
<1>6. Ref2 \in Nat
  BY <1>3
<1>7. ASSUME NEW s \in S PROVE s \in Kept
  <2> DEFINE p == results[s]
             low == results[t]
             high == results[u]
             ref2 == Ref2
  <2>1. p \in Nat /\ low \in Nat /\ high \in Nat /\ ref2 \in Nat
    BY <1>1, <1>6
  <2>2. 2 * low <= ref2 /\ ref2 <= 2 * high
    BY <1>4, <1>5
  <2>3. /\ (p - low) * 10000 <= MaxDeviationBps * low
        /\ (high - p) * 10000 <= MaxDeviationBps * p
    BY DEF Agree
  <2> HIDE DEF p, low, high, ref2
  <2>4. Within(p, ref2)
    BY <2>1, <2>2, <2>3, BetweenAgreeing
  <2>5. QED
    BY <2>4 DEF Kept, p, ref2
<1>8. QED
  BY <1>7

\* A majority that agrees and is enough is priced.
LEMMA MajorityDecides ==
    ASSUME PriceInv, phase = "reconciled", NEW S \in SUBSET Answered, Agree(S),
           Cardinality(S) >= MinSources, 2 * Cardinality(S) > Cardinality(Answered)
    PROVE  Priced /\ S \subseteq Kept
<1>1. S \subseteq Kept /\ Kept \in SUBSET Answered
  BY MajorityIsKept DEF Kept
<1>2. /\ IsFiniteSet(Kept) /\ IsFiniteSet(Answered)
      /\ Cardinality(S) \in Nat /\ Cardinality(Kept) \in Nat /\ Cardinality(Answered) \in Nat
  BY <1>1, AnsweredType
<1>3. Cardinality(S) <= Cardinality(Kept) /\ Cardinality(Kept) <= Cardinality(Answered)
  BY <1>1, <1>2, FS_Subset
<1>4. MinSources \in Nat
  BY PricingAssumption
<1>5. Priced
  BY <1>2, <1>3, <1>4, VerdictMeans
<1>6. QED
  BY <1>1, <1>5

\* All but one of three or more are a majority, of any part that holds them.
LEMMA OneIsOutvoted ==
    ASSUME PriceInv, phase = "reconciled", NEW bad \in Answered,
           Cardinality(Answered \ {bad}) >= MinSources,
           Cardinality(Answered \ {bad}) >= 2, Agree(Answered \ {bad})
    PROVE  /\ Priced
           /\ \E s \in Answered \ {bad} : 2 * results[s] <= verdict.price2
           /\ \E s \in Answered \ {bad} : verdict.price2 <= 2 * results[s]
<1> DEFINE honest == Answered \ {bad}
<1>1. Cardinality(honest) = Cardinality(Answered) - 1
  BY AnsweredType, FS_RemoveElement
<1>2. Cardinality(Answered) \in Nat
  BY AnsweredType
<1> HIDE DEF honest
<1>3. 2 * Cardinality(honest) > Cardinality(Answered)
  BY <1>1, <1>2 DEF honest
<1>4. honest \in SUBSET Answered /\ Agree(honest) /\ Cardinality(honest) >= MinSources
  BY DEF honest
<1>5. Priced /\ honest \subseteq Kept
  BY <1>3, <1>4, MajorityDecides
<1> DEFINE q == Only(results, Kept)
<1>6. Kept \in SUBSET Answered
  BY DEF Kept
<1>7. /\ IsFiniteSet(Answered) /\ IsFiniteSet(Kept) /\ Cardinality(Kept) \in Nat
      /\ Cardinality(honest) \in Nat /\ DOMAIN q = Kept
      /\ \A s \in Kept : q[s] = results[s] /\ results[s] \in Nat
  BY <1>4, <1>6, AnsweredType
<1>8. Cardinality(Kept) <= Cardinality(Answered)
  BY <1>6, <1>7, FS_Subset
<1>9. 2 * Cardinality(honest) > Cardinality(Kept)
  BY <1>2, <1>3, <1>7, <1>8
<1>10. verdict.price2 = Median2(q)
  BY <1>5, VerdictMeans
<1> HIDE DEF q
<1>11. /\ \E s \in honest : 2 * q[s] <= Median2(q)
       /\ \E s \in honest : Median2(q) <= 2 * q[s]
  BY <1>5, <1>7, <1>9, MedianOfMajority
<1>12. \A s \in honest : q[s] = results[s]
  BY <1>5, <1>7
<1>13. QED
  BY <1>5, <1>10, <1>11, <1>12 DEF honest

\* Half of the answers cannot all be on one side of both middle values, and
\* when they are on both sides the lower of two that agree is within the
\* tolerance; in between everything is as near as whatever was kept.
LEMMA HalfIsKept ==
    ASSUME PriceInv, phase = "reconciled", Priced, NEW S \in SUBSET Answered, Agree(S),
           S # {}, 2 * Cardinality(S) >= Cardinality(Answered)
    PROVE  S \intersect Kept # {}
<1> DEFINE q == Only(results, Answered)
<1>1. /\ IsFiniteSet(Answered) /\ DOMAIN q = Answered /\ Answered # {}
      /\ \A s \in Answered : q[s] = results[s] /\ results[s] \in Nat
  BY AnsweredType
<1>2. Ref2 = Median2(q)
  BY DEF Ref2, Reference2
<1> HIDE DEF q
<1> DEFINE n == Cardinality(Answered)
<1>3. PICK a, b \in Nat :
        /\ Ref2 = a + b /\ a <= b
        /\ 2 * Cardinality({s \in Answered : results[s] <= a}) >= n
        /\ 2 * Cardinality({s \in Answered : results[s] >= b}) >= n
        /\ 2 * Cardinality({s \in Answered : results[s] < a}) < n
        /\ 2 * Cardinality({s \in Answered : results[s] > b}) < n
  <2>1. \E a, b \in Nat :
          /\ Median2(q) = a + b /\ a <= b
          /\ 2 * Cardinality({s \in Answered : q[s] <= a}) >= n
          /\ 2 * Cardinality({s \in Answered : q[s] >= b}) >= n
          /\ 2 * Cardinality({s \in Answered : q[s] < a}) < n
          /\ 2 * Cardinality({s \in Answered : q[s] > b}) < n
    <3>1. \A s \in DOMAIN q : q[s] \in Nat
      BY <1>1
    <3>2. QED
      BY <1>1, <3>1, Middles
  <2>2. ASSUME NEW a \in Nat, NEW b \in Nat
        PROVE  /\ {s \in Answered : q[s] <= a} = {s \in Answered : results[s] <= a}
               /\ {s \in Answered : q[s] >= b} = {s \in Answered : results[s] >= b}
               /\ {s \in Answered : q[s] < a} = {s \in Answered : results[s] < a}
               /\ {s \in Answered : q[s] > b} = {s \in Answered : results[s] > b}
    BY <1>1
  <2>3. QED
    BY <1>2, <2>1, <2>2
<1> DEFINE upA == {s \in Answered : results[s] <= a}
           dnB == {s \in Answered : results[s] >= b}
           m == MaxDeviationBps * Ref2
<1>4. \A P \in SUBSET Answered : IsFiniteSet(P) /\ Cardinality(P) \in Nat
  BY AnsweredType
<1>5. Ref2 \in Nat /\ m \in Int
  <2>1. Ref2 \in Nat
    BY <1>3
  <2>2. QED
    BY <2>1, PricingAssumption
<1>6. (b - a) * 10000 <= m
  <2>1. CASE a = b
    <3>1. m >= 0
      BY <1>5, PricingAssumption
    <3>2. QED
      BY <2>1, <3>1
  <2>2. CASE a < b
    <3>1. upA \intersect dnB = {} /\ upA \in SUBSET Answered /\ dnB \in SUBSET Answered
      BY <1>1, <2>2
    <3>2. 2 * Cardinality(upA) >= n /\ 2 * Cardinality(dnB) >= n
      BY <1>3
    <3> HIDE DEF upA, dnB
    <3>3. upA \union dnB = Answered
      <4>1. Cardinality(upA \union dnB) = Cardinality(upA) + Cardinality(dnB)
        BY <1>4, <3>1, FS_Union, FS_EmptySet
      <4>2. upA \union dnB \in SUBSET Answered
        BY <3>1
      <4>3. Cardinality(upA \union dnB) <= n
        BY <1>1, <4>2, FS_Subset
      <4>4. Cardinality(upA) \in Nat /\ Cardinality(dnB) \in Nat /\ n \in Nat
        BY <1>4, <3>1
      <4>5. Cardinality(upA \union dnB) = n
        BY <3>2, <4>1, <4>3, <4>4
      <4>6. QED
        BY <1>1, <4>2, <4>5, FS_Subset
    <3>4. PICK k \in Kept : TRUE
      <4>1. Cardinality(Kept) >= MinSources /\ MinSources \in Nat \ {0}
        BY VerdictMeans, PricingAssumption
      <4>2. Kept # {}
        BY <4>1, FS_EmptySet
      <4>3. QED
        BY <4>2
    <3> DEFINE p == results[k]
    <3>5. k \in Answered /\ p \in Nat /\ Within(p, Ref2)
      BY <1>1 DEF Kept
    <3>6. p <= a \/ p >= b
      BY <3>3, <3>5 DEF upA, dnB
    <3> HIDE DEF p
    <3>7. (2 * p - Ref2) * 10000 <= m /\ (Ref2 - 2 * p) * 10000 <= m
      BY <1>5, <3>5, WithinMeans
    <3> HIDE DEF m
    <3>8. CASE p <= a
      <4>1. (b - a) * 10000 <= (Ref2 - 2 * p) * 10000
        BY <1>3, <3>5, <3>8
      <4>2. QED
        BY <1>5, <3>5, <3>7, <4>1
    <3>9. CASE p >= b
      <4>1. (b - a) * 10000 <= (2 * p - Ref2) * 10000
        BY <1>3, <3>5, <3>9
      <4>2. QED
        BY <1>5, <3>5, <3>7, <4>1
    <3>10. QED
      BY <3>6, <3>8, <3>9
  <2>3. QED
    BY <1>3, <2>1, <2>2
<1> SUFFICES ASSUME S \intersect Kept = {} PROVE FALSE
  OBVIOUS
<1>7. ASSUME NEW s \in S PROVE results[s] < a \/ results[s] > b
  <2>1. s \in Answered /\ results[s] \in Nat /\ ~ Within(results[s], Ref2)
    BY <1>1 DEF Kept
  <2> DEFINE p == results[s]
  <2>2. ~ ((2 * p - Ref2) * 10000 <= m /\ (Ref2 - 2 * p) * 10000 <= m)
    BY <1>5, <2>1, WithinMeans
  <2> HIDE DEF p, m
  <2>3. SUFFICES ASSUME a <= p, p <= b PROVE FALSE
    BY <2>1 DEF p
  <2>4. p \in Nat
    BY <2>1 DEF p
  <2>5. /\ (2 * p - Ref2) * 10000 <= (b - a) * 10000
        /\ (Ref2 - 2 * p) * 10000 <= (b - a) * 10000
    BY <1>3, <2>3, <2>4
  <2>6. QED
    BY <1>5, <1>6, <2>2, <2>4, <2>5
<1>8. CASE \A s \in S : results[s] < a
  <2>1. S \in SUBSET {s \in Answered : results[s] < a}
    BY <1>8
  <2>2. Cardinality(S) <= Cardinality({s \in Answered : results[s] < a})
    BY <1>4, <2>1, FS_Subset
  <2>3. Cardinality(S) \in Nat /\ Cardinality({s \in Answered : results[s] < a}) \in Nat
        /\ n \in Nat
    BY <1>4
  <2>4. QED
    BY <1>3, <2>2, <2>3
<1>9. CASE \A s \in S : results[s] > b
  <2>1. S \in SUBSET {s \in Answered : results[s] > b}
    BY <1>9
  <2>2. Cardinality(S) <= Cardinality({s \in Answered : results[s] > b})
    BY <1>4, <2>1, FS_Subset
  <2>3. Cardinality(S) \in Nat /\ Cardinality({s \in Answered : results[s] > b}) \in Nat
        /\ n \in Nat
    BY <1>4
  <2>4. QED
    BY <1>3, <2>2, <2>3
<1>10. CASE \E t, u \in S : results[t] < a /\ results[u] > b
  <2>1. PICK t \in S, u \in S : results[t] < a /\ results[u] > b
    BY <1>10
  <2>2. results[t] \in Nat /\ results[u] \in Nat /\ t \in Answered
    BY <1>1
  <2>3. 2 * results[t] <= Ref2 /\ Ref2 <= 2 * results[u]
    BY <1>3, <2>1, <2>2
  <2>4. /\ (results[t] - results[t]) * 10000 <= MaxDeviationBps * results[t]
        /\ (results[u] - results[t]) * 10000 <= MaxDeviationBps * results[t]
    BY DEF Agree
  <2> DEFINE p == results[t]
             high == results[u]
  <2>5. Within(p, Ref2)
    <3>1. /\ p \in Nat /\ high \in Nat /\ Ref2 \in Nat
          /\ 2 * p <= Ref2 /\ Ref2 <= 2 * high
          /\ (p - p) * 10000 <= MaxDeviationBps * p
          /\ (high - p) * 10000 <= MaxDeviationBps * p
      BY <1>5, <2>2, <2>3, <2>4
    <3> HIDE DEF p, high
    <3>2. QED
      BY ONLY <3>1, BetweenAgreeing
  <2>6. QED
    BY <2>2, <2>5 DEF Kept
<1>11. QED
  BY <1>7, <1>8, <1>9, <1>10

\* No single venue can move the index: whatever one source says, an asset that
\* enough others agree on is priced within their range.
THEOREM OneSourceIsOutvoted == Spec => []OneVenueCannotMove
<1>1. PriceInv => OneVenueCannotMove
  BY OneIsOutvoted DEF OneVenueCannotMove
<1>2. QED
  BY <1>1, PriceInvariant, PTL

\* A majority that agrees, and is enough, is priced and none of it is dropped.
THEOREM MajorityPrices == Spec => []MajorityIsPriced
<1>1. PriceInv => MajorityIsPriced
  <2>1. SUFFICES ASSUME PriceInv, NEW S \in SUBSET Answered, phase = "reconciled",
                        Cardinality(S) >= MinSources,
                        2 * Cardinality(S) > Cardinality(Answered), Agree(S)
                 PROVE  Priced /\ S \subseteq verdict.sources
    BY DEF MajorityIsPriced
  <2>2. Priced /\ S \subseteq Kept
    BY <2>1, MajorityDecides
  <2>3. QED
    BY <2>1, <2>2, VerdictMeans
<1>2. QED
  BY <1>1, PriceInvariant, PTL

\* Half of the answers, if they agree, are not overruled by the other half.
THEOREM HalfIsNotOverruled == Spec => []HalfIsHeard
<1>1. PriceInv => HalfIsHeard
  <2>1. SUFFICES ASSUME PriceInv, NEW S \in SUBSET Answered, phase = "reconciled",
                        2 * Cardinality(S) >= Cardinality(Answered),
                        Agree(S), S # {}, Priced
                 PROVE  S \intersect verdict.sources # {}
    BY DEF HalfIsHeard
  <2>2. S \intersect Kept # {}
    BY <2>1, HalfIsKept
  <2>3. QED
    BY <2>1, <2>2, VerdictMeans
<1>2. QED
  BY <1>1, PriceInvariant, PTL

-----------------------------------------------------------------------------
(* Types *)

\* What is kept of the quotes and of the errors until the verdict is there.
CollectPart ==
    /\ phase = "asked" => quotes = << >>
    /\ errors \subseteq Source
    /\ phase # "reconciled" => verdict = Pending

\* It holds throughout.
LEMMA CollectInvariant == Spec => []CollectPart
<1>1. Init => CollectPart
  BY DEF Init, CollectPart
<1>2. CollectPart /\ [Next]_vars => CollectPart'
  BY DEF CollectPart, Next, Collect, Reconcile, vars
<1>3. QED
  BY <1>1, <1>2, PTL DEF Spec

\* A verdict has a positive price of at least one source, or a reason for none.
LEMMA VerdictType ==
    ASSUME PriceInv, CollectPart
    PROVE  verdict \in Verdict
<1>1. CASE phase # "reconciled"
  BY <1>1 DEF CollectPart, Pending, Verdict
<1>2. CASE phase = "reconciled" /\ ~Priced
  <2>1. Usable(quotes) \subseteq Source
    <3>1. quotes = Only(results, {s \in Source : results[s] \in Amount})
      BY <1>2 DEF PriceInv
    <3>2. QED
      BY <3>1 DEF Usable, Only
  <2>2. verdict = Reconciled(quotes)
    BY <1>2 DEF PriceInv
  <2>3. \E why \in {"too_few_sources", "no_consensus"} :
          verdict = [reason |-> why, price2 |-> 0, sources |-> Usable(quotes)]
    BY <1>2, <2>2 DEF Reconciled, Priced
  <2>4. QED
    BY <2>1, <2>3 DEF Verdict
<1>3. CASE phase = "reconciled" /\ Priced
  <2> DEFINE q == Only(results, Kept)
  <2>1. Kept \in SUBSET Answered /\ Answered \in SUBSET Source
    BY DEF Kept, Answered
  <2>2. /\ IsFiniteSet(Kept) /\ Cardinality(Kept) \in Nat /\ DOMAIN q = Kept
        /\ \A s \in Kept : q[s] \in Nat \ {0}
    BY <2>1, AnsweredType
  <2>3. Cardinality(Kept) > 0
    BY <1>3, <2>2, VerdictMeans, PricingAssumption
  <2>4. Kept # {} /\ 2 * Cardinality(Kept) > Cardinality(DOMAIN q)
    BY <2>2, <2>3, FS_EmptySet
  <2>5. Median2(q) \in Nat /\ \E t \in Kept : 2 * q[t] <= Median2(q)
    <3> HIDE DEF q
    <3>1. DOMAIN q \in SUBSET DOMAIN q /\ \A s \in DOMAIN q : q[s] \in Nat
      BY <2>2
    <3>2. QED
      BY <2>2, <2>4, <3>1, MedianOfMajority
  <2>6. Median2(q) \in Nat \ {0}
    <3>1. PICK t \in Kept : 2 * q[t] <= Median2(q)
      BY <2>5
    <3>2. q[t] \in Nat \ {0}
      BY <2>2
    <3> HIDE DEF q
    <3>3. QED
      BY <2>5, <3>1, <3>2
  <2>7. verdict.price2 = Median2(q) /\ verdict.sources = Kept
    BY <1>3, VerdictMeans
  <2>8. \E p, S : verdict = [reason |-> "none", price2 |-> p, sources |-> S]
    BY <1>3 DEF PriceInv, Reconciled, Priced
  <2>9. verdict = [reason |-> "none", price2 |-> Median2(q), sources |-> Kept]
    BY <2>7, <2>8
  <2> HIDE DEF q
  <2>10. QED
    BY <2>1, <2>4, <2>6, <2>9 DEF Verdict
<1>4. QED
  BY <1>1, <1>2, <1>3

\* Types hold: most of all, what is priced has a positive price and a source,
\* since no quote of zero or below survives and MinSources is positive.
THEOREM TypeCorrect == Spec => []TypeOK
<1>1. PriceInv /\ CollectPart => TypeOK
  <2>1. SUFFICES ASSUME PriceInv, CollectPart PROVE TypeOK
    OBVIOUS
  <2>2. DOMAIN quotes \subseteq Source /\ \A s \in DOMAIN quotes : quotes[s] \in Amount
    <3>1. CASE phase = "asked"
      <4>1. quotes = << >>
        BY <2>1, <3>1 DEF CollectPart
      <4>2. DOMAIN quotes = {}
        BY <4>1
      <4>3. QED
        BY <4>2
    <3>2. CASE phase # "asked"
      BY <2>1, <3>2 DEF PriceInv, Only
    <3>3. QED
      BY <3>1, <3>2
  <2>3. QED
    BY <2>1, <2>2, VerdictType DEF TypeOK, PriceInv, CollectPart
<1>2. QED
  BY <1>1, PriceInvariant, CollectInvariant, PTL
=============================================================================
