-------------------------- MODULE WeightingProofs --------------------------
(***************************************************************************)
(* Proofs about Weighting for any market caps, any number of names and any *)
(* cap: the passes stop at the least set of names that leaves nobody over  *)
(* the cap, and keep the order of the market caps; what is published sums  *)
(* to the whole, and has no negative weight while the names are 141 or     *)
(* fewer.                                                                  *)
(***************************************************************************)
EXTENDS Weighting, SumsAndMedians

\* What the names in C leave to the free ones, and what these weigh together.
Left(C) == Total - Cardinality(C) * CapBps
Mass(C) == SumOver(caps, Assets \ C)

-----------------------------------------------------------------------------
(* Numbers *)

\* Of two products with a common positive factor the larger has the larger
\* other factor.
LEMMA Cancel ==
    \A a, b \in Int, p \in Nat \ {0} : a * p > b * p => a > b
  OBVIOUS

\* A larger factor makes no smaller product with a factor that is not negative.
LEMMA Monotone ==
    \A a, b \in Int, p \in Nat : a >= b => a * p >= b * p
  OBVIOUS

-----------------------------------------------------------------------------
(* Names and what they weigh *)

\* A selection is a finite sequence of positive market caps.
LEMMA CapsType ==
    ASSUME caps \in Selections
    PROVE  /\ Len(caps) \in Nat /\ Assets = 1..Len(caps)
           /\ IsFiniteSet(Assets) /\ Cardinality(Assets) = Len(caps)
           /\ \A i \in Assets : caps[i] \in Nat \ {0}
<1>1. PICK n \in 1..Names : caps \in [1..n -> MarketCap]
  BY DEF Selections
<1>2. n \in Nat /\ MarketCap \subseteq Nat \ {0}
  BY WeightingAssumption
<1>3. Len(caps) = n /\ Assets = 1..n
  BY <1>1, <1>2 DEF Assets
<1>4. IsFiniteSet(1..n) /\ Cardinality(1..n) = n
  BY <1>2, FS_Interval
<1>5. QED
  BY <1>1, <1>2, <1>3, <1>4

\* The names and their parts are finite, and what they weigh is a number.
LEMMA MassType ==
    ASSUME caps \in Selections, NEW C \in SUBSET Assets
    PROVE  /\ IsFiniteSet(C) /\ Cardinality(C) \in Nat
           /\ Mass(C) \in Nat /\ Left(C) \in Int
           /\ \A i \in Assets \ C : Mass(C) >= caps[i]
<1>1. /\ IsFiniteSet(Assets) /\ \A i \in Assets : caps[i] \in Nat \ {0}
  BY CapsType
<1>2. /\ IsFiniteSet(C) /\ Cardinality(C) \in Nat
      /\ IsFiniteSet(Assets \ C) /\ Cardinality(Assets \ C) \in Nat
  BY <1>1, FS_Subset, FS_CardinalityType
<1>3. ASSUME NEW T \in SUBSET Assets PROVE SumFunctionOnSet(caps, T) \in Nat
  <2>1. IsFiniteSet(T) /\ \A i \in T : caps[i] \in Int /\ caps[i] >= 0
    BY <1>1, FS_Subset
  <2>2. SumFunctionOnSet(caps, T) \in Int
    BY <2>1, SumType
  <2>3. Cardinality(T) \in Nat
    BY <2>1, FS_CardinalityType
  <2>4. SumFunctionOnSet(caps, T) >= 0 * Cardinality(T)
    BY <2>1, SumAtLeast
  <2>5. QED
    BY <2>2, <2>3, <2>4
<1>4. Mass(C) \in Nat
  BY <1>3 DEF Mass, SumOver
<1>5. ASSUME NEW i \in Assets \ C PROVE Mass(C) >= caps[i]
  <2>1. \A x \in Assets \ C : caps[x] \in Int
    BY <1>1
  <2>2. SumFunctionOnSet(caps, Assets \ C)
          = caps[i] + SumFunctionOnSet(caps, (Assets \ C) \ {i})
    BY <1>2, <2>1, SumFacts
  <2>3. SumFunctionOnSet(caps, (Assets \ C) \ {i}) \in Nat
    BY <1>3
  <2>4. caps[i] \in Nat
    BY <1>1
  <2>5. QED
    BY <2>2, <2>3, <2>4 DEF Mass, SumOver
<1>6. Left(C) \in Int
  BY <1>2, WeightingAssumption DEF Left, Total
<1>7. QED
  BY <1>2, <1>4, <1>5, <1>6

\* More names in C, B of them, no lighter than k each: less is left for the
\* others, by as many caps, and they weigh less, by at least k times as many.
LEMMA Grow ==
    ASSUME caps \in Selections, NEW C \in SUBSET Assets, NEW B \in SUBSET (Assets \ C),
           NEW k \in Int, \A i \in B : caps[i] >= k
    PROVE  LET m == Cardinality(B) IN
           /\ m \in Nat
           /\ Left(C \union B) = Left(C) - m * CapBps
           /\ Mass(C \union B) + m * k <= Mass(C)
           /\ Cardinality(C \union B) = Cardinality(C) + m
<1> DEFINE m == Cardinality(B)
<1>1. /\ IsFiniteSet(Assets) /\ \A i \in Assets : caps[i] \in Nat \ {0}
  BY CapsType
<1>2. /\ IsFiniteSet(C) /\ Cardinality(C) \in Nat /\ Left(C) \in Int /\ Mass(C) \in Nat
      /\ IsFiniteSet(B) /\ m \in Nat
      /\ Mass(C \union B) \in Nat
  BY MassType
<1>3. Cardinality(C \union B) = Cardinality(C) + m
  <2>1. C \intersect B = {}
    OBVIOUS
  <2>2. QED
    BY <1>2, <2>1, FS_Union, FS_EmptySet
<1>4. Left(C \union B) = Left(C) - m * CapBps
  <2> DEFINE c == Cardinality(C)
  <2>1. c \in Nat /\ m \in Nat /\ CapBps \in Int /\ Total \in Int
    BY <1>2, WeightingAssumption DEF Total
  <2>2. Cardinality(C \union B) = c + m
    BY <1>3
  <2> HIDE DEF c, m
  <2>3. Total - (c + m) * CapBps = (Total - c * CapBps) - m * CapBps
    BY <2>1
  <2>4. QED
    BY <2>2, <2>3 DEF Left, c
<1>5. Mass(C) = SumFunctionOnSet(caps, B) + Mass(C \union B)
  <2>1. IsFiniteSet(Assets \ C) /\ \A i \in Assets \ C : caps[i] \in Int
    BY <1>1, FS_Subset
  <2>2. SumFunctionOnSet(caps, Assets \ C)
          = SumFunctionOnSet(caps, B) + SumFunctionOnSet(caps, (Assets \ C) \ B)
    BY <2>1, SumSplit
  <2>3. (Assets \ C) \ B = Assets \ (C \union B)
    OBVIOUS
  <2>4. QED
    BY <2>2, <2>3 DEF Mass, SumOver
<1>6. SumFunctionOnSet(caps, B) >= k * m
  <2>1. \A i \in B : caps[i] \in Int /\ caps[i] >= k
    BY <1>1
  <2>2. QED
    BY <1>2, <2>1, SumAtLeast
<1>7. SumFunctionOnSet(caps, B) \in Int
  <2>1. \A i \in B : caps[i] \in Int
    BY <1>1
  <2>2. QED
    BY <1>2, <2>1, SumType
<1>8. k * m = m * k /\ m * k \in Int
  BY <1>2
<1>9. Mass(C \union B) + m * k <= Mass(C)
  BY <1>2, <1>5, <1>6, <1>7, <1>8
<1>10. QED
  BY <1>2, <1>3, <1>4, <1>9

\* Who breaches: a free name whose share of what is left is above the cap.
LEMMA Breaching ==
    ASSUME NEW C, NEW i
    PROVE  i \in breaching(C) <=>
              i \in Assets \ C /\ caps[i] * Left(C) > CapBps * Mass(C)
  BY DEF breaching, Numerator, Denominator, Left, Mass

-----------------------------------------------------------------------------
(* The passes *)

\* The names capped so far are larger than the others, the caps can pay for
\* them, and they are capped in every way to settle the selection.
CapPart ==
    /\ capped \subseteq Assets
    /\ \A i \in capped, j \in Assets \ capped : caps[i] > caps[j]
    /\ Cardinality(capped) * CapBps <= Total
    /\ \A C \in SUBSET Assets : Settles(C) => capped \subseteq C

\* What toBasisPoints makes of the weights.
Published == [Rounded EXCEPT ![Largest(Rounded)] = @ + Residual]

WInv ==
    /\ caps \in Selections
    /\ pass \in Nat
    /\ CapPart
    /\ pc = "start" => pass = 0
    /\ pc = "pass" => pass <= Cardinality(capped)
    /\ pc \in {"pass", "round", "done"} => CapBps * Len(caps) >= Total
    /\ pc \in {"round", "done"} => breaching(capped) = {}
    /\ pc = "done" => bps = Published

\* Capping whoever breaches leaves something for the others.
LEMMA CapsArePaid ==
    ASSUME caps \in Selections, CapPart, breaching(capped) # {}
    PROVE  LET C == capped \union breaching(capped)
           IN  C \subseteq Assets /\ Cardinality(C) * CapBps <= Total
                 /\ Cardinality(C) > Cardinality(capped)
<1> DEFINE B == breaching(capped)
           m == Cardinality(B)
           L == Left(capped)
           M == Mass(capped)
<1>1. capped \in SUBSET Assets /\ B \in SUBSET (Assets \ capped) /\ B # {}
  BY DEF CapPart, breaching
<1>2. \A i \in Assets : caps[i] \in Nat \ {0}
  BY CapsType
<1>3. PICK low \in B : \A i \in B : caps[low] <= caps[i]
  <2> DEFINE T == {caps[i] : i \in B}
  <2>1. T \subseteq Nat /\ T # {}
    BY <1>1, <1>2
  <2> HIDE DEF B
  <2>2. PICK k \in T : \A n \in T : k <= n
    <3> HIDE DEF T
    <3>1. QED
      BY <2>1, LeastNumber
  <2>3. QED
    BY <2>2
<1> DEFINE k == caps[low]
<1>4. k \in Nat \ {0} /\ \A i \in B : caps[i] \in Int /\ caps[i] >= k
  BY <1>1, <1>2, <1>3
<1>5. k * L > CapBps * M
  BY <1>3, Breaching
<1> HIDE DEF B
<1>6. /\ m \in Nat
      /\ Left(capped \union B) = L - m * CapBps
      /\ Mass(capped \union B) + m * k <= M
      /\ Cardinality(capped \union B) = Cardinality(capped) + m
  BY <1>1, <1>4, Grow
<1>7. /\ L \in Int /\ M \in Nat /\ Cardinality(capped) \in Nat
      /\ IsFiniteSet(capped \union B) /\ Cardinality(capped \union B) \in Nat
      /\ Mass(capped \union B) \in Nat /\ IsFiniteSet(B)
  BY <1>1, MassType
<1>8. m > 0
  BY <1>1, <1>6, <1>7, FS_EmptySet
<1>9. CapBps \in Nat \ {0} /\ Total \in Int
  BY WeightingAssumption DEF Total
<1> HIDE DEF k, L, M, m
<1>10. L > m * CapBps
  <2>1. m * k <= M
    BY <1>4, <1>6, <1>7
  <2>2. CapBps * (m * k) <= CapBps * M
    BY <1>4, <1>6, <1>7, <1>9, <2>1, Monotone
  <2>3. CapBps * (m * k) = (m * CapBps) * k
    BY <1>4, <1>6, <1>9
  <2>4. L * k > (m * CapBps) * k
    BY <1>4, <1>5, <1>6, <1>7, <1>9, <2>2, <2>3
  <2>5. QED
    BY <1>4, <1>6, <1>7, <1>9, <2>4, Cancel
<1>11. Left(capped \union B) > 0
  BY <1>6, <1>7, <1>9, <1>10
<1>12. Cardinality(capped \union B) * CapBps <= Total
  BY <1>7, <1>9, <1>11 DEF Left
<1>13. QED
  BY <1>1, <1>6, <1>7, <1>8, <1>12 DEF B

\* What breaches is larger than what does not.
LEMMA BreachingAreLargest ==
    ASSUME caps \in Selections, CapPart,
           NEW i \in breaching(capped), NEW j \in Assets \ capped, j \notin breaching(capped)
    PROVE  caps[i] > caps[j]
<1>1. caps[i] * Left(capped) > CapBps * Mass(capped) /\ i \in Assets
  BY Breaching
<1>2. ~ (caps[j] * Left(capped) > CapBps * Mass(capped))
  BY Breaching
<1>3. caps[i] \in Nat /\ caps[j] \in Nat
  BY <1>1, CapsType
<1>4. Left(capped) \in Int /\ Mass(capped) \in Nat /\ CapBps \in Nat /\ Total \in Int
      /\ Cardinality(capped) \in Nat
  BY MassType, WeightingAssumption DEF CapPart, Total
<1>5. Left(capped) \in Nat
  BY <1>4 DEF CapPart, Left
<1>6. caps[j] < caps[i]
  <2>1. SUFFICES ASSUME caps[j] >= caps[i] PROVE FALSE
    BY <1>3
  <2>2. caps[j] * Left(capped) >= caps[i] * Left(capped)
    BY <1>3, <1>5, <2>1, Monotone
  <2>3. CapBps * Mass(capped) \in Int /\ caps[i] * Left(capped) \in Int
        /\ caps[j] * Left(capped) \in Int
    BY <1>3, <1>4
  <2>4. QED
    BY <1>1, <1>2, <2>2, <2>3
<1>7. QED
  BY <1>3, <1>6

\* Whoever breaches while the largest names are capped breaches however many
\* more of the largest are capped, as long as he is not: he is in every set
\* that settles the selection.
LEMMA BreachingMustBeCapped ==
    ASSUME caps \in Selections, CapPart, NEW C \in SUBSET Assets, Settles(C)
    PROVE  breaching(capped) \subseteq C
<1> DEFINE B == C \ capped
           m == Cardinality(B)
           L == Left(capped)
           M == Mass(capped)
<1>1. SUFFICES ASSUME NEW i \in breaching(capped), i \notin C PROVE FALSE
  OBVIOUS
<1> DEFINE k == caps[i]
<1>2. i \in Assets /\ i \notin capped /\ k * L > CapBps * M
  BY Breaching
<1>3. capped \in SUBSET Assets /\ capped \subseteq C /\ B \in SUBSET (Assets \ capped)
  BY DEF CapPart
<1>4. capped \union B = C
  BY <1>3
<1>5. \A j \in Assets : caps[j] \in Nat \ {0}
  BY CapsType
<1>6. k \in Nat \ {0} /\ k \in Int /\ \A j \in B : caps[j] >= k
  BY <1>1, <1>2, <1>5 DEF Settles
<1> HIDE DEF B
<1>7. /\ m \in Nat
      /\ Left(C) = L - m * CapBps
      /\ Mass(C) + m * k <= M
  BY <1>3, <1>4, <1>6, Grow
<1>8. L \in Int /\ M \in Nat /\ Mass(C) \in Nat /\ CapBps \in Nat \ {0}
  BY <1>3, MassType, WeightingAssumption
<1>9. ~ (k * Left(C) > CapBps * Mass(C))
  BY <1>1, <1>2, Breaching DEF Settles
<1> HIDE DEF k, L, M, m
<1> DEFINE N == Mass(C)
<1>10. N \in Nat /\ N + m * k <= M
  BY <1>7, <1>8
<1>11. k * (L - m * CapBps) <= CapBps * N
  <2>1. k * (L - m * CapBps) \in Int /\ CapBps * N \in Int
    BY <1>6, <1>7, <1>8
  <2>2. QED
    BY <1>7, <1>9, <2>1
<1> HIDE DEF N
<1>12. CapBps * (N + m * k) <= CapBps * M
  BY <1>6, <1>7, <1>8, <1>10, Monotone
<1>13. /\ CapBps * (N + m * k) = CapBps * N + k * (m * CapBps)
       /\ k * (L - m * CapBps) = k * L - k * (m * CapBps)
  BY <1>6, <1>7, <1>8, <1>10
<1>14. /\ k * L \in Int /\ CapBps * M \in Int /\ CapBps * N \in Int
       /\ k * (m * CapBps) \in Int
  BY <1>6, <1>7, <1>8, <1>10
<1>15. QED
  BY <1>2, <1>11, <1>12, <1>13, <1>14

\* At the start nobody is capped.
LEMMA WeightingInit == Init => WInv
<1> SUFFICES ASSUME Init PROVE WInv
  OBVIOUS
<1>1. caps \in Selections /\ pc = "start" /\ pass = 0 /\ capped = {}
  BY DEF Init
<1>2. Cardinality({}) = 0
  BY FS_EmptySet
<1>3. CapPart
  BY <1>1, <1>2, WeightingAssumption DEF CapPart, Total
<1>4. QED
  BY <1>1, <1>3 DEF WInv

\* A step that leaves the market caps and who is capped leaves CapPart.
LEMMA CapPartStays ==
    ASSUME CapPart, UNCHANGED <<caps, capped>>
    PROVE  CapPart' /\ breaching(capped)' = breaching(capped) /\ Published' = Published
<1>1. Assets' = Assets /\ breaching(capped)' = breaching(capped)
  BY DEF Assets, breaching, Numerator, Denominator
<1>2. ASSUME NEW C PROVE Settles(C)' <=> Settles(C)
  BY DEF Settles, Assets, breaching, Numerator, Denominator
<1>3. Published' = Published
  BY DEF Published, Rounded, Largest, Residual, Numerator, Denominator, Assets, SumOver
<1>4. QED
  BY <1>1, <1>2, <1>3 DEF CapPart

\* A pass keeps the invariant: who it caps are the largest of the free names,
\* can be paid for and must be capped.  One is added in every pass, so that
\* when the passes run out everybody is capped and nobody breaches.
LEMMA PassKeeps == WInv /\ Pass => WInv'
<1> SUFFICES ASSUME WInv, Pass PROVE WInv'
  OBVIOUS
<1> USE DEF WInv
<1>1. caps' = caps /\ pc = "pass" /\ pass <= Cardinality(capped) /\ CapPart
  BY DEF Pass
<1>2. capped \in SUBSET Assets /\ IsFiniteSet(capped) /\ Cardinality(capped) \in Nat
  BY <1>1, MassType DEF CapPart
<1>3. CASE /\ pass < Len(caps) /\ breaching(capped) # {}
           /\ capped' = capped \union breaching(capped)
           /\ pass' = pass + 1 /\ UNCHANGED pc
  <2> DEFINE C == capped \union breaching(capped)
  <2>1. C \subseteq Assets /\ Cardinality(C) * CapBps <= Total
        /\ Cardinality(C) > Cardinality(capped)
    BY <1>1, <1>3, CapsArePaid
  <2>2. IsFiniteSet(C) /\ Cardinality(C) \in Nat
    BY <2>1, MassType
  <2>3. ASSUME NEW i \in C, NEW j \in Assets \ C PROVE caps[i] > caps[j]
    <3>1. CASE i \in capped
      BY <1>1, <3>1 DEF CapPart
    <3>2. CASE i \in breaching(capped)
      BY <1>1, <3>2, BreachingAreLargest
    <3>3. QED
      BY <3>1, <3>2
  <2>4. ASSUME NEW D \in SUBSET Assets, Settles(D) PROVE C \subseteq D
    <3>1. breaching(capped) \subseteq D
      BY <1>1, <2>4, BreachingMustBeCapped
    <3>2. QED
      BY <1>1, <2>4, <3>1 DEF CapPart
  <2> HIDE DEF C
  <2>5. capped' = C
    BY <1>3 DEF C
  <2>6. CapPart'
    BY <1>1, <2>1, <2>3, <2>4, <2>5
       DEF CapPart, Settles, Assets, breaching, Numerator, Denominator
  <2>7. pass' \in Nat /\ pass' <= Cardinality(capped')
    <3>1. pass + 1 \in Nat /\ pass + 1 <= Cardinality(C)
      <4>1. Cardinality(C) > Cardinality(capped) /\ pass \in Nat
        BY <2>1 DEF C
      <4>2. QED
        BY <1>1, <1>2, <2>2, <4>1
    <3>2. QED
      BY <1>3, <2>5, <3>1
  <2>8. QED
    BY <1>1, <1>3, <2>6, <2>7
<1>4. CASE /\ pass = Len(caps) \/ breaching(capped) = {}
           /\ pc' = "round"
           /\ UNCHANGED <<capped, pass>>
  <2>1. breaching(capped) = {}
    <3>1. CASE pass = Len(caps)
      <4>1. Cardinality(Assets) = Len(caps) /\ Len(caps) \in Nat /\ IsFiniteSet(Assets)
        BY CapsType
      <4>2. Cardinality(capped) = Cardinality(Assets)
        BY <1>1, <1>2, <3>1, <4>1, FS_Subset
      <4>3. capped = Assets
        BY <1>2, <4>1, <4>2, FS_Subset
      <4>4. QED
        BY <4>3 DEF breaching
    <3>2. QED
      BY <1>4, <3>1
  <2>2. CapPart' /\ breaching(capped)' = breaching(capped)
    BY <1>1, <1>4, CapPartStays
  <2>3. QED
    BY <1>1, <1>4, <2>1, <2>2
<1>5. QED
  BY <1>3, <1>4 DEF Pass

\* Every step keeps it.
LEMMA WeightingStep == WInv /\ [Next]_vars => WInv'
<1> SUFFICES ASSUME WInv, [Next]_vars PROVE WInv'
  OBVIOUS
<1>0. CapPart /\ caps \in Selections /\ pass \in Nat
  BY DEF WInv
<1>1. CASE UNCHANGED vars
  <2>1. CapPart' /\ breaching(capped)' = breaching(capped) /\ Published' = Published
    BY <1>0, <1>1, CapPartStays DEF vars
  <2>2. QED
    BY <1>1, <2>1 DEF WInv, vars
<1>2. CASE Start
  <2>1. CapPart' /\ breaching(capped)' = breaching(capped)
    BY <1>0, <1>2, CapPartStays DEF Start
  <2>2. pass' = pass /\ caps' = caps /\ pc' \in {"error", "pass"} /\ capped' = capped
    BY <1>2 DEF Start
  <2>3. pass <= Cardinality(capped)
    <3>1. Cardinality(capped) \in Nat /\ pass = 0
      BY <1>0, <1>2, MassType DEF WInv, CapPart, Start
    <3>2. QED
      BY <3>1
  <2>4. pc' = "pass" => CapBps * Len(caps) >= Total
    <3>1. CapBps * Len(caps) \in Int /\ Total \in Int
      BY <1>0, CapsType, WeightingAssumption DEF Total
    <3>2. QED
      BY <1>2, <3>1 DEF Start
  <2>5. QED
    BY <1>0, <2>1, <2>2, <2>3, <2>4 DEF WInv
<1>3. CASE Pass
  BY <1>3, PassKeeps
<1>4. CASE toBasisPoints
  <2>1. CapPart' /\ breaching(capped)' = breaching(capped) /\ Published' = Published
    BY <1>0, <1>4, CapPartStays DEF toBasisPoints
  <2>2. QED
    BY <1>0, <1>4, <2>1 DEF WInv, toBasisPoints, Published
<1>5. QED
  BY <1>1, <1>2, <1>3, <1>4 DEF Next

\* What the invariant says of a selection whose passes are over.
LEMMA Settled ==
    ASSUME WInv, pc \in {"round", "done"}
    PROVE  /\ Settles(capped)
           /\ \A C \in SUBSET Assets : Settles(C) => capped \subseteq C
<1>1. caps \in Selections /\ CapPart /\ breaching(capped) = {}
  BY DEF WInv
<1>2. \A i \in Assets : caps[i] \in Nat
  BY <1>1, CapsType
<1>3. \A i \in capped, j \in Assets \ capped : caps[i] >= caps[j]
  BY <1>1, <1>2 DEF CapPart
<1>4. QED
  BY <1>1, <1>3 DEF CapPart, Settles

\* Weights are ordered as the market caps are.
LEMMA Ordered ==
    ASSUME WInv, pc \in {"round", "done"}, NEW i \in Assets, NEW j \in Assets,
           caps[i] >= caps[j]
    PROVE  Numerator(i, capped) * Denominator(j, capped)
             >= Numerator(j, capped) * Denominator(i, capped)
<1> DEFINE L == Left(capped)
           M == Mass(capped)
<1>1. capped \in SUBSET Assets /\ caps \in Selections /\ breaching(capped) = {}
  BY DEF WInv, CapPart
<1>2. L \in Int /\ M \in Nat /\ CapBps \in Nat /\ Total \in Int /\ Cardinality(capped) \in Nat
  BY <1>1, MassType, WeightingAssumption DEF Total
<1>3. L \in Nat
  BY <1>2 DEF WInv, CapPart, Left
<1>4. caps[i] \in Nat /\ caps[j] \in Nat
  BY <1>1, CapsType
<1>5. ASSUME NEW n \in Assets
      PROVE  /\ n \in capped => Numerator(n, capped) = CapBps /\ Denominator(n, capped) = 1
             /\ n \notin capped => /\ Numerator(n, capped) = caps[n] * L
                                   /\ Denominator(n, capped) = M
  BY DEF Numerator, Denominator, Left, Mass
<1> HIDE DEF L, M
<1>6. CASE i \in capped /\ j \in capped
  BY <1>2, <1>5, <1>6
<1>7. CASE i \in capped /\ j \notin capped
  <2>1. ~ (caps[j] * L > CapBps * M)
    BY <1>1, <1>7, Breaching DEF L, M
  <2>2. caps[j] * L \in Int /\ CapBps * M \in Int
    BY <1>2, <1>4
  <2>3. QED
    BY <1>5, <1>7, <2>1, <2>2
<1>8. CASE i \notin capped /\ j \in capped
  <2>1. caps[j] > caps[i]
    BY <1>8 DEF WInv, CapPart
  <2>2. QED
    BY <1>4, <2>1
<1>9. CASE i \notin capped /\ j \notin capped
  <2>1. L * M \in Nat
    BY <1>2, <1>3
  <2>2. caps[i] * (L * M) >= caps[j] * (L * M)
    BY <1>4, <2>1, Monotone
  <2>3. caps[i] * (L * M) = (caps[i] * L) * M /\ caps[j] * (L * M) = (caps[j] * L) * M
    BY <1>2, <1>4
  <2>4. QED
    BY <1>5, <1>9, <2>2, <2>3
<1>10. QED
  BY <1>6, <1>7, <1>8, <1>9

-----------------------------------------------------------------------------
(* Rounding *)

\* Twice what rounding to the nearest adds is at most the denominator.
LEMMA RoundIsNear ==
    ASSUME NEW n \in Int, NEW d \in Nat \ {0}
    PROVE  /\ Round(n, d) \in Int
           /\ 2 * Round(n, d) * d - 2 * n <= d
           /\ 2 * Round(n, d) * d - 2 * n >= -d
<1> DEFINE q == (2 * n + d) \div (2 * d)
<1>1. 2 * n + d \in Int /\ 2 * d \in Nat \ {0}
  OBVIOUS
<1>2. \A x \in Int, y \in Nat \ {0} :
         x \div y \in Int /\ y * (x \div y) <= x /\ x < y * (x \div y) + y
  OBVIOUS
<1>3. q \in Int /\ (2 * d) * q <= 2 * n + d /\ 2 * n + d < (2 * d) * q + 2 * d
  BY <1>1, <1>2
<1>4. Round(n, d) = q
  BY DEF Round
<1> HIDE DEF q
<1>5. (2 * d) * q = 2 * q * d /\ 2 * q * d \in Int
  BY <1>3
<1>6. QED
  BY <1>3, <1>4, <1>5

\* The rounded weights when the passes are over: a capped name has the cap; a
\* free one is within half a unit of its share, and not above the cap.
LEMMA RoundedType ==
    ASSUME WInv, pc \in {"round", "done"}, NEW i \in Assets
    PROVE  LET e == 2 * Mass(capped) * Rounded[i] - 2 * Left(capped) * caps[i] IN
           /\ Rounded[i] \in Int /\ Rounded[i] <= CapBps
           /\ i \in capped => Rounded[i] = CapBps
           /\ i \notin capped =>
                /\ Mass(capped) > 0
                /\ e <= Mass(capped) /\ e >= -Mass(capped)
<1> DEFINE L == Left(capped)
           M == Mass(capped)
           c == caps[i]
           r == Rounded[i]
<1>1. capped \in SUBSET Assets /\ caps \in Selections /\ breaching(capped) = {}
  BY DEF WInv, CapPart
<1>2. /\ L \in Int /\ M \in Nat /\ CapBps \in Nat \ {0} /\ Total \in Int
      /\ c \in Nat \ {0} /\ (i \notin capped => M >= c)
  BY <1>1, MassType, CapsType, WeightingAssumption DEF Total
<1>3. r = Round(Numerator(i, capped), Denominator(i, capped))
  BY DEF Rounded
<1>4. CASE i \in capped
  <2>1. r = (2 * CapBps + 1) \div 2
    BY <1>3, <1>4 DEF Numerator, Denominator, Round
  <2>2. \A x \in Nat : (2 * x + 1) \div 2 = x
    OBVIOUS
  <2>3. r = CapBps
    BY <1>2, <2>1, <2>2
  <2>4. QED
    BY <1>2, <1>4, <2>3
<1>5. CASE i \notin capped
  <2>1. Numerator(i, capped) = c * L /\ Denominator(i, capped) = M
    BY <1>5 DEF Numerator, Denominator, Left, Mass
  <2>2. M \in Nat \ {0} /\ c * L \in Int
    BY <1>2, <1>5
  <2>3. ~ (c * L > CapBps * M)
    BY <1>1, <1>5, Breaching
  <2> HIDE DEF L, M, c, r
  <2>4. /\ r \in Int
        /\ 2 * r * M - 2 * (c * L) <= M
        /\ 2 * r * M - 2 * (c * L) >= -M
    BY <1>3, <2>1, <2>2, RoundIsNear
  <2>5. /\ 2 * r * M = 2 * M * r /\ 2 * (c * L) = 2 * L * c
        /\ 2 * M * r \in Int /\ 2 * L * c \in Int
    BY <1>2, <2>2, <2>4
  <2>6. r <= CapBps
    <3>1. SUFFICES ASSUME r >= CapBps + 1 PROVE FALSE
      BY <1>2, <2>4
    <3>2. r * M >= (CapBps + 1) * M
      BY <1>2, <2>2, <2>4, <3>1, Monotone
    <3>3. (CapBps + 1) * M = CapBps * M + M /\ CapBps * M \in Int /\ r * M \in Int
          /\ 2 * r * M = 2 * (r * M)
      BY <1>2, <2>2, <2>4
    <3>4. QED
      BY <2>2, <2>3, <2>4, <3>2, <3>3
  <2>7. QED
    BY <1>5, <2>2, <2>4, <2>5, <2>6 DEF L, M, c, r
<1>6. QED
  BY <1>4, <1>5

\* There is a name with the largest rounded weight, and a first one.
LEMMA LargestType ==
    ASSUME WInv, pc \in {"round", "done"}
    PROVE  /\ Largest(Rounded) \in Assets
           /\ \A j \in Assets : Rounded[j] <= Rounded[Largest(Rounded)]
<1>1. caps \in Selections
  BY DEF WInv
<1>2. \A i \in Assets : Rounded[i] \in Int /\ Rounded[i] <= CapBps
  BY RoundedType
<1>3. Assets \subseteq Nat /\ Assets # {}
  <2>1. PICK n \in 1..Names : caps \in [1..n -> MarketCap]
    BY <1>1 DEF Selections
  <2>2. Assets = 1..n /\ n \in Nat /\ n >= 1
    BY <2>1, WeightingAssumption DEF Assets
  <2>3. QED
    BY <2>2
<1> DEFINE T == {CapBps - Rounded[i] : i \in Assets}
<1>4. T \subseteq Nat /\ T # {}
  <2>1. \A i \in Assets : CapBps - Rounded[i] \in Nat
    BY <1>2, WeightingAssumption DEF Total
  <2>2. QED
    BY <1>3, <2>1
<1>5. PICK m \in T : \A n \in T : m <= n
  <2> HIDE DEF T
  <2>1. QED
    BY <1>4, LeastNumber
<1>6. PICK top \in Assets : \A j \in Assets : Rounded[j] <= Rounded[top]
  <2>1. PICK top \in Assets : m = CapBps - Rounded[top]
    BY <1>5
  <2>2. \A j \in Assets : CapBps - Rounded[top] <= CapBps - Rounded[j]
    BY <1>5, <2>1
  <2>3. \A j \in Assets : Rounded[j] <= Rounded[top]
    BY <1>2, <2>2, WeightingAssumption
  <2>4. QED
    BY <2>3
<1> DEFINE U == {i \in Assets : Rounded[i] = Rounded[top]}
<1>7. U \subseteq Nat /\ U # {}
  BY <1>3, <1>6
<1>8. PICK first \in U : \A n \in U : first <= n
  <2> HIDE DEF U
  <2>1. QED
    BY <1>7, LeastNumber
<1>9. /\ first \in Assets
      /\ \A j \in Assets : Rounded[j] < Rounded[first]
                             \/ (Rounded[j] = Rounded[first] /\ first <= j)
  BY <1>2, <1>6, <1>8
<1>10. LET best == Largest(Rounded) IN
       /\ best \in Assets
       /\ \A j \in Assets : Rounded[j] < Rounded[best]
                              \/ (Rounded[j] = Rounded[best] /\ best <= j)
  BY <1>9 DEF Largest
<1>11. QED
  BY <1>2, <1>10

\* What rounding adds to the weights of the free names in T, scaled so that it
\* is an integer, is at most as many units as there are names in T.
Excess == [i \in Assets |-> 2 * Mass(capped) * Rounded[i] - 2 * Left(capped) * caps[i]]

LEMMA ExcessIsSmall ==
    ASSUME WInv, pc \in {"round", "done"}, NEW T \in SUBSET (Assets \ capped)
    PROVE  /\ SumOver(Excess, T) \in Int /\ Cardinality(T) \in Nat
           /\ SumOver(Excess, T) <= Mass(capped) * Cardinality(T)
           /\ SumOver(Excess, T) >= -(Mass(capped) * Cardinality(T))
<1> DEFINE M == Mass(capped)
<1>1. capped \in SUBSET Assets /\ caps \in Selections
  BY DEF WInv, CapPart
<1>2. M \in Nat /\ Left(capped) \in Int
  BY <1>1, MassType
<1>3. IsFiniteSet(T) /\ Cardinality(T) \in Nat
  BY <1>1, MassType
<1>4. ASSUME NEW i \in T PROVE Excess[i] \in Int /\ Excess[i] <= M /\ Excess[i] >= -M
  <2>1. i \in Assets /\ i \notin capped
    OBVIOUS
  <2>2. Rounded[i] \in Int /\ caps[i] \in Int
    BY <1>1, <2>1, RoundedType, CapsType
  <2>3. Excess[i] = 2 * Mass(capped) * Rounded[i] - 2 * Left(capped) * caps[i]
    BY <2>1 DEF Excess
  <2>4. Excess[i] <= M /\ Excess[i] >= -M
    BY <2>1, <2>3, RoundedType
  <2>5. Excess[i] \in Int
    BY <1>2, <2>2, <2>3
  <2>6. QED
    BY <2>4, <2>5
<1> HIDE DEF M
<1>5. -M \in Int /\ M \in Int
  BY <1>2
<1>6. SumFunctionOnSet(Excess, T) \in Int
  BY <1>3, <1>4, SumType
<1>7. SumFunctionOnSet(Excess, T) <= M * Cardinality(T)
  BY <1>3, <1>4, <1>5, SumAtMost
<1>8. SumFunctionOnSet(Excess, T) >= (-M) * Cardinality(T)
  BY <1>3, <1>4, <1>5, SumAtLeast
<1>9. (-M) * Cardinality(T) = -(M * Cardinality(T))
  BY <1>3, <1>5
<1>10. QED
  BY <1>3, <1>6, <1>7, <1>8, <1>9 DEF M, SumOver

\* The residual makes up for what rounding added to the free names.
LEMMA ResidualIsExcess ==
    ASSUME WInv, pc \in {"round", "done"}
    PROVE  /\ Residual \in Int
           /\ SumOver(Rounded, Assets) = Total - Residual
           /\ 2 * Mass(capped) * Residual = -SumOver(Excess, Assets \ capped)
           /\ Assets \ capped = {} => Residual = Left(capped)
<1> DEFINE F == Assets \ capped
           M == Mass(capped)
           L == Left(capped)
           k == Cardinality(capped)
           r == SumFunctionOnSet(Rounded, F)
<1>1. capped \in SUBSET Assets /\ F \in SUBSET Assets /\ caps \in Selections
  BY DEF WInv, CapPart
<1>2. /\ IsFiniteSet(Assets) /\ IsFiniteSet(capped) /\ IsFiniteSet(F)
      /\ k \in Nat /\ M \in Nat /\ L \in Int
  BY <1>1, MassType, CapsType
<1>3. \A i \in Assets : Rounded[i] \in Int /\ caps[i] \in Int
  BY <1>1, RoundedType, CapsType
<1>4. CapBps \in Int /\ Total \in Int
  BY WeightingAssumption DEF Total
<1> HIDE DEF F
<1>5. SumFunctionOnSet(Rounded, capped) = CapBps * k
  <2>1. \A i \in capped : /\ Rounded[i] \in Int
                          /\ Rounded[i] <= CapBps /\ Rounded[i] >= CapBps
    BY <1>1, <1>3, <1>4, RoundedType
  <2>2. SumFunctionOnSet(Rounded, capped) <= CapBps * k
    BY <1>2, <1>4, <2>1, SumAtMost
  <2>3. SumFunctionOnSet(Rounded, capped) >= CapBps * k
    BY <1>2, <1>4, <2>1, SumAtLeast
  <2>4. SumFunctionOnSet(Rounded, capped) \in Int /\ CapBps * k \in Int
    <3>1. SumFunctionOnSet(Rounded, capped) \in Int
      BY <1>2, <2>1, SumType
    <3>2. QED
      BY <1>2, <1>4, <3>1
  <2>5. QED
    BY <2>2, <2>3, <2>4
<1>6. r \in Int /\ (F = {} => r = 0)
  <2>1. \A i \in F : Rounded[i] \in Int
    BY <1>1, <1>3
  <2>2. r \in Int
    BY <1>2, <2>1, SumType
  <2>3. F = {} => r = 0
    BY <1>2, <2>1, SumFacts
  <2>4. QED
    BY <2>2, <2>3
<1>7. SumFunctionOnSet(Rounded, Assets) = CapBps * k + r
  <2>1. \A i \in Assets : Rounded[i] \in Int
    BY <1>3
  <2>2. SumFunctionOnSet(Rounded, Assets)
          = SumFunctionOnSet(Rounded, capped) + SumFunctionOnSet(Rounded, Assets \ capped)
    BY <1>1, <1>2, <2>1, SumSplit
  <2>3. QED
    BY <1>5, <2>2 DEF F
<1>8. SumFunctionOnSet(caps, F) = M
  BY DEF Mass, SumOver, F
<1>9. SumFunctionOnSet(Excess, F) = (2 * M) * r + (-(2 * L)) * M
  <2>1. ASSUME NEW i \in F
        PROVE  /\ Rounded[i] \in Int /\ caps[i] \in Int
               /\ Excess[i] = (2 * M) * Rounded[i] + (-(2 * L)) * caps[i]
    <3>1. i \in Assets /\ Rounded[i] \in Int /\ caps[i] \in Int
      BY <1>1, <1>3
    <3>2. Excess[i] = 2 * M * Rounded[i] - 2 * L * caps[i]
      BY <3>1 DEF Excess
    <3> HIDE DEF M, L
    <3>3. QED
      BY <1>2, <3>1, <3>2
  <2>2. 2 * M \in Int /\ -(2 * L) \in Int
    BY <1>2
  <2> HIDE DEF M, L
  <2>3. SumFunctionOnSet(Excess, F)
          = (2 * M) * SumFunctionOnSet(Rounded, F) + (-(2 * L)) * SumFunctionOnSet(caps, F)
    BY <1>2, <2>1, <2>2, SumLinear
  <2>4. QED
    BY <1>8, <2>3
<1>10. L = Total - CapBps * k
  BY <1>2, <1>4 DEF Left
<1>11. Residual = L - r
  <2>1. Residual = Total - (CapBps * k + r)
    BY <1>7 DEF Residual, SumOver
  <2> HIDE DEF L, k, r
  <2>2. QED
    BY <1>2, <1>4, <1>6, <1>10, <2>1
<1> HIDE DEF M, L, k, r
<1>12. 2 * M * (L - r) = -((2 * M) * r + (-(2 * L)) * M)
  BY <1>2, <1>6
<1>13. Residual \in Int /\ CapBps * k + r = Total - Residual
  BY <1>2, <1>4, <1>6, <1>10, <1>11
<1>14. F = {} => Residual = L
  BY <1>2, <1>6, <1>11
<1>15. QED
  BY <1>7, <1>9, <1>11, <1>12, <1>13, <1>14 DEF F, M, L, SumOver

\* So the residual is at most half a unit per name.
LEMMA ResidualIsSmall ==
    ASSUME WInv, pc \in {"round", "done"}
    PROVE  2 * Residual <= Len(caps) /\ 2 * Residual >= -Len(caps)
<1> DEFINE F == Assets \ capped
           M == Mass(capped)
           L == Left(capped)
           n == Len(caps)
           k == Cardinality(capped)
           f == Cardinality(F)
           res == Residual
<1>1. capped \in SUBSET Assets /\ F \in SUBSET Assets /\ caps \in Selections
  BY DEF WInv, CapPart
<1>2. /\ IsFiniteSet(Assets) /\ IsFiniteSet(F) /\ Cardinality(Assets) = n /\ n \in Nat
      /\ f \in Nat /\ k \in Nat /\ M \in Nat /\ L \in Int
  BY <1>1, MassType, CapsType
<1>3. f <= n
  BY <1>1, <1>2, FS_Subset
<1>4. res \in Int /\ 2 * M * res = -SumOver(Excess, F) /\ (F = {} => res = L)
  BY ResidualIsExcess
<1>5. CapBps \in Nat \ {0} /\ Total \in Int
  BY WeightingAssumption DEF Total
<1>6. 2 * res <= n /\ 2 * res >= -n
  <2>1. CASE F = {}
    <3>1. capped = Assets
      BY <1>1, <2>1
    <3>2. k = n
      BY <1>2, <3>1
    <3>3. CapBps * n >= Total /\ k * CapBps <= Total
      BY DEF WInv, CapPart
    <3>4. L = Total - k * CapBps
      BY DEF Left
    <3> HIDE DEF L, n, k, F, res
    <3>5. k * CapBps = CapBps * n /\ CapBps * n \in Int
      BY <1>2, <1>5, <3>2
    <3>6. L = 0
      BY <1>5, <3>3, <3>4, <3>5
    <3>7. QED
      BY <1>2, <1>4, <2>1, <3>6
  <2>2. CASE F # {}
    <3>1. M > 0
      <4>1. PICK y \in F : TRUE
        BY <2>2
      <4>2. QED
        BY <4>1, RoundedType
    <3>2. /\ SumOver(Excess, F) \in Int
          /\ SumOver(Excess, F) <= M * f /\ SumOver(Excess, F) >= -(M * f)
      BY ExcessIsSmall
    <3> DEFINE s == SumOver(Excess, F)
    <3> HIDE DEF s, M, L, n, k, f, F, res
    <3>3. s \in Int /\ s <= M * f /\ s >= -(M * f) /\ 2 * M * res = -s
      BY <1>4, <3>2 DEF s
    <3>4. M * f <= M * n /\ M * f \in Int /\ M * n \in Int
      BY <1>2, <1>3, Monotone
    <3>5. 2 * M * res <= M * n /\ 2 * M * res >= -(M * n)
      BY <3>3, <3>4
    <3>6. M \in Nat \ {0}
      BY <1>2, <3>1
    <3>7. \A a, b \in Int, p \in Nat \ {0} : a * p <= b * p => a <= b
      BY Cancel
    <3>8. /\ 2 * M * res = (2 * res) * M /\ M * n = n * M /\ -(M * n) = (-n) * M
          /\ 2 * res \in Int /\ -n \in Int
      BY <1>2, <1>4
    <3>9. QED
      BY <1>2, <3>5, <3>6, <3>7, <3>8
  <2>3. QED
    BY <2>1, <2>2
<1>7. QED
  BY <1>6

\* The name that takes the residual ends within half a unit for each name.
LEMMA LargestIsNear ==
    ASSUME WInv, pc \in {"round", "done"}, NEW x \in Assets
    PROVE  LET d == Denominator(x, capped)
               err == 2 * ((Rounded[x] + Residual) * d - Numerator(x, capped))
           IN  -(d * Len(caps)) <= err /\ err <= d * Len(caps)
<1> DEFINE F == Assets \ capped
           M == Mass(capped)
           L == Left(capped)
           n == Len(caps)
           k == Cardinality(capped)
           f == Cardinality(F)
           res == Residual
           r == Rounded[x]
<1>1. capped \in SUBSET Assets /\ F \in SUBSET Assets /\ caps \in Selections
  BY DEF WInv, CapPart
<1>2. /\ IsFiniteSet(Assets) /\ IsFiniteSet(F) /\ Cardinality(Assets) = n /\ n \in Nat
      /\ f \in Nat /\ k \in Nat /\ M \in Nat /\ L \in Int
      /\ caps[x] \in Nat \ {0} /\ r \in Int
  BY <1>1, MassType, CapsType, RoundedType
<1>3. f <= n
  BY <1>1, <1>2, FS_Subset
<1>4. res \in Int /\ 2 * M * res = -SumOver(Excess, F) /\ (F = {} => res = L)
  BY ResidualIsExcess
<1>5. CapBps \in Nat \ {0} /\ Total \in Int
  BY WeightingAssumption DEF Total
<1>6. CASE x \in capped
  <2>1. r = CapBps /\ Numerator(x, capped) = CapBps /\ Denominator(x, capped) = 1
    BY <1>6, RoundedType DEF Numerator, Denominator
  <2>2. 2 * res <= n /\ 2 * res >= -n
    BY ResidualIsSmall
  <2> HIDE DEF r, res, n
  <2>3. 2 * ((r + res) * 1 - CapBps) = 2 * res /\ 1 * n = n
    BY <1>2, <1>4, <1>5, <2>1
  <2>4. QED
    BY <2>1, <2>2, <2>3 DEF r, res, n
<1>7. CASE x \notin capped
  <2>1. Numerator(x, capped) = caps[x] * L /\ Denominator(x, capped) = M
    BY <1>7 DEF Numerator, Denominator, Left, Mass
  <2> DEFINE T == F \ {x}
             t == Cardinality(T)
             e == Excess[x]
             s == SumOver(Excess, T)
  <2>2. e = 2 * M * r - 2 * L * caps[x]
    BY DEF Excess
  <2>3. /\ s \in Int /\ t \in Nat
        /\ s <= M * t /\ s >= -(M * t)
    BY ExcessIsSmall
  <2>4. t <= n
    <3>1. T \in SUBSET Assets
      BY <1>1
    <3>2. QED
      BY <1>2, <3>1, FS_Subset
  <2>5. SumOver(Excess, F) = e + s
    <3>1. \A i \in F : Excess[i] \in Int
      <4>1. SUFFICES ASSUME NEW i \in F PROVE Excess[i] \in Int
        OBVIOUS
      <4>2. i \in Assets /\ Rounded[i] \in Int /\ caps[i] \in Int
        BY <1>1, RoundedType, CapsType
      <4>3. Excess[i] = 2 * M * Rounded[i] - 2 * L * caps[i]
        BY <4>2 DEF Excess
      <4> HIDE DEF M, L
      <4>4. QED
        BY <1>2, <4>2, <4>3
    <3>2. x \in F
      BY <1>7
    <3> HIDE DEF F
    <3>3. IsFiniteSet(F)
      BY <1>2
    <3>4. SumFunctionOnSet(Excess, F) = Excess[x] + SumFunctionOnSet(Excess, F \ {x})
      BY ONLY <3>1, <3>2, <3>3, SumFacts
    <3>5. QED
      BY <3>4 DEF SumOver
  <2> HIDE DEF F, T, e, s, t, M, L, n, k, f, res, r
  <2> DEFINE c == caps[x]
  <2>6. c \in Int
    BY <1>2
  <2> HIDE DEF c
  <2>7. e \in Int /\ e = 2 * M * r - 2 * L * c
    BY <1>2, <2>2, <2>6 DEF c
  <2>8. 2 * M * res = -(e + s)
    BY <1>4, <2>5
  <2>9. 2 * ((r + res) * M - c * L) = -s
    <3>1. 2 * ((r + res) * M - c * L) = (2 * M * r - 2 * L * c) + 2 * M * res
      BY <1>2, <1>4, <2>6
    <3>2. QED
      BY <2>3, <2>7, <2>8, <3>1
  <2>10. M * t <= M * n /\ M * t \in Int /\ M * n \in Int
    BY <1>2, <2>3, <2>4, Monotone
  <2>11. -(M * n) <= -s /\ -s <= M * n
    BY <2>3, <2>10
  <2>12. QED
    BY <2>1, <2>9, <2>11 DEF c, M, n, r, res, L
<1>8. QED
  BY <1>6, <1>7

\* What is published, from the invariant.
LEMMA PublishedIsSmall == WInv => RoundingIsSmall
<1> SUFFICES ASSUME WInv, pc = "done" PROVE
      /\ SumOver(bps, Assets) = Total
      /\ \A i \in Assets :
           LET d == Denominator(i, capped)
               err == 2 * (bps[i] * d - Numerator(i, capped))
               bound == IF i = Largest(Rounded) THEN d * Len(caps) ELSE d
           IN -bound <= err /\ err <= bound
  BY DEF RoundingIsSmall
<1> DEFINE x == Largest(Rounded)
<1>1. x \in Assets /\ Residual \in Int
  BY LargestType, ResidualIsExcess
<1>2. DOMAIN Rounded = Assets /\ IsFiniteSet(Assets) /\ caps \in Selections
      /\ capped \in SUBSET Assets
  BY CapsType DEF Rounded, WInv, CapPart
<1>3. bps = Published
  BY DEF WInv
<1> HIDE DEF x
<1>4. bps[x] = Rounded[x] + Residual /\ \A i \in Assets : i # x => bps[i] = Rounded[i]
  BY <1>1, <1>2, <1>3 DEF Published, x
<1>5. \A i \in Assets : Rounded[i] \in Int
  BY RoundedType
<1>6. SumOver(bps, Assets) = Total
  <2> DEFINE T == Assets \ {x}
  <2>1. \A i \in Assets : bps[i] \in Int
    BY <1>1, <1>4, <1>5
  <2>2. IsFiniteSet(T) /\ \A i \in T : Rounded[i] \in Int /\ bps[i] = Rounded[i]
    BY <1>2, <1>4, <1>5, FS_Subset
  <2>3. SumFunctionOnSet(bps, T) = SumFunctionOnSet(Rounded, T)
    <3> HIDE DEF T
    <3>1. QED
      BY ONLY <2>2, SumSame
  <2>4. SumFunctionOnSet(bps, Assets) = bps[x] + SumFunctionOnSet(bps, T)
    BY ONLY <1>1, <1>2, <2>1, SumFacts
  <2>5. SumFunctionOnSet(Rounded, Assets) = Rounded[x] + SumFunctionOnSet(Rounded, T)
    BY ONLY <1>1, <1>2, <1>5, SumFacts
  <2>6. SumFunctionOnSet(Rounded, T) \in Int
    <3>1. \A i \in T : Rounded[i] \in Int
      BY <2>2
    <3> HIDE DEF T
    <3>2. QED
      BY ONLY <2>2, <3>1, SumType
  <2>7. SumOver(Rounded, Assets) = Total - Residual
    BY ResidualIsExcess
  <2> HIDE DEF T
  <2>8. Total \in Int /\ Rounded[x] \in Int
    BY <1>1, <1>5 DEF Total
  <2> DEFINE s == SumFunctionOnSet(Rounded, T)
             r == Rounded[x]
             res == Residual
  <2>9. SumOver(bps, Assets) = (r + res) + s
    BY <1>4, <2>3, <2>4 DEF SumOver
  <2>10. r + s = Total - res
    BY <2>5, <2>7 DEF SumOver
  <2>11. r \in Int /\ res \in Int /\ s \in Int /\ Total \in Int
    BY <1>1, <2>6, <2>8
  <2> HIDE DEF s, r, res
  <2>12. (r + res) + s = Total
    BY <2>10, <2>11
  <2>13. QED
    BY <2>9, <2>12
<1>7. ASSUME NEW i \in Assets
      PROVE  LET d == Denominator(i, capped)
                 err == 2 * (bps[i] * d - Numerator(i, capped))
                 bound == IF i = x THEN d * Len(caps) ELSE d
             IN -bound <= err /\ err <= bound
  <2>1. CASE i = x
    <3>1. bps[i] = Rounded[i] + Residual
      BY <1>4, <2>1
    <3>2. QED
      BY <2>1, <3>1, LargestIsNear
  <2>2. CASE i # x
    <3> DEFINE d == Denominator(i, capped)
               n == Numerator(i, capped)
    <3>1. bps[i] = Round(n, d)
      BY <1>4, <2>2 DEF Rounded
    <3>2. n \in Int /\ d \in Nat \ {0}
      <4>1. CASE i \in capped
        <5>1. n = CapBps /\ d = 1
          BY <4>1 DEF Numerator, Denominator
        <5>2. CapBps \in Int
          BY WeightingAssumption DEF Total
        <5>3. QED
          BY <5>1, <5>2
      <4>2. CASE i \notin capped
        <5>1. n = caps[i] * Left(capped) /\ d = Mass(capped)
          BY <4>2 DEF Numerator, Denominator, Left, Mass
        <5>2. /\ caps[i] \in Int /\ Left(capped) \in Int /\ Mass(capped) \in Nat
              /\ Mass(capped) > 0
          BY <1>2, <4>2, CapsType, MassType, RoundedType
        <5>3. QED
          BY <5>1, <5>2
      <4>3. QED
        BY <4>1, <4>2
    <3> HIDE DEF n, d
    <3> DEFINE q == Round(n, d)
    <3>3. q \in Int /\ 2 * q * d - 2 * n <= d /\ 2 * q * d - 2 * n >= -d
      BY <3>2, RoundIsNear
    <3> HIDE DEF q
    <3>4. 2 * (q * d - n) = 2 * q * d - 2 * n
      BY <3>2, <3>3
    <3>5. -d <= 2 * (bps[i] * d - n) /\ 2 * (bps[i] * d - n) <= d
      BY <3>1, <3>2, <3>3, <3>4 DEF q
    <3>6. QED
      BY <2>2, <3>5 DEF d, n
  <2>3. QED
    BY <2>1, <2>2
<1>8. QED
  BY <1>6, <1>7 DEF x

\* The rounded weight of the largest name is no less than an equal part, so
\* that the residual, half a unit per name at most, cannot make it negative
\* while the names are few: n * (n - 1) <= 2 * Total, which is 141 of them.
LEMMA LargestAbsorbs ==
    ASSUME WInv, pc \in {"round", "done"}, Names * (Names - 1) <= 2 * Total
    PROVE  Rounded[Largest(Rounded)] + Residual >= 0
<1> DEFINE n == Len(caps)
           r == Rounded[Largest(Rounded)]
           res == Residual
<1>1. caps \in Selections /\ IsFiniteSet(Assets) /\ Cardinality(Assets) = n
  BY CapsType DEF WInv
<1>2. n \in 1..Names /\ Names \in Nat
  BY <1>1, WeightingAssumption DEF Selections
<1>3. r \in Int /\ \A i \in Assets : Rounded[i] \in Int /\ Rounded[i] <= r
  BY LargestType, RoundedType
<1>4. /\ res \in Int /\ SumFunctionOnSet(Rounded, Assets) = Total - res
      /\ 2 * res <= n /\ 2 * res >= -n
  BY ResidualIsExcess, ResidualIsSmall DEF SumOver
<1> HIDE DEF r
<1>5. SumFunctionOnSet(Rounded, Assets) <= r * Cardinality(Assets)
  BY ONLY <1>1, <1>3, SumAtMost
<1> HIDE DEF n, res
<1>6. Total - res <= r * n
  BY <1>1, <1>4, <1>5
<1>7. (n - 1) * n <= Names * (Names - 1)
  <2>1. n - 1 \in Nat /\ Names - 1 \in Nat /\ n - 1 <= Names - 1 /\ n <= Names
    BY <1>2
  <2>2. n * (n - 1) <= Names * (n - 1)
    BY <1>2, <2>1, Monotone
  <2>3. (n - 1) * Names <= (Names - 1) * Names
    BY <1>2, <2>1, Monotone
  <2>4. QED
    BY <1>2, <2>2, <2>3
<1>8. (n - 1) * (2 * res) >= (n - 1) * (-n)
  <2>1. n - 1 \in Nat /\ 2 * res \in Int /\ -n \in Int
    BY <1>2, <1>4
  <2>2. (2 * res) * (n - 1) >= (-n) * (n - 1)
    BY <1>4, <2>1, Monotone
  <2>3. QED
    BY <2>1, <2>2
<1>9. 2 * ((r + res) * n) >= 0
  <2>1. 2 * ((r + res) * n) = 2 * (r * n) + (n - 1) * (2 * res) + 2 * res
    BY <1>2, <1>3, <1>4
  <2>2. (n - 1) * (-n) = -((n - 1) * n) /\ (n - 1) * n \in Int /\ r * n \in Int
        /\ (n - 1) * (2 * res) \in Int
    BY <1>2, <1>3, <1>4
  <2>3. (n - 1) * n <= 20000
    BY <1>2, <1>7, <2>2 DEF Total
  <2>4. 2 * (r * n) >= 20000 - 2 * res
    BY <1>4, <1>6, <2>2 DEF Total
  <2>5. QED
    BY <1>4, <1>8, <2>1, <2>2, <2>3, <2>4
<1>10. \A a \in Int, p \in Nat \ {0} : 2 * (a * p) >= 0 => a >= 0
  OBVIOUS
<1>11. r + res >= 0
  BY <1>2, <1>3, <1>4, <1>9, <1>10
<1>12. QED
  BY <1>11 DEF r, res

\* Rounding makes no weight negative.
LEMMA RoundedNotNegative ==
    ASSUME WInv, pc \in {"round", "done"}, NEW i \in Assets
    PROVE  Rounded[i] >= 0
<1> DEFINE L == Left(capped)
           M == Mass(capped)
           c == caps[i]
           r == Rounded[i]
<1>0. capped \in SUBSET Assets /\ caps \in Selections
  BY DEF WInv, CapPart
<1>1. /\ L \in Int /\ M \in Nat /\ c \in Nat /\ CapBps \in Nat /\ r \in Int
      /\ Total \in Int /\ Cardinality(capped) \in Nat
  BY <1>0, MassType, CapsType, RoundedType, WeightingAssumption DEF Total
<1>2. L >= 0
  BY <1>1 DEF WInv, CapPart, Left
<1>3. CASE i \in capped
  BY <1>1, <1>3, RoundedType
<1>4. CASE i \notin capped
  <2>1. M > 0 /\ 2 * M * r - 2 * L * c >= -M
    BY <1>4, RoundedType
  <2> HIDE DEF L, M, c, r
  <2>2. L * c \in Nat /\ 2 * L * c = 2 * (L * c)
    BY <1>1, <1>2
  <2>3. 2 * M * r >= -M
    BY <1>1, <2>1, <2>2
  <2>4. (2 * r) * M >= (-1) * M
    BY <1>1, <2>3
  <2>5. \A a, b \in Int, p \in Nat \ {0} : a * p >= b * p => a >= b
    OBVIOUS
  <2>6. 2 * r >= -1
    BY <1>1, <2>1, <2>4, <2>5
  <2>7. QED
    BY <1>1, <2>6 DEF r
<1>5. QED
  BY <1>3, <1>4

\* What is published are parts of the whole.
LEMMA PublishedAreWeights ==
    ASSUME WInv, pc = "done", Names * (Names - 1) <= 2 * Total
    PROVE  bps \in [Assets -> 0..Total]
<1> DEFINE x == Largest(Rounded)
<1>1. x \in Assets /\ Residual \in Int /\ IsFiniteSet(Assets)
  BY LargestType, ResidualIsExcess, CapsType DEF WInv
<1>2. DOMAIN Rounded = Assets /\ bps = Published
  BY DEF Rounded, WInv
<1>3. /\ DOMAIN bps = Assets
      /\ bps[x] = Rounded[x] + Residual /\ \A i \in Assets : i # x => bps[i] = Rounded[i]
  BY <1>1, <1>2 DEF Published
<1>4. \A i \in Assets : bps[i] \in Int /\ bps[i] >= 0
  BY <1>1, <1>3, RoundedType, RoundedNotNegative, LargestAbsorbs
<1>5. ASSUME NEW i \in Assets PROVE bps[i] <= Total
  <2> DEFINE T == Assets \ {i}
             s == SumFunctionOnSet(bps, T)
  <2>1. SumFunctionOnSet(bps, Assets) = bps[i] + s
    BY ONLY <1>1, <1>4, SumFacts
  <2>2. IsFiniteSet(T) /\ Cardinality(T) \in Nat /\ \A j \in T : bps[j] \in Int /\ bps[j] >= 0
    BY <1>1, <1>4, FS_Subset, FS_CardinalityType
  <2>3. s \in Int /\ s >= 0 * Cardinality(T)
    <3> HIDE DEF T
    <3>1. 0 \in Int
      OBVIOUS
    <3>2. QED
      BY ONLY <2>2, <3>1, SumType, SumAtLeast DEF s
  <2>4. SumFunctionOnSet(bps, Assets) = Total
    BY PublishedIsSmall DEF RoundingIsSmall, SumOver
  <2> HIDE DEF s, T
  <2>5. QED
    BY <1>4, <2>1, <2>2, <2>3, <2>4 DEF Total
<1>6. ASSUME NEW i \in Assets PROVE bps[i] \in 0..Total
  <2> DEFINE w == bps[i]
  <2>1. w \in Int /\ w >= 0 /\ w <= Total
    BY <1>4, <1>5
  <2> HIDE DEF w
  <2>2. w \in 0..Total
    BY <2>1 DEF Total
  <2>3. QED
    BY <2>2 DEF w
<1>7. bps = [i \in Assets |-> bps[i]]
  BY <1>2, <1>3, <1>1 DEF Published, Rounded
<1>8. QED
  BY <1>6, <1>7

\* How far the loop is, and that nothing is published before it is over.
LoopPart ==
    /\ pc \in {"start", "pass", "round", "done", "error"}
    /\ pass <= Names
    /\ pc # "done" => bps = [i \in Assets |-> 0]

\* The loop makes no more passes than there are names.
LEMMA LoopStep == WInv /\ LoopPart /\ [Next]_vars => LoopPart'
<1> SUFFICES ASSUME WInv, LoopPart, [Next]_vars PROVE LoopPart'
  OBVIOUS
<1>1. Len(caps) \in 1..Names /\ pass \in Nat /\ Names \in Nat
  BY WeightingAssumption DEF WInv, Selections
<1>2. CASE UNCHANGED vars
  BY <1>2 DEF LoopPart, vars, Assets
<1>3. CASE Start
  BY <1>3 DEF LoopPart, Start, Assets
<1>4. CASE Pass
  <2>1. UNCHANGED <<caps, bps>> /\ pc = "pass" /\ pc' \in {"pass", "round"}
    BY <1>4 DEF Pass
  <2>2. pass' <= Names
    BY <1>1, <1>4 DEF LoopPart, Pass
  <2>3. QED
    BY <2>1, <2>2 DEF LoopPart, Assets
<1>5. CASE toBasisPoints
  BY <1>5 DEF LoopPart, toBasisPoints
<1>6. QED
  BY <1>2, <1>3, <1>4, <1>5 DEF Next

\* The invariant is one.
THEOREM WeightingInvariant == Spec => []WInv
  BY WeightingInit, WeightingStep, PTL DEF Spec

\* Iterative capping ends where it should: nobody is left over the cap, and no
\* name is capped that a smaller such set would have spared.
THEOREM CappingIsLeast == Spec => []CapsExactlyTheBreaching
<1>1. WInv => CapsExactlyTheBreaching
  BY Settled DEF CapsExactlyTheBreaching
<1>2. QED
  BY <1>1, WeightingInvariant, PTL

\* A larger name never weighs less, before rounding.
THEOREM WeightsKeepOrder == Spec => []OrderKept
<1>1. WInv => OrderKept
  BY Ordered DEF OrderKept
<1>2. QED
  BY <1>1, WeightingInvariant, PTL

\* The published weights sum to one and are near the exact ones.
THEOREM RoundingIsBounded == Spec => []RoundingIsSmall
  BY PublishedIsSmall, WeightingInvariant, PTL

\* Types hold: most of all, no published weight is negative or above the whole,
\* although the largest name absorbs the residual of all the others, for up to
\* 141 names.
THEOREM WeightsAreWeights == Names * (Names - 1) <= 2 * Total /\ Spec => []TypeOK
<1>1. Init => LoopPart
  BY WeightingAssumption DEF Init, LoopPart
<1>2. Spec => []LoopPart
  BY <1>1, LoopStep, WeightingInvariant, PTL DEF Spec
<1>3. ASSUME Names * (Names - 1) <= 2 * Total PROVE WInv /\ LoopPart => TypeOK
  <2>1. SUFFICES ASSUME WInv, LoopPart PROVE TypeOK
    OBVIOUS
  <2>2. caps \in Selections /\ capped \subseteq Assets /\ pass \in 0..Names
    BY <2>1, WeightingAssumption DEF WInv, CapPart, LoopPart
  <2>3. bps \in [Assets -> 0..Total]
    <3>1. CASE pc = "done"
      BY <1>3, <2>1, <3>1, PublishedAreWeights
    <3>2. CASE pc # "done"
      <4>1. 0 \in 0..Total
        BY DEF Total
      <4>2. QED
        BY <2>1, <3>2, <4>1 DEF LoopPart
    <3>3. QED
      BY <3>1, <3>2
  <2>4. QED
    BY <2>1, <2>2, <2>3 DEF TypeOK, LoopPart
<1>4. ASSUME Names * (Names - 1) <= 2 * Total PROVE Spec => []TypeOK
  <2>1. WInv /\ LoopPart => TypeOK
    BY <1>3, <1>4
  <2>2. QED
    BY <1>2, <2>1, WeightingInvariant, PTL
<1>5. QED
  BY <1>4
=============================================================================
