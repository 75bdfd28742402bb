--------------------------- MODULE SumsAndMedians ---------------------------
(***************************************************************************)
(* Sums and medians over finite sets.                                      *)
(*                                                                         *)
(* Sums are SumFunctionOnSet's: a recursive function on the subsets of the *)
(* set.  What these lemmas say of it is by induction over the subsets, in  *)
(* the form of the least subset for which the claim is not true.  (The     *)
(* code sums arrays, with reduce.)  Medians are those of Medians.tla.      *)
(***************************************************************************)
EXTENDS Medians, Functions, FiniteSetTheorems, TLAPS

-----------------------------------------------------------------------------
(* Sums and induction *)

Pick(s) == CHOOSE x \in s : TRUE

\* g is the recursive function that a sum of f over S unfolds.
Sums(g, S, f) ==
    g = [s \in SUBSET S |-> IF s = {} THEN 0 ELSE f[Pick(s)] + g[s \ {Pick(s)}]]

\* The sum is the value of that function.
LEMMA SumIsFold ==
    ASSUME NEW S, NEW f
    PROVE  SumFunctionOnSet(f, S) = (CHOOSE g : Sums(g, S, f))[S]
  BY DEF SumFunctionOnSet, FoldFunctionOnSet, MapThenFoldSet, Sums, Pick

\* What holds of a subset whenever it holds of its proper subsets holds of all.
LEMMA SubsetInduction ==
    ASSUME NEW S, IsFiniteSet(S), NEW Good,
           \A U \in SUBSET S : (\A V \in SUBSET U : V # U => V \in Good) => U \in Good
    PROVE  \A U \in SUBSET S : U \in Good
<1>1. SUFFICES ASSUME (SUBSET S) \ Good # {} PROVE FALSE
  OBVIOUS
<1>2. FiniteSubsetsOf(S) = SUBSET S
  BY FS_FiniteSubsetsOfFinite
<1>3. PICK U \in (SUBSET S) \ Good :
        \A V \in (SUBSET S) \ Good : <<V, U>> \notin StrictSubsetOrdering(S)
  <2>1. IsWellFoundedOn(StrictSubsetOrdering(S), FiniteSubsetsOf(S))
    BY FS_StrictSubsetOrderingWellFounded
  <2> DEFINE R == StrictSubsetOrdering(S)
             B == (SUBSET S) \ Good
  <2>2. IsWellFoundedOn(R, SUBSET S) /\ B \subseteq SUBSET S /\ B # {}
    BY <1>1, <1>2, <2>1
  <2> HIDE DEF R, B
  <2>3. \E U \in B : \A V \in B : <<V, U>> \notin R
    BY <2>2, WFMin
  <2>4. QED
    BY <2>3 DEF R, B
<1>4. \A V \in SUBSET U : V # U => V \in Good
  BY <1>3 DEF StrictSubsetOrdering
<1>5. QED
  BY <1>3, <1>4

\* What holds of 0, and of n + 1 when it holds of n, holds of every number.
LEMMA NumberInduction ==
    ASSUME NEW Good, 0 \in Good, \A n \in Nat : n \in Good => n + 1 \in Good
    PROVE  \A n \in Nat : n \in Good
<1>1. SUFFICES ASSUME Nat \ Good # {} PROVE FALSE
  OBVIOUS
<1>2. PICK n \in Nat \ Good : \A m \in Nat \ Good : <<m, n>> \notin OpToRel(<, Nat)
  <2>1. IsWellFoundedOn(OpToRel(<, Nat), Nat)
    BY NatLessThanWellFounded
  <2>2. QED
    BY <1>1, <2>1, WFMin
<1>3. n - 1 \in Nat /\ n - 1 < n /\ (n - 1) + 1 = n
  <2>1. n \in Nat
    OBVIOUS
  <2>2. n # 0
    OBVIOUS
  <2>3. QED
    BY <2>1, <2>2
<1>4. n - 1 \in Good
  BY <1>2, <1>3 DEF OpToRel
<1>5. QED
  BY <1>2, <1>3, <1>4

\* A set of numbers has a least one.
LEMMA LeastNumber ==
    ASSUME NEW T, T \subseteq Nat, T # {}
    PROVE  \E m \in T : \A n \in T : m <= n
<1>1. IsWellFoundedOn(OpToRel(<, Nat), Nat)
  BY NatLessThanWellFounded
<1>2. PICK m \in T : \A n \in T : <<n, m>> \notin OpToRel(<, Nat)
  BY <1>1, WFMin
<1>3. \A n \in T : ~ (n < m)
  BY <1>2 DEF OpToRel
<1>4. ASSUME NEW n \in T PROVE m <= n
  <2>1. m \in Nat /\ n \in Nat
    OBVIOUS
  <2>2. ~ (n < m)
    BY <1>3
  <2>3. QED
    BY <2>1, <2>2
<1>5. QED
  BY <1>4

\* The recursive function exists, and its values are numbers.
LEMMA SumsExist ==
    ASSUME NEW S, IsFiniteSet(S), NEW f, \A x \in S : f[x] \in Int
    PROVE  \E g \in [SUBSET S -> Int] : Sums(g, S, f)
<1> DEFINE Step(g, s) == IF s = {} THEN 0 ELSE f[Pick(s)] + g[s \ {Pick(s)}]
           UpTo(g, n) == \A s \in SUBSET S : Cardinality(s) <= n => g[s] = Step(g, s)
           Good == {n \in Nat : \E g \in [SUBSET S -> Int] : UpTo(g, n)}
<1>1. \A s \in SUBSET S : IsFiniteSet(s) /\ Cardinality(s) \in Nat
  BY FS_Subset, FS_CardinalityType
<1>2. ASSUME NEW s \in SUBSET S, s # {}
      PROVE  /\ Pick(s) \in s /\ f[Pick(s)] \in Int /\ s \ {Pick(s)} \in SUBSET S
             /\ Cardinality(s \ {Pick(s)}) = Cardinality(s) - 1
  <2>1. Pick(s) \in s
    BY <1>2 DEF Pick
  <2>2. Cardinality(s \ {Pick(s)}) = Cardinality(s) - 1
    BY <1>1, <2>1, FS_RemoveElement
  <2>3. QED
    BY <2>1, <2>2
<1>3. ASSUME NEW g \in [SUBSET S -> Int], NEW s \in SUBSET S
      PROVE  Step(g, s) \in Int
  <2>1. CASE s = {}
    BY <2>1
  <2>2. CASE s # {}
    <3>1. f[Pick(s)] \in Int /\ g[s \ {Pick(s)}] \in Int
      BY <1>2, <2>2
    <3>2. QED
      BY <2>2, <3>1
  <2>3. QED
    BY <2>1, <2>2
<1>4. 0 \in Good
  <2>1. [s \in SUBSET S |-> 0] \in [SUBSET S -> Int]
    OBVIOUS
  <2>2. \A s \in SUBSET S : Cardinality(s) <= 0 => s = {}
    BY <1>1, FS_EmptySet
  <2>3. UpTo([s \in SUBSET S |-> 0], 0)
    BY <2>2
  <2> HIDE DEF UpTo
  <2>4. QED
    BY <2>1, <2>3
<1>5. ASSUME NEW n \in Nat, n \in Good PROVE n + 1 \in Good
  <2>1. PICK g \in [SUBSET S -> Int] : UpTo(g, n)
    BY <1>5
  <2> DEFINE h == [s \in SUBSET S |-> IF Cardinality(s) = n + 1 THEN Step(g, s) ELSE g[s]]
  <2>2. h \in [SUBSET S -> Int]
    BY <1>3
  <2>3. ASSUME NEW s \in SUBSET S, Cardinality(s) <= n + 1
        PROVE  h[s] = Step(h, s)
    <3>1. h[s] = Step(g, s)
      BY <1>1, <2>1, <2>3
    <3>2. s # {} => h[s \ {Pick(s)}] = g[s \ {Pick(s)}]
      BY <1>1, <1>2, <2>3
    <3> HIDE DEF h
    <3>3. QED
      BY <3>1, <3>2
  <2>4. UpTo(h, n + 1)
    BY <2>3
  <2> HIDE DEF h, UpTo
  <2>5. QED
    BY <2>2, <2>4
<1>6. Cardinality(S) \in Good
  <2> HIDE DEF Good
  <2>1. \A n \in Nat : n \in Good
    BY <1>4, <1>5, NumberInduction
  <2>2. QED
    BY <1>1, <2>1
<1>7. PICK g \in [SUBSET S -> Int] : UpTo(g, Cardinality(S))
  BY <1>6
<1>8. \A s \in SUBSET S : g[s] = Step(g, s)
  <2>1. \A s \in SUBSET S : Cardinality(s) <= Cardinality(S)
    BY FS_Subset
  <2>2. QED
    BY <1>7, <2>1
<1>9. g = [s \in SUBSET S |-> Step(g, s)]
  <2> HIDE DEF Step
  <2>1. QED
    BY <1>7, <1>8
<1>10. QED
  BY <1>9 DEF Sums

\* Over a subset the function is the same.
LEMMA SumsAgree ==
    ASSUME NEW S, IsFiniteSet(S), NEW T \in SUBSET S, NEW f, NEW g, NEW h,
           Sums(g, S, f), Sums(h, T, f)
    PROVE  \A U \in SUBSET T : g[U] = h[U]
<1> DEFINE Good == {U \in SUBSET T : g[U] = h[U]}
<1>1. ASSUME NEW U \in SUBSET T, \A V \in SUBSET U : V # U => V \in Good
      PROVE  U \in Good
  <2>1. U # {} => Pick(U) \in U
    BY DEF Pick
  <2>2. g[U] = IF U = {} THEN 0 ELSE f[Pick(U)] + g[U \ {Pick(U)}]
    BY DEF Sums
  <2>3. h[U] = IF U = {} THEN 0 ELSE f[Pick(U)] + h[U \ {Pick(U)}]
    BY DEF Sums
  <2>4. U # {} => g[U \ {Pick(U)}] = h[U \ {Pick(U)}]
    BY <1>1, <2>1
  <2>5. QED
    BY <2>2, <2>3, <2>4
<1>2. IsFiniteSet(T)
  BY FS_Subset
<1> HIDE DEF Good
<1>3. \A U \in SUBSET T : U \in Good
  BY <1>1, <1>2, SubsetInduction
<1>4. QED
  BY <1>3 DEF Good

\* Sums over the subsets of S: numbers, and each is one of its values and the
\* sum of the rest.
LEMMA SumUnfolds ==
    ASSUME NEW S, IsFiniteSet(S), NEW f, \A x \in S : f[x] \in Int
    PROVE  \A T \in SUBSET S :
              /\ SumFunctionOnSet(f, T) \in Int
              /\ T = {} => SumFunctionOnSet(f, T) = 0
              /\ T # {} => SumFunctionOnSet(f, T) =
                              f[Pick(T)] + SumFunctionOnSet(f, T \ {Pick(T)})
<1>1. PICK g \in [SUBSET S -> Int] : Sums(g, S, f)
  BY SumsExist
<1>2. ASSUME NEW T \in SUBSET S PROVE SumFunctionOnSet(f, T) = g[T]
  <2>1. IsFiniteSet(T) /\ \A x \in T : f[x] \in Int
    BY FS_Subset
  <2>2. \E h : Sums(h, T, f)
    BY <2>1, SumsExist
  <2> DEFINE h == CHOOSE h : Sums(h, T, f)
  <2>3. Sums(h, T, f)
    BY <2>2
  <2> HIDE DEF h
  <2>4. g[T] = h[T]
    BY <1>1, <2>3, SumsAgree
  <2>5. QED
    BY <2>4, SumIsFold DEF h
<1>3. ASSUME NEW T \in SUBSET S
      PROVE  /\ T = {} => g[T] = 0
             /\ T # {} => g[T] = f[Pick(T)] + g[T \ {Pick(T)}]
  BY <1>1 DEF Sums
<1>4. QED
  BY <1>1, <1>2, <1>3

\* A sum of finitely many integers is an integer.
LEMMA SumType ==
    ASSUME NEW S, IsFiniteSet(S), NEW f, \A x \in S : f[x] \in Int
    PROVE  SumFunctionOnSet(f, S) \in Int
  BY SumUnfolds

\* A sum does not depend on the order of its terms: any of them may be taken
\* out first.
LEMMA SumFacts ==
    ASSUME NEW S, IsFiniteSet(S), NEW f, \A x \in S : f[x] \in Int
    PROVE  \A T \in SUBSET S :
              /\ SumFunctionOnSet(f, T) \in Int
              /\ T = {} => SumFunctionOnSet(f, T) = 0
              /\ \A x \in T : SumFunctionOnSet(f, T) = f[x] + SumFunctionOnSet(f, T \ {x})
<1> DEFINE sum(T) == SumFunctionOnSet(f, T)
           Good == {T \in SUBSET S : \A x \in T : sum(T) = f[x] + sum(T \ {x})}
<1>1. \A T \in SUBSET S :
         /\ sum(T) \in Int
         /\ T = {} => sum(T) = 0
         /\ T # {} => sum(T) = f[Pick(T)] + sum(T \ {Pick(T)})
  BY SumUnfolds
<1> HIDE DEF sum
<1>2. ASSUME NEW U \in SUBSET S, \A V \in SUBSET U : V # U => V \in Good
      PROVE  U \in Good
  <2>1. SUFFICES ASSUME NEW x \in U PROVE sum(U) = f[x] + sum(U \ {x})
    OBVIOUS
  <2> DEFINE y == Pick(U)
  <2>2. y \in U
    BY DEF Pick
  <2>3. sum(U) = f[y] + sum(U \ {y})
    BY <1>1
  <2> HIDE DEF y
  <2>4. CASE x = y
    BY <2>3, <2>4
  <2>5. CASE x # y
    <3>1. U \ {y} \in Good /\ x \in U \ {y}
      BY <1>2, <2>2, <2>5
    <3>2. sum(U \ {y}) = f[x] + sum((U \ {y}) \ {x})
      BY <3>1
    <3>3. U \ {x} \in Good /\ y \in U \ {x}
      BY <1>2, <2>2, <2>5
    <3>4. sum(U \ {x}) = f[y] + sum((U \ {x}) \ {y})
      BY <3>3
    <3>5. (U \ {y}) \ {x} = (U \ {x}) \ {y}
      OBVIOUS
    <3>6. /\ f[x] \in Int /\ f[y] \in Int
          /\ sum((U \ {x}) \ {y}) \in Int
      BY <1>1, <2>2
    <3>7. \A a, b, c \in Int : a + (b + c) = b + (a + c)
      OBVIOUS
    <3> DEFINE w == sum((U \ {x}) \ {y})
    <3>8. sum((U \ {y}) \ {x}) = w
      BY <3>5
    <3> HIDE DEF w
    <3>9. sum(U) = f[y] + (f[x] + w)
      BY <2>3, <3>2, <3>8
    <3>10. sum(U \ {x}) = f[y] + w
      BY <3>4 DEF w
    <3>11. f[y] + (f[x] + w) = f[x] + (f[y] + w)
      BY <3>6, <3>7 DEF w
    <3>12. QED
      BY <3>9, <3>10, <3>11
  <2>6. QED
    BY <2>4, <2>5
<1> HIDE DEF Good
<1>3. \A T \in SUBSET S : T \in Good
  BY <1>2, SubsetInduction
<1>4. QED
  BY <1>1, <1>3 DEF Good, sum

\* A sum is the sum over a part and the sum over the rest.
LEMMA SumSplit ==
    ASSUME NEW S, IsFiniteSet(S), NEW f, \A x \in S : f[x] \in Int
    PROVE  \A T \in SUBSET S :
              SumFunctionOnSet(f, S) = SumFunctionOnSet(f, T) + SumFunctionOnSet(f, S \ T)
<1> DEFINE sum(T) == SumFunctionOnSet(f, T)
           Good == {T \in SUBSET S : sum(S) = sum(T) + sum(S \ T)}
<1>1. \A T \in SUBSET S :
         /\ sum(T) \in Int
         /\ T = {} => sum(T) = 0
         /\ \A x \in T : sum(T) = f[x] + sum(T \ {x})
  BY SumFacts
<1> HIDE DEF sum
<1>2. ASSUME NEW U \in SUBSET S, \A V \in SUBSET U : V # U => V \in Good
      PROVE  U \in Good
  <2>1. CASE U = {}
    <3> DEFINE total == sum(S)
    <3>1. sum(U) = 0 /\ sum(S \ U) = total /\ total \in Int
      <4>1. S \ U = S
        BY <2>1
      <4>2. QED
        BY <1>1, <2>1, <4>1
    <3> HIDE DEF total
    <3>2. total = sum(U) + sum(S \ U)
      BY <3>1
    <3>3. QED
      BY <3>2 DEF total
  <2>2. CASE U # {}
    <3>1. PICK x \in U : TRUE
      BY <2>2
    <3> DEFINE a == sum(U \ {x})
               b == sum(S \ U)
    <3>2. U \ {x} \in Good
      BY <1>2, <3>1
    <3>3. sum(S) = a + sum(S \ (U \ {x}))
      BY <3>2
    <3>4. (S \ (U \ {x})) \ {x} = S \ U /\ x \in S \ (U \ {x})
      OBVIOUS
    <3>5. sum(S \ (U \ {x})) = f[x] + b
      BY <1>1, <3>4
    <3>6. sum(U) = f[x] + a
      BY <1>1
    <3>7. a \in Int /\ b \in Int /\ f[x] \in Int
      BY <1>1
    <3> HIDE DEF a, b
    <3>8. sum(S) = sum(U) + b
      <4>1. sum(S) = a + (f[x] + b)
        BY <3>3, <3>5
      <4>2. a + (f[x] + b) = (f[x] + a) + b
        BY <3>7
      <4>3. QED
        BY <3>6, <4>1, <4>2
    <3>9. QED
      BY <3>8 DEF b
  <2>3. QED
    BY <2>1, <2>2
<1> HIDE DEF Good
<1>3. \A T \in SUBSET S : T \in Good
  BY <1>2, SubsetInduction
<1>4. QED
  BY <1>3 DEF Good, sum

\* What every term is at least, the sum is as many times.
LEMMA SumAtLeast ==
    ASSUME NEW S, IsFiniteSet(S), NEW f, NEW b \in Int,
           \A x \in S : f[x] \in Int /\ f[x] >= b
    PROVE  SumFunctionOnSet(f, S) >= b * Cardinality(S)
<1> DEFINE sum(T) == SumFunctionOnSet(f, T)
           Good == {T \in SUBSET S : sum(T) >= b * Cardinality(T)}
<1>1. \A T \in SUBSET S :
         /\ sum(T) \in Int
         /\ T = {} => sum(T) = 0
         /\ \A x \in T : sum(T) = f[x] + sum(T \ {x})
  BY SumFacts
<1>2. \A T \in SUBSET S : IsFiniteSet(T) /\ Cardinality(T) \in Nat
  BY FS_Subset, FS_CardinalityType
<1> HIDE DEF sum
<1>3. ASSUME NEW U \in SUBSET S, \A V \in SUBSET U : V # U => V \in Good
      PROVE  U \in Good
  <2>1. CASE U = {}
    <3>1. sum(U) = 0 /\ Cardinality(U) = 0
      BY <1>1, <2>1, FS_EmptySet
    <3>2. QED
      BY <3>1
  <2>2. CASE U # {}
    <3>1. PICK x \in U : TRUE
      BY <2>2
    <3> DEFINE a == sum(U \ {x})
               n == Cardinality(U \ {x})
    <3>2. U \ {x} \in Good
      BY <1>3, <3>1
    <3>3. a >= b * n /\ a \in Int /\ n \in Nat
      BY <1>1, <1>2, <3>2
    <3>4. sum(U) = f[x] + a
      BY <1>1
    <3>5. Cardinality(U) = n + 1
      <4>1. n = Cardinality(U) - 1
        BY <1>2, FS_RemoveElement
      <4>2. QED
        BY <1>2, <4>1
    <3>6. f[x] \in Int /\ f[x] >= b
      OBVIOUS
    <3> HIDE DEF a, n
    <3>7. b * (n + 1) = b * n + b /\ b * n \in Int
      BY <3>3
    <3>8. f[x] + a >= b * (n + 1)
      BY <3>3, <3>6, <3>7
    <3>9. QED
      BY <3>4, <3>5, <3>8
  <2>3. QED
    BY <2>1, <2>2
<1> HIDE DEF Good
<1>4. S \in Good
  BY <1>3, SubsetInduction
<1>5. QED
  BY <1>4 DEF Good, sum

\* The sum of a combination is the combination of the sums.
LEMMA SumLinear ==
    ASSUME NEW S, IsFiniteSet(S), NEW f, NEW g, NEW h, NEW a \in Int, NEW b \in Int,
           \A x \in S : f[x] \in Int /\ g[x] \in Int /\ h[x] = a * f[x] + b * g[x]
    PROVE  SumFunctionOnSet(h, S)
             = a * SumFunctionOnSet(f, S) + b * SumFunctionOnSet(g, S)
<1> DEFINE F(T) == SumFunctionOnSet(f, T)
           G(T) == SumFunctionOnSet(g, T)
           H(T) == SumFunctionOnSet(h, T)
           Good == {T \in SUBSET S : H(T) = a * F(T) + b * G(T)}
<1>1. \A T \in SUBSET S :
         /\ F(T) \in Int
         /\ T = {} => F(T) = 0
         /\ \A x \in T : F(T) = f[x] + F(T \ {x})
  <2>1. \A x \in S : f[x] \in Int
    OBVIOUS
  <2>2. QED
    BY ONLY IsFiniteSet(S), <2>1, SumFacts
<1>2. \A T \in SUBSET S :
         /\ G(T) \in Int
         /\ T = {} => G(T) = 0
         /\ \A x \in T : G(T) = g[x] + G(T \ {x})
  <2>1. \A x \in S : g[x] \in Int
    OBVIOUS
  <2>2. QED
    BY ONLY IsFiniteSet(S), <2>1, SumFacts
<1>3. \A T \in SUBSET S :
         /\ H(T) \in Int
         /\ T = {} => H(T) = 0
         /\ \A x \in T : H(T) = h[x] + H(T \ {x})
  <2>1. \A x \in S : h[x] \in Int
    OBVIOUS
  <2>2. QED
    BY ONLY IsFiniteSet(S), <2>1, SumFacts
<1> HIDE DEF F, G, H
<1>4. ASSUME NEW U \in SUBSET S, \A V \in SUBSET U : V # U => V \in Good
      PROVE  U \in Good
  <2>1. CASE U = {}
    <3>1. F(U) = 0 /\ G(U) = 0 /\ H(U) = 0
      BY <1>1, <1>2, <1>3, <2>1
    <3>2. H(U) = a * F(U) + b * G(U)
      BY <3>1
    <3>3. QED
      BY <3>2
  <2>2. CASE U # {}
    <3>1. PICK x \in U : TRUE
      BY <2>2
    <3> DEFINE V == U \ {x}
    <3>2. V \in Good /\ V \in SUBSET S
      BY <1>4, <3>1
    <3>3. F(U) = f[x] + F(V) /\ G(U) = g[x] + G(V) /\ H(U) = h[x] + H(V)
      BY <1>1, <1>2, <1>3
    <3> HIDE DEF V
    <3>4. F(V) \in Int /\ G(V) \in Int /\ H(V) = a * F(V) + b * G(V)
      BY <1>1, <1>2, <3>2
    <3>5. f[x] \in Int /\ g[x] \in Int /\ h[x] = a * f[x] + b * g[x]
      OBVIOUS
    <3>6. \A p, q, r, s \in Int :
             (a * p + b * q) + (a * r + b * s) = a * (p + r) + b * (q + s)
      OBVIOUS
    <3>7. H(U) = a * F(U) + b * G(U)
      BY <3>3, <3>4, <3>5, <3>6
    <3>8. QED
      BY <3>7
  <2>3. QED
    BY <2>1, <2>2
<1> HIDE DEF Good
<1>5. S \in Good
  BY <1>4, SubsetInduction
<1>6. QED
  BY <1>5 DEF Good, F, G, H

\* What every term is at most, the sum is as many times.
LEMMA SumAtMost ==
    ASSUME NEW S, IsFiniteSet(S), NEW f, NEW b \in Int,
           \A x \in S : f[x] \in Int /\ f[x] <= b
    PROVE  SumFunctionOnSet(f, S) <= b * Cardinality(S)
<1> DEFINE h == [x \in S |-> (-1) * f[x] + 0 * f[x]]
           n == Cardinality(S)
           s == SumFunctionOnSet(f, S)
<1>1. \A x \in S : /\ f[x] \in Int /\ h[x] = (-1) * f[x] + 0 * f[x]
                   /\ h[x] \in Int /\ h[x] >= -b
  OBVIOUS
<1> HIDE DEF h
<1>2. SumFunctionOnSet(h, S) = (-1) * s + 0 * s
  BY <1>1, SumLinear
<1>3. SumFunctionOnSet(h, S) >= (-b) * n
  <2>1. -b \in Int /\ \A x \in S : h[x] \in Int /\ h[x] >= -b
    BY <1>1
  <2>2. QED
    BY <2>1, SumAtLeast
<1>4. s \in Int /\ n \in Nat
  BY SumType, FS_CardinalityType
<1> HIDE DEF s, n
<1>5. (-1) * s + 0 * s = -s /\ (-b) * n = -(b * n) /\ b * n \in Int
  BY <1>4
<1>6. -s >= -(b * n)
  BY <1>2, <1>3, <1>5
<1>7. s <= b * n
  BY <1>4, <1>5, <1>6
<1>8. QED
  BY <1>7 DEF s, n

\* Functions that agree on a set have the same sum over it.
LEMMA SumSame ==
    ASSUME NEW S, IsFiniteSet(S), NEW f, NEW g, \A x \in S : f[x] \in Int /\ g[x] = f[x]
    PROVE  SumFunctionOnSet(g, S) = SumFunctionOnSet(f, S)
<1> DEFINE s == SumFunctionOnSet(f, S)
<1>1. \A x \in S : f[x] \in Int /\ g[x] = 1 * f[x] + 0 * f[x]
  OBVIOUS
<1>2. SumFunctionOnSet(g, S) = 1 * s + 0 * s
  BY <1>1, SumLinear
<1>3. s \in Int
  BY SumType
<1> HIDE DEF s
<1>4. 1 * s + 0 * s = s
  BY <1>3
<1>5. QED
  BY <1>2, <1>4 DEF s

-----------------------------------------------------------------------------
(* Medians *)

\* A function on a finite set with numbers for values has a largest value.
LEMMA LargestValue ==
    ASSUME NEW D, IsFiniteSet(D), D # {}, NEW q, \A s \in D : q[s] \in Nat
    PROVE  \E s \in D : \A t \in D : q[t] <= q[s]
<1> DEFINE above(s) == {t \in D : q[t] > q[s]}
           T == {Cardinality(above(s)) : s \in D}
<1>1. \A s \in D : IsFiniteSet(above(s)) /\ Cardinality(above(s)) \in Nat
  <2>1. SUFFICES ASSUME NEW s \in D
                 PROVE  IsFiniteSet(above(s)) /\ Cardinality(above(s)) \in Nat
    OBVIOUS
  <2>2. above(s) \in SUBSET D
    OBVIOUS
  <2> HIDE DEF above
  <2>3. QED
    BY <2>2, FS_Subset, FS_CardinalityType
<1>2. T \subseteq Nat /\ T # {}
  BY <1>1
<1>3. PICK m \in T : \A n \in T : m <= n
  <2> HIDE DEF T
  <2>1. QED
    BY <1>2, LeastNumber
<1>4. PICK s \in D : m = Cardinality(above(s))
  BY <1>3
<1>5. ASSUME NEW t \in D, q[t] > q[s] PROVE FALSE
  <2>1. above(t) \in SUBSET above(s) /\ t \in above(s) /\ t \notin above(t)
    BY <1>5
  <2>2. Cardinality(above(t)) \in T
    OBVIOUS
  <2> HIDE DEF above, T
  <2>3. Cardinality(above(s)) <= Cardinality(above(t))
    BY <1>3, <1>4, <2>2
  <2>4. /\ Cardinality(above(t)) <= Cardinality(above(s))
        /\ Cardinality(above(t)) = Cardinality(above(s)) => above(t) = above(s)
    BY <1>1, <2>1, FS_Subset
  <2>5. Cardinality(above(t)) \in Nat /\ Cardinality(above(s)) \in Nat
    BY <1>1
  <2>6. Cardinality(above(t)) = Cardinality(above(s))
    BY <2>3, <2>4, <2>5
  <2>7. QED
    BY <2>1, <2>4, <2>6
<1>6. QED
  BY <1>5

\* The k-th smallest value is one that fewer than k are below, and k or more
\* not above.
LEMMA NthType ==
    ASSUME NEW q, IsFiniteSet(DOMAIN q), \A s \in DOMAIN q : q[s] \in Nat,
           NEW k \in Nat \ {0}, k <= Cardinality(DOMAIN q)
    PROVE  /\ Nth(q, k) \in Nat
           /\ Cardinality({s \in DOMAIN q : q[s] < Nth(q, k)}) < k
           /\ Cardinality({s \in DOMAIN q : q[s] <= Nth(q, k)}) >= k
<1> DEFINE D == DOMAIN q
           V == {q[s] : s \in D}
           low(x) == {s \in D : q[s] < x}
           upto(x) == {s \in D : q[s] <= x}
           K == {x \in V : Cardinality(upto(x)) >= k}
<1>1. ASSUME NEW x
      PROVE  /\ low(x) \in SUBSET D /\ upto(x) \in SUBSET D
             /\ IsFiniteSet(low(x)) /\ Cardinality(low(x)) \in Nat
             /\ IsFiniteSet(upto(x)) /\ Cardinality(upto(x)) \in Nat
  <2>1. low(x) \in SUBSET D /\ upto(x) \in SUBSET D
    OBVIOUS
  <2> HIDE DEF low, upto, D
  <2>2. QED
    BY <2>1, FS_Subset, FS_CardinalityType DEF D
<1>2. D # {} /\ Cardinality(D) \in Nat
  BY FS_EmptySet, FS_CardinalityType
<1>3. K # {}
  <2>1. PICK s \in D : \A t \in D : q[t] <= q[s]
    BY <1>2, LargestValue
  <2>2. upto(q[s]) = D
    BY <2>1
  <2>3. QED
    BY <2>2
<1>4. K \subseteq Nat
  OBVIOUS
<1>5. PICK x \in K : \A y \in K : x <= y
  <2> HIDE DEF K
  <2>1. QED
    BY <1>3, <1>4, LeastNumber
<1>6. Cardinality(low(x)) < k
  <2>0. Cardinality(low(x)) \in Nat
    BY <1>1
  <2>1. SUFFICES ASSUME Cardinality(low(x)) >= k PROVE FALSE
    <3> HIDE DEF low, K
    <3>1. QED
      BY <2>0
  <2>2. low(x) # {} /\ IsFiniteSet(low(x)) /\ \A s \in low(x) : q[s] \in Nat
    <3>1. low(x) # {}
      <4> HIDE DEF low
      <4>1. QED
        BY <2>1, FS_EmptySet
    <3>2. QED
      BY <1>1, <3>1
  <2>3. PICK s \in low(x) : \A t \in low(x) : q[t] <= q[s]
    <3> HIDE DEF low
    <3>1. QED
      BY <2>2, LargestValue
  <2>4. s \in D /\ q[s] < x /\ q[s] \in Nat /\ x \in Nat
    BY <1>4
  <2>5. upto(q[s]) = low(x)
    <3>1. ASSUME NEW t \in D PROVE q[t] <= q[s] <=> q[t] < x
      <4>1. q[t] \in Nat
        OBVIOUS
      <4>2. q[t] < x => q[t] <= q[s]
        BY <2>3
      <4>3. QED
        BY <2>4, <4>1, <4>2
    <3>2. QED
      BY <3>1
  <2>6. q[s] \in K
    BY <2>1, <2>4, <2>5
  <2>7. x <= q[s]
    BY <1>5, <2>6
  <2>8. QED
    BY <2>4, <2>7
<1>7. x \in V /\ Cardinality(upto(x)) >= k
  OBVIOUS
<1>8. LET n == CHOOSE y \in V : Cardinality(low(y)) < k /\ Cardinality(upto(y)) >= k
      IN  n \in V /\ Cardinality(low(n)) < k /\ Cardinality(upto(n)) >= k
  BY <1>6, <1>7
<1>9. Nth(q, k) = CHOOSE y \in V : Cardinality(low(y)) < k /\ Cardinality(upto(y)) >= k
  BY DEF Nth
<1>10. Nth(q, k) \in V
  BY <1>8, <1>9
<1>11. QED
  BY <1>8, <1>9, <1>10

\* The two middle values: at least half of the quotes are not above the first,
\* and at least half not below the second; fewer than half are below the
\* first, and fewer than half above the second.
LEMMA Middles ==
    ASSUME NEW q, IsFiniteSet(DOMAIN q), DOMAIN q # {}, \A s \in DOMAIN q : q[s] \in Nat
    PROVE  \E a, b \in Nat :
             LET D == DOMAIN q
                 n == Cardinality(D)
             IN /\ Median2(q) = a + b /\ a <= b
                /\ 2 * Cardinality({s \in D : q[s] <= a}) >= n
                /\ 2 * Cardinality({s \in D : q[s] >= b}) >= n
                /\ 2 * Cardinality({s \in D : q[s] < a}) < n
                /\ 2 * Cardinality({s \in D : q[s] > b}) < n
<1> DEFINE D == DOMAIN q
           n == Cardinality(D)
           i == (n + 1) \div 2
           j == n \div 2 + 1
           a == Nth(q, i)
           b == Nth(q, j)
<1>1. n \in Nat \ {0}
  BY FS_EmptySet, FS_CardinalityType
<1>2. /\ i \in Nat \ {0} /\ i <= n /\ j \in Nat \ {0} /\ j <= n
      /\ 2 * i >= n /\ 2 * i <= n + 1 /\ 2 * j > n /\ 2 * j <= n + 2 /\ i <= j
  <2> HIDE DEF n
  <2>1. \A k \in Nat \ {0} :
          LET p == (k + 1) \div 2
              r == k \div 2 + 1
          IN  /\ p \in Nat \ {0} /\ p <= k /\ r \in Nat \ {0} /\ r <= k
              /\ 2 * p >= k /\ 2 * p <= k + 1 /\ 2 * r > k /\ 2 * r <= k + 2 /\ p <= r
    OBVIOUS
  <2>2. QED
    BY <1>1, <2>1
<1>3. /\ a \in Nat
      /\ Cardinality({s \in D : q[s] < a}) < i
      /\ Cardinality({s \in D : q[s] <= a}) >= i
  <2> HIDE DEF i
  <2>1. QED
    BY <1>2, NthType
<1>4. /\ b \in Nat
      /\ Cardinality({s \in D : q[s] < b}) < j
      /\ Cardinality({s \in D : q[s] <= b}) >= j
  <2> HIDE DEF j
  <2>1. QED
    BY <1>2, NthType
<1>5. Median2(q) = a + b
  BY DEF Median2
<1> HIDE DEF a, b, i, j
<1>6. \A P \in SUBSET D : IsFiniteSet(P) /\ Cardinality(P) \in Nat
                           /\ Cardinality(D \ P) = n - Cardinality(P)
  <2>1. SUFFICES ASSUME NEW P \in SUBSET D
                 PROVE  IsFiniteSet(P) /\ Cardinality(P) \in Nat
                          /\ Cardinality(D \ P) = n - Cardinality(P)
    OBVIOUS
  <2>2. IsFiniteSet(P) /\ Cardinality(P) \in Nat
    BY FS_Subset, FS_CardinalityType
  <2>3. D \intersect P = P
    OBVIOUS
  <2>4. QED
    BY <2>2, <2>3, FS_Difference
<1> DEFINE lowA == {s \in D : q[s] < a}
           uptoA == {s \in D : q[s] <= a}
           lowB == {s \in D : q[s] < b}
           uptoB == {s \in D : q[s] <= b}
<1>7. /\ lowA \in SUBSET D /\ uptoA \in SUBSET D
      /\ lowB \in SUBSET D /\ uptoB \in SUBSET D
  OBVIOUS
<1>8. /\ {s \in D : q[s] >= b} = D \ lowB
      /\ {s \in D : q[s] > b} = D \ uptoB
  BY <1>4
<1>9. a <= b
  <2>1. SUFFICES ASSUME b < a PROVE FALSE
    BY <1>3, <1>4
  <2>2. uptoB \in SUBSET lowA
    BY <1>3, <1>4, <2>1
  <2>3. IsFiniteSet(lowA) /\ Cardinality(lowA) \in Nat /\ Cardinality(uptoB) \in Nat
    BY <1>6, <1>7
  <2>4. Cardinality(lowA) < i /\ Cardinality(uptoB) >= j
    BY <1>3, <1>4
  <2> HIDE DEF lowA, uptoB
  <2>5. Cardinality(uptoB) <= Cardinality(lowA)
    BY <2>2, <2>3, FS_Subset
  <2>6. QED
    BY <1>2, <2>3, <2>4, <2>5
<1> HIDE DEF lowA, uptoA, lowB, uptoB, n
<1>10. 2 * Cardinality(uptoA) >= n /\ 2 * Cardinality(lowA) < n
  <2>1. Cardinality(lowA) \in Nat /\ Cardinality(uptoA) \in Nat
    BY <1>6, <1>7
  <2>2. Cardinality(lowA) < i /\ Cardinality(uptoA) >= i
    BY <1>3 DEF lowA, uptoA
  <2>3. QED
    BY <1>1, <1>2, <2>1, <2>2
<1>11. 2 * Cardinality(D \ lowB) >= n /\ 2 * Cardinality(D \ uptoB) < n
  <2>1. /\ Cardinality(D \ lowB) = n - Cardinality(lowB) /\ Cardinality(lowB) \in Nat
        /\ Cardinality(D \ uptoB) = n - Cardinality(uptoB) /\ Cardinality(uptoB) \in Nat
    BY <1>6, <1>7
  <2>2. Cardinality(lowB) < j /\ Cardinality(uptoB) >= j
    BY <1>4 DEF lowB, uptoB
  <2>3. QED
    BY <1>1, <1>2, <2>1, <2>2
<1>12. QED
  BY <1>3, <1>4, <1>5, <1>8, <1>9, <1>10, <1>11 DEF lowA, uptoA, n

\* Two parts of a finite set that together are more than it have a common
\* element.
LEMMA Overlap ==
    ASSUME NEW D, IsFiniteSet(D), NEW P \in SUBSET D, NEW S \in SUBSET D,
           2 * Cardinality(P) >= Cardinality(D), 2 * Cardinality(S) > Cardinality(D)
    PROVE  P \intersect S # {}
<1>1. /\ Cardinality(D) \in Nat /\ Cardinality(P) \in Nat /\ Cardinality(S) \in Nat
  BY FS_Subset, FS_CardinalityType
<1>2. Cardinality(P) + Cardinality(S) > Cardinality(D)
  BY <1>1
<1>3. QED
  BY <1>2, FS_MajoritiesIntersect

\* The median is within the range of any majority.
LEMMA MedianOfMajority ==
    ASSUME NEW q, IsFiniteSet(DOMAIN q), \A s \in DOMAIN q : q[s] \in Nat,
           NEW S \in SUBSET DOMAIN q, 2 * Cardinality(S) > Cardinality(DOMAIN q)
    PROVE  /\ Median2(q) \in Nat
           /\ \E t \in S : 2 * q[t] <= Median2(q)
           /\ \E u \in S : Median2(q) <= 2 * q[u]
<1> DEFINE D == DOMAIN q
<1>1. D # {}
  <2>1. CASE D = {}
    <3>1. S = {} /\ Cardinality({}) = 0
      BY <2>1, FS_EmptySet
    <3>2. QED
      BY <2>1, <3>1
  <2>2. QED
    BY <2>1
<1>2. PICK a, b \in Nat :
        /\ Median2(q) = a + b /\ a <= b
        /\ 2 * Cardinality({s \in D : q[s] <= a}) >= Cardinality(D)
        /\ 2 * Cardinality({s \in D : q[s] >= b}) >= Cardinality(D)
  BY <1>1, Middles
<1>3. PICK t \in S : q[t] <= a
  <2>1. {s \in D : q[s] <= a} \intersect S # {}
    BY <1>2, Overlap
  <2>2. QED
    BY <2>1
<1>4. PICK u \in S : q[u] >= b
  <2>1. {s \in D : q[s] >= b} \intersect S # {}
    BY <1>2, Overlap
  <2>2. QED
    BY <2>1
<1>5. q[t] \in Nat /\ q[u] \in Nat
  OBVIOUS
<1>6. 2 * q[t] <= a + b /\ a + b <= 2 * q[u] /\ a + b \in Nat
  BY <1>2, <1>3, <1>4, <1>5
<1>7. QED
  BY <1>2, <1>6
=============================================================================
