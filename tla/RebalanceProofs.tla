-------------------------- MODULE RebalanceProofs --------------------------
(***************************************************************************)
(* Proofs about Rebalance for any symbols, prices, splits and number of    *)
(* epochs: a rebalance does not move the level, rounding the values that   *)
(* are published does not add up, and no value is negative.                *)
(***************************************************************************)
EXTENDS Rebalance, SumsAndMedians

\* A capitalisation is a number; one of terms that are positive is.
LEMMA CapType ==
    ASSUME NEW S \in SUBSET Symbol, NEW f \in [S -> Int]
    PROVE  /\ SumFunction(f) \in Int
           /\ S # {} /\ (\A s \in S : f[s] >= 1) => SumFunction(f) >= 1
<1>1. IsFiniteSet(S) /\ DOMAIN f = S /\ \A s \in S : f[s] \in Int
  BY RebalanceAssumption, FS_Subset
<1>2. SumFunctionOnSet(f, S) \in Int
  BY <1>1, SumType
<1>3. ASSUME S # {}, \A s \in S : f[s] >= 1
      PROVE  SumFunctionOnSet(f, S) >= 1
  <2>1. \A s \in S : f[s] \in Int /\ f[s] >= 1
    BY <1>1, <1>3
  <2>2. 1 \in Int
    OBVIOUS
  <2>3. SumFunctionOnSet(f, S) >= 1 * Cardinality(S)
    BY <1>1, <2>1, <2>2, SumAtLeast
  <2>4. Cardinality(S) \in Nat /\ Cardinality(S) # 0
    BY <1>1, <1>3, FS_CardinalityType, FS_EmptySet
  <2>5. QED
    BY <1>2, <2>3, <2>4
<1>4. QED
  BY <1>1, <1>2, <1>3 DEF SumFunction

\* A basket holds assets in whole units, at the prices it was struck at, and
\* the divisor is a fraction with a positive numerator.
BasketInv ==
    /\ market \in [Symbol -> Price \union {Unpriced}]
    /\ state.epoch \in Int /\ state.epoch >= -1
    /\ DOMAIN state.basket \subseteq Symbol
    /\ \A s \in DOMAIN state.basket :
          state.basket[s].units \in Int /\ state.basket[s].lastPrice \in Int
    /\ state.divisor[1] \in Nat \ {0} /\ state.divisor[2] \in Int

\* Only whole numbers and the mark of a missing price are on the market.
LEMMA PriceType ==
    ASSUME BasketInv, NEW s \in Symbol, market[s] # Unpriced
    PROVE  market[s] \in Int /\ market[s] \in Nat \ {0} /\ market[s] \in Price
<1>1. market \in [Symbol -> Price \union {Unpriced}]
  BY DEF BasketInv
<1>2. market[s] \in Price
  BY <1>1
<1>3. Price \subseteq Nat \ {0}
  BY RebalanceAssumption
<1>4. market[s] \in Nat \ {0}
  BY <1>2, <1>3
<1>5. QED
  BY <1>2, <1>4

\* The capitalisation of the basket of the state is a number, and only the
\* prices of its own names count.
LEMMA PreviousCap ==
    ASSUME BasketInv,
           NEW A, DOMAIN state.basket \subseteq A, A \subseteq Symbol
    PROVE  /\ previousCap(state.basket, Reconciled(A)) \in Int
           /\ previousCap(state.basket, Reconciled(A))
                = previousCap(state.basket, Reconciled(Symbol))
<1> DEFINE names == DOMAIN state.basket
           value(B) == [s \in names |-> ValueOf(state.basket[s], s, Reconciled(B))]
<1>1. ASSUME NEW s \in names
      PROVE  /\ ValueOf(state.basket[s], s, Reconciled(A))
                  = ValueOf(state.basket[s], s, Reconciled(Symbol))
             /\ ValueOf(state.basket[s], s, Reconciled(A)) \in Int
  <2>1. s \in Symbol /\ s \in A
    BY DEF BasketInv
  <2>2. s \in Reconciled(A) <=> market[s] # Unpriced
    BY <2>1 DEF Reconciled
  <2>3. s \in Reconciled(Symbol) <=> market[s] # Unpriced
    BY <2>1 DEF Reconciled
  <2>4. state.basket[s].units \in Int /\ state.basket[s].lastPrice \in Int
    BY DEF BasketInv
  <2>5. market[s] # Unpriced => market[s] \in Int
    BY <2>1, PriceType
  <2>6. QED
    BY <2>2, <2>3, <2>4, <2>5 DEF ValueOf
<1>2. value(A) = value(Symbol) /\ value(A) \in [names -> Int]
  BY <1>1
<1>3. names \in SUBSET Symbol
  BY DEF BasketInv
<1>4. SumFunction(value(A)) \in Int
  BY <1>2, <1>3, CapType
<1>5. QED
  BY <1>2, <1>4 DEF previousCap

\* A number is no smaller than what divides it.
LEMMA DividesBelow == \A n, p \in Nat \ {0} : n % p = 0 => n >= p
  OBVIOUS

\* A multiple of a number is no smaller.
LEMMA MultipleAbove == \A n, w \in Nat \ {0} : n * w >= n /\ n * w \in Int /\ n * w >= 1
  OBVIOUS

\* A number holds once what it is not smaller than.
LEMMA QuotientAbove == \A n \in Int, p \in Nat \ {0} :
                          n >= p => n \div p \in Int /\ n \div p >= 1
  OBVIOUS

\* What a strike leaves: a basket of priced names, each held in whole units,
\* whose capitalisation is valued alike before and after.
LEMMA StruckBasket ==
    ASSUME BasketInv, NEW screened \in SUBSET Symbol,
           Cardinality(Reconciled(screened)) >= MinNames,
           NEW weights \in Splits(Reconciled(screened))
    PROVE  LET basket == unitsForWeights(weights) IN
           /\ DOMAIN basket \subseteq Reconciled(Symbol)
           /\ \A s \in DOMAIN basket :
                 /\ basket[s].units \in Int /\ basket[s].units >= 1
                 /\ basket[s].lastPrice \in Int /\ basket[s].lastPrice \in Price
           /\ totalCap(basket) \in Int /\ totalCap(basket) >= 1
           /\ previousCap(basket, Reconciled(Symbol)) = totalCap(basket)
<1> DEFINE names == Reconciled(screened)
           basket == unitsForWeights(weights)
<1>1. weights \in [names -> 1..Parts] /\ names \subseteq Reconciled(Symbol)
  BY DEF Splits, Reconciled
<1>2. DOMAIN basket = names
  BY <1>1 DEF unitsForWeights
<1>3. ASSUME NEW s \in names
      PROVE  /\ basket[s].units \in Int /\ basket[s].units >= 1
             /\ basket[s].lastPrice \in Int /\ basket[s].lastPrice \in Price
             /\ market[s] \in Int /\ s \in Reconciled(Symbol)
             /\ market[s] * basket[s].units >= 1
  <2>1. s \in Symbol /\ market[s] # Unpriced /\ s \in Reconciled(Symbol)
    BY <1>1 DEF Reconciled
  <2>2. market[s] \in Nat \ {0} /\ market[s] \in Price
    BY <2>1, PriceType
  <2> DEFINE p == market[s]
             w == weights[s]
             u == (Scale * w) \div p
  <2>3. w \in Nat \ {0} /\ Scale \in Nat \ {0} /\ p \in Nat \ {0} /\ Scale % p = 0
    BY <1>1, <2>2, RebalanceAssumption
  <2>4. basket[s] = [units |-> u, lastPrice |-> p]
    BY <1>1 DEF unitsForWeights
  <2> HIDE DEF p, w
  <2>5. u \in Int /\ u >= 1 /\ p * u >= 1
    <3>1. Scale >= p
      BY <2>3, DividesBelow
    <3>2. Scale * w >= Scale /\ Scale * w \in Int
      BY <2>3, MultipleAbove
    <3>3. Scale * w >= p
      BY <2>3, <3>1, <3>2
    <3>4. u \in Int /\ u >= 1
      BY <2>3, <3>2, <3>3, QuotientAbove
    <3> HIDE DEF u
    <3>5. QED
      BY <2>3, <3>4, MultipleAbove
  <2> HIDE DEF u
  <2>6. QED
    BY <2>1, <2>2, <2>4, <2>5 DEF p
<1> HIDE DEF basket
<1>4. [s \in names |-> market[s] * basket[s].units] \in [names -> Int]
  BY <1>3
<1>5. names \in SUBSET Symbol
  BY DEF Reconciled
<1>6. totalCap(basket) \in Int /\ totalCap(basket) >= 1
  <2> DEFINE f == [s \in names |-> market[s] * basket[s].units]
  <2>1. f \in [names -> Int] /\ \A s \in names : f[s] >= 1
    BY <1>3, <1>4
  <2>2. names # {}
    BY RebalanceAssumption, FS_EmptySet
  <2> HIDE DEF f, names
  <2>3. SumFunction(f) \in Int /\ SumFunction(f) >= 1
    BY <1>5, <2>1, <2>2, CapType
  <2>4. QED
    BY <1>2, <2>3 DEF totalCap, f
<1>7. [s \in names |-> ValueOf(basket[s], s, Reconciled(Symbol))]
        = [s \in names |-> market[s] * basket[s].units]
  BY <1>3 DEF ValueOf
<1>8. previousCap(basket, Reconciled(Symbol)) = totalCap(basket)
  BY <1>2, <1>7 DEF previousCap, totalCap
<1>9. QED
  BY <1>1, <1>2, <1>3, <1>6, <1>8 DEF basket

\* The level before a strike is a fraction of integers, whichever symbols were
\* asked for a price as long as the outgoing basket is among them.
LEMMA LevelBefore ==
    ASSUME BasketInv, NEW screened \in SUBSET Symbol
    PROVE  LET l == previousBasketLevel(state.basket,
                       Reconciled(toPrice(screened)), state.divisor)
           IN  l = Level /\ l[1] \in Int /\ l[2] \in Nat \ {0}
<1>1. DOMAIN state.basket \subseteq toPrice(screened) /\ toPrice(screened) \subseteq Symbol
  BY DEF toPrice, BasketInv
<1>2. /\ previousCap(state.basket, Reconciled(toPrice(screened))) \in Int
      /\ previousCap(state.basket, Reconciled(toPrice(screened)))
           = previousCap(state.basket, Reconciled(Symbol))
  BY <1>1, PreviousCap
<1>3. state.divisor[1] \in Nat \ {0} /\ state.divisor[2] \in Int
  BY DEF BasketInv
<1>4. previousCap(state.basket, Reconciled(toPrice(screened))) * state.divisor[2] \in Int
  BY <1>2, <1>3
<1>5. QED
  BY <1>2, <1>3, <1>4 DEF previousBasketLevel, Level

\* What a strike writes to the state, in numbers.
LEMMA StrikeFacts ==
    ASSUME BasketInv, NEW screened \in SUBSET Symbol,
           NEW weights \in Splits(Reconciled(screened)), Strike(screened, weights)
    PROVE  LET basket == unitsForWeights(weights) IN
           /\ state'.basket = basket /\ market' = market
           /\ state'.epoch = state.epoch + 1
           /\ state'.divisor =
                 IF state = None THEN <<totalCap(basket), 1>>
                 ELSE <<totalCap(basket) * Level[2], Level[1]>>
           /\ values'[state'.epoch] = toScaledValue(level(basket, state'.divisor))
           /\ DOMAIN values' = 0..state'.epoch /\ failed' = FALSE
           /\ \A e \in 0..state.epoch : values'[e] = values[e]
<1>1. previousBasketLevel(state.basket, Reconciled(toPrice(screened)), state.divisor)
        = Level
  BY LevelBefore
<1> DEFINE basket == unitsForWeights(weights)
           divisor == IF state = None THEN <<totalCap(basket), 1>>
                      ELSE <<totalCap(basket) * Level[2], Level[1]>>
           n == state.epoch + 1
<1>2. /\ state' = [epoch |-> n, basket |-> basket, divisor |-> divisor]
      /\ market' = market
      /\ values' = [e \in 0..n |-> IF e < n THEN values[e]
                                  ELSE toScaledValue(level(basket, divisor))]
      /\ failed' = FALSE
  BY <1>1 DEF Strike, rebalanceDivisor
<1>3. /\ n \in 0..n /\ ~ (n < n)
      /\ \A e \in 0..state.epoch : e \in 0..n /\ e < n
  BY DEF BasketInv
<1> HIDE DEF basket, divisor, n
<1>4. /\ values'[n] = toScaledValue(level(basket, divisor)) /\ DOMAIN values' = 0..n
      /\ \A e \in 0..state.epoch : values'[e] = values[e]
  BY <1>2, <1>3
<1>5. QED
  BY <1>2, <1>4 DEF basket, divisor, n

\* Every step keeps the basket and the divisor in numbers.
LEMMA BasketStep == BasketInv /\ [Next]_vars => BasketInv'
<1> SUFFICES ASSUME BasketInv, [Next]_vars PROVE BasketInv'
  OBVIOUS
<1>1. CASE UNCHANGED vars
  BY <1>1 DEF BasketInv, vars
<1>2. CASE RefuseToPublish
  BY <1>2 DEF BasketInv, RefuseToPublish
<1>3. CASE MarketMoves
  BY <1>3 DEF BasketInv, MarketMoves
<1>4. CASE runRebalance
  <2>0. PICK screened \in SUBSET Symbol :
          /\ Cardinality(Reconciled(screened)) >= MinNames
          /\ \E w \in Splits(Reconciled(screened)) : Strike(screened, w)
    BY <1>4 DEF runRebalance
  <2>1. PICK weights \in Splits(Reconciled(screened)) : Strike(screened, weights)
    BY <2>0
  <2> DEFINE basket == unitsForWeights(weights)
  <2>2. /\ state'.basket = basket /\ market' = market
        /\ state'.epoch = state.epoch + 1
        /\ state'.divisor = IF state = None THEN <<totalCap(basket), 1>>
                            ELSE <<totalCap(basket) * Level[2], Level[1]>>
    BY <2>1, StrikeFacts
  <2>3. /\ DOMAIN basket \subseteq Reconciled(Symbol)
        /\ \A s \in DOMAIN basket :
              basket[s].units \in Int /\ basket[s].lastPrice \in Int
        /\ totalCap(basket) \in Int /\ totalCap(basket) >= 1
    BY <2>0, <2>1, StruckBasket
  <2>4. Level[1] \in Int /\ Level[2] \in Nat \ {0}
    BY LevelBefore
  <2> HIDE DEF basket
  <2>5. totalCap(basket) * Level[2] \in Nat \ {0}
    <3>1. totalCap(basket) \in Nat \ {0}
      BY <2>3
    <3>2. QED
      BY <2>4, <3>1, MultipleAbove
  <2>6. state'.divisor[1] \in Nat \ {0} /\ state'.divisor[2] \in Int
    BY <2>2, <2>3, <2>4, <2>5
  <2>7. DOMAIN basket \subseteq Symbol
    BY <2>3 DEF Reconciled
  <2>8. QED
    BY <2>2, <2>3, <2>6, <2>7 DEF BasketInv
<1>5. QED
  BY <1>1, <1>2, <1>3, <1>4 DEF Next

\* Products of three numbers may be taken in any order.
LEMMA Reorder == \A a, b, t \in Int : a * (t * b) = (t * a) * b
  OBVIOUS

\* What a strike does to the level: the numerator and the denominator of the
\* fraction are multiplied by one positive number.
LEMMA StrikeScalesLevel ==
    ASSUME BasketInv, runRebalance
    PROVE  \E T \in Nat \ {0} :
              /\ state # None => Level' = <<T * Level[1], T * Level[2]>>
              /\ Level'[1] \in Int /\ Level'[2] \in Nat \ {0}
              /\ values'[state'.epoch] = toScaledValue(Level')
<1>0. PICK screened \in SUBSET Symbol :
        /\ Cardinality(Reconciled(screened)) >= MinNames
        /\ \E w \in Splits(Reconciled(screened)) : Strike(screened, w)
  BY DEF runRebalance
<1>1. PICK weights \in Splits(Reconciled(screened)) : Strike(screened, weights)
  BY <1>0
<1> DEFINE basket == unitsForWeights(weights)
           T == totalCap(basket)
<1>2. /\ state'.basket = basket /\ market' = market
      /\ state'.divisor = IF state = None THEN <<T, 1>> ELSE <<T * Level[2], Level[1]>>
      /\ values'[state'.epoch] = toScaledValue(level(basket, state'.divisor))
  BY <1>1, StrikeFacts
<1>3. previousCap(basket, Reconciled(Symbol)) = T /\ T \in Nat \ {0}
  <2>1. previousCap(basket, Reconciled(Symbol)) = T /\ T \in Int /\ T >= 1
    BY <1>0, <1>1, StruckBasket
  <2>2. QED
    BY <2>1
<1>4. Level[1] \in Int /\ Level[2] \in Nat \ {0}
  BY LevelBefore
<1>5. Level' = <<T * state'.divisor[2], state'.divisor[1]>>
  <2>1. Level' = <<previousCap(state.basket, Reconciled(Symbol))' * state'.divisor[2],
                   state'.divisor[1]>>
    BY DEF Level, previousBasketLevel
  <2>2. previousCap(state.basket, Reconciled(Symbol))' = T
    BY <1>2, <1>3 DEF previousCap, Reconciled, ValueOf
  <2>3. QED
    BY <2>1, <2>2
<1>6. level(basket, state'.divisor) = Level'
  BY <1>5 DEF level
<1> HIDE DEF T, basket
<1>7. state # None => Level' = <<T * Level[1], T * Level[2]>>
  BY <1>2, <1>5
<1>8. Level'[1] \in Int /\ Level'[2] \in Nat \ {0}
  <2>1. T * Level[1] \in Int /\ T * Level[2] \in Nat \ {0} /\ T * 1 \in Int
    BY <1>3, <1>4, MultipleAbove
  <2>2. CASE state = None
    BY <1>2, <1>3, <1>5, <2>1, <2>2
  <2>3. CASE state # None
    BY <1>7, <2>1, <2>3
  <2>4. QED
    BY <2>2, <2>3
<1>9. QED
  BY <1>2, <1>3, <1>6, <1>7, <1>8

\* A strike leaves the level where it was.
LEMMA StrikeKeepsLevel ==
    ASSUME BasketInv, state # None, runRebalance
    PROVE  Same(Level, Level')
<1>1. PICK T \in Nat \ {0} : Level' = <<T * Level[1], T * Level[2]>>
  BY StrikeScalesLevel
<1>2. Level[1] \in Int /\ Level[2] \in Int /\ T \in Int
  BY LevelBefore
<1>3. Level[1] * (T * Level[2]) = (T * Level[1]) * Level[2]
  BY <1>2, Reorder
<1>4. QED
  BY <1>1, <1>3 DEF Same

\* toScaledValue is to the nearest.
LEMMA ScaledIsNearest ==
    ASSUME NEW x, x[1] \in Int, x[2] \in Nat \ {0}
    PROVE  toScaledValue(x) \in Int /\ Nearest(toScaledValue(x), x)
<1> DEFINE n == ValueScale * x[1]
           d == x[2]
           q == (2 * n + d) \div (2 * d)
<1>1. n \in Int /\ d \in Nat \ {0} /\ 2 * n + d \in Int /\ 2 * d \in Nat \ {0}
  BY RebalanceAssumption
<1>2. \A a \in Int, y \in Nat \ {0} :
         a \div y \in Int /\ y * (a \div y) <= a /\ a < y * (a \div y) + y
  OBVIOUS
<1>3. 2 * ValueScale * x[1] = 2 * n
  BY RebalanceAssumption
<1>4. toScaledValue(x) = q
  BY <1>3 DEF toScaledValue
<1>5. Nearest(q, x) <=> -d <= 2 * (q * d - n) /\ 2 * (q * d - n) <= d
  BY DEF Nearest
<1> HIDE DEF n, d
<1>6. q \in Int /\ (2 * d) * q <= 2 * n + d /\ 2 * n + d < (2 * d) * q + 2 * d
  BY <1>1, <1>2
<1> HIDE DEF q
<1>7. (2 * d) * q = 2 * (q * d) /\ q * d \in Int
  BY <1>1, <1>6
<1>8. -d <= 2 * (q * d - n) /\ 2 * (q * d - n) <= d
  BY <1>1, <1>6, <1>7
<1>9. QED
  BY <1>4, <1>5, <1>6, <1>8

\* A value that is nearest to a fraction is nearest to it in lower terms.
LEMMA NearestInLowerTerms ==
    ASSUME NEW T \in Nat \ {0}, NEW v \in Int, NEW a \in Int, NEW b \in Nat \ {0},
           Nearest(v, <<T * a, T * b>>)
    PROVE  Nearest(v, <<a, b>>)
<1> DEFINE e == 2 * (v * b - ValueScale * a)
<1>1. ValueScale \in Int
  BY RebalanceAssumption
<1>2. e \in Int
  BY <1>1
<1>3. 2 * (v * (T * b) - ValueScale * (T * a)) = e * T
  BY <1>1
<1>4. -(T * b) <= e * T /\ e * T <= T * b
  BY <1>3 DEF Nearest
<1> HIDE DEF e
<1>5. \A p, q \in Int, t \in Nat \ {0} : p * t <= q * t => p <= q
  OBVIOUS
<1>6. -(T * b) = (-b) * T /\ T * b = b * T /\ -b \in Int
  OBVIOUS
<1>7. -b <= e /\ e <= b
  BY <1>2, <1>4, <1>5, <1>6
<1>8. QED
  BY <1>7 DEF e, Nearest

\* What a strike publishes is near the level before it and after it.
LEMMA StrikePublishesLevel ==
    ASSUME BasketInv, runRebalance
    PROVE  /\ Nearest(values'[state'.epoch], Level')
           /\ state # None => Nearest(values'[state'.epoch], Level)
<1>1. PICK T \in Nat \ {0} :
        /\ state # None => Level' = <<T * Level[1], T * Level[2]>>
        /\ Level'[1] \in Int /\ Level'[2] \in Nat \ {0}
        /\ values'[state'.epoch] = toScaledValue(Level')
  BY StrikeScalesLevel
<1> DEFINE v == values'[state'.epoch]
<1>2. v \in Int /\ Nearest(v, Level')
  BY <1>1, ScaledIsNearest
<1> HIDE DEF v
<1>3. ASSUME state # None PROVE Nearest(v, Level)
  <2>1. Level[1] \in Int /\ Level[2] \in Nat \ {0}
    BY LevelBefore
  <2>2. Nearest(v, <<T * Level[1], T * Level[2]>>)
    BY <1>1, <1>2, <1>3
  <2>3. Nearest(v, <<Level[1], Level[2]>>)
    BY <1>2, <2>1, <2>2, NearestInLowerTerms
  <2>4. QED
    BY <2>3 DEF Nearest
<1>4. QED
  BY <1>2, <1>3 DEF v

\* At the start there is no basket.
LEMMA BasketInit == Init => BasketInv
  BY DEF Init, None, BasketInv

-----------------------------------------------------------------------------
(* Types *)

\* What is held is held in positive units, and the level is not negative.
HoldingInv == TypeOK /\ state.divisor[2] >= 0

\* A capitalisation of terms that are not negative is not negative.
LEMMA CapNotNegative ==
    ASSUME NEW S \in SUBSET Symbol, NEW f \in [S -> Int], \A s \in S : f[s] >= 0
    PROVE  SumFunction(f) >= 0
<1>1. IsFiniteSet(S) /\ DOMAIN f = S /\ \A s \in S : f[s] \in Int /\ f[s] >= 0
  BY RebalanceAssumption, FS_Subset
<1>2. SumFunctionOnSet(f, S) \in Int /\ Cardinality(S) \in Nat
  BY <1>1, SumType, FS_CardinalityType
<1>3. 0 \in Int
  OBVIOUS
<1>4. SumFunctionOnSet(f, S) >= 0 * Cardinality(S)
  BY ONLY <1>1, <1>3, SumAtLeast
<1>5. QED
  BY <1>1, <1>2, <1>4 DEF SumFunction

\* A product of numbers that are not negative is not negative.
LEMMA ProductNotNegative == \A a, b \in Int : a >= 0 /\ b >= 0 => a * b \in Int /\ a * b >= 0
  OBVIOUS

\* The level is not negative.
LEMMA LevelNotNegative ==
    ASSUME BasketInv, HoldingInv
    PROVE  Level[1] >= 0
<1> DEFINE names == DOMAIN state.basket
           value == [s \in names |-> ValueOf(state.basket[s], s, Reconciled(Symbol))]
           cap == previousCap(state.basket, Reconciled(Symbol))
<1>1. names \in SUBSET Symbol
  BY DEF BasketInv
<1>2. ASSUME NEW s \in names PROVE value[s] \in Int /\ value[s] >= 0
  <2>1. /\ state.basket[s].units \in Nat /\ state.basket[s].lastPrice \in Nat
        /\ s \in Reconciled(Symbol) => market[s] \in Nat
    BY <1>1, PriceType, RebalanceAssumption DEF HoldingInv, TypeOK, Reconciled
  <2>2. QED
    BY <2>1, ProductNotNegative DEF ValueOf
<1>3. value \in [names -> Int]
  BY <1>2
<1>4. cap = SumFunction(value)
  BY DEF previousCap
<1> HIDE DEF names, value
<1>5. cap \in Int /\ cap >= 0
  BY <1>1, <1>2, <1>3, <1>4, CapType, CapNotNegative
<1>6. state.divisor[2] \in Int /\ state.divisor[2] >= 0
  BY DEF BasketInv, HoldingInv
<1>7. Level[1] = cap * state.divisor[2]
  BY DEF Level, previousBasketLevel
<1> HIDE DEF cap
<1>8. QED
  BY <1>5, <1>6, <1>7, ProductNotNegative

\* A level that is not negative has a value that is not.
LEMMA ScaledNotNegative ==
    ASSUME NEW x, x[1] \in Int, x[1] >= 0, x[2] \in Nat \ {0}
    PROVE  toScaledValue(x) \in Nat
<1> DEFINE n == 2 * ValueScale * x[1] + x[2]
           d == 2 * x[2]
<1>1. ValueScale * x[1] \in Int /\ ValueScale * x[1] >= 0
  BY RebalanceAssumption, ProductNotNegative
<1>2. 2 * ValueScale * x[1] = 2 * (ValueScale * x[1])
  BY RebalanceAssumption
<1>3. n \in Nat /\ d \in Nat \ {0}
  BY <1>1, <1>2
<1>4. toScaledValue(x) = n \div d
  BY DEF toScaledValue
<1> HIDE DEF n, d
<1>5. \A a \in Nat, b \in Nat \ {0} : a \div b \in Nat
  OBVIOUS
<1>6. QED
  BY <1>3, <1>4, <1>5

\* A strike publishes one value more and leaves the others.
LEMMA StrikeKeepsTypes == BasketInv /\ HoldingInv /\ runRebalance => HoldingInv'
<1> SUFFICES ASSUME BasketInv, HoldingInv, runRebalance PROVE HoldingInv'
  OBVIOUS
<1>0. PICK screened \in SUBSET Symbol :
        /\ Cardinality(Reconciled(screened)) >= MinNames
        /\ \E w \in Splits(Reconciled(screened)) : Strike(screened, w)
  BY DEF runRebalance
<1>1. PICK weights \in Splits(Reconciled(screened)) : Strike(screened, weights)
  BY <1>0
<1> DEFINE basket == unitsForWeights(weights)
           T == totalCap(basket)
<1>2. /\ state'.basket = basket /\ market' = market /\ state'.epoch = state.epoch + 1
      /\ state'.divisor = IF state = None THEN <<T, 1>> ELSE <<T * Level[2], Level[1]>>
      /\ values'[state'.epoch] = toScaledValue(level(basket, state'.divisor))
      /\ DOMAIN values' = 0..state'.epoch /\ failed' = FALSE
      /\ \A e \in 0..state.epoch : values'[e] = values[e]
  BY <1>1, StrikeFacts
<1>3. /\ DOMAIN basket \subseteq Reconciled(Symbol)
      /\ \A s \in DOMAIN basket :
            /\ basket[s].units \in Int /\ basket[s].units >= 1
            /\ basket[s].lastPrice \in Price
      /\ T \in Int /\ T >= 1
  BY <1>0, <1>1, StruckBasket
<1>4. Level[1] \in Int /\ Level[1] >= 0 /\ Level[2] \in Nat \ {0}
  BY LevelBefore, LevelNotNegative
<1> HIDE DEF T, basket
<1>5. /\ state'.divisor[1] \in Nat \ {0}
      /\ state'.divisor[2] \in Int /\ state'.divisor[2] >= 0
  <2>1. T * Level[2] \in Nat \ {0}
    BY <1>3, <1>4, MultipleAbove
  <2>2. QED
    BY <1>2, <1>3, <1>4, <2>1
<1>6. values'[state'.epoch] \in Nat
  <2>1. level(basket, state'.divisor) = <<T * state'.divisor[2], state'.divisor[1]>>
    BY DEF level, T
  <2>2. T * state'.divisor[2] \in Int /\ T * state'.divisor[2] >= 0
    BY <1>3, <1>5, ProductNotNegative
  <2>3. QED
    BY <1>2, <1>5, <2>1, <2>2, ScaledNotNegative
<1>7. /\ state.epoch \in -1..MaxEpoch /\ state.epoch < MaxEpoch /\ MaxEpoch \in Nat
      /\ DOMAIN values = 0..state.epoch /\ \A e \in DOMAIN values : values[e] \in Nat
  BY RebalanceAssumption DEF HoldingInv, TypeOK, runRebalance
<1>8. state'.epoch \in -1..MaxEpoch
  BY <1>2, <1>7
<1>9. ASSUME NEW e \in DOMAIN values' PROVE values'[e] \in Nat
  <2>1. e \in 0..state.epoch \/ e = state'.epoch
    BY <1>2, <1>7
  <2>2. QED
    BY <1>2, <1>6, <1>7, <2>1
<1>10. \A s \in DOMAIN basket :
         s \in Symbol /\ basket[s].units \in Nat \ {0} /\ basket[s].lastPrice \in Price
  BY <1>3 DEF Reconciled
<1>11. market' \in [Symbol -> Price \union {Unpriced}]
  BY <1>2 DEF BasketInv
<1>12. QED
  BY <1>2, <1>5, <1>8, <1>9, <1>10, <1>11 DEF HoldingInv, TypeOK

\* Types hold: most of all, over any number of epochs every holding stays of
\* whole positive units at a price the name once had, and no value published
\* is negative.
THEOREM TypeCorrect == Spec => []TypeOK
<1>1. Init => HoldingInv
  <2>1. SUFFICES ASSUME Init PROVE HoldingInv
    OBVIOUS
  <2>2. state.epoch = -1 /\ state.basket = << >> /\ state.divisor = <<1, 1>>
    BY <2>1 DEF Init, None
  <2>3. DOMAIN state.basket = {}
    BY <2>2
  <2>4. DOMAIN values = 0..state.epoch
    <3>1. DOMAIN values = {}
      BY <2>1 DEF Init
    <3>2. 0..state.epoch = {}
      BY <2>2
    <3>3. QED
      BY <3>1, <3>2
  <2>5. state.epoch \in -1..MaxEpoch
    BY <2>2, RebalanceAssumption
  <2>6. market \in [Symbol -> Price \union {Unpriced}] /\ failed \in BOOLEAN
    BY <2>1 DEF Init
  <2>7. values = << >> /\ DOMAIN values = {}
    BY <2>1 DEF Init
  <2>8. TypeOK
    BY <2>3, <2>4, <2>5, <2>6, <2>7 DEF TypeOK
  <2>9. QED
    BY <2>2, <2>8 DEF HoldingInv
<1>2. BasketInv /\ HoldingInv /\ [Next]_vars => HoldingInv'
  <2>1. SUFFICES ASSUME BasketInv, HoldingInv, [Next]_vars PROVE HoldingInv'
    OBVIOUS
  <2>2. CASE UNCHANGED vars
    BY <2>1, <2>2 DEF HoldingInv, TypeOK, vars
  <2>3. CASE RefuseToPublish
    BY <2>1, <2>3 DEF HoldingInv, TypeOK, RefuseToPublish
  <2>4. CASE MarketMoves
    BY <2>1, <2>4 DEF HoldingInv, TypeOK, MarketMoves
  <2>5. CASE runRebalance
    BY <2>1, <2>5, StrikeKeepsTypes
  <2>6. QED
    BY <2>1, <2>2, <2>3, <2>4, <2>5 DEF Next
<1>3. HoldingInv => TypeOK
  BY DEF HoldingInv
<1>4. QED
  BY <1>1, <1>2, <1>3, BasketInit, BasketStep, PTL DEF Spec

-----------------------------------------------------------------------------
(* The properties *)

\* Changing the constituents does not move the level: what a caller reads just
\* before an epoch and just after is the same, over any number of epochs, with
\* names leaving, coming and losing their price.
THEOREM LevelIsContinuous == Spec => Continuous
<1>1. BasketInv /\ [Next]_vars =>
        [state # None /\ state' # state => Same(Level, Level')]_vars
  <2>1. SUFFICES ASSUME BasketInv, Next, state # None, state' # state
                 PROVE  Same(Level, Level')
    OBVIOUS
  <2>2. runRebalance
    BY <2>1 DEF Next, RefuseToPublish, MarketMoves
  <2>3. QED
    BY <2>1, <2>2, StrikeKeepsLevel
<1>2. QED
  BY <1>1, BasketInit, BasketStep, PTL DEF Spec, Continuous

\* Every published value is to the nearest of the level before the epoch and
\* after it: rounding does not add up over the epochs.
THEOREM ValuesStayNearest == Spec => RoundingNeverAccumulates
<1>1. BasketInv /\ [Next]_vars =>
        [state' # state =>
           /\ Nearest(values'[state'.epoch], Level')
           /\ state # None => Nearest(values'[state'.epoch], Level)]_vars
  <2>1. SUFFICES ASSUME BasketInv, Next, state' # state
                 PROVE  /\ Nearest(values'[state'.epoch], Level')
                        /\ state # None => Nearest(values'[state'.epoch], Level)
    OBVIOUS
  <2>2. runRebalance
    BY <2>1 DEF Next, RefuseToPublish, MarketMoves
  <2>3. QED
    BY <2>1, <2>2, StrikePublishesLevel
<1>2. QED
  BY <1>1, BasketInit, BasketStep, PTL DEF Spec, RoundingNeverAccumulates
=============================================================================
