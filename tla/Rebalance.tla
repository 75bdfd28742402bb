----------------------------- MODULE Rebalance -----------------------------
(***************************************************************************)
(* The index over its epochs: runRebalance (rebalance.js) strikes a basket *)
(* and a divisor (index-math.js), prices move and go missing between       *)
(* strikes, and the tick route values the basket of the day.               *)
(*                                                                         *)
(* Arithmetic is exact.  Weights are Parts of the notional, in any split   *)
(* (how they follow from market caps is Weighting's subject); Notional is  *)
(* a multiple of every price, so that units are integers; the base level   *)
(* is 1.  A level or a divisor is a fraction <<numerator, denominator>>; a *)
(* published value is an integer, in units of 1/ValueScale.                *)
(***************************************************************************)
EXTENDS Integers, FiniteSets, Functions

CONSTANTS Symbol,
          Price,       \* the prices an asset may have
          Unpriced,    \* no consensus
          Parts,       \* the weights of a basket add up to this
          Scale,       \* Notional / Parts
          ValueScale,  \* VALUE_SCALE
          MinNames,    \* fewest names the concentration cap allows
          MaxEpoch     \* bound

Notional == Parts * Scale

ASSUME RebalanceAssumption ==
    /\ IsFiniteSet(Symbol) /\ Price \subseteq Nat \ {0} /\ Unpriced \notin Int
    /\ Parts \in Nat \ {0} /\ MinNames \in Nat \ {0} /\ MaxEpoch \in Nat
    /\ ValueScale \in Nat \ {0}
    /\ Scale \in Nat \ {0} /\ \A p \in Price : Scale % p = 0

VARIABLES
    market,    \* each asset's consensus price
    state,     \* the continuity state: epoch, basket and divisor
    values,    \* the values published, by epoch
    failed     \* whether the last rebalance threw

vars == <<market, state, values, failed>>

None == [epoch |-> -1, basket |-> << >>, divisor |-> <<1, 1>>]

TypeOK ==
    /\ market \in [Symbol -> Price \union {Unpriced}]
    /\ state.epoch \in -1..MaxEpoch
    /\ DOMAIN state.basket \subseteq Symbol
    /\ \A s \in DOMAIN state.basket :
          state.basket[s].units \in Nat \ {0} /\ state.basket[s].lastPrice \in Price
    /\ DOMAIN values = 0..state.epoch
    /\ \A e \in DOMAIN values : values[e] \in Nat
    /\ failed \in BOOLEAN

Init ==
    /\ market \in [Symbol -> Price \union {Unpriced}]
    /\ state = None
    /\ values = << >>
    /\ failed = FALSE

-----------------------------------------------------------------------------
(* index-math.js *)

\* The prices reconciled for the symbols asked.
Reconciled(symbols) == {s \in symbols : market[s] # Unpriced}

\* A name of the previous basket, carried at its last price without one.
ValueOf(c, s, priced) == IF s \in priced THEN market[s] * c.units
                         ELSE c.lastPrice * c.units

\* previousCap.
previousCap(basket, priced) ==
    SumFunction([s \in DOMAIN basket |-> ValueOf(basket[s], s, priced)])

\* previousBasketLevel, as a fraction.
previousBasketLevel(basket, priced, divisor) ==
    <<previousCap(basket, priced) * divisor[2], divisor[1]>>

\* totalCap: every name of a new basket has a price.
totalCap(basket) ==
    SumFunction([s \in DOMAIN basket |-> market[s] * basket[s].units])

unitsForWeights(weights) ==
    [s \in DOMAIN weights |->
        [units |-> (Scale * weights[s]) \div market[s], lastPrice |-> market[s]]]

rebalanceDivisor(basket, previous) ==
    <<totalCap(basket) * previous[2], previous[1]>>

\* Mutant: the new basket under the old divisor.
level_OldDivisor(basket, divisor) ==
    <<totalCap(basket) * state.divisor[2], state.divisor[1]>>

level(basket, divisor) == <<totalCap(basket) * divisor[2], divisor[1]>>

\* Mutant: the digits that do not fit are cut off.
toScaledValue_Truncates(x) == (ValueScale * x[1]) \div x[2]

\* toFixed to the scale's digits, to the nearest; a level is positive.
toScaledValue(x) == (2 * ValueScale * x[1] + x[2]) \div (2 * x[2])

-----------------------------------------------------------------------------
(* rebalance.js *)

\* Any split of the notional among names, each with a positive weight.
Splits(names) == {w \in [names -> 1..Parts] : SumFunction(w) = Parts}

\* Mutant: only the incoming names are priced.
toPrice_NewOnly(screened) == screened

\* The incoming constituents and the outgoing basket.
toPrice(screened) == screened \union DOMAIN state.basket

\* runRebalance of a screened selection, and cli.js saving what it returns.
Strike(screened, weights) ==
    LET priced == Reconciled(toPrice(screened))
        basket == unitsForWeights(weights)
        previousLevel == previousBasketLevel(state.basket, priced, state.divisor)
        divisor == IF state = None THEN <<totalCap(basket), 1>>
                   ELSE rebalanceDivisor(basket, previousLevel)
        epoch == state.epoch + 1
    IN /\ state' = [epoch |-> epoch, basket |-> basket, divisor |-> divisor]
       /\ values' = [e \in 0..epoch |->
             IF e < epoch THEN values[e]
             ELSE toScaledValue(level(basket, divisor))]
       /\ failed' = FALSE
       /\ UNCHANGED market

\* Enough of what was screened could be priced.
runRebalance ==
    /\ state.epoch < MaxEpoch
    /\ \E screened \in SUBSET Symbol :
          /\ Cardinality(Reconciled(screened)) >= MinNames
          /\ \E weights \in Splits(Reconciled(screened)) : Strike(screened, weights)

\* Nothing passed the screen, nothing could be priced, or too little for the
\* cap: nothing is published.
RefuseToPublish ==
    /\ state.epoch < MaxEpoch
    /\ \E screened \in SUBSET Symbol : Cardinality(Reconciled(screened)) < MinNames
    /\ failed' = TRUE
    /\ UNCHANGED <<market, state, values>>

\* One asset's price moves, or is lost, or comes back.
MarketMoves ==
    /\ \E s \in Symbol, p \in Price \union {Unpriced} : market' = [market EXCEPT ![s] = p]
    /\ UNCHANGED <<state, values, failed>>

Next == runRebalance \/ RefuseToPublish \/ MarketMoves

Spec == Init /\ [][Next]_vars

-----------------------------------------------------------------------------
(* Correctness *)

Same(x, y) == x[1] * y[2] = y[1] * x[2]

\* The level of the tick route, with whatever the market prices.
Level == previousBasketLevel(state.basket, Reconciled(Symbol), state.divisor)

\* "Changing the constituent set does not, by itself, move the level"
\* (index-math.js:5-7): what a caller reads just before an epoch and just after
\* is the same, names that left, came or lost their price included.
Continuous == [][state # None /\ state' # state => Same(Level, Level')]_vars

\* Twice the distance of the value v from the level x is at most one unit.
Nearest(v, x) ==
    LET err == 2 * (v * x[2] - ValueScale * x[1]) IN -x[2] <= err /\ err <= x[2]

\* What an epoch publishes is within half a unit of what the tick route showed
\* just before, and shows just after, from the old state and from the new: the
\* chain runs on the divisor, and rounding the values never adds up.
RoundingNeverAccumulates ==
    [][state' # state =>
         /\ Nearest(values'[state'.epoch], Level')
         /\ state # None => Nearest(values'[state'.epoch], Level)]_vars

-----------------------------------------------------------------------------
(* What the documentation says and the code does not do *)

\* index-math.js:28-30: "it is carried at its last known price, not dropped".
CarriedAtLastKnown ==
    [][ /\ UNCHANGED state /\ market' # market
        /\ \E s \in DOMAIN state.basket : market[s] # Unpriced /\ market'[s] = Unpriced
        => Same(Level, Level') ]_vars
=============================================================================
