----------------------------- MODULE Weighting -----------------------------
(***************************************************************************)
(* Weights of the selected assets (packages/engine/src/weighting.js):      *)
(* weight() caps the market-cap shares pass by pass, toBasisPoints rounds  *)
(* the result to basis points that sum to 10000.                           *)
(*                                                                         *)
(* Market caps are integers, and a weight is the exact fraction that the   *)
(* code approximates in floating point (its 1e-12 slack included): a       *)
(* capped name has the cap, a free one its share, among the free ones, of  *)
(* what the capped ones leave.  Names come as screen() selects them: the   *)
(* largest market cap first.                                               *)
(***************************************************************************)
EXTENDS Integers, Sequences, FiniteSets, Functions

CONSTANTS Names,       \* how many assets may be selected
          MarketCap,   \* the market caps they may have
          CapBps       \* methodology.concentrationCapBps

Total == 10000

ASSUME WeightingAssumption ==
    /\ Names \in Nat \ {0} /\ MarketCap \subseteq Nat \ {0}
    /\ CapBps \in 1..Total

VARIABLES
    caps,     \* the assets' market caps, in falling order
    pc,       \* "start", "pass", "round", "done", or "error"
    pass,     \* passes made
    capped,   \* the capped names
    bps       \* the published weights

vars == <<caps, pc, pass, capped, bps>>

Assets == DOMAIN caps

Selections == {c \in UNION {[1..n -> MarketCap] : n \in 1..Names} :
                  \A i, j \in DOMAIN c : i <= j => c[i] >= c[j]}

SumOver(f, S) == SumFunctionOnSet(f, S)

TypeOK ==
    /\ caps \in Selections
    /\ pc \in {"start", "pass", "round", "done", "error"}
    /\ pass \in 0..Names
    /\ capped \subseteq Assets
    /\ bps \in [Assets -> 0..Total]

Init ==
    /\ caps \in Selections
    /\ pc = "start"
    /\ pass = 0
    /\ capped = {}
    /\ bps = [i \in Assets |-> 0]

-----------------------------------------------------------------------------

\* The weight of i, as numerator and denominator in basis points, once the
\* names in C are capped.
Numerator(i, C) == IF i \in C THEN CapBps
                   ELSE caps[i] * (Total - Cardinality(C) * CapBps)
Denominator(i, C) == IF i \in C THEN 1 ELSE SumOver(caps, Assets \ C)

\* Names over the cap and not capped yet.
breaching(C) ==
    {i \in Assets \ C : Numerator(i, C) > CapBps * Denominator(i, C)}

\* A cap below an equal split cannot be met.
Start ==
    /\ pc = "start"
    /\ pc' = IF CapBps * Len(caps) < Total THEN "error" ELSE "pass"
    /\ UNCHANGED <<caps, pass, capped, bps>>

\* Mutants: one pass only; only the largest name is capped.
Pass_Once ==
    /\ pc = "pass"
    /\ capped' = capped \union breaching(capped)
    /\ pass' = pass + 1
    /\ pc' = "round"
    /\ UNCHANGED <<caps, bps>>
Pass_Largest ==
    /\ pc = "pass"
    /\ LET most == {i \in Assets : \A j \in Assets : caps[j] <= caps[i]} IN
          capped' = IF breaching(capped) = {} THEN capped ELSE capped \union most
    /\ pass' = pass + 1
    /\ pc' = "round"
    /\ UNCHANGED <<caps, bps>>

\* One pass: cap whoever breaches, and let the free names absorb the excess.
Pass ==
    /\ pc = "pass"
    /\ \/ /\ pass < Len(caps) /\ breaching(capped) # {}
          /\ capped' = capped \union breaching(capped)
          /\ pass' = pass + 1
          /\ UNCHANGED pc
       \/ /\ pass = Len(caps) \/ breaching(capped) = {}
          /\ pc' = "round"
          /\ UNCHANGED <<capped, pass>>
    /\ UNCHANGED <<caps, bps>>

\* Math.round of a fraction that is not negative.
Round(n, d) == (2 * n + d) \div (2 * d)

Rounded == [i \in Assets |-> Round(Numerator(i, capped), Denominator(i, capped))]

\* Mutant: the residual with the wrong sign.
Residual_Flipped == SumOver(Rounded, Assets) - Total

Residual == Total - SumOver(Rounded, Assets)

\* The first of the names with the largest rounded weight.
Largest(r) ==
    CHOOSE i \in Assets : \A j \in Assets : r[j] < r[i] \/ (r[j] = r[i] /\ i <= j)

toBasisPoints ==
    /\ pc = "round"
    /\ bps' = [Rounded EXCEPT ![Largest(Rounded)] = @ + Residual]
    /\ pc' = "done"
    /\ UNCHANGED <<caps, pass, capped>>

Next == Start \/ Pass \/ toBasisPoints

Spec == Init /\ [][Next]_vars

-----------------------------------------------------------------------------
(* Correctness *)

\* Reference: a set of names that can be capped and leave nobody over the cap:
\* the largest names, no more of them than the caps can pay for.
Settles(C) ==
    /\ \A i \in C, j \in Assets \ C : caps[i] >= caps[j]
    /\ Cardinality(C) * CapBps <= Total
    /\ breaching(C) = {}

\* The passes end where they should: nobody is left over the cap, and they
\* capped no name that a smaller such set would have spared.
CapsExactlyTheBreaching ==
    pc \in {"round", "done"} =>
        /\ Settles(capped)
        /\ \A C \in SUBSET Assets : Settles(C) => capped \subseteq C

\* Before rounding, weights are ordered as market caps are: a larger name
\* never weighs less, whichever pass capped whom.
OrderKept ==
    pc \in {"round", "done"} =>
        \A i, j \in Assets : caps[i] >= caps[j] =>
            Numerator(i, capped) * Denominator(j, capped)
                >= Numerator(j, capped) * Denominator(i, capped)

\* What is published sums to exactly one.  Rounding moves every name but the
\* one that takes the residual by at most half a basis point, and that one by
\* at most half of one per name.
RoundingIsSmall ==
    pc = "done" =>
      /\ SumOver(bps, Assets) = Total
      /\ \A i \in Assets :
        LET d == Denominator(i, capped)
            err == 2 * (bps[i] * d - Numerator(i, capped))
            bound == IF i = Largest(Rounded) THEN d * Len(caps) ELSE d
        IN -bound <= err /\ err <= bound

-----------------------------------------------------------------------------
(* What the documentation says and the code does not do *)

\* methodology.js:26: "No single name may exceed this share, applied
\* iteratively" - of what is published.
PublishedWithinCap == pc = "done" => \A i \in Assets : bps[i] <= CapBps
=============================================================================
