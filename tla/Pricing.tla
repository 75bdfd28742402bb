------------------------------ MODULE Pricing ------------------------------
(***************************************************************************)
(* One asset's consensus price: collectQuotes (sources.js) asks every      *)
(* source at once and keeps what arrives; reconcile (prices.js) takes the  *)
(* median, drops outliers and prices the asset from what is left.          *)
(*                                                                         *)
(* Prices are integers and deviations are compared exactly; a median is    *)
(* kept doubled, so that the mean of two middle quotes stays an integer.   *)
(* The rounding of floating point at the very tolerance is left out.       *)
(***************************************************************************)
EXTENDS Medians, Functions

CONSTANTS Source,            \* the configured sources
          Exchange,          \* those of kind "exchange"; the rest aggregate
          Amount,            \* what a source may quote
          MinSources,        \* methodology.pricing.minSources
          MaxDeviationBps,   \* methodology.pricing.maxDeviationBps
          Missing, Failed    \* no quote for this asset; the source rejected

ASSUME PricingAssumption ==
    /\ IsFiniteSet(Source) /\ Exchange \subseteq Source
    /\ Amount \subseteq Int
    /\ MinSources \in Nat \ {0} /\ MaxDeviationBps \in Nat
    /\ Missing \notin Int /\ Failed \notin Int /\ Missing # Failed

VARIABLES
    phase,     \* asked, collected, reconciled
    results,   \* what each source came back with
    quotes,    \* quotesBySymbol of the asset: a price for each that quoted
    errors,    \* sourceErrors
    verdict    \* the reconciled price, or the reason there is none

vars == <<phase, results, quotes, errors, verdict>>

\* price2: twice the price, of what was priced.
Verdict ==
    [reason : {"none"}, price2 : Nat \ {0}, sources : (SUBSET Source) \ {{}}]
    \union [reason : {"pending", "too_few_sources", "no_consensus"},
            price2 : {0}, sources : SUBSET Source]

Pending == [reason |-> "pending", price2 |-> 0, sources |-> {}]

TypeOK ==
    /\ phase \in {"asked", "collected", "reconciled"}
    /\ results \in [Source -> Amount \union {Missing, Failed}]
    /\ DOMAIN quotes \subseteq Source
    /\ \A s \in DOMAIN quotes : quotes[s] \in Amount
    /\ errors \subseteq Source
    /\ verdict \in Verdict

Init ==
    /\ phase = "asked"
    /\ results \in [Source -> Amount \union {Missing, Failed}]
    /\ quotes = << >>
    /\ errors = {}
    /\ verdict = Pending

-----------------------------------------------------------------------------

Usable(q) == {s \in DOMAIN q : q[s] > 0}

Magnitude(n) == IF n < 0 THEN -n ELSE n

\* Whether the price p is within the tolerance of half of ref2.
Within(p, ref2) == Magnitude(2 * p - ref2) * 10000 <= MaxDeviationBps * ref2

Only(q, S) == [s \in S |-> q[s]]

\* Mutants: the upper of two middle quotes; the mean.
Reference2_Upper(q) == 2 * Nth(q, Cardinality(DOMAIN q) \div 2 + 1)
Reference2_Mean(q) == (2 * SumFunction(q)) \div Cardinality(DOMAIN q)

\* What quotes are held against: the median, which one outlier cannot drag.
Reference2(q) == Median2(q)

\* reconcile.
Reconciled(q) ==
    LET usable == Only(q, Usable(q))
        kept == Only(q, {s \in Usable(q) : Within(q[s], Reference2(usable))})
        Rejected(why) == [reason |-> why, price2 |-> 0, sources |-> Usable(q)]
    IN IF Cardinality(Usable(q)) < MinSources THEN Rejected("too_few_sources")
       ELSE IF Cardinality(DOMAIN kept) < MinSources THEN Rejected("no_consensus")
       ELSE [reason |-> "none", price2 |-> Median2(kept), sources |-> DOMAIN kept]

\* Mutant: one rejection rejects them all, as Promise.all would.
Collect_All ==
    /\ phase = "asked" /\ phase' = "collected"
    /\ errors' = {s \in Source : results[s] = Failed}
    /\ quotes' = IF errors' # {} THEN << >>
                 ELSE Only(results, {s \in Source : results[s] \in Amount})
    /\ UNCHANGED <<results, verdict>>

\* collectQuotes: every source settles, whatever the others do.
Collect ==
    /\ phase = "asked" /\ phase' = "collected"
    /\ quotes' = Only(results, {s \in Source : results[s] \in Amount})
    /\ errors' = {s \in Source : results[s] = Failed}
    /\ UNCHANGED <<results, verdict>>

Reconcile ==
    /\ phase = "collected" /\ phase' = "reconciled"
    /\ verdict' = Reconciled(quotes)
    /\ UNCHANGED <<results, quotes, errors>>

Next == Collect \/ Reconcile

Spec == Init /\ [][Next]_vars

-----------------------------------------------------------------------------
(* Correctness *)

Priced == verdict.reason = "none"

\* Who answered with a usable price, as the sources themselves know it.
Answered == {s \in Source : results[s] \in Amount /\ results[s] > 0}

\* The answers of S agree: the dearest is within the tolerance of the cheapest.
Agree(S) ==
    \A s, t \in S :
        (results[s] - results[t]) * 10000 <= MaxDeviationBps * results[t]

\* "No single venue can move the index" (prices.js:4): when at least two of
\* the usable answers, all but one, agree, the one can say what it likes: the
\* asset is priced, and within the range of the others.
OneVenueCannotMove ==
    \A bad \in Answered :
        LET honest == Answered \ {bad} IN
        phase = "reconciled" /\ Cardinality(honest) >= MinSources
            /\ Cardinality(honest) >= 2 /\ Agree(honest)
        => /\ Priced
           /\ \E s \in honest : 2 * results[s] <= verdict.price2
           /\ \E s \in honest : verdict.price2 <= 2 * results[s]

\* A dead or wrong source is normal rather than fatal: while more than half of
\* the usable answers agree, and are enough, the asset is priced from them.
MajorityIsPriced ==
    \A S \in SUBSET Answered :
        /\ phase = "reconciled"
        /\ Cardinality(S) >= MinSources
        /\ 2 * Cardinality(S) > Cardinality(Answered)
        /\ Agree(S)
        => Priced /\ S \subseteq verdict.sources

\* Half of the usable answers, if they agree, are never overruled by the other
\* half: two exchanges against two aggregators are heard, or nobody is priced.
HalfIsHeard ==
    \A S \in SUBSET Answered :
        phase = "reconciled" /\ 2 * Cardinality(S) >= Cardinality(Answered)
            /\ Agree(S) /\ S # {} /\ Priced
        => S \intersect verdict.sources # {}

-----------------------------------------------------------------------------
(* What the documentation says and the code does not do *)

\* README.md:103: "At least one real exchange is required in the mix".
ConsensusHasExchange == Priced => verdict.sources \intersect Exchange # {}
=============================================================================
