------------------------------ MODULE Universe ------------------------------
(***************************************************************************)
(* From providers to constituents: collectFundamentals (fundamentals.js)   *)
(* merges the providers' rows by ticker, classify.js and screen()          *)
(* (weighting.js) decide what the index may contain.                       *)
(*                                                                         *)
(* The world is what the assets really are; a provider reports some of it, *)
(* or fails.  CoinGecko knows no listing date, CoinPaprika no 30-day       *)
(* change; both report the rest.  Changes are 0 (quiet) or 10 per cent;    *)
(* a name that says "wrapped" stands for every derivative and commodity.   *)
(***************************************************************************)
EXTENDS Medians, SequencesExt

CONSTANTS Asset, Ticker,
          Namesakes,      \* whether two assets may share a ticker
          Cap, Volume,    \* market caps and 24h volumes, in USD
          Age,            \* days since an asset was listed
          MinMarketCap, MinVolume, MinTurnoverBps, MinListingAge, TargetSize,
          Null

Provider == <<"coingecko", "coinpaprika">>
Quiet == 0
Loud == 10

ASSUME UniverseAssumption ==
    /\ IsFiniteSet(Asset) /\ IsFiniteSet(Ticker)
    /\ Cardinality(Asset) <= Cardinality(Ticker) \/ Namesakes
    /\ Cap \subseteq Nat \ {0} /\ Volume \subseteq Nat /\ Age \subseteq Nat
    /\ TargetSize \in Nat /\ MinListingAge \in Nat \ {0} /\ Null \notin Int
    /\ MinMarketCap \in Nat /\ MinVolume \in Nat /\ MinTurnoverBps \in Nat

\* stable: pegged, quiet in every window.  wrapped: its name or ticker is in one
\* of classify.js's tables.  quietWeek: quiet over 24h and 7d.
World == {w \in [ticker : Ticker, kind : {"coin", "stable", "wrapped"},
                 cap : Cap, volume : [{1, 2} -> Volume],
                 age : Age, quietWeek : BOOLEAN] :
             /\ w.kind = "stable" => w.quietWeek
             /\ w.kind = "wrapped" => ~w.quietWeek}

VARIABLES
    world,      \* what each asset is
    answers,    \* per provider: the assets it lists, or Null when it fails
    phase,      \* fetching, merged, screened
    universe,   \* the merged rows
    eligible,   \* the selected rows, largest first
    excluded    \* the reasons: a set of [symbol, reason]

vars == <<world, answers, phase, universe, eligible, excluded>>

Distinct(w) == \A a, b \in Asset : w[a].ticker = w[b].ticker => a = b

Init ==
    /\ world \in [Asset -> World]
    /\ Namesakes \/ Distinct(world)
    /\ answers \in [{1, 2} -> SUBSET Asset \union {Null}]
    /\ phase = "fetching"
    /\ universe = {}
    /\ eligible = << >>
    /\ excluded = {}

Selected == {eligible[i] : i \in DOMAIN eligible}

TypeOK ==
    /\ world \in [Asset -> World]
    /\ answers \in [{1, 2} -> SUBSET Asset \union {Null}]
    /\ phase \in {"fetching", "merged", "screened"}
    /\ \A row \in universe : row.symbol \in Ticker /\ row.named \in Asset
    /\ Selected \subseteq universe /\ Len(eligible) <= TargetSize
    /\ \A x \in excluded : x.symbol \in Ticker

-----------------------------------------------------------------------------
(* collectFundamentals *)

\* The row provider p has for asset a.  An asset listed for less than a week
\* has no 7-day change.
Row(p, a) ==
    LET w == world[a]
        short == IF w.age < 7 THEN Null ELSE IF w.quietWeek THEN Quiet ELSE Loud
    IN [asset |-> a, provider |-> p, cap |-> w.cap, volume |-> w.volume[p],
        age |-> IF p = 1 THEN Null ELSE w.age,
        short |-> short,
        month |-> IF p = 2 THEN Null ELSE IF w.kind = "stable" THEN Quiet ELSE Loud]

\* A ticker's rows in the order of the providers and, within one, of its list.
RowsOf(t) ==
    LET named == {a \in Asset : world[a].ticker = t}
        listed(p) == IF answers[p] = Null THEN << >>
                     ELSE [i \in 1..Cardinality(answers[p] \intersect named) |->
                             Row(p, SetToSeq(answers[p] \intersect named)[i])]
    IN listed(1) \o listed(2)

Known(rows, values) == {i \in DOMAIN rows : values[i] # Null}

\* pickChange: the median of what was reported, else null.
pickChange(rows, values) ==
    LET known == Known(rows, values) IN
    IF known = {} THEN Null ELSE Median2([i \in known |-> values[i]]) \div 2

\* Mutant: a provider that knows no date vouches for the age.
OldestAge_NullIsOld(rows) ==
    LET ages == {IF rows[i].age = Null THEN MinListingAge ELSE rows[i].age : i \in DOMAIN rows}
    IN CHOOSE x \in ages : \A y \in ages : y <= x

\* The oldest claim, else null.
OldestAge(rows) ==
    LET ages == {rows[i].age : i \in Known(rows, [i \in DOMAIN rows |-> rows[i].age])} IN
    IF ages = {} THEN Null ELSE CHOOSE x \in ages : \A y \in ages : y <= x

\* One merged row.  named: the asset its name is of, the first row's; ids: the
\* asset each provider's id denotes, the last row's.
Merged(t, rows) ==
    [symbol |-> t,
     named |-> rows[1].asset,
     cap2 |-> Median2([i \in DOMAIN rows |-> rows[i].cap]),
     volume2 |-> Median2([i \in DOMAIN rows |-> rows[i].volume]),
     age |-> OldestAge(rows),
     short |-> pickChange(rows, [i \in DOMAIN rows |-> rows[i].short]),
     month |-> pickChange(rows, [i \in DOMAIN rows |-> rows[i].month]),
     ids |-> {rows[i].asset : i \in
                 {j \in DOMAIN rows : \A k \in DOMAIN rows :
                    rows[k].provider = rows[j].provider => k <= j}}]

collectFundamentals ==
    /\ phase = "fetching"
    /\ phase' = "merged"
    /\ universe' = {Merged(t, RowsOf(t)) : t \in {u \in Ticker : RowsOf(u) # << >>}}
    /\ UNCHANGED <<world, answers, eligible, excluded>>

-----------------------------------------------------------------------------
(* classifyExclusion and screen *)

\* Mutant: a missing 30-day change vetoes the verdict.
looksLikeStablecoin_NullVetoes(row) == row.short = Quiet /\ row.month = Quiet

\* Quiet short windows, and a month that does not contradict them: the 30-day
\* veto only speaks when there is a 30-day change.
looksLikeStablecoin(row) == row.short = Quiet /\ row.month \in {Null, Quiet}

looksLikeDerivative(row) == world[row.named].kind = "wrapped"

\* The first rule a row fails, in the order of the code; "none" when it passes.
Reason(row) ==
    IF looksLikeDerivative(row) THEN "derivative"
    ELSE IF looksLikeStablecoin(row) THEN "stablecoin"
    ELSE IF row.short = Null THEN "unknown_volatility"
    ELSE IF row.cap2 < 2 * MinMarketCap THEN "market_cap"
    ELSE IF row.volume2 < 2 * MinVolume THEN "volume"
    ELSE IF row.volume2 * 10000 < MinTurnoverBps * row.cap2 THEN "turnover"
    ELSE IF row.age = Null THEN "unknown_listing_age"
    ELSE IF row.age < MinListingAge THEN "listing_age"
    ELSE "none"

\* Mutant: the first names are taken as they come.
Ranked_Unsorted(rows) == SetToSeqs(rows)

\* Largest first; among equals in the order they came in, which is any.
Ranked(rows) ==
    {s \in SetToSeqs(rows) : \A i, j \in DOMAIN s : i < j => s[i].cap2 >= s[j].cap2}

Room == TargetSize
Left(ranked) == {ranked[i].symbol : i \in DOMAIN ranked \ 1..Room}

screen ==
    /\ phase = "merged"
    /\ phase' = "screened"
    /\ \E ranked \in Ranked({row \in universe : Reason(row) = "none"}) :
          /\ eligible' = [i \in DOMAIN ranked \intersect 1..Room |-> ranked[i]]
          /\ excluded' =
                {[symbol |-> row.symbol, reason |-> Reason(row)] :
                    row \in {r \in universe : Reason(r) # "none"}}
                \union {[symbol |-> t, reason |-> "below_target_size"] :
                    t \in Left(ranked)}
    /\ UNCHANGED <<world, answers, universe>>

Next == collectFundamentals \/ screen

Spec == Init /\ [][Next]_vars

-----------------------------------------------------------------------------
(* Correctness *)

Bearers(t) == {a \in Asset : world[a].ticker = t}

\* Whatever combination of providers fails or omits the asset, nothing that has
\* its ticker to itself enters the index and is not a coin, big and old enough,
\* and traded enough by somebody's count: an outage can only take names away.
EligibleIsQualified ==
    \A row \in {s \in Selected : Bearers(s.symbol) = {s.named}} :
        LET w == world[row.named] IN
        /\ w.kind = "coin"
        /\ w.cap >= MinMarketCap
        /\ w.age >= MinListingAge
        /\ \E p \in {1, 2} : w.volume[p] >= MinVolume

\* Rows of two assets that share a ticker are merged, but not into something
\* that neither is: each thing that let the row in is true of one of its
\* bearers, and the one it is named after is no derivative.
NamesakesVouch ==
    \A row \in Selected :
        LET bearers == {world[a] : a \in Bearers(row.symbol)} IN
        /\ row.named \in Bearers(row.symbol) /\ world[row.named].kind # "wrapped"
        /\ \E w \in bearers : w.cap >= MinMarketCap
        /\ \E w \in bearers : w.age >= MinListingAge
        /\ \E w \in bearers : \E p \in {1, 2} : w.volume[p] >= MinVolume
        /\ \E w \in bearers : w.kind # "stable"

\* What is left out for want of room is no larger than what is in, and then
\* the index is full.
RankIsSound ==
    \A x \in excluded : x.reason = "below_target_size" =>
        /\ Len(eligible) = TargetSize
        /\ \A row \in universe : row.symbol = x.symbol =>
              \A s \in Selected : row.cap2 <= s.cap2

-----------------------------------------------------------------------------
(* What the documentation says and the code does not do *)

\* sources.js:59-61, of matching on tickers: "would silently price a wrapped
\* derivative as the real asset", which the provider ids are there to avoid.
PricedAsItself == \A row \in Selected : row.ids = {row.named}

\* classify.js:95-97, of the verdict without a 30-day change: it "applies to
\* the tail of the universe", and "the names that would actually be missed are
\* all covered".
BigNamesAreCovered ==
    \A x \in excluded : x.reason = "stablecoin" =>
        \A a \in Asset :
            /\ world[a].ticker = x.symbol
            /\ \A row \in universe : row.symbol # x.symbol => row.cap2 < 2 * world[a].cap
            => world[a].kind # "coin"
=============================================================================
