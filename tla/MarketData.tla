----------------------------- MODULE MarketData -----------------------------
(***************************************************************************)
(* The price cache of the API (packages/api/src/marketdata.js): two slots, *)
(* fundamentals and prices, each refreshed by its own timer and guarded so *)
(* that a refresh under way is shared.  Readers never wait: they read the  *)
(* last snapshot and its age.                                              *)
(*                                                                         *)
(* The universe is the sequence of its symbols, largest first, empty until *)
(* one was fetched; prices are the symbols that reached consensus.  Time   *)
(* is the age of the snapshot, which stops counting at MaxAge.  A refresh  *)
(* succeeds exactly when upstream is up as it ends, and it ends: every     *)
(* provider call has a timeout.                                            *)
(*                                                                         *)
(* The module has the cache's state and operations and what is true of     *)
(* them; the server that boots it and reads it, ApiServer, composes them   *)
(* into a specification.                                                   *)
(***************************************************************************)
EXTENDS Naturals, Sequences, FiniteSets

CONSTANTS Symbol,
          TopSize,    \* quoteUniverseSize
          MaxAge,     \* bound: ages beyond are the same
          Never       \* pricesAt === null

ASSUME SymbolAssumption == IsFiniteSet(Symbol) /\ Symbol # {}
ASSUME SizeAssumption == TopSize \in Nat \ {0} /\ MaxAge \in Nat
ASSUME NeverAssumption == Never \notin Nat

VARIABLES
    up,            \* whether the upstream providers answer usefully
    universe,      \* the fundamentals, ranked; the resolver exists with it
    prices,        \* the symbols of the price snapshot
    age,           \* now - pricesAt
    priceJob,      \* the price slot: idle, in its own fundamentals, in quotes
    priceSymbols,  \* what the price refresh in quotes asked for
    fundJob,       \* the fundamentals slot
    lastError,     \* the slot whose failure status() shows, or "none"
    warm,          \* progress of warm() and start()
    extraSymbols   \* what extraSymbols() returns: the server's basketSymbols

marketVars == <<up, universe, prices, age, priceJob, priceSymbols, fundJob,
                lastError, warm, extraSymbols>>

\* What collectFundamentals may return, sorted: some symbols, in some order.
Rankings == {s \in UNION {[1..n -> Symbol] : n \in 1..Cardinality(Symbol)} :
                \A i, j \in DOMAIN s : s[i] = s[j] => i = j}

MarketTypeOK ==
    /\ up \in BOOLEAN
    /\ universe \in Rankings \union {<<>>}
    /\ prices \in SUBSET Symbol
    /\ age = Never \/ age \in 0..MaxAge
    /\ priceJob \in {"idle", "fundamentals", "quotes"}
    /\ priceSymbols \in SUBSET Symbol
    /\ fundJob \in {"idle", "running"}
    /\ lastError \in {"none", "prices", "fundamentals"}
    /\ warm \in {"cold", "fundamentals", "prices", "done", "started"}
    /\ extraSymbols \in SUBSET Symbol

MarketInit ==
    /\ up \in BOOLEAN
    /\ universe = <<>>
    /\ prices = {}
    /\ age = Never
    /\ priceJob = "idle"
    /\ priceSymbols = {}
    /\ fundJob = "idle"
    /\ lastError = "none"
    /\ warm = "cold"
    /\ extraSymbols \in SUBSET Symbol

\* pricedSymbols: the basket first, then the largest names.  Mutant: the
\* largest names only.
pricedSymbols_TopOnly(ranking) ==
    {ranking[i] : i \in {j \in DOMAIN ranking : j <= TopSize}}
pricedSymbols(ranking) ==
    extraSymbols \union {ranking[i] : i \in {j \in DOMAIN ranking : j <= TopSize}}

-----------------------------------------------------------------------------
(* refreshFundamentals and refreshPrices, started and ended by a slot *)

\* guarded(refreshFundamentals): with one in flight there is nothing to do.
StartFundamentals ==
    /\ fundJob = "idle"
    /\ fundJob' = "running"
    /\ UNCHANGED <<up, universe, prices, age, priceJob, priceSymbols, lastError,
                   extraSymbols>>

\* guarded(refreshPrices): it fetches fundamentals itself when no resolver
\* exists yet, and captures the symbols when one does.
StartPrices ==
    /\ priceJob = "idle"
    /\ \/ /\ universe = <<>>
          /\ priceJob' = "fundamentals"
          /\ UNCHANGED priceSymbols
       \/ /\ universe # <<>>
          /\ priceJob' = "quotes"
          /\ priceSymbols' = pricedSymbols(universe)
    /\ UNCHANGED <<up, universe, prices, age, fundJob, lastError, extraSymbols>>

\* Mutant: the outcome is recorded only when it is a failure.
Settled_FailureOnly(slot, success) == IF success THEN lastError ELSE slot

\* Mutant: the outcome is recorded only when it is a success.
Settled_SuccessOnly(slot, success) == IF success THEN "none" ELSE lastError

\* What lastError is once a refresh of a slot has settled: either slot's
\* success clears it, whichever slot had failed.
Settled(slot, success) == IF success THEN "none" ELSE slot

\* Mutant: the providers' lists are joined without merging by symbol.
EndFundamentals_Duplicates ==
    /\ fundJob = "running"
    /\ fundJob' = "idle"
    /\ \E n \in 1..Cardinality(Symbol) : universe' \in [1..n -> Symbol]
    /\ UNCHANGED <<up, prices, age, priceJob, priceSymbols, lastError, warm,
                   extraSymbols>>

\* The fundamentals slot settles and is free again whatever the outcome.
EndFundamentals ==
    /\ fundJob = "running"
    /\ fundJob' = "idle"
    /\ lastError' = Settled("fundamentals", up)
    /\ IF up THEN universe' \in Rankings ELSE UNCHANGED universe
    /\ UNCHANGED <<up, prices, age, priceJob, priceSymbols, warm, extraSymbols>>

\* refreshPrices' own call of refreshFundamentals, outside guarded.
EndOwnFundamentals ==
    /\ priceJob = "fundamentals"
    /\ \/ /\ up
          /\ universe' \in Rankings
          /\ priceJob' = "quotes"
          /\ priceSymbols' = pricedSymbols(universe')
          /\ UNCHANGED lastError
       \/ /\ ~up
          /\ priceJob' = "idle"
          /\ lastError' = Settled("prices", FALSE)
          /\ UNCHANGED <<universe, priceSymbols>>
    /\ UNCHANGED <<up, prices, age, fundJob, warm, extraSymbols>>

\* Mutant: a failed refresh drops the snapshot.
EndQuotes_Clear ==
    /\ priceJob = "quotes"
    /\ priceJob' = "idle" /\ priceSymbols' = {}
    /\ lastError' = Settled("prices", up)
    /\ \/ /\ up
          /\ prices' \in (SUBSET priceSymbols) \ {{}}
          /\ age' = 0
       \/ ~up /\ prices' = {} /\ UNCHANGED age
    /\ UNCHANGED <<up, universe, fundJob, warm, extraSymbols>>

\* The price slot settles: a new snapshot stamped now, or the old one kept.
EndQuotes ==
    /\ priceJob = "quotes"
    /\ priceJob' = "idle" /\ priceSymbols' = {}
    /\ lastError' = Settled("prices", up)
    /\ \/ /\ up
          /\ prices' \in (SUBSET priceSymbols) \ {{}}
          /\ age' = 0
       \/ ~up /\ UNCHANGED <<prices, age>>
    /\ UNCHANGED <<up, universe, fundJob, warm, extraSymbols>>

-----------------------------------------------------------------------------
(* warm(), start() and the timers *)

WarmFundamentals ==
    /\ warm = "cold"
    /\ StartFundamentals
    /\ warm' = "fundamentals"

\* Mutant: warm waits for a universe.
WarmPrices_NeedsUniverse ==
    /\ warm = "fundamentals" /\ fundJob = "idle" /\ universe # <<>>
    /\ StartPrices
    /\ warm' = "prices"

\* warm goes on to prices whether or not the fundamentals arrived.
WarmPrices ==
    /\ warm = "fundamentals" /\ fundJob = "idle"
    /\ StartPrices
    /\ warm' = "prices"

WarmDone ==
    /\ warm = "prices" /\ priceJob = "idle"
    /\ warm' = "done"
    /\ UNCHANGED <<up, universe, prices, age, priceJob, priceSymbols, fundJob,
                   lastError, extraSymbols>>

start ==
    /\ warm = "done"
    /\ warm' = "started"
    /\ UNCHANGED <<up, universe, prices, age, priceJob, priceSymbols, fundJob,
                   lastError, extraSymbols>>

PriceTimer == warm = "started" /\ StartPrices /\ UNCHANGED warm
FundamentalsTimer == warm = "started" /\ StartFundamentals /\ UNCHANGED warm

Tick ==
    /\ age' = IF age = Never \/ age = MaxAge THEN age ELSE age + 1
    /\ UNCHANGED <<up, universe, prices, priceJob, priceSymbols, fundJob,
                   lastError, warm, extraSymbols>>

\* Upstream comes and goes.
Upstream ==
    /\ up' = ~up
    /\ UNCHANGED <<universe, prices, age, priceJob, priceSymbols, fundJob,
                   lastError, warm, extraSymbols>>

-----------------------------------------------------------------------------
(* Correctness *)

\* A non-null age, which is all the freshness gate looks at, means there is a
\* snapshot to serve and a universe it was priced from; quotes are asked for
\* only once the resolver that maps symbols to provider ids exists.
AgeMeansSnapshot ==
    /\ age # Never => prices # {} /\ universe # <<>>
    /\ priceJob = "quotes" => universe # <<>>

\* No failure takes anything away: once there is a snapshot there is one for
\* good, and between two successful refreshes it only ages.
SnapshotKept ==
    [][age # Never =>
         /\ age' # Never
         /\ age' # 0 => prices' = prices]_marketVars

-----------------------------------------------------------------------------
(* What the documentation says and the code does not do *)

\* marketdata.js:49: "In-flight refresh, so concurrent callers share one
\* upstream fetch".
OneFundamentalsFetch == ~(fundJob = "running" /\ priceJob = "fundamentals")
=============================================================================
