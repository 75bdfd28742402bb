----------------------------- MODULE ApiServer -----------------------------
(***************************************************************************)
(* The metered API: the boot sequence and basket cache of server.js, the   *)
(* freshness gate and the paid handlers of handlers.js, and /health of     *)
(* discovery.js, over MarketData.  A request passes the gate while it is   *)
(* free; the payment middleware then verifies and settles, which takes     *)
(* time; only then does the handler run.  The middleware is a library: as  *)
(* the comments of src/ describe it, it settles before the handler.        *)
(*                                                                         *)
(* state.json and the epoch directory appear as the published basket; how  *)
(* they are written is EpochStore's subject, how they are read             *)
(* IndexService's.  A read of them may fail, or find what does not parse.  *)
(* /v1/index/constituents is "latest"; /v1/assets/market is "quote".       *)
(***************************************************************************)
EXTENDS MarketData

CONSTANTS Request,      \* concurrent requests
          MaxStale,     \* priceMaxStaleSeconds
          PayMax,       \* bound: the longest settlement (maxTimeoutSeconds)
          MaxPublishes, \* bound: rebalances while the server runs
          TargetSize    \* METHODOLOGY.targetSize, the names of a basket

ASSUME ServerAssumption ==
    /\ MaxStale \in Nat /\ PayMax \in Nat /\ MaxPublishes \in Nat
    /\ TargetSize \in Nat
    /\ MaxStale + PayMax < MaxAge

VARIABLES
    boot,         \* progress of the process, from its configuration to listen
    basket,       \* the constituents in state.json; empty when none
    publishes,    \* rebalances since the server started
    stage,        \* where each request is
    ask,          \* what it asked for
    waited,       \* how long its payment has settled since it passed the gate
    reply         \* the status of the last answer, until the next arrives

serverVars == <<boot, basket, publishes>>
requestVars == <<stage, ask, waited, reply>>
allVars == <<marketVars, serverVars, requestVars>>

\* NEEDS_FRESH_PRICES: tick, /v1/assets/... and /v1/asset/...
NeedsFreshPrices == {"tick", "quote", "asset"}

\* Routes that answer from an epoch: an error when there is none.
FromEpoch == {"tick", "latest", "history"}

Route == NeedsFreshPrices \union FromEpoch \union {"list"}

\* What a caller may ask: a route, of an asset its symbol.  asListed: the path
\* is spelled as the route table has it.  The router and the payment middleware
\* look past its case; the patterns of NEEDS_FRESH_PRICES do not, and to no
\* other route does it matter.
Query == { q \in [route : Route, want : Symbol \union {"any"}, asListed : BOOLEAN] :
             /\ q.want \in (IF q.route = "asset" THEN Symbol ELSE {"any"})
             /\ q.route \in NeedsFreshPrices \/ q.asListed }

\* What the freshness gate looks at.
Gated(q) == q.route \in NeedsFreshPrices /\ q.asListed

Baskets == {b \in SUBSET Symbol : Cardinality(b) <= TargetSize}

NoAsk == [route |-> "list", want |-> "any", asListed |-> TRUE]

NoReply == 0
Statuses == {200, 400, 402, 404, 502, 503}

ServerTypeOK ==
    /\ MarketTypeOK
    /\ boot \in {"config", "routes", "facilitator", "basket", "market",
                 "basket2", "start", "listening", "exited"}
    /\ basket \in Baskets
    /\ publishes \in 0..MaxPublishes
    /\ stage \in [Request -> {"idle", "paying", "handling", "describing"}]
    /\ ask \in [Request -> Query]
    /\ waited \in [Request -> 0..PayMax]
    /\ reply \in [Request -> Statuses \union {NoReply}]

ServerInit ==
    /\ MarketInit /\ extraSymbols = {}
    /\ boot = "config"
    /\ basket \in Baskets
    /\ publishes = 0
    /\ stage = [r \in Request |-> "idle"]
    /\ ask = [r \in Request |-> NoAsk]
    /\ waited = [r \in Request |-> 0]
    /\ reply = [r \in Request |-> NoReply]

-----------------------------------------------------------------------------
(* Boot *)

\* loadApiConfig: an unknown network or no valid X402_PAY_TO throws.
LoadConfig ==
    /\ boot = "config"
    /\ boot' \in {"routes", "exited"}
    /\ UNCHANGED <<marketVars, basket, publishes, requestVars>>

\* assertRoutesDiscoverable, in createApp.
CheckRoutes ==
    /\ boot = "routes"
    /\ boot' \in {"facilitator", "exited"}
    /\ UNCHANGED <<marketVars, basket, publishes, requestVars>>

\* assertFacilitatorSupport: fatal when it fails.
CheckFacilitator ==
    /\ boot = "facilitator"
    /\ boot' \in {"basket", "exited"}
    /\ UNCHANGED <<marketVars, basket, publishes, requestVars>>

\* refreshBasketSymbols, before and after market.warm; no state is no basket,
\* and neither is one that cannot be read: the second read replaces the first.
RefreshBasket ==
    /\ boot \in {"basket", "basket2"}
    /\ extraSymbols' \in {basket, {}}
    /\ boot' = IF boot = "basket" THEN "market" ELSE "start"
    /\ UNCHANGED <<up, universe, prices, age, priceJob, priceSymbols, fundJob,
                   lastError, warm, basket, publishes, requestVars>>

\* market.warm resolves whatever its refreshes did, and never rejects.
MarketWarms ==
    /\ boot = "market"
    /\ \/ (WarmFundamentals \/ WarmPrices) /\ UNCHANGED boot
       \/ WarmDone /\ boot' = "basket2"
    /\ UNCHANGED <<basket, publishes, requestVars>>

\* Mutant: the clocks are not started.
Listen_NoStart ==
    /\ boot = "start" /\ boot' = "listening"
    /\ UNCHANGED <<marketVars, basket, publishes, requestVars>>

\* market.start, and then listen.
Listen ==
    /\ boot = "start"
    /\ start
    /\ boot' = "listening"
    /\ UNCHANGED <<basket, publishes, requestVars>>

\* The slots and the timers, on their own.
MarketRuns ==
    /\ \/ EndFundamentals \/ EndOwnFundamentals \/ EndQuotes
       \/ PriceTimer \/ FundamentalsTimer
    /\ UNCHANGED <<serverVars, requestVars>>

\* The rebalancer publishes an epoch; the server is not told.
Publish ==
    /\ publishes < MaxPublishes
    /\ publishes' = publishes + 1
    /\ basket' \in Baskets \ {{}, basket}
    /\ UNCHANGED <<marketVars, boot, requestVars>>

-----------------------------------------------------------------------------
(* Requests *)

InUniverse(s) == \E i \in DOMAIN universe : universe[i] = s

\* A request ends with its answer.
Answer(r, status) ==
    /\ stage' = [stage EXCEPT ![r] = "idle"]
    /\ ask' = [ask EXCEPT ![r] = NoAsk]
    /\ waited' = [waited EXCEPT ![r] = 0]
    /\ reply' = [reply EXCEPT ![r] = status]

\* Mutants: the gate forgets the null age; it forgets the limit.
Fresh_NoNull == IF age = Never THEN TRUE ELSE age <= MaxStale
Fresh_NoLimit == age # Never

\* The freshness gate's test, also /health's.
Fresh == age # Never /\ age <= MaxStale

\* /health is free, and says whether the data is fit to sell, unless it cannot
\* read the head.
Health(r) ==
    /\ boot = "listening"
    /\ stage[r] = "idle"
    /\ \E status \in {IF Fresh THEN 200 ELSE 503, 502} : Answer(r, status)
    /\ UNCHANGED <<marketVars, serverVars>>

\* A gated route is refused while its data is not fit to sell; any other
\* request goes on to be paid for.
Arrive(r) ==
    /\ boot = "listening"
    /\ stage[r] = "idle"
    /\ \E q \in Query :
          \/ /\ Gated(q) /\ ~Fresh
             /\ Answer(r, 503)
          \/ /\ Gated(q) => Fresh
             /\ stage' = [stage EXCEPT ![r] = "paying"]
             /\ ask' = [ask EXCEPT ![r] = q]
             /\ reply' = [reply EXCEPT ![r] = NoReply]
             /\ UNCHANGED waited
    /\ UNCHANGED <<marketVars, serverVars>>

\* The middleware answers 402: no payment, or one that does not verify.
PaymentRefused(r) ==
    /\ stage[r] = "paying"
    /\ Answer(r, 402)
    /\ UNCHANGED <<marketVars, serverVars>>

PaymentSettles(r) ==
    /\ stage[r] = "paying"
    /\ stage' = [stage EXCEPT ![r] = "handling"]
    /\ UNCHANGED <<ask, waited, reply, marketVars, serverVars>>

\* An epoch that does not exist, and an index that is not published yet.
ErrorStatus(route) == IF route = "history" THEN 404 ELSE 503

\* The routes whose file reads may throw; market's and asset's do not.
ReadsFiles == FromEpoch \union {"list"}

\* The routes that refuse a parameter: an epoch that is no natural number, a
\* list of no or too many symbols.
RefusesParameters == {"history", "quote"}

\* What a handler other than asset's may answer: the data or an error in their
\* place, as there is an epoch or not, and what the parameters and the file
\* reads may make of it.
Outcomes(route) ==
    LET data == IF route \in FromEpoch /\ basket = {} THEN ErrorStatus(route) ELSE 200
    IN  {data} \union {status \in {400, 404, 502} :
                          /\ status = 400 => route \in RefusesParameters
                          /\ status = 404 => route = "history"
                          /\ status = 502 => route \in ReadsFiles}

Handle(r) ==
    /\ stage[r] = "handling" /\ ask[r].route # "asset"
    /\ \E status \in Outcomes(ask[r].route) : Answer(r, status)
    /\ UNCHANGED <<marketVars, serverVars>>

\* assetFor, then an await of the index membership ...
LookUpAsset(r) ==
    /\ stage[r] = "handling" /\ ask[r].route = "asset"
    /\ \/ /\ ~InUniverse(ask[r].want)
          /\ Answer(r, 404)
       \/ /\ InUniverse(ask[r].want)
          /\ stage' = [stage EXCEPT ![r] = "describing"]
          /\ UNCHANGED <<ask, waited, reply>>
    /\ UNCHANGED <<marketVars, serverVars>>

\* ... and then the screen of the universe as it is by then: an asset that the
\* screen does not exclude, one that has left included, is called eligible.
DescribeAsset(r) ==
    /\ stage[r] = "describing"
    /\ Answer(r, 200)
    /\ UNCHANGED <<marketVars, serverVars>>

RequestStep(r) ==
    \/ PaymentRefused(r) \/ PaymentSettles(r)
    \/ Handle(r) \/ LookUpAsset(r) \/ DescribeAsset(r)

\* Time passes for the snapshot and for the payments under way, none of which
\* settles later than PayMax once it passed the gate; the handlers' file reads
\* take none.
Elapse ==
    /\ Tick
    /\ \A r \in Request : /\ stage[r] \in {"idle", "paying"}
                          /\ stage[r] = "paying" => waited[r] < PayMax
    /\ waited' = [r \in Request |->
                     IF stage[r] = "paying" /\ Gated(ask[r]) THEN waited[r] + 1
                                                              ELSE waited[r]]
    /\ UNCHANGED <<serverVars, stage, ask, reply>>

Outage == Upstream /\ UNCHANGED <<serverVars, requestVars>>

Boots == LoadConfig \/ CheckRoutes \/ CheckFacilitator \/ RefreshBasket \/ MarketWarms \/ Listen

ServerNext ==
    \/ Boots \/ MarketRuns \/ Publish \/ Elapse \/ Outage
    \/ \E r \in Request : Health(r) \/ Arrive(r) \/ RequestStep(r)

ServerSpec == ServerInit /\ [][ServerNext]_allVars

\* The event loop runs what is ready, and timers and fetches come back.
FairServerSpec ==
    /\ ServerSpec
    /\ WF_allVars(Boots)
    /\ WF_allVars(EndFundamentals /\ UNCHANGED <<serverVars, requestVars>>)
    /\ WF_allVars((EndOwnFundamentals \/ EndQuotes)
                     /\ UNCHANGED <<serverVars, requestVars>>)
    /\ WF_allVars(PriceTimer /\ UNCHANGED <<serverVars, requestVars>>)
    /\ WF_allVars(FundamentalsTimer /\ UNCHANGED <<serverVars, requestVars>>)

-----------------------------------------------------------------------------
(* Correctness *)

\* A request that was paid for, or whose payment was refused, is answered.
Answers(r) == stage[r] # "idle" /\ stage'[r] = "idle"

Sold(r) == Answers(r) /\ reply'[r] = 200

\* An answer that the gate let through and that was paid for is at most the
\* limit plus the settlement out of date, whatever happened to the snapshot in
\* between.
SoldNearlyFresh ==
    [][\A r \in Request :
         Sold(r) /\ Gated(ask[r]) =>
            age # Never /\ age <= MaxStale + PayMax]_allVars

\* A handler behind the gate runs only where there is a snapshot to read.
HandlerHasSnapshot ==
    \A r \in Request :
        stage[r] \in {"handling", "describing"} /\ Gated(ask[r]) =>
            age # Never /\ prices # {} /\ universe # <<>>

\* A server that read the basket at its boot has all of it in every price
\* refresh, whatever its names' rank, until a rebalance replaces it: the first
\* read comes before the first refresh, and nothing is in flight at the second.
BasketIsAskedFor ==
    publishes = 0 /\ extraSymbols # {} /\ priceJob = "quotes" =>
        basket \subseteq priceSymbols

\* Booting ends with the server listening, in an outage or out of one: both
\* refreshes of the warm-up may fail, and neither is waited for twice.
BootEnds == boot = "basket" ~> boot = "listening"

\* An outage heals by itself: once upstream is up for good a server that got
\* as far as listening has a fresh snapshot again and again, whatever state
\* the two slots were left in.
GateReopens == (<>[]up /\ <>(boot = "listening")) => []<>Fresh

\* The price slot settles.
EndsPrices == priceJob # "idle" /\ priceJob' = "idle"

\* While price refreshes keep failing, /health shows so again and again: the
\* successes of the other slot hide it for a while only.
PriceOutageShows ==
    (<>[][EndsPrices => ~up]_allVars /\ <>(boot = "listening")) =>
        []<>(lastError = "prices")

\* Once upstream is up for good, /health stops showing the error of either slot.
ErrorsClear == (<>[]up /\ <>(boot = "listening")) => <>[](lastError = "none")

-----------------------------------------------------------------------------
(* The inductive invariant *)

\* Nothing is fetched before boot comes to it, nor while boot reads the basket;
\* what was read then is the published basket or nothing, until a rebalance.
BootPart ==
    /\ boot \in {"config", "routes", "facilitator", "basket", "exited"} =>
          warm = "cold" /\ priceJob = "idle"
    /\ boot \in {"basket2", "start"} => warm = "done" /\ priceJob = "idle"
    /\ warm = "started" => boot = "listening"
    /\ boot \in {"market", "basket2", "start", "listening"} /\ publishes = 0 =>
          extraSymbols \in {basket, {}}

\* What a request that passed the gate relies on while it is paid for: an age
\* that grew no more than the settlement took.
GatePart ==
    \A r \in Request : stage[r] # "idle" /\ Gated(ask[r]) =>
        age # Never /\ age <= MaxStale + waited[r]

IInv ==
    ServerTypeOK /\ AgeMeansSnapshot /\ BootPart /\ GatePart /\ BasketIsAskedFor

-----------------------------------------------------------------------------
(* What the documentation says and the code does not do *)

\* server.js:166: "A cold start that cannot price anything must not begin
\* selling data."
ColdStartDoesNotListen == boot = "listening" => age # Never


\* config.js:116: "Fail a market read rather than serve a snapshot older than
\* this."
NothingStaleIsSold ==
    [][\A r \in Request :
         Sold(r) /\ Gated(ask[r]) => age <= MaxStale]_allVars

\* handlers.js:18: "Routes that cannot be served from a stale price snapshot".
\* A path in another case is such a route, and passes the gate all the same.
GateCoversRoutes ==
    \A r \in Request :
        stage[r] \in {"handling", "describing"}
        /\ ask[r].route \in NeedsFreshPrices => age # Never

\* server.js:69-70, before any rebalance: a basket that could not be read at
\* boot is not priced, the first read's success notwithstanding.
BasketIsKnown ==
    boot = "listening" /\ publishes = 0 => extraSymbols = basket

\* server.js:87-89: "any check that can refuse the request has to happen while
\* the request is still free".
RefusalIsFree ==
    [][\A r \in Request :
         Answers(r) /\ stage[r] # "paying" => reply'[r] = 200]_allVars

\* handlers.js:161-163: the asset's verdict is "a statement about rank" among
\* the candidates; an asset that has left is not one of them.
DescribedIsScreened ==
    \A r \in Request : stage[r] = "describing" => InUniverse(ask[r].want)

\* handlers.js:82: "we have never heard of this ticker" is what a quote says
\* of a symbol that has no price and is not in the universe.
UnknownIsUnheardOf ==
    \A s \in extraSymbols : Fresh => s \in prices \/ InUniverse(s)
=============================================================================
