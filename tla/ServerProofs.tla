---------------------------- MODULE ServerProofs ----------------------------
(***************************************************************************)
(* Proofs about ApiServer for every value of its constants: any number of  *)
(* requests, symbols and rebalances, and any settlement time.              *)
(***************************************************************************)
EXTENDS ApiServer, FiniteSetTheorems, TLAPS

-----------------------------------------------------------------------------
(* The price cache *)

\* A ranking names at least one symbol, and symbols only.
LEMMA RankingShape ==
    \A s \in Rankings : s # <<>> /\ \A i \in DOMAIN s : s[i] \in Symbol
<1>1. SUFFICES ASSUME NEW s \in Rankings
               PROVE  s # <<>> /\ \A i \in DOMAIN s : s[i] \in Symbol
  OBVIOUS
<1>2. Cardinality(Symbol) \in Nat
  BY SymbolAssumption, FS_CardinalityType
<1>3. PICK n \in 1..Cardinality(Symbol) : s \in [1..n -> Symbol]
  BY DEF Rankings
<1>4. 1 \in DOMAIN s
  BY <1>2, <1>3
<1>5. DOMAIN <<>> = {}
  OBVIOUS
<1>6. QED
  BY <1>3, <1>4, <1>5

\* What a refresh asks for are symbols, the ones of the basket among them.
LEMMA PricedSymbols ==
    ASSUME extraSymbols \in SUBSET Symbol, NEW s \in Rankings
    PROVE  /\ pricedSymbols(s) \in SUBSET Symbol
           /\ extraSymbols \subseteq pricedSymbols(s)
  BY RankingShape DEF pricedSymbols

\* The cache's types, and what a non-null age means.
MarketInv == MarketTypeOK /\ AgeMeansSnapshot

\* Everything that happens to the cache apart from a new basket.
CacheStep ==
    \/ WarmFundamentals \/ WarmPrices \/ WarmDone \/ start
    \/ EndFundamentals \/ EndOwnFundamentals \/ EndQuotes
    \/ PriceTimer \/ FundamentalsTimer \/ Tick \/ Upstream

\* A price refresh that starts has a universe, or fetches one first.
LEMMA StartPricesInv ==
    ASSUME MarketInv, StartPrices,
           warm' \in {"cold", "fundamentals", "prices", "done", "started"}
    PROVE  MarketInv'
<1>1. CASE universe = <<>>
  BY <1>1 DEF MarketInv, MarketTypeOK, AgeMeansSnapshot, StartPrices
<1>2. CASE universe # <<>>
  <2>1. universe \in Rankings /\ extraSymbols \in SUBSET Symbol
    BY <1>2 DEF MarketInv, MarketTypeOK
  <2>2. pricedSymbols(universe) \in SUBSET Symbol
    BY <2>1, PricedSymbols
  <2>3. QED
    BY <1>2, <2>2 DEF MarketInv, MarketTypeOK, AgeMeansSnapshot, StartPrices
<1>3. QED
  BY <1>1, <1>2

\* A fundamentals refresh that starts touches nothing else.
LEMMA StartFundamentalsInv ==
    ASSUME MarketInv, StartFundamentals,
           warm' \in {"cold", "fundamentals", "prices", "done", "started"}
    PROVE  MarketInv'
  BY DEF MarketInv, MarketTypeOK, AgeMeansSnapshot, StartFundamentals

\* What settling makes of lastError is one of its values.
LEMMA SettledType ==
    ASSUME lastError \in {"none", "prices", "fundamentals"},
           NEW slot \in {"prices", "fundamentals"}, NEW success \in BOOLEAN
    PROVE  Settled(slot, success) \in {"none", "prices", "fundamentals"}
  BY DEF Settled

\* A fundamentals refresh that ends replaces the universe by one, or keeps it.
LEMMA EndFundamentalsInv == MarketInv /\ EndFundamentals => MarketInv'
<1> SUFFICES ASSUME MarketInv, EndFundamentals PROVE MarketInv'
  OBVIOUS
<1>1. lastError' \in {"none", "prices", "fundamentals"}
  BY SettledType DEF MarketInv, MarketTypeOK, EndFundamentals
<1>2. /\ universe' \in Rankings \union {<<>>}
      /\ universe # <<>> => universe' # <<>>
  BY RankingShape DEF MarketInv, MarketTypeOK, EndFundamentals
<1>3. QED
  BY <1>1, <1>2 DEF MarketInv, MarketTypeOK, AgeMeansSnapshot, EndFundamentals

\* The price slot's own fundamentals hand it a universe, or end it.
LEMMA EndOwnFundamentalsInv == MarketInv /\ EndOwnFundamentals => MarketInv'
<1> SUFFICES ASSUME MarketInv, EndOwnFundamentals PROVE MarketInv'
  OBVIOUS
<1>1. CASE up
  <2>1. /\ universe' \in Rankings /\ priceJob' = "quotes"
        /\ priceSymbols' = pricedSymbols(universe') /\ UNCHANGED lastError
        /\ extraSymbols' = extraSymbols
    BY <1>1 DEF EndOwnFundamentals
  <2>2. priceSymbols' \in SUBSET Symbol
    BY <2>1, PricedSymbols DEF MarketInv, MarketTypeOK
  <2>3. universe' # <<>>
    BY <2>1, RankingShape
  <2>4. QED
    BY <2>1, <2>2, <2>3 DEF MarketInv, MarketTypeOK, AgeMeansSnapshot,
                            EndOwnFundamentals
<1>2. CASE ~up
  BY <1>2 DEF MarketInv, MarketTypeOK, AgeMeansSnapshot, EndOwnFundamentals,
              Settled
<1>3. QED
  BY <1>1, <1>2 DEF MarketInv, MarketTypeOK

\* A price refresh that ends leaves a snapshot of a universe, or all as it was.
LEMMA EndQuotesInv == MarketInv /\ EndQuotes => MarketInv'
<1> SUFFICES ASSUME MarketInv, EndQuotes PROVE MarketInv'
  OBVIOUS
<1>1. lastError' \in {"none", "prices", "fundamentals"}
  BY SettledType DEF MarketInv, MarketTypeOK, EndQuotes
<1>2. universe # <<>>
  BY DEF MarketInv, AgeMeansSnapshot, EndQuotes
<1>3. 0 \in 0..MaxAge
  BY SizeAssumption
<1>4. QED
  BY <1>1, <1>2, <1>3 DEF MarketInv, MarketTypeOK, AgeMeansSnapshot, EndQuotes

\* A snapshot that ages remains one.
LEMMA TickInv == MarketInv /\ Tick => MarketInv'
<1> SUFFICES ASSUME MarketInv, Tick PROVE MarketInv'
  OBVIOUS
<1>1. (age' = Never \/ age' \in 0..MaxAge) /\ (age' # Never => age # Never)
  BY SizeAssumption DEF MarketInv, MarketTypeOK, Tick
<1>2. QED
  BY <1>1 DEF MarketInv, MarketTypeOK, AgeMeansSnapshot, Tick

\* The cache keeps its invariant whatever happens to it.
LEMMA CacheInv == MarketInv /\ CacheStep => MarketInv'
<1> SUFFICES ASSUME MarketInv, CacheStep PROVE MarketInv'
  OBVIOUS
<1>1. CASE WarmFundamentals
  BY <1>1, StartFundamentalsInv DEF WarmFundamentals
<1>2. CASE WarmPrices
  BY <1>2, StartPricesInv DEF WarmPrices
<1>3. CASE WarmDone \/ start \/ Upstream
  BY <1>3 DEF MarketInv, MarketTypeOK, AgeMeansSnapshot, WarmDone, start, Upstream
<1>4. CASE PriceTimer
  <2>1. warm' \in {"cold", "fundamentals", "prices", "done", "started"}
    BY <1>4 DEF PriceTimer, MarketInv, MarketTypeOK
  <2>2. QED
    BY <1>4, <2>1, StartPricesInv DEF PriceTimer
<1>5. CASE FundamentalsTimer
  <2>1. warm' \in {"cold", "fundamentals", "prices", "done", "started"}
    BY <1>5 DEF FundamentalsTimer, MarketInv, MarketTypeOK
  <2>2. QED
    BY <1>5, <2>1, StartFundamentalsInv DEF FundamentalsTimer
<1>6. QED
  BY <1>1, <1>2, <1>3, <1>4, <1>5, EndFundamentalsInv, EndOwnFundamentalsInv,
     EndQuotesInv, TickInv DEF CacheStep

\* Apart from the passing of time, the age only ever returns to zero.
LEMMA AgeResets == CacheStep => Tick \/ age' = age \/ age' = 0
  BY DEF CacheStep, WarmFundamentals, WarmPrices, WarmDone, start,
         EndFundamentals, EndOwnFundamentals, EndQuotes, PriceTimer,
         FundamentalsTimer, Tick, Upstream, StartPrices, StartFundamentals

\* A refresh in quotes asked for the basket when it came there.
LEMMA QuotesAskForBasket ==
    ASSUME MarketInv, CacheStep, priceJob' = "quotes"
    PROVE  \/ priceJob = "quotes" /\ priceSymbols' = priceSymbols
           \/ extraSymbols \subseteq priceSymbols'
<1>1. CASE StartPrices
  BY <1>1, PricedSymbols DEF StartPrices, MarketInv, MarketTypeOK
<1>2. CASE EndOwnFundamentals
  BY <1>2, PricedSymbols DEF EndOwnFundamentals, MarketInv, MarketTypeOK
<1>3. CASE ~StartPrices /\ ~EndOwnFundamentals
  BY <1>3 DEF CacheStep, WarmFundamentals, WarmPrices, WarmDone, start,
              EndFundamentals, EndQuotes, PriceTimer,
              FundamentalsTimer, Tick, Upstream, StartFundamentals
<1>4. QED
  BY <1>1, <1>2, <1>3

\* Only the boot sequence moves warm, and only a started or warming cache
\* occupies the price slot.
LEMMA WarmMoves ==
    ASSUME CacheStep
    PROVE  /\ extraSymbols' = extraSymbols
           /\ warm' = warm \/ WarmFundamentals \/ WarmPrices \/ WarmDone \/ start
           /\ priceJob = "idle" /\ warm # "started" /\ ~WarmPrices =>
                 priceJob' = "idle"
  BY DEF CacheStep, WarmFundamentals, WarmPrices, WarmDone, start,
         EndFundamentals, EndOwnFundamentals, EndQuotes, PriceTimer,
         FundamentalsTimer, Tick, Upstream, StartPrices, StartFundamentals

-----------------------------------------------------------------------------
(* Requests *)

\* The bounds of the model are numbers.
LEMMA Bounds == MaxStale \in Nat /\ PayMax \in Nat /\ MaxPublishes \in Nat
  BY ServerAssumption

\* What any answer does to the requests.
Ends(r) ==
    /\ stage' = [stage EXCEPT ![r] = "idle"]
    /\ ask' = [ask EXCEPT ![r] = NoAsk]
    /\ waited' = [waited EXCEPT ![r] = 0]
    /\ reply' \in [Request -> Statuses \union {NoReply}]

\* A request that has not asked anything is one for a route without a gate.
LEMMA NoAskIsFree == NoAsk \in Query /\ ~Gated(NoAsk)
  BY DEF NoAsk, Query, Gated, Route, FromEpoch, NeedsFreshPrices

\* An answer with one of the codes is one.
LEMMA AnswerEnds ==
    ASSUME IInv, NEW r \in Request, NEW status \in Statuses, Answer(r, status)
    PROVE  Ends(r)
  BY DEF Ends, Answer, IInv, ServerTypeOK

\* Whatever a handler comes to is one of the codes.
LEMMA OutcomesAreStatuses == \A route : Outcomes(route) \subseteq Statuses
  BY DEF Outcomes, ErrorStatus, Statuses

\* A request that ends is idle, whatever it was answered.
LEMMA EndsInv ==
    ASSUME IInv, NEW r \in Request, Ends(r),
           UNCHANGED <<marketVars, serverVars>>
    PROVE  IInv'
<1>1. MarketTypeOK' /\ AgeMeansSnapshot' /\ BootPart' /\ BasketIsAskedFor'
  BY DEF IInv, ServerTypeOK, MarketTypeOK, AgeMeansSnapshot, BootPart,
         BasketIsAskedFor, marketVars, serverVars
<1>2. NoAsk \in Query /\ ~Gated(NoAsk)
  BY NoAskIsFree
<1>3. ServerTypeOK'
  BY <1>1, <1>2, Bounds DEF IInv, ServerTypeOK, Ends, serverVars
<1>4. ASSUME NEW q \in Request
      PROVE  stage'[q] # "idle" /\ Gated(ask'[q]) =>
                age' # Never /\ age' <= MaxStale + waited'[q]
  <2>1. CASE q = r
    BY <1>2, <2>1 DEF IInv, ServerTypeOK, Ends
  <2>2. CASE q # r
    BY <2>2 DEF IInv, ServerTypeOK, GatePart, Ends, marketVars
  <2>3. QED
    BY <2>1, <2>2
<1>5. QED
  BY <1>1, <1>3, <1>4 DEF IInv, GatePart

\* A request that moves on keeps what it relies on.
LEMMA MoveInv ==
    ASSUME IInv, NEW r \in Request, stage[r] # "idle",
           NEW where \in {"handling", "describing"},
           stage' = [stage EXCEPT ![r] = where],
           UNCHANGED <<ask, waited, reply, marketVars, serverVars>>
    PROVE  IInv'
<1>1. MarketTypeOK' /\ AgeMeansSnapshot' /\ BootPart' /\ BasketIsAskedFor'
  BY DEF IInv, ServerTypeOK, MarketTypeOK, AgeMeansSnapshot, BootPart,
         BasketIsAskedFor, marketVars, serverVars
<1>2. ServerTypeOK'
  BY <1>1 DEF IInv, ServerTypeOK, serverVars
<1>3. GatePart'
  BY DEF IInv, ServerTypeOK, GatePart, marketVars
<1>4. QED
  BY <1>1, <1>2, <1>3 DEF IInv

\* What passes the gate is fresh then.
LEMMA ArriveInv ==
    ASSUME IInv, NEW r \in Request, Arrive(r)
    PROVE  IInv'
<1>1. PICK q \in Query :
         \/ Answer(r, 503)
         \/ /\ Gated(q) => Fresh
            /\ stage' = [stage EXCEPT ![r] = "paying"]
            /\ ask' = [ask EXCEPT ![r] = q]
            /\ reply' = [reply EXCEPT ![r] = NoReply]
            /\ UNCHANGED waited
  BY DEF Arrive
<1>2. UNCHANGED <<marketVars, serverVars>>
  BY DEF Arrive
<1>3. CASE Answer(r, 503)
  <2>1. Ends(r)
    BY <1>3, AnswerEnds DEF Statuses
  <2>2. QED
    BY <1>2, <2>1, EndsInv
<1>4. CASE /\ Gated(q) => Fresh
           /\ stage' = [stage EXCEPT ![r] = "paying"]
           /\ ask' = [ask EXCEPT ![r] = q]
           /\ reply' = [reply EXCEPT ![r] = NoReply]
           /\ UNCHANGED waited
  <2>1. MarketTypeOK' /\ AgeMeansSnapshot' /\ BootPart' /\ BasketIsAskedFor'
    BY <1>2 DEF IInv, ServerTypeOK, MarketTypeOK, AgeMeansSnapshot, BootPart,
                BasketIsAskedFor, marketVars, serverVars
  <2>2. ServerTypeOK'
    BY <1>2, <1>4, <2>1 DEF IInv, ServerTypeOK, serverVars
  <2>3. ASSUME NEW s \in Request
        PROVE  stage'[s] # "idle" /\ Gated(ask'[s]) =>
                  age' # Never /\ age' <= MaxStale + waited'[s]
    <3>1. CASE s = r
      <4>1. ask'[s] = q
        BY <1>4, <3>1 DEF IInv, ServerTypeOK
      <4>2. waited'[s] \in Nat /\ (age # Never => age \in Nat)
        BY <1>4, Bounds, SizeAssumption DEF IInv, ServerTypeOK, MarketTypeOK
      <4>3. QED
        BY <1>2, <1>4, <4>1, <4>2, Bounds DEF Fresh, marketVars
    <3>2. CASE s # r
      BY <1>2, <1>4, <3>2 DEF IInv, ServerTypeOK, GatePart, marketVars
    <3>3. QED
      BY <3>1, <3>2
  <2>4. QED
    BY <2>1, <2>2, <2>3 DEF IInv, GatePart
<1>5. QED
  BY <1>1, <1>3, <1>4

\* A request under way, step by step.
LEMMA RequestStepInv ==
    ASSUME IInv, NEW r \in Request, RequestStep(r)
    PROVE  IInv'
<1>1. UNCHANGED <<marketVars, serverVars>>
  BY DEF RequestStep, PaymentRefused, PaymentSettles, Handle, LookUpAsset,
         DescribeAsset
<1>2. CASE PaymentRefused(r) \/ Handle(r) \/ DescribeAsset(r)
  <2>1. PICK status \in Statuses : Answer(r, status)
    <3>1. 402 \in Statuses /\ 200 \in Statuses
      BY DEF Statuses
    <3>2. CASE PaymentRefused(r)
      BY <3>1, <3>2, Zenon DEF PaymentRefused
    <3>3. CASE Handle(r)
      BY <3>3, OutcomesAreStatuses, Zenon DEF Handle
    <3>4. CASE DescribeAsset(r)
      BY <3>1, <3>4, Zenon DEF DescribeAsset
    <3>5. QED
      BY <1>2, <3>2, <3>3, <3>4
  <2>2. Ends(r)
    BY <2>1, AnswerEnds
  <2>3. QED
    BY <1>1, <2>2, EndsInv
<1>3. CASE PaymentSettles(r)
  BY <1>3, MoveInv DEF PaymentSettles
<1>4. CASE LookUpAsset(r)
  <2>1. CASE ~InUniverse(ask[r].want)
    <3>1. Ends(r)
      <4>1. 404 \in Statuses
        BY DEF Statuses
      <4>2. Answer(r, 404)
        BY <1>4, <2>1 DEF LookUpAsset
      <4>3. QED
        BY <4>1, <4>2, AnswerEnds
    <3>2. QED
      BY <1>1, <3>1, EndsInv
  <2>2. CASE InUniverse(ask[r].want)
    <3>1. /\ stage[r] # "idle"
          /\ stage' = [stage EXCEPT ![r] = "describing"]
          /\ UNCHANGED <<ask, waited, reply, marketVars, serverVars>>
      BY <1>4, <2>2 DEF LookUpAsset
    <3>2. QED
      BY <3>1, MoveInv
  <2>3. QED
    BY <2>1, <2>2
<1>5. QED
  BY <1>2, <1>3, <1>4 DEF RequestStep

\* /health changes nothing but its own answer.
LEMMA HealthInv ==
    ASSUME IInv, NEW r \in Request, Health(r)
    PROVE  IInv'
<1>1. Ends(r)
  <2>1. PICK status \in {IF Fresh THEN 200 ELSE 503, 502} : Answer(r, status)
    BY DEF Health
  <2>2. status \in Statuses
    BY <2>1 DEF Statuses
  <2>3. QED
    BY <2>1, <2>2, AnswerEnds
<1>2. UNCHANGED <<marketVars, serverVars>>
  BY DEF Health
<1>3. QED
  BY <1>1, <1>2, EndsInv

-----------------------------------------------------------------------------
(* The server *)

\* A fresh process has no snapshot, no basket in memory and no request.
LEMMA ServerInitInv == ServerInit => IInv
<1> SUFFICES ASSUME ServerInit PROVE IInv
  OBVIOUS
<1>1. MarketTypeOK /\ AgeMeansSnapshot
  BY DEF ServerInit, MarketInit, MarketTypeOK, AgeMeansSnapshot
<1>2. NoAsk \in Query
  BY NoAskIsFree
<1>3. ServerTypeOK
  BY <1>1, <1>2, Bounds DEF ServerInit, ServerTypeOK
<1>4. BootPart /\ GatePart /\ BasketIsAskedFor
  BY DEF ServerInit, MarketInit, BootPart, GatePart, BasketIsAskedFor
<1>5. QED
  BY <1>1, <1>3, <1>4 DEF IInv

\* The requests' part survives whatever leaves the requests alone and does
\* not age the snapshot.
LEMMA GateKept ==
    ASSUME IInv, UNCHANGED requestVars, age' = age \/ age' = 0
    PROVE  GatePart'
<1>1. 0 # Never
  BY NeverAssumption
<1>2. ASSUME NEW r \in Request
      PROVE  waited[r] \in Nat /\ 0 <= MaxStale + waited[r]
  BY Bounds DEF IInv, ServerTypeOK
<1>3. QED
  BY <1>1, <1>2 DEF IInv, GatePart, requestVars

\* Boot, one stage after the other.
LEMMA BootsInv == IInv /\ Boots => IInv'
<1> SUFFICES ASSUME IInv, Boots PROVE IInv'
  OBVIOUS
<1>1. UNCHANGED <<basket, publishes, requestVars>>
  BY DEF Boots, LoadConfig, CheckRoutes, CheckFacilitator, RefreshBasket,
         MarketWarms, Listen
<1>2. boot' \in {"config", "routes", "facilitator", "basket", "market",
                 "basket2", "start", "listening", "exited"}
  BY DEF IInv, ServerTypeOK, Boots, LoadConfig, CheckRoutes, CheckFacilitator,
         RefreshBasket, MarketWarms, Listen
<1>3. ASSUME MarketInv', age' = age \/ age' = 0, BootPart', BasketIsAskedFor'
      PROVE  IInv'
  <2>1. GatePart'
    BY <1>1, <1>3, GateKept
  <2>2. ServerTypeOK'
    BY <1>1, <1>2, <1>3 DEF IInv, ServerTypeOK, MarketInv, requestVars
  <2>3. QED
    BY <1>3, <2>1, <2>2 DEF IInv, MarketInv
<1>4. CASE LoadConfig \/ CheckRoutes \/ CheckFacilitator
  <2>1. UNCHANGED marketVars
    BY <1>4 DEF LoadConfig, CheckRoutes, CheckFacilitator
  <2>2. MarketInv' /\ age' = age
    BY <2>1 DEF IInv, ServerTypeOK, MarketInv, MarketTypeOK, AgeMeansSnapshot,
                marketVars
  <2>3. BootPart' /\ BasketIsAskedFor'
    BY <1>1, <1>4, <2>1 DEF IInv, BootPart, BasketIsAskedFor, marketVars,
                            LoadConfig, CheckRoutes, CheckFacilitator
  <2>4. QED
    BY <1>3, <2>2, <2>3
<1>5. CASE RefreshBasket
  <2>1. MarketInv' /\ age' = age
    BY <1>5 DEF IInv, ServerTypeOK, MarketInv, MarketTypeOK, AgeMeansSnapshot,
                RefreshBasket, Baskets
  <2>2. BootPart' /\ BasketIsAskedFor'
    BY <1>5 DEF IInv, BootPart, BasketIsAskedFor, RefreshBasket
  <2>3. QED
    BY <1>3, <2>1, <2>2
<1>6. CASE MarketWarms \/ Listen
  <2>1. CacheStep /\ ~Tick
    BY <1>6 DEF MarketWarms, Listen, CacheStep, WarmFundamentals, WarmPrices,
                WarmDone, start, Tick
  <2>2. MarketInv'
    BY <2>1, CacheInv DEF IInv, ServerTypeOK, MarketInv
  <2>3. age' = age \/ age' = 0
    BY <2>1, AgeResets
  <2>4. boot \in {"market", "start"} /\ extraSymbols' = extraSymbols
    BY <1>6, <2>1, WarmMoves DEF MarketWarms, Listen
  <2>5. BootPart'
    BY <1>1, <1>6, <2>4 DEF IInv, BootPart, MarketWarms, Listen,
                            WarmFundamentals, WarmPrices, WarmDone, start
  <2>6. BasketIsAskedFor'
    BY <1>1, <2>1, <2>4, QuotesAskForBasket
    DEF IInv, ServerTypeOK, MarketInv, BootPart, BasketIsAskedFor
  <2>7. QED
    BY <1>3, <2>2, <2>3, <2>5, <2>6
<1>7. QED
  BY <1>4, <1>5, <1>6 DEF Boots

\* The slots, the timers and the providers, on their own.
LEMMA MarketRunsInv == IInv /\ (MarketRuns \/ Outage) => IInv'
<1> SUFFICES ASSUME IInv, MarketRuns \/ Outage PROVE IInv'
  OBVIOUS
<1>1. UNCHANGED <<serverVars, requestVars>>
  BY DEF MarketRuns, Outage
<1>2. \/ EndFundamentals \/ EndOwnFundamentals \/ EndQuotes
      \/ PriceTimer \/ FundamentalsTimer \/ Upstream
  BY DEF MarketRuns, Outage
<1>3. CacheStep /\ warm' = warm
  BY <1>2 DEF CacheStep, EndFundamentals, EndOwnFundamentals, EndQuotes,
              PriceTimer, FundamentalsTimer, Upstream
<1>4. MarketInv'
  BY <1>3, CacheInv DEF IInv, ServerTypeOK, MarketInv
<1>5. age' = age \/ age' = 0
  BY <1>2 DEF EndFundamentals, EndOwnFundamentals, EndQuotes, PriceTimer,
              FundamentalsTimer, Upstream, StartPrices, StartFundamentals
<1>6. GatePart'
  BY <1>1, <1>5, GateKept DEF serverVars
<1>7. ServerTypeOK'
  BY <1>1, <1>4 DEF IInv, ServerTypeOK, MarketInv, serverVars, requestVars
<1>8. extraSymbols' = extraSymbols
  BY <1>3, WarmMoves
<1>9. BootPart'
  <2>1. boot \in {"config", "routes", "facilitator", "basket", "exited",
                   "basket2", "start"} => priceJob' = "idle"
    BY <1>2 DEF IInv, BootPart, EndFundamentals, EndOwnFundamentals, EndQuotes,
                PriceTimer, FundamentalsTimer, Upstream, StartFundamentals
  <2>2. QED
    BY <1>1, <1>3, <1>8, <2>1 DEF IInv, BootPart, serverVars
<1>10. BasketIsAskedFor'
  <2>1. SUFFICES ASSUME publishes = 0, extraSymbols # {}, priceJob' = "quotes"
                 PROVE  basket \subseteq priceSymbols'
    BY <1>1, <1>8 DEF BasketIsAskedFor, serverVars
  <2>2. CASE priceJob = "quotes" /\ priceSymbols' = priceSymbols
    BY <2>1, <2>2 DEF IInv, BasketIsAskedFor
  <2>3. CASE extraSymbols \subseteq priceSymbols'
    <3>1. boot \in {"market", "basket2", "start", "listening"}
      BY <1>1, <1>9, <2>1 DEF IInv, ServerTypeOK, BootPart, serverVars
    <3>2. QED
      BY <2>1, <2>3, <3>1 DEF IInv, BootPart
  <2>4. QED
    BY <1>3, <2>1, <2>2, <2>3, QuotesAskForBasket DEF IInv, ServerTypeOK, MarketInv
<1>11. QED
  BY <1>4, <1>6, <1>7, <1>9, <1>10 DEF IInv, MarketInv

\* A rebalance replaces the basket by another, never by none.
LEMMA PublishInv == IInv /\ Publish => IInv'
<1> SUFFICES ASSUME IInv, Publish PROVE IInv'
  OBVIOUS
<1>1. MarketTypeOK' /\ AgeMeansSnapshot'
  BY DEF IInv, ServerTypeOK, MarketTypeOK, AgeMeansSnapshot, Publish, marketVars
<1>2. publishes' \in 0..MaxPublishes /\ publishes' # 0
  BY Bounds DEF IInv, ServerTypeOK, Publish
<1>3. ServerTypeOK'
  BY <1>1, <1>2 DEF IInv, ServerTypeOK, Publish, requestVars
<1>4. BootPart' /\ BasketIsAskedFor'
  BY <1>2 DEF IInv, BootPart, BasketIsAskedFor, Publish, marketVars
<1>5. GatePart'
  BY DEF IInv, GatePart, Publish, marketVars, requestVars
<1>6. QED
  BY <1>1, <1>3, <1>4, <1>5 DEF IInv

\* While the snapshot ages, a payment under way ages with it.
LEMMA ElapseInv == IInv /\ Elapse => IInv'
<1> SUFFICES ASSUME IInv, Elapse PROVE IInv'
  OBVIOUS
<1>1. MarketInv'
  BY TickInv DEF IInv, ServerTypeOK, MarketInv, Elapse
<1>2. waited' \in [Request -> 0..PayMax]
  BY Bounds DEF IInv, ServerTypeOK, Elapse
<1>3. ServerTypeOK'
  BY <1>1, <1>2 DEF IInv, ServerTypeOK, MarketInv, Elapse, serverVars
<1>4. BootPart' /\ BasketIsAskedFor'
  BY DEF IInv, BootPart, BasketIsAskedFor, Elapse, Tick, serverVars
<1>5. ASSUME NEW r \in Request, stage[r] # "idle", Gated(ask[r])
      PROVE  age' # Never /\ age' <= MaxStale + waited'[r]
  <2>1. waited[r] \in Nat /\ waited'[r] = waited[r] + 1
    BY <1>5, Bounds DEF IInv, ServerTypeOK, Elapse
  <2>2. age # Never /\ age <= MaxStale + waited[r]
    BY <1>5 DEF IInv, GatePart
  <2>3. age \in Nat /\ age' \in {age, age + 1}
    BY <2>2, SizeAssumption DEF IInv, ServerTypeOK, MarketTypeOK, Elapse, Tick
  <2>4. QED
    BY <2>1, <2>2, <2>3, Bounds, NeverAssumption
<1>6. GatePart'
  BY <1>5 DEF IInv, GatePart, Elapse, serverVars
<1>7. QED
  BY <1>1, <1>3, <1>4, <1>6 DEF IInv, MarketInv

\* Nothing that does not happen disturbs the invariant.
LEMMA StutterInv == IInv /\ UNCHANGED allVars => IInv'
<1> SUFFICES ASSUME IInv, UNCHANGED allVars PROVE IInv'
  OBVIOUS
<1>1. MarketTypeOK' /\ AgeMeansSnapshot' /\ BootPart' /\ BasketIsAskedFor'
  BY DEF IInv, ServerTypeOK, MarketTypeOK, AgeMeansSnapshot, BootPart,
         BasketIsAskedFor, allVars, marketVars, serverVars
<1>2. ServerTypeOK'
  BY <1>1 DEF IInv, ServerTypeOK, allVars, serverVars, requestVars
<1>3. GatePart'
  BY DEF IInv, GatePart, allVars, marketVars, serverVars, requestVars
<1>4. QED
  BY <1>1, <1>2, <1>3 DEF IInv

\* Every step of the server keeps the invariant.
LEMMA ServerNextInv == IInv /\ [ServerNext]_allVars => IInv'
  BY BootsInv, MarketRunsInv, PublishInv, ElapseInv, HealthInv, ArriveInv,
     RequestStepInv, StutterInv DEF ServerNext

\* The inductive invariant, for any number of requests, symbols and epochs.
THEOREM ServerInvariant == ServerSpec => []IInv
  BY ServerInitInv, ServerNextInv, PTL DEF ServerSpec

-----------------------------------------------------------------------------
(* The properties *)

\* A non-null age means that there is a snapshot and a universe to serve.
THEOREM AgeIsASnapshot == ServerSpec => []AgeMeansSnapshot
<1>1. IInv => AgeMeansSnapshot
  BY DEF IInv
<1>2. QED
  BY <1>1, ServerInvariant, PTL

\* A handler of a gated route has a snapshot to read, however long its payment
\* took and whatever refreshes failed meanwhile.
THEOREM HandlersReadASnapshot == ServerSpec => []HandlerHasSnapshot
<1>1. IInv => HandlerHasSnapshot
  BY DEF IInv, GatePart, AgeMeansSnapshot, HandlerHasSnapshot
<1>2. QED
  BY <1>1, ServerInvariant, PTL

\* Until a rebalance the published basket is in every price refresh.
THEOREM BasketIsPriced == ServerSpec => []BasketIsAskedFor
<1>1. IInv => BasketIsAskedFor
  BY DEF IInv
<1>2. QED
  BY <1>1, ServerInvariant, PTL

\* What is sold of a gated route is older than the limit by no more than the
\* time its payment took to settle.
THEOREM SalesAreNearlyFresh == ServerSpec => SoldNearlyFresh
<1>1. ASSUME IInv, NEW r \in Request, stage[r] # "idle", Gated(ask[r])
      PROVE  age # Never /\ age <= MaxStale + PayMax
  <2>1. age # Never /\ age <= MaxStale + waited[r]
    BY <1>1 DEF IInv, GatePart
  <2>2. age \in Nat /\ waited[r] \in Nat /\ waited[r] <= PayMax
    BY <1>1, <2>1, Bounds, SizeAssumption DEF IInv, ServerTypeOK, MarketTypeOK
  <2>3. QED
    BY <2>1, <2>2, Bounds
<1>2. IInv /\ [ServerNext]_allVars =>
        [\A r \in Request : Sold(r) /\ Gated(ask[r]) =>
            age # Never /\ age <= MaxStale + PayMax]_allVars
  BY <1>1 DEF Sold, Answers
<1>3. QED
  BY <1>2, ServerInvariant, PTL DEF ServerSpec, SoldNearlyFresh

\* No failure of either slot takes a snapshot away or changes it.
THEOREM SnapshotIsKept == ServerSpec => SnapshotKept
<1>1. IInv /\ [ServerNext]_allVars =>
        [age # Never =>
           /\ age' # Never
           /\ age' # 0 => prices' = prices]_marketVars
  <2>1. SUFFICES ASSUME IInv, [ServerNext]_allVars, age # Never
                 PROVE  age' # Never /\ (age' # 0 => prices' = prices)
    OBVIOUS
  <2>2. 0 # Never /\ age + 1 # Never
    BY <2>1, NeverAssumption, SizeAssumption DEF IInv, ServerTypeOK, MarketTypeOK
  <2>3. CASE UNCHANGED marketVars
    BY <2>1, <2>3 DEF marketVars
  <2>4. CASE CacheStep
    BY <2>1, <2>2, <2>4
    DEF CacheStep, WarmFundamentals, WarmPrices, WarmDone, start,
        EndFundamentals, EndOwnFundamentals, EndQuotes, PriceTimer,
        FundamentalsTimer, Tick, Upstream, StartPrices, StartFundamentals
  <2>5. CASE RefreshBasket
    BY <2>1, <2>5 DEF RefreshBasket
  <2>6. UNCHANGED marketVars \/ CacheStep \/ RefreshBasket
    BY <2>1 DEF ServerNext, allVars, Boots, LoadConfig, CheckRoutes,
       CheckFacilitator, MarketWarms, Listen, MarketRuns, Publish, Elapse, Outage,
       Health, Arrive, RequestStep, PaymentRefused, PaymentSettles, Handle,
       LookUpAsset, DescribeAsset, CacheStep
  <2>7. QED
    BY <2>3, <2>4, <2>5, <2>6
<1>2. QED
  BY <1>1, ServerInvariant, PTL DEF ServerSpec, SnapshotKept
=============================================================================
