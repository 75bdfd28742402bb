# IndexFeed (Algorand edition): TLA+ models, model checks and proofs

IndexFeed publishes IFX20, a capped market-cap index of crypto assets, as a
sequence of signed JSON epochs in a directory, and sells reads of it over HTTP
at a price per request. This directory holds TLA+ models of its program logic,
the TLC configurations that check them on small instances, and TLAPS proofs of
nearly all of their safety properties for every size. Paths below are relative
to `src/packages/`.

## 1. The system

| part | code | state it keeps | operations |
|---|---|---|---|
| Publisher and epoch store | `engine/src/cli.js`, `epochs.js`, `state.js`, `methodology.js` | `epochs/epoch-N.json`, `epochs/head.json`, `state.json`, `audit/epoch-N.json` | `rebalance` (with `--force`, `--dry-run`): load the state, check the cadence, compute, append, save, audit |
| Index reads | `api/src/index-service.js` | none; every request reads files | `tick`, `latest`, `constituents`, `history`, `history/:epoch` |
| Market-data cache | `api/src/marketdata.js` | the last fundamentals, the last prices and their age, two refresh slots | `warm`, `start`, the two timers, reads |
| API server | `api/src/server.js`, `handlers.js`, `facilitator.js` | the basket symbols read at boot | boot, freshness gate, payment, handlers |
| Polling consumer | `client/src/poller.js`, `client/src/index.js` | money booked, failure count | check the budget, buy, book, sleep, stop on a signal |
| Price consensus | `engine/src/sources.js`, `prices.js` | none | ask all sources, reconcile by the median |
| Universe | `engine/src/fundamentals.js`, `classify.js`, `weighting.js` (`screen`) | none | merge the providers' rows, classify, screen, rank |
| Weighting | `engine/src/weighting.js` (`weight`, `toBasisPoints`) | none | cap pass by pass, round to basis points |
| Rebalance pipeline | `engine/src/rebalance.js`, `index-math.js` | the basket and divisor in `state.json` | strike an epoch, value the basket |
| Attestation | `engine/src/attest.js` | a key per process, from its environment | digest and sign a payload, verify, reproduce a digest from an answer |
| Configuration, routes, discovery | `api/src/config.js`, `routes.js`, `discovery.js`, `engine/src/config.js` | none | throw at boot, answer `/health`, advertise the key |
| Not modelled | `symbols.js`, `env.js`, `fixtures.js`, the static part of `routes.js` and `discovery.js`, the paying client's CLI, `scripts/` | | see section 8 |

How they interact:

- The publisher is a process of its own that runs to an end. The API server is
  another one, long-lived. They share nothing but the directory, without locks
  and without notification: the server learns of an epoch by reading files.
- In the server, requests and refreshes interleave at every `await`. The
  freshness gate, the handlers and the refresh slots share the cache's
  variables.
- A request passes the gate while it is free; the payment library then
  verifies and settles, which takes network time; the handler runs afterwards.
- The consumer is a third process; its library pays inside the fetch, and the
  consumer learns what it spent from a response header.
- Publisher and server are each given a key of their own, or none. A record is
  signed by the run that publishes it and travels with that signature; the
  listing is signed by the server as it is read.
- A rebalance pulls prices and fundamentals through the same modules as the
  server, in the order providers, merge, classify, screen, price, weigh, strike.

What is hard here, and hard to reach with a unit test: a crash between two of
the publisher's five file operations; a second publisher; a reader between two
of the publisher's writes; a refresh replacing the universe across a handler's
`await`; time passing while a payment settles; upstream failing in part and
coming back; a payment whose receipt is lost; failures that come in some order
over a long run; caps that cascade over several passes; continuity of the
level over a sequence of epochs with names entering, leaving and losing their
price; an attestation made over one payload that travels with another; numbers
in the environment that are not numbers. `PROJECT.json` lists each at its line under `hazards`.

## 2. Modules

    EpochLog             abstract append-only log
    EpochStore           the publisher over its directory;  implements EpochLog
    Attestation          digests and signatures
      IndexService       readers beside the publisher (EXTENDS both)
    MarketData           the price cache: state and operations
      ApiServer          boot, gate, payment, handlers and /health over it
    Poller               the buying loop and its wallet
    Medians              the two median helpers
      Pricing            consensus of one asset's price
      Universe           from providers to constituents
    Weighting            capping and rounding
    Rebalance            basket, divisor, level and values over the epochs

    EpochStoreProofs     proofs about EpochStore, and about IndexService from them
    ServerProofs         ... MarketData and ApiServer
    PollerProofs         ... Poller
    SumsAndMedians       lemmas on sums over finite sets and on the medians
      PricingProofs      ... Pricing
      UniverseProofs     ... Universe
      WeightingProofs    ... Weighting
      RebalanceProofs    ... Rebalance

`ApiServer` and `IndexService` compose: their next-state relations are made of
the actions of the module they extend, with the added variables unchanged. The
two halves of the server meet at `basket` in `ApiServer`, which is what
`state.json` holds; how that file is written and read is `EpochStore`'s and
`IndexService`'s subject.

### State and actions against the code

**EpochStore.** One action per file operation. A process starts (`Start`:
reads `state.json`), passes the cadence gate (`CheckCadence`), computes
(`Compute`: the number is the state's plus one; also `--dry-run` and a pipeline
that throws), and then `append` reads the head (`AppendReadHead`), looks for a
record (`AppendReadRecord`), and each of record, head and state goes through
`OpenTmp`, `WriteTmp`, `RenameTmp`. The audit file is written in place
(`OpenAudit`, `WriteAudit`). `Crash` stands for a kill and for a file operation
that throws, at any point. A document is the identity of the run that computed
it, with its number, the run whose state it was chained from, its time and the
force flag: what the properties tell apart. `fd` follows an open `.tmp` that
another process renames or truncates, which two publishers do to each other.

**Attestation, IndexService.** One action per file read: `tick` is one read,
`latest` and `constituents` two, `history` a listing and then the head,
`history/:epoch` one. `signer` is the key that each run of the publisher signed
with and `serverKey` the server's; either may be missing. `block` is the
`attestation` that a run put into its document when it computed it
(`AttestRecord`): it is stored, travels with the document through every file, and
is what an answer carries (`AttestationOf`); the server attests the listing as it
reads it. `Body` is what a caller receives of the rest, after `JSON.stringify`,
which drops a field that is undefined although the digest had it (`stringify`).
A digest stands for the payload it was taken of and a signature for its key and
digest: `sha256` and Ed25519 are ideal.

**MarketData, ApiServer.** `fundJob` and `priceJob` are the two in-flight slots
of `guarded`; `priceJob = "fundamentals"` is the fetch `refreshPrices` makes of
its own, outside `guarded`. A refresh succeeds or fails as upstream is at its
end, and `lastError` is what `/health` then shows. `age` is `now - pricesAt`.
`boot` is the progress of the process: configuration, the check of the routes,
the facilitator, the basket, the warm-up, the basket again, the clocks, listen;
the first three may end it. Each read of the basket may fail, and a failed one
leaves no basket (`RefreshBasket`), the second after a good first one included.
The routes are `tick`, `quote` (for `market` too), `asset` (two steps around an
`await`), `latest` (for `constituents` too), `history` and `list`; the first three
need fresh prices (`NeedsFreshPrices`). A query (`Query`) may spell the path of
such a route in another case: the router and the payment middleware serve it all
the same, and the gate's patterns do not match it (`Gated`). A handler answers its
data or an error in their place, refuses a parameter (400), knows no such epoch
or asset (404), or cannot read a file (502): `Outcomes`; `reply` is the status.

**Poller.** `charged` is what left the wallet and `spent` what the loop booked;
the outcome of a poll is any combination of status, payment, receipt and throw
that HTTP allows. `numeric` is false when the budget or the price in the
environment is not a number, so that every comparison with it is false. `streak`
and `hammering` are history variables.

**Pricing, Universe, Weighting, Rebalance.** Computations. Initial states range
over all inputs of a small domain, and the actions are the stages of the code,
so that the properties are checked over every input. Arithmetic is exact:
integers and fractions where the code has floating point. `Weighting` keeps its
passes as steps. `Universe` merges the rows by ticker, each field by its own
rule, and two assets may share one. `Rebalance` runs over several epochs with
the market moving between them; `values` are the levels as they are published,
rounded by `toScaledValue`.

## 3. Runs and what they show

Passing runs:

| run | what it shows | states |
|---|---|---|
| `EpochStore_single` | one publisher that may die anywhere: the inductive invariant `IInv`, `HeadHasRecords`, `StateMatchesRecord`, `AuditMatchesRecord`, `RecordsImmutable`, `DivergenceIsLoud`, the refinement `ImplementsLog`, and `HealthyRunPublishes` | 52,014 |
| `IndexService_reads` | a client beside a crashing publisher: the inductive `ReaderInv`; `latest` and `constituents` always find the record of the head they read and never go back; what an answer named can be asked for again; the listing has no gap; the digest of a record or a listing is reproduced from the answer, and its signature verifies exactly when the advertised key made it (`RecordsReproduce`) | 2,551,936 |
| `ApiServer_serving` | the inductive `IInv`; a null age and only a null age means no snapshot; a handler behind the gate always has one; what is sold through the gate is at most limit plus settlement old; a basket that was read is among the symbols asked for; no failure takes the snapshot away; boot ends, an outage heals, and `/health` with it (`ErrorsClear`); while price refreshes fail, `/health` shows it again and again, whatever the other slot does (`PriceOutageShows`) | 446,196 |
| `Poller_budget` | the inductive `IInv`; what was bought with a receipt stays in the budget; no fourth failure in a row without a long sleep; a loop that is sold data ends | 8,704 |
| `Pricing_consensus` | no single source can move a price out of the range of the others; an agreeing majority is priced, and an agreeing half is not overruled | 19,683 |
| `Universe_screen` | nothing that is not a coin, large, old and traded enough enters, whatever the providers omit; rows merged from two assets of one ticker claim nothing that is true of neither; what is left out for want of room is no larger than what is in | 6,220,976 |
| `Weighting_caps` | the passes reach the least set of names that leaves nobody over the cap; order is kept; rounding is small and sums to 10000 | 7,893 |
| `Rebalance_continuity` | an epoch never moves the level, and the value it publishes is the nearest to the level before and after | 239,814 |

Runs that TLC finds violated, each of a sentence of the repository (section 6):
`EpochStore_orphan`, `IndexService_verify`, `ApiServer_basket`,
`Poller_hardstop`.

Every property of a passing run has a mutant in `PROJECT.json`: the definition
of the code changed as a plausible bug would change it, defined beside it in the
module as `<name>_<change>`, under which TLC finds the property violated.

### Bounds and why they are enough

- `EpochStore`: three epochs (inception, one chained from it, one chained from
  a chained one), three CLI invocations, so that a crash is followed by a
  recovery attempt and by another, and a clock of 0..3 with a gate of 2, so that
  a run is early, due and late. The safety part is also proved without bounds.
- `IndexService`: two epochs and three invocations; a reader's request has at
  most two reads, and between them every publisher behaviour over these fits.
  The cadence plays no part (`Gate = 0`). Each process has the one key or none,
  so that a record may be signed, unsigned, and read by a server that signs or
  does not; the violation run has two keys.
- `ApiServer`: two symbols, so that a basket can be outside the top of the
  universe (`TopSize = 1`). The unit of time is the limit (`MaxStale = 0`): age
  0 may be sold, age 1 may be sold after a settlement of at most 1, and the age
  saturates at 2, one more than anything sold. One rebalance, from a basket or
  none. Requests do not touch each other's state, so that one stands for any
  number; the proofs need no such argument.
- `Poller`: a budget of 7 at a price of 2 stops with money left; two payments
  without receipt; streaks counted to 4, where back-off starts at more than 3.
- `Pricing`: the four configured sources and quotes at, just within, just beyond
  and far from the tolerance of 5 %, and zero.
- `Universe`: two assets of every kind, of one ticker or two, two providers, a
  target of one, with caps, volumes, turnover and ages on both sides of their
  thresholds.
- `Weighting`: one to six names under a cap of 30 %; selections that need no
  pass, one, or several, and that are refused.
- `Rebalance`: three assets, prices that double, halve and go missing, three
  epochs: inception, a chained one, and one chained from a chained one; values
  in tenths, so that levels are rounded.

### Fairness

`EpochStore`: a started process takes its next step unless it is killed: the
operating system schedules it, and every `await` in it settles, since every
fetch has an abort timeout (`engine/src/sources.js`, `fundamentals.js`). Nothing
obliges anybody to start a process, to crash or not to.
`ApiServer`: boot steps, the ends of refreshes and the timers are weakly fair
(the price slot's two ends share one condition, since a refresh has one or the
other next): the event loop runs what is ready, timers repeat, and fetches time
out. Time, upstream, requests and rebalances are not fair. `GateReopens` and
`ErrorsClear` assume upstream stays up from some time on, `PriceOutageShows` that
from some time on no price refresh ends while it is up.
`Poller`: the loop goes on; signals, and what a poll returns, are not fair;
`StopsWhenSold` assumes that sales recur.

## 4. Proofs

Theorems hold for every value of the constants that their assumptions allow.
TLC evaluates the assumptions on every run. They say that bounds and amounts
are numbers of the right sign, that the sets of names are finite, and that
marks such as "absent" are no values; what else they say is given below. The
runs check the properties too, but for types, `WholeFiles` and those about
several publishers.

### The epoch store: `EpochStoreProofs`

For every bound on epochs, invocations and time, and every cadence:

| theorem | property | assumes |
|---|---|---|
| `TypeCorrect` | `[]TypeOK`, any number of publishers | |
| `SingleWriterInvariant` | `[]IInv` | single writer |
| `HeadNeverDangles` | `[]HeadHasRecords` | single writer |
| `FilesStayWhole` | `[]WholeFiles` | single writer |
| `StateIsPublished` | `[]StateMatchesRecord` | single writer |
| `AuditIsOfRecord` | `[]AuditMatchesRecord` | single writer |
| `Immutability` | `RecordsImmutable` | single writer |
| `DivergenceStopsPublication` | `DivergenceIsLoud` | single writer |
| `Refinement` | `Spec => Log!Spec` (`ImplementsLog`) | single writer |

`SingleWriter` is the README's "One instance": there is at most one publisher.
Section 6 shows that it is needed. `PathAssumption` says that the two pointer
files are not epoch records.

None of the safety properties is inductive: that the record of the head exists
depends on what a process knows between its check and its rename. `IInv` adds
that knowledge:

- `TypeInv`: types, and which locals are set where (`LocalsOK`);
- `LogPart`: everything below the head is a record that follows the one before
  it, at most one orphan lies at the head, and nothing above;
- `StatePart`: the state is the document published under its number: it may lag
  the head, never lead it;
- `AuditPart`: a readable audit record is the published record;
- `ComputePart`: what a process read of the state is still so, and the document
  it computed is chained from it;
- `AppendPart`: which of the three files is being written, and what the ones
  before it hold: the record while the head is written, record and head while
  the state is.

Each action has a lemma for types and one for the other parts; `RenameTmp` is
where a published fact changes, and its three targets are the three cases.
`RecordsImmutable` and `DivergenceIsLoud` follow for each step from `IInv`. For
the refinement, the rename of `head.json` is the abstract `Publish`, and every
other step is a stutter.

#### Any number of publishers

Nothing enforces the single writer, and `RecordsImmutable` fails without it. The
last part of the module proves what remains, with no assumption on how many
processes write: `SharedInvariant` (`[]GapInv`) and `NoGapWhoeverWrites`
(`[]NoGap`). However publishers interleave, die, and tear, truncate, rename or
lose each other's `.tmp` files: no epoch's file exists over a gap, neither
`head.json` nor `state.json` names a missing record, and a record that parses is
of the epoch it is filed under.

None of that is inductive either, since a process writes after it looked, and
what it renames may be another's. `GapInv` says of every document at a path or at
its `.tmp`, whoever wrote it, and of every document that a process is on its way
to write, that the directory already holds what lies below it (`Grounded`).
`append`'s check of the head gives that when the process passes it, and it stays
so, because no step removes a file from a final path (`GroundStays`): a rename
puts something in its place. So another process's step keeps what one relies on
(`OthersKeep`), and its own step is `OwnStep`.

TLC found no violation of `GapInv` with two publishers, epochs 0..2 and three
invocations, without the clock and the gate (506,567 states).

### Its readers, also in `EpochStoreProofs`

For any number of readers and keys, with a single writer: `ReadersInvariant`
(`[]ReaderInv`), `HeadLeadsToRecord` (`LatestFindsRecord`), `ListingsHaveNoGap`
(`ListingIsContiguous`), `AnswersReproduce` (`RecordsReproduce`),
`LatestNeverGoesBack` (`LatestMonotone`), `NamedIsServed` (`NamedIsServable`),
`ServiceImplementsLog` (`ServiceSpec => Log!Spec`).

A reader reads twice, and the publisher moves between. `ReaderInv` is what
stays true of what was read first: a head that was read is below the head there
is (`HeldPart`), a listing has no gap and ends where the log did or one later,
an answer's record is still the file's (`AnswerPart`), every document is of a run
that there was (`RunsKnown`), and the stored block of its run is still the one
that was made of it (`BlocksKept`). The last rests on a run having no block before
it computes (`NewDocument`, `BlocksKeptStep`), and `AnswersReproduce` also on no
field of a record or a listing being undefined (`NothingIsDropped`); that
`Undefined` is none of their values is what `AttestationAssumption` says. That they stay true is
the log's doing: each step of the publisher keeps every record and every
published fact, by the lemmas that also give the refinement. A step of a
reader leaves the directory alone (`ServiceRunsStore`: `ServiceSpec => Spec`).

With any number of publishers, `NoGapWhoeverReads` (`[]AnswersHaveNoGap`): the
epoch that `tick`, `latest`, `constituents` or the listing's head names has a
record and so has every one below, and a listing has no gap. It follows from
`NoGap` at the moment of the read (`ReadsHaveNoGap`) and from `GroundStays`
after. The strengthening, `ReaderGapInv`, was checked with two publishers and a
reader under `IndexService_reads.cfg`'s bounds with two invocations (6,691,040
states). That the record is the one that was published, and that `latest` does not
go back, needs the single writer.

### The server: `ServerProofs`

For any number of symbols, requests, rebalances and any settlement time:
`ServerInvariant` (`[]IInv`), `AgeIsASnapshot` (`AgeMeansSnapshot`),
`HandlersReadASnapshot` (`HandlerHasSnapshot`), `BasketIsPriced`
(`BasketIsAskedFor`), `SalesAreNearlyFresh` (`SoldNearlyFresh`),
`SnapshotIsKept` (`SnapshotKept`). What they say of the gate they say of the
requests it looks at; those that pass it under another spelling are section 6's.

`IInv` adds what a request relies on while it is paid for (`GatePart`: the age
grew no more than the settlement took) and how far boot is when something is
fetched (`BootPart`: nothing before the first read of the basket nor during the
second, and what was read is the published basket or nothing). `BasketIsPriced`
needs the latter: no refresh that was begun without the basket is still under way
when the second read finds one. `ServerAssumption` says that the age is counted beyond
anything sold (`MaxStale + PayMax < MaxAge`).

### The consumer: `PollerProofs`

For any budget, price and charge: `LoopInvariant` (`[]IInv`),
`BudgetBoundsReceipts` (`ReceiptsWithinBudget`), `ServiceIsNotHammered`
(`NoHammering`). `IInv` ties the wallet to the books (charged is booked or
without a receipt), the fetch to the budget that let it through, and the
failure count to the streak it has to cover.

### The price: `PricingProofs`

For any sources, quotes, tolerance and minimum: `OneSourceIsOutvoted`
(`OneVenueCannotMove`), `MajorityPrices` (`MajorityIsPriced`),
`HalfIsNotOverruled` (`HalfIsHeard`), and `TypeCorrect` (`TypeOK`: what is
priced has a positive price and a source).

The median of values of which more than half lie in `S` is between two of `S`
(`MedianOfMajority`). If the answers of `S` agree, each is within the tolerance
of whatever lies between two of them (`BetweenAgreeing`), so that the whole of
`S` survives (`MajorityIsKept`); it is then a majority of the survivors, and
their median too is between two of `S`. Of an agreeing half, one at least is
within the tolerance of the median (`HalfIsKept`).

### The weights: `WeightingProofs`

For any market caps, number of names and cap: `WeightingInvariant` (`[]WInv`),
`CappingIsLeast` (`CapsExactlyTheBreaching`), `WeightsKeepOrder` (`OrderKept`),
`RoundingIsBounded` (`RoundingIsSmall`). For up to 141 names, `WeightsAreWeights`
(`TypeOK`: every published weight is between 0 and 10000).

`WInv` says of the names capped so far that they are strictly larger than the
others, that their caps add up to no more than the whole, and that every set
that settles the selection contains them; and that there were no more passes
than they are, so that the loop never stops at its bound with somebody still
over the cap. A pass caps who breaches: these are the largest that are left
(`BreachingAreLargest`), leave something for the others (`CapsArePaid`), and
have to be capped in any way to settle it (`BreachingMustBeCapped`). For the
rounding, each rounded weight is off by half a point, so that the residual is at
most half a point per name. The largest name, which takes it, has an equal part at
least, and is left with no less than nothing when `n * (n - 1) <= 20000`
(`LargestAbsorbs`). A bound there must be: 20,000 equal names would each round up
to one point and leave the first with -9999. The methodology has 20 names.

### The level: `RebalanceProofs`

For any symbols, prices, splits and number of epochs, prices lost and regained:
`LevelIsContinuous` (`Continuous`), `ValuesStayNearest`
(`RoundingNeverAccumulates`), `TypeCorrect` (`TypeOK`: holdings stay positive and
whole, values not negative). `BasketInv` says that units and last prices are
whole numbers and the divisor's numerator positive. A strike multiplies the
numerator and the denominator of the level by one positive number, the new
basket's capitalisation (`StrikeScalesLevel`); both theorems follow.
`RebalanceAssumption` has the notional divisible by every price, so that units
are whole: the continuity is exact because of it, and the code's is up to the
last places of a double.

### What enters the index: `UniverseProofs`

For any assets, tickers, thresholds and answers of the two providers, failures
and omissions included: `EverythingIsVouchedFor` (`NamesakesVouch`),
`OnlyQualifiedEnter` (`EligibleIsQualified`), `CutIsByMarketCap`
(`RankIsSound`), and `TypeCorrect` (`TypeOK`).

The stages run once, so that the invariant `UInv` says of each what it made of
the one before: `universe` is the merge of what was answered, and `eligible` and
`excluded` are a screening of it. The work is in the merge: every field of a
merged row, that takes the largest, the oldest, the median or the first of what was
reported, is vouched for by an asset of that ticker (`ReportFacts`,
`OldestIsClaimed`, `MergedVouches`). Volume is the subtle one, since it is a median
over providers that may differ: it is no more than some value that was
reported (`MedianOfAll`). An asset with its ticker to itself is then its own voucher,
which gives `EligibleIsQualified`. For the cut, `Ranked` is the set of sorted
sequences of the rows that pass: JavaScript's sort returns one of them, and the
theorem holds for every one (`RankedFacts`), whatever becomes of ties.

### Sums, medians and induction: `SumsAndMedians`

Weights, medians and capitalisations are sums over sets. The lemmas here (a sum
is a number; it splits; it is bounded by its terms' bounds; it is linear) rest
on `SubsetInduction` and `NumberInduction`: induction stated with a set of good
values in the place of a predicate, and proved from the library's
well-foundedness theorems by taking a least value that is not good. About the
medians: at least half of the values lie on either side (`Middles`), and the
median lies between two values of any majority (`MedianOfMajority`).

### Only model-checked

- Liveness: `HealthyRunPublishes`, `BootEnds`, `GateReopens`, `ErrorsClear`,
  `PriceOutageShows`, `StopsWhenSold`. Fairness and ENABLED are beyond the prover.

## 5. What the checks say about the code

With one publisher the store does what its header promises, crashes included,
with one exception (the orphan, below): a reader never meets a truncated or
dangling file, and nothing published changes. After a crash between `append`
and `state.save` the directory stays readable but no later run can publish
(`DivergenceIsLoud`): publication stops rather than forks, until an operator
repairs `state.json`. `StateIsOfHead`, that the state catches up, is false.

The digest of a record, wherever and whenever it is read, is that of what is
received, and its signature verifies exactly when the run had the key that the
server advertises (`RecordsReproduce`); the composition alone does not reproduce.

Through the gate the server sells data that is older than `priceMaxStaleSeconds`
by at most the settlement (`SoldNearlyFresh`); a request whose path is spelled in
another case is sold without it, on a cold server too (`GateCoversRoutes`). What
only a handler can refuse is paid for (`RefusalIsFree`). The basket is priced from
boot on if the state could be read (`BasketIsAskedFor`, `BasketIsKnown`), until
the next rebalance. The level is exactly continuous (`Continuous`)
and its published roundings do not add up (`RoundingNeverAccumulates`).

## 6. Where documentation and code disagree

Runs of the project:

- `EpochStore_orphan`: `epochs.js:85-87` says an orphan record is overwritten
  by the next attempt. `append` refuses it as "already published", for ever.
- `IndexService_verify`: `discovery.js:57` and `README.md:108-112` say how to
  reproduce an attestation's digest from an answer. `/v1/index/constituents`
  shows a part of the record with the attestation of the whole
  (`index-service.js:87`), and the recipe yields another digest.
- `ApiServer_basket`: `server.js:69-70` says that whatever is in the basket is
  priced. The basket is read at boot only; after a rebalance the new names are
  priced only if they are at the top of the universe.
- `Poller_hardstop`: `poller.js:22-23` calls the budget a hard stop. A payment
  with no readable receipt, or whose answer failed, is not booked, and the wallet
  goes below a budget that is a number.

Further properties that state a sentence of the repository and are false of the
code are the last section of each module. TLC refutes each of them under its
module's configuration, with the property in the place of the ones listed there
and the change of constants or specification that the table names; they are not
runs of their own.

| property | module | the sentence |
|---|---|---|
| `OnlyPublishedIsServed` | IndexService | `epochs.js:56`, an orphan is served by `history/:epoch` |
| `HeadIsListed` | IndexService | `routes.js:149`, the listing is read before the head |
| `StateIsOfHead` | IndexService | `index-service.js:24`, under `FairServiceSpec` |
| `SignedMeansSigned` | IndexService | `discovery.js:44-48`, a run without a key, or with another than the server's |
| `RecordsImmutable` | EpochStore | `epochs.js:10-11`, with two publishers: both look before either renames. The repository's README says that nothing enforces a single writer |
| `OneFundamentalsFetch` | MarketData (run with `ApiServer_serving.cfg`) | `marketdata.js:49`, two fundamentals fetches at once |
| `GateCoversRoutes` | ApiServer | `handlers.js:18`, a path in another case passes the gate and is served: Express and the payment middleware ignore case, the gate's patterns do not (`handlers.js:19`) |
| `BasketIsKnown` | ApiServer | `server.js:69-70`, a state that cannot be read at boot, at the second read even after a good first one, is no basket (`server.js:59`) |
| `ColdStartDoesNotListen` | ApiServer | `server.js:166`, a boot through an outage listens |
| `NothingStaleIsSold` | ApiServer | `api/src/config.js:116`, the age is checked before payment |
| `DescribedIsScreened` | ApiServer | `handlers.js:161-163`, an asset that a refresh drops during the `await` is reported eligible |
| `UnknownIsUnheardOf` | ApiServer | `handlers.js:82`, a basket name without a price and out of the universe |
| `RefusalIsFree` | ApiServer | `server.js:87-89`, 400, 404, 502 and 503 of handlers are paid for |
| `AnyBudgetStops` | Poller | `poller.js:22-25`, with a budget that is not a number, under `FairSpec` |
| `OnlyConsecutiveBackOff` | Poller | `poller.js:129`, a success does not reset the count |
| `ConsensusHasExchange` | Pricing | `README.md:103`, the kind of a source is not looked at |
| `BigNamesAreCovered` | Universe | `classify.js:95-97`, with CoinGecko down |
| `PricedAsItself` | Universe | `sources.js:59-61`, with two assets of one ticker |
| `PublishedWithinCap` | Weighting | `methodology.js:26`, with `CapBps = 2500`: the residual goes to a capped name |
| `CarriedAtLastKnown` | Rebalance | `index-math.js:29`, the price is that of the last strike |

## 7. Plan

Order: the store first, since everything published rests on it; then its
readers; then the server, where requests, refreshes and time interleave; the
consumer; and the computations in the order of the pipeline. All of these have
their module, run and proofs.

Abstract specifications: `EpochLog` is the store's; `Settles` is the weights'
(the least set of names) and `Level` the index's.

Still to do, extending the models:

1. the store composed with the computation: `Rebalance` over `EpochStore`'s
   files, so that continuity is stated over crashes;
2. the audit record's contents;
3. the state directory as each process's environment has it.

Still to prove:

1. what several publishers leave of the chain: that each record follows one
   that was once at the path below it;
2. the readers as an implementation of an abstract log that is read.

## 8. Abstractions and what is not modelled

- Floating point is exact arithmetic. Comparisons at the very tolerance or cap
  may fall on the other side by one unit in the last place, and a level is
  continuous up to rounding.
- The payment library is external, modelled from how `src/` uses and describes
  it: it settles before the handler runs (`server.js:84-90`). Like the router, it
  takes a path in any case for the route.
- Hashing and signatures are ideal: one digest, one payload; a signature is
  accepted under the key that made it. Canonical JSON is a record, whose fields
  have no order.
- Providers' formats are abstracted to what may come of them: a value, none,
  or a failure.
- With two usable quotes only, their median is their mean, and one of them can
  move it within the tolerance; `OneVenueCannotMove` is about two or more
  honest answers.
- Configuration is modelled where a behaviour depends on it: a step of the boot
  that may throw, the key of each process, the poller's two numbers. That
  server and rebalancer look for their state directory in environments that
  are loaded differently is a matter of how they are installed; the models have
  one directory.
- `symbols.js`, `env.js` and `fixtures.js` are formats and test data. The
  static descriptions in `api/src/routes.js` and `discovery.js` are checked
  once at boot, which is a step that may throw. `cli.js`'s read-only commands
  change nothing. The paying client's CLI handles keys. `scripts/` are one-shot
  operations against a chain or a platform.
