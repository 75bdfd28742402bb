\* Boot, outages, one rebalance and one request at a time.  The time unit is the
\* limit: age 0 is fresh, age 1 may be sold after a settlement, age 2 never.
CONSTANTS
    Symbol = {btc, eth}
    TopSize = 1
    MaxAge = 2
    Never = Never
    Request = {r1}
    MaxStale = 0
    PayMax = 1
    MaxPublishes = 1
    TargetSize = 1
SPECIFICATION FairServerSpec
INVARIANTS IInv AgeMeansSnapshot HandlerHasSnapshot BasketIsAskedFor
PROPERTIES SnapshotKept SoldNearlyFresh BootEnds GateReopens ErrorsClear PriceOutageShows
CHECK_DEADLOCK FALSE
