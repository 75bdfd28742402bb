\* Four sources, as configured; quotes around the tolerance, far off, and zero.
CONSTANTS
    Source = {bitstamp, bitfinex, coingecko, coinpaprika}
    Exchange = {bitstamp, bitfinex}
    Amount = {0, 95, 96, 100, 105, 106, 300}
    MinSources = 2
    MaxDeviationBps = 500
    Missing = Missing
    Failed = Failed
SPECIFICATION Spec
INVARIANTS OneVenueCannotMove MajorityIsPriced HalfIsHeard
CHECK_DEADLOCK FALSE
