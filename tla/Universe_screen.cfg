\* Two assets of any nature, which may share a ticker, and two providers that may
\* fail or omit either.
CONSTANTS
    Asset = {a1, a2}
    Ticker = {t1, t2}
    Namesakes = TRUE
    Cap = {10, 100, 200}
    Volume = {0, 2}
    Age = {0, 30, 90}
    MinMarketCap = 50
    MinVolume = 1
    MinTurnoverBps = 100
    MinListingAge = 90
    TargetSize = 1
    Null = Null
SPECIFICATION Spec
INVARIANTS EligibleIsQualified NamesakesVouch RankIsSound
CHECK_DEADLOCK FALSE
