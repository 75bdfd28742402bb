\* One publisher with crashes, one client asking anything at any time.
CONSTANTS
    Publisher = {p1}
    Reader = {r1}
    MaxEpoch = 1
    MaxRuns = 3
    MaxTime = 0
    Gate = 0
    HeadPath = HeadPath
    StatePath = StatePath
    Absent = Absent
    Torn = Torn
    Key = {k1}
    NoKey = NoKey
    Undefined = Undefined
SPECIFICATION ServiceSpec
INVARIANTS ReaderInv LatestFindsRecord ListingIsContiguous RecordsReproduce
PROPERTIES LatestMonotone NamedIsServable
CHECK_DEADLOCK FALSE
