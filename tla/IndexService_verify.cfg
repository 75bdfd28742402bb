\* One publisher, one client; the server and each run have either key, or none.
CONSTANTS
    Publisher = {p1}
    Reader = {r1}
    MaxEpoch = 1
    MaxRuns = 3
    MaxTime = 0
    Gate = 0
    HeadPath = HeadPath
    StatePath = StatePath
    Absent = Absent
    Torn = Torn
    Key = {k1, k2}
    NoKey = NoKey
    Undefined = Undefined
SPECIFICATION ServiceSpec
INVARIANT ServedVerifies
CHECK_DEADLOCK FALSE
