\* One publisher, crashes anywhere, --force and --dry-run.
CONSTANTS
    Publisher = {p1}
    MaxEpoch = 2
    MaxRuns = 3
    MaxTime = 3
    Gate = 2
    HeadPath = HeadPath
    StatePath = StatePath
    Absent = Absent
    Torn = Torn
SPECIFICATION Spec
INVARIANT OrphanIsOverwritten
CHECK_DEADLOCK FALSE
