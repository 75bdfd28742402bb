\* One publisher, crashes anywhere, --force and --dry-run.
CONSTANTS
    Publisher = {p1}
    MaxEpoch = 2
    MaxRuns = 3
    MaxTime = 3
    Gate = 2
    HeadPath = HeadPath
    StatePath = StatePath
    Absent = Absent
    Torn = Torn
SPECIFICATION FairSpec
INVARIANTS IInv HeadHasRecords StateMatchesRecord AuditMatchesRecord
PROPERTIES HealthyRunPublishes RecordsImmutable DivergenceIsLoud ImplementsLog
CHECK_DEADLOCK FALSE
