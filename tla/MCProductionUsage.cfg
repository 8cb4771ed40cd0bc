SPECIFICATION Spec
CONSTANTS
    None = None
    QuietPeriod = 1
    Feeds <- AllFeeds
    Week = 2
    KeepRuns = 3
    MaxObservations = 3
    MaxNow = 4
    MaxDelay = 1
    MaxUpsets = 1
INVARIANTS NothingIsCountedTwice BreakdownConserves BestEndingIsKept ClearedStaysCleared
PROPERTIES EvidenceIsCounted
CHECK_DEADLOCK FALSE
