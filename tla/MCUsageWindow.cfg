SPECIFICATION Spec
CONSTANTS
    None = None
    QuietPeriod = 1
    Feeds <- AllFeeds
    Week = 2
    KeepRuns = 3
    MaxObservations = 4
    MaxNow = 4
    MaxDelay = 1
    MaxUpsets = 0
INVARIANTS HistoryIsPreserved
CHECK_DEADLOCK FALSE
