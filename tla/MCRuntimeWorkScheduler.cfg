SPECIFICATION FairSpec
CONSTANTS
    Keys = {usage, webhook}
    Works = {w1, w2}
    Drainers = {quiesce, status}
    MaxRounds = 3
    NoWork = NoWork
INVARIANTS
    OneRunPerLane
    LastWorkIsNeverDropped
    NextTurnRunsTheLatest
    NoStrandedDrain
PROPERTIES
    StableMeansQuiescent
    OwedWorkStarts
    DrainAnswersOnceQuiet
