SPECIFICATION FairSpec
CONSTANTS
    Observations = {o1, o2}
    Runs = {r1}
    Commits = {c1}
    RunOf <- OneRun
    Closing = {o1}
    Immediate = {o1}
    Urgent = {o1}
    Hints = {o2}
    Identified = {r1}
    Bindable = {r1}
    Scenes <- RuntimeScenes
    MaxPasses = 2
INVARIANTS
    WaitingWorkHasATurn
    DrainedIsComplete
    SealedStaysQuiet
PROPERTIES
    AcceptedIsProjected
    CompletedIsPublished
CHECK_DEADLOCK FALSE
