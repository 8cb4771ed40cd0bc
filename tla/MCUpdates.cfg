\* The start and the updates of one run, the switches, a final error, a crash.
SPECIFICATION Spec
CONSTANTS
    Runs = {r1}
    Started = {}
    MaxLevel = 2
    SettlingLevel = 2
    MaxMeaning = 0
    MaxVersion = 0
    ClosedRoots = {}
    Admitters = {a1}
    Faults = {"toggle", "rejected", "crash"}
    NoKey = NoKey
INVARIANTS
    UpdatesClimb OneAttemptPerRun
