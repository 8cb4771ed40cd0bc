\* Updates and one terminal of one run, switches and final errors.
SPECIFICATION OrderedSpec
CONSTANTS
    Runs = {r1}
    Started = {r1}
    MaxLevel = 2
    SettlingLevel = 2
    MaxMeaning = 1
    MaxVersion = 1
    ClosedRoots = {}
    Admitters = {a1}
    Faults = {"toggle", "rejected"}
    NoKey = NoKey
INVARIANTS
    NothingAfterTerminal
