\* Updates and corrections of the terminal of one run, storage in order.
SPECIFICATION OrderedSpec
CONSTANTS
    Runs = {r1}
    Started = {r1}
    MaxLevel = 1
    SettlingLevel = 0
    MaxMeaning = 2
    MaxVersion = 2
    ClosedRoots = {}
    Admitters = {a1}
    Faults = {}
    NoKey = NoKey
INVARIANTS
    ReplacementSerialized
