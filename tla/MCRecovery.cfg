\* Terminals of one run, one caller, under fairness.
SPECIFICATION FairSpec
CONSTANTS
    Runs = {r1}
    Started = {r1}
    MaxLevel = 0
    SettlingLevel = 0
    MaxMeaning = 2
    MaxVersion = 2
    ClosedRoots = {}
    Admitters = {a1}
    Faults = {"refused", "stop"}
    NoKey = NoKey
PROPERTIES
    CorrectionArrives
    StopComes
