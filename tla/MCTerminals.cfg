\* Terminals of one run, two callers, any order of storage answers.
SPECIFICATION Spec
CONSTANTS
    Runs = {r1}
    Started = {r1}
    MaxLevel = 0
    SettlingLevel = 0
    MaxMeaning = 2
    MaxVersion = 2
    ClosedRoots = {}
    Admitters = {a1, a2}
    Faults = {"refused", "forced"}
    NoKey = NoKey
SYMMETRY Symmetry
INVARIANTS
    SubjectMatchesRow
    VersionsClimb
PROPERTIES
    KeepsLedger
