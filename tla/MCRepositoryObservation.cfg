SPECIFICATION FairSpec
CONSTANTS
    Commits <- MCCommits
    Refs = {"main", "topic"}
    NoCommit = "none"
    NoRef = "detached"
    Parent <- MCParent
    Start <- MCStart
    MayMove = {"commit", "rewrite", "switch", "detach", "delete"}
    MaxMoves = 3
    MaxFaults = 1
INVARIANTS TypeOK StoredCursorIsCovered ToldIsStored
PROPERTY RestingHeadIsCandidate
CHECK_DEADLOCK FALSE
