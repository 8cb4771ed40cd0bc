---------------------------- MODULE AttributionTypes ---------------------------
(***************************************************************************)
(* What the parts of attribution have in common (src/types.ts).            *)
(***************************************************************************)
EXTENDS Integers, FiniteSets

CONSTANTS
    Queries,         \* the queries agents were asked
    Commits,         \* the commits of the repository
    Episodes,        \* episodes of agentic work, by number
    Writes,          \* content states that queries leave in files
    NoCommit
================================================================================
