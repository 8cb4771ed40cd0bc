-------------------------- MODULE AgenticWorkEpisode -------------------------
(***************************************************************************)
(* Episodes of agentic work: the queries of a chat session that follow each *)
(* other within the staleness window, their evidence, and the commit that   *)
(* claimed them (src/attribution/agenticWorkEpisode.ts).  The operations    *)
(* wait for each other.                                                     *)
(***************************************************************************)
EXTENDS AttributionTypes

CONSTANTS
    Artifact,        \* the file of a write
    Session,         \* the chat session of a query
    StaleAfter       \* the window of an episode

VARIABLE episodes    \* [Episodes -> episode or NoEpisode]

NoEpisode == [status |-> "none"]
NoEvidence == [writes |-> {}, base |-> -1]

Exists(e) == episodes[e] # NoEpisode
HasEvidence(episode, q) == episode.evidence[q] # NoEvidence
IsStale(episode, at) == at - episode.lastActivity > StaleAfter
Later(a, b) == IF a > b THEN a ELSE b

(* listEpisodes has the episode that was active last first.                 *)
First(ids) == {e \in ids : \A other \in ids : episodes[other].lastActivity <= episodes[e].lastActivity}

(*------------------------------ observeRun ------------------------------*)

Staled(e, at) ==
    IF Exists(e) /\ episodes[e].status = "open" /\ IsStale(episodes[e], at)
    THEN [episodes[e] EXCEPT !.status = "stale"] ELSE episodes[e]

(* The episode that a run of q joins: one of its session, still open, or     *)
(* claimed and of the same chat.                                            *)
Joinable(q, at) ==
    {e \in Episodes : /\ Exists(e) /\ episodes[e].status \in {"open", "claimed"}
                      /\ ~IsStale(episodes[e], at)
                      /\ episodes[e].session = Session[q]}

(* Episodes are numbered as they are created.                                *)
Unused == {e \in Episodes : ~Exists(e) /\ \A other \in Episodes : other < e => Exists(other)}

Created(q, at) ==
    [session |-> Session[q], queries |-> {q}, started |-> at, lastQuery |-> at, lastActivity |-> at,
     status |-> "open", claimedBy |-> NoCommit, claimedAt |-> -1,
     evidence |-> [other \in Queries |-> NoEvidence]]

Extended(episode, q, at) ==
    [episode EXCEPT !.queries = @ \cup {q}, !.lastQuery = Later(@, at), !.lastActivity = Later(@, at)]

(* A run of q, which started at `started`, is seen active at `at`.           *)
ObserveRun(q, started, at) ==
    IF at - started > StaleAfter
    THEN episodes' = [e \in Episodes |-> Staled(e, started)]
    ELSE \E e \in IF Joinable(q, started) # {} THEN First(Joinable(q, started)) ELSE Unused :
            episodes' = [other \in Episodes |->
                IF other # e THEN Staled(other, started)
                ELSE Extended(IF Exists(e) THEN episodes[e] ELSE Created(q, started), q, at)]

(*------------------------------- evidence -------------------------------*)

(* A complete census of the writes replaces what was proved and rejected     *)
(* before; the state of a file is the one observed last.                     *)
Merged(old, new) ==
    [new EXCEPT
        !.writes = @ \cup {w \in old.writes : \A v \in new.writes : Artifact[v] # Artifact[w]},
        !.trusted = @ /\ old.trusted,
        !.complete = @ \/ old.complete,
        !.causal = IF new.complete THEN @ ELSE @ \cup old.causal,
        !.rejected = IF new.complete THEN @ ELSE @ \cup old.rejected]

Bound(episode, q, evidence) ==
    [episode EXCEPT !.evidence[q] = IF @ = NoEvidence THEN evidence ELSE Merged(@, evidence)]

(* Evidence of a query that no episode knows is dropped.                     *)
ObserveWorkspaceEvidence(q, evidence, at) ==
    LET ofQuery == {e \in Episodes : Exists(e) /\ q \in episodes[e].queries}
    IN  IF ofQuery = {} THEN UNCHANGED episodes
        ELSE \E e \in First(ofQuery) :
                episodes' = [episodes EXCEPT ![e] =
                                [Bound(episodes[e], q, evidence) EXCEPT !.lastActivity = Later(@, at)]]

(*--------------------------------- claims -------------------------------*)

MarkClaimed(e, c, at) ==
    episodes' = [episodes EXCEPT ![e] = [@ EXCEPT !.status = "claimed", !.claimedBy = c, !.claimedAt = at]]

ReopenSupersededCommits(commits) ==
    episodes' = [e \in Episodes |->
        IF Exists(e) /\ episodes[e].claimedBy \in commits
        THEN [episodes[e] EXCEPT !.status = "open", !.claimedBy = NoCommit, !.claimedAt = -1]
        ELSE episodes[e]]
=============================================================================
