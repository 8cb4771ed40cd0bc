----------------------- MODULE CommitAttributionPolicy -----------------------
(***************************************************************************)
(* When a commit may claim the queries of an episode                       *)
(* (src/attribution/commitAttributionPolicy.ts), and what a native          *)
(* rejection makes of a claim.  A write stands for the content state that a *)
(* query left in a file; a commit contains the writes whose state it has.   *)
(***************************************************************************)
EXTENDS AttributionTypes

CONSTANTS
    Parent,          \* the parent of a commit, NoCommit for a root
    Content          \* the writes a commit contains

Ancestry[c \in Commits] ==
    {c} \cup (IF Parent[c] = NoCommit THEN {} ELSE Ancestry[Parent[c]])

IsAncestor(a, b) == a \in Ancestry[b]

Known(evidence) == evidence.base >= 0

(* Once a record carries a census of its causal writes, only those count.    *)
AttributableWrites(evidence) ==
    IF evidence.complete THEN evidence.writes \cap evidence.causal ELSE evidence.writes

InWindow(candidate, evidence) == candidate.seq > evidence.base

(* A query that started before the first commit has no head to descend from. *)
LineageVerified(c, candidate, evidence) ==
    IF evidence.head = NoCommit THEN InWindow(candidate, evidence) ELSE IsAncestor(evidence.head, c)

(* The queries whose own writes are in commit c.                             *)
ProvenAnchors(c, candidate, evidence) ==
    {q \in Queries :
        /\ Known(evidence[q]) /\ evidence[q].trusted
        /\ InWindow(candidate, evidence[q])
        /\ AttributableWrites(evidence[q]) \cap Content[c] # {}
        /\ LineageVerified(c, candidate, evidence[q])}

(* The queries of the episode that nothing ties to another commit.           *)
Inheriting(c, candidate, episode) ==
    {q \in episode.queries :
        Known(episode.evidence[q]) =>
            /\ InWindow(candidate, episode.evidence[q])
            /\ LineageVerified(c, candidate, episode.evidence[q])}

(* The complete censuses that prove writes of commit c, and which writes.     *)
MatchedPairs(c, records, queries) ==
    {pair \in queries \X Writes :
        \E found \in records[pair[1]] :
            /\ Known(found) /\ found.complete
            /\ pair[2] \in found.writes \cap found.causal \cap Content[c]}

(* active: the queries claimed by some commit; own: those claimed by this.   *)
Evaluate(c, candidate, episode, active, own) ==
    LET proven == ProvenAnchors(c, candidate, episode.evidence)
        anchors == proven \ active
        retained == proven \cap own
        inherited == Inheriting(c, candidate, episode) \ (anchors \cup active)
    IN  [reportable |-> anchors \cup retained # {},
         queries |-> anchors \cup inherited,
         inherited |-> inherited,
         pairs |-> MatchedPairs(c, [q \in Queries |-> {episode.evidence[q]}], anchors \cup retained)]

(* A direct claim keeps the pairs of its own query, an inherited one those   *)
(* of the anchors.                                                          *)
PairsFor(result, q) ==
    IF q \in result.inherited THEN result.pairs ELSE {pair \in result.pairs : pair[1] = q}

(*--------------------------- native rejections --------------------------*)

Rejected(pair, records) ==
    \E found \in records[pair[1]] :
        Known(found) /\ found.complete /\ pair[2] \in found.rejected \ found.causal

(* A claim of commit c that was proved by the pairs.                         *)
Verdict(c, pairs, records) ==
    LET rejected == {pair \in pairs : Rejected(pair, records)}
        current == MatchedPairs(c, records, {pair[1] : pair \in pairs})
    IN  IF rejected = {} THEN [kind |-> "kept", pairs |-> {}]
        ELSE IF current # {} THEN [kind |-> "revalidated", pairs |-> current]
        ELSE IF rejected = pairs THEN [kind |-> "revoked", pairs |-> {}]
        ELSE [kind |-> "kept", pairs |-> {}]
=============================================================================
