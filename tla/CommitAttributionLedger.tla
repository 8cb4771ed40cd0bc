----------------------- MODULE CommitAttributionLedger -----------------------
(***************************************************************************)
(* The ledger of first claims: which commit each query's cost is allocated *)
(* to (src/storage/commitAttributionLedger.ts).  Every operation reads all  *)
(* attributions, changes them and stores them in one transaction, and the  *)
(* operations wait for each other.                                         *)
(***************************************************************************)
EXTENDS AttributionTypes

CONSTANT NoCost     \* the cost of a query that is not known

VARIABLE attributions   \* [Queries -> [status, cost, allocations]]

Statuses == {"unattributed", "pending_evidence", "expired", "attributed", "rewrite_pending", "rejected"}

(* pairs are the writes that prove the claim, each with the query that made *)
(* it; since is when the claim became rewrite pending.                     *)
NoAttribution == [status |-> "unattributed", cost |-> NoCost, allocations |-> {}]

Live(allocation) == allocation.status \in {"active", "rewrite_pending"}
LiveOf(a, q) == {x \in a[q].allocations : Live(x)}
HasActiveFirstClaim(a, q) == LiveOf(a, q) # {}

(*------------------------------ assertions ------------------------------*)

AtMost(cost, limit) == cost # NoCost => limit # NoCost /\ cost <= limit

(* What every stored attribution satisfies, or the operation that would     *)
(* store it throws.                                                         *)
Writable(attribution) ==
    LET live == {x \in attribution.allocations : Live(x)}
    IN  /\ \A x, y \in live : x = y
        /\ \A x \in live : AtMost(x.cost, attribution.cost)

(*------------------------------ operations ------------------------------*)

Ended(allocation) == [allocation EXCEPT !.status = "superseded", !.since = 0]

SlipFirstClaimed(a, qs, new) ==
    [q \in Queries |->
        IF q \in qs
        THEN [a[q] EXCEPT !.status = "attributed",
                          !.allocations = @ \cup {[new[q] EXCEPT !.cost = a[q].cost]}]
        ELSE a[q]]

(* A claim of the queries in qs for the allocations in new.                  *)
FirstClaimed(a, qs, new) ==
    [q \in Queries |->
        IF q \in qs /\ ~HasActiveFirstClaim(a, q)
        THEN [a[q] EXCEPT !.status = "attributed",
                          !.allocations = @ \cup {[new[q] EXCEPT !.cost = a[q].cost]}]
        ELSE a[q]]

TryFirstClaim(qs, new) == attributions' = FirstClaimed(attributions, qs, new)

HasClaimOf(a, q, c) == \E x \in LiveOf(a, q) : x.commit = c

(* The claims that the queries in qs have on c move to the allocations in   *)
(* new.                                                                     *)
Transferred(a, qs, c, new) ==
    [q \in Queries |->
        IF q \in qs /\ HasClaimOf(a, q, c)
        THEN [a[q] EXCEPT !.status = "attributed",
                          !.allocations = {IF Live(x) /\ x.commit = c THEN Ended(x) ELSE x : x \in @}
                                            \cup {[new[q] EXCEPT !.cost = a[q].cost]}]
        ELSE a[q]]

TransferFirstClaim(qs, c, new) == attributions' = Transferred(attributions, qs, c, new)

(* What a native rejection does to a live claim, by its verdict: keep, and  *)
(* the pairs that still prove it replace those stored, or end.              *)
Judged(allocation, verdict) ==
    IF ~Live(allocation) THEN allocation
    ELSE IF verdict.kind = "revalidated" THEN [allocation EXCEPT !.pairs = verdict.pairs]
    ELSE IF verdict.kind = "revoked" THEN [Ended(allocation) EXCEPT !.retracted = TRUE]
    ELSE allocation

SlipNativeReconciled(a, verdict) ==
    [q \in Queries |-> [a[q] EXCEPT !.allocations = {Judged(x, verdict[q]) : x \in @}]]

(* verdict[q] is on the one live claim of q.                                *)
NativeReconciled(a, verdict) ==
    [q \in Queries |->
        [a[q] EXCEPT !.status = IF HasActiveFirstClaim(a, q) /\ verdict[q].kind = "revoked"
                                THEN "rejected" ELSE @,
                     !.allocations = {Judged(x, verdict[q]) : x \in @}]]

ReconcileNative(verdict) == attributions' = NativeReconciled(attributions, verdict)

MarkRewritePending(commits, at) ==
    LET Rewritten(x) == x.status = "active" /\ x.commit \in commits
    IN  attributions' =
          [q \in Queries |->
              [attributions[q] EXCEPT
                  !.status = IF \E x \in attributions[q].allocations : Rewritten(x)
                             THEN "rewrite_pending" ELSE @,
                  !.allocations = {IF Rewritten(x)
                                   THEN [x EXCEPT !.status = "rewrite_pending", !.since = at]
                                   ELSE x : x \in @}]]

ExpireRewritePending(before) ==
    LET Expired(x) == x.status = "rewrite_pending" /\ x.since <= before
    IN  attributions' =
          [q \in Queries |->
              [attributions[q] EXCEPT
                  !.status = IF \E x \in attributions[q].allocations : Expired(x) THEN "expired" ELSE @,
                  !.allocations = {IF Expired(x) THEN Ended(x) ELSE x : x \in @}]]

(* mergePersistedQueryCost: a claim that awaits its rewrite keeps its cost. *)
Repriced(attribution, cost) ==
    [attribution EXCEPT
        !.cost = cost,
        !.allocations = {IF x.status = "active" THEN [x EXCEPT !.cost = cost] ELSE x : x \in @}]

UpsertCost(q, cost) ==
    /\ Writable(Repriced(attributions[q], cost))
    /\ attributions' = [attributions EXCEPT ![q] = Repriced(@, cost)]

(* The status of a query that has no claim follows its evidence.             *)
WithoutClaim(status) == status \notin {"attributed", "rewrite_pending", "rejected"}

UpsertStatus(q, status) ==
    attributions' = [attributions EXCEPT ![q] = [@ EXCEPT !.status = status]]

(*-------------------------- publication snapshots -----------------------*)

(* The allocations a commit is published from: those of queries that have a *)
(* claim, and the retracted ones of queries that lost theirs to a rejection.*)
Published(a, c) ==
    {item \in UNION {{q} \X a[q].allocations : q \in Queries} :
        /\ item[2].commit = c
        /\ \/ a[item[1]].status \in {"attributed", "rewrite_pending"}
           \/ a[item[1]].status = "rejected" /\ item[2].retracted}

(* The cost that a commit is published with: that of its live claims.        *)
CostsOn(a, c) == {<<item[1], item[2].cost>> : item \in {i \in Published(a, c) : Live(i[2])}}

(*------------------------------- properties -----------------------------*)

(* What the ledger stores passes its own assertions: a query's cost goes to  *)
(* one commit at most, and never more of it than the query cost.             *)
StoredIsWritable == \A q \in Queries : Writable(attributions[q])

(* The status of a query says what its claim is: whichever of the claims,    *)
(* transfers, rewrites, expiries and retractions came last, `attributed` and *)
(* `rewrite_pending` are the queries with such a claim.                      *)
StatusAgrees ==
    \A q \in Queries :
        LET live == {x.status : x \in LiveOf(attributions, q)}
        IN  /\ attributions[q].status = "attributed" <=> "active" \in live
            /\ attributions[q].status = "rewrite_pending" <=> "rewrite_pending" \in live
=============================================================================
