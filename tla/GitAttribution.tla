---------------------------- MODULE GitAttribution ----------------------------
(***************************************************************************)
(* Which commit the cost of a query goes to                                *)
(* (src/attribution/gitAttribution.ts).  The scanner of the repository      *)
(* stores the commits it finds as candidates, the tracker of the workspace  *)
(* binds evidence to episodes, the run ledger prices queries, and jobs that *)
(* run one at a time reconcile the four: a job reads candidates and episodes*)
(* once and then writes the ledger of claims, the episodes and the          *)
(* candidates, one transaction at a time, while the others go on.           *)
(*                                                                         *)
(* One repository, one active epoch, one ref.                              *)
(***************************************************************************)
EXTENDS CommitAttributionLedger, CommitAttributionPolicy, AgenticWorkEpisode

CONSTANTS
    FirstCost,       \* the price of a query before any repricing
    Costs,           \* [Queries -> the prices it may have]
    MayFall,         \* whether a price may become lower
    Deliveries,      \* the evidence that may be bound to a query
    Root,            \* the head when the epoch begins, NoCommit in an empty repository
    TTL,             \* how long a candidate or a rewritten claim waits
    MaxNow, MaxObserved, MaxCrashes,
    MaxOverlap,      \* the steps that the other parts take while a job runs
    KeepsUp          \* whether the dispatcher has caught up when a job begins

ASSUME AttributionAssumption ==
    /\ MaxNow \in Nat /\ MaxObserved \in Nat
    /\ FirstCost # NoCost => FirstCost \in Int
    /\ \A q \in Queries : \A price \in Costs[q] : price # NoCost => price \in Int

VARIABLES
    now,
    epoch,           \* [head, seq]: the stored head of the ref and the last sequence
    candidates,      \* [Commits -> [seq, at, decision]]
    telling,         \* the scanner waits until its rewrite is handled
    started,         \* [Queries -> the clock, sequence and head when q began]
    cost,            \* [Queries -> cost], of the run ledger
    job,             \* the job that runs, or NoJob
    published,       \* [Commits -> {<<query, cost>>}], as the commit was queued last
    news,            \* the lane on which the dispatcher hears of changes
    crashes,
    overlap

shared == <<now, epoch, candidates, telling, started, cost, crashes, overlap>>
publication == <<published, news>>
vars == <<shared, attributions, episodes, job, publication>>

NoCandidate == [seq |-> 0, at |-> -1, decision |-> "none"]
NotStarted == [at |-> -1, base |-> -1, head |-> NoCommit]

(* known, active and the rest are the local variables of reconcileInternal.  *)
NoJob == [stage |-> "idle", rewrite |-> FALSE, costs |-> <<>>, unpriced |-> {}, repriced |-> {},
          all |-> FALSE, unreachable |-> {}, candidates |-> <<>>, episodes |-> <<>>, known |-> <<>>, active |-> {},
          revoked |-> {}, todo |-> {}, tried |-> {}, reported |-> FALSE,
          plan |-> <<>>, claimed |-> {}]

(* The lane: the commits its turn is for and the latest work asked for.      *)
(* replaced records the commits whose work was replaced before its turn;     *)
(* restart: all commits have yet to be compared.                             *)
NoNews == [turn |-> {}, latest |-> {}, replaced |-> {}, restart |-> FALSE]

Init ==
    /\ now = 0
    /\ epoch = [head |-> Root, seq |-> 0]
    /\ candidates = [c \in Commits |-> NoCandidate]
    /\ telling = FALSE
    /\ started = [q \in Queries |-> NotStarted]
    /\ cost = [q \in Queries |-> FirstCost]
    /\ attributions = [q \in Queries |-> NoAttribution]
    /\ episodes = [e \in Episodes |-> NoEpisode]
    /\ job = NoJob
    /\ published = [c \in Commits |-> {}]
    /\ news = NoNews
    /\ crashes = 0 /\ overlap = 0

(*---------------------------- the other parts ---------------------------*)

Overlaps ==
    /\ job = NoJob \/ overlap < MaxOverlap
    /\ overlap' = IF job = NoJob THEN 0 ELSE overlap + 1

Tick ==
    /\ Overlaps
    /\ now < MaxNow
    /\ now' = now + 1
    /\ UNCHANGED <<epoch, candidates, telling, started, cost, crashes, attributions, episodes, job, publication>>

(* A query begins: the tracker takes the sequence and the head of the epoch. *)
RunStarts(q) ==
    /\ Overlaps
    /\ started[q] = NotStarted
    /\ started' = [started EXCEPT ![q] = [at |-> now, base |-> epoch.seq, head |-> epoch.head]]
    /\ ObserveRun(q, now, now)
    /\ UNCHANGED <<now, epoch, candidates, telling, cost, crashes, attributions, job, publication>>

RunActive(q) ==
    /\ Overlaps
    /\ started[q] # NotStarted
    /\ ObserveRun(q, started[q].at, now)
    /\ UNCHANGED <<now, epoch, candidates, telling, started, cost, crashes, attributions, job, publication>>

EvidenceOf(q, delivery) ==
    [writes |-> delivery.writes, base |-> started[q].base, head |-> started[q].head, trusted |-> TRUE,
     complete |-> delivery.complete, causal |-> delivery.causal, rejected |-> delivery.rejected]

(* Denied permission is not granted later.                                   *)
Denied(q) == UNION {episodes[e].evidence[q].rejected :
                        e \in {e \in Episodes : Exists(e) /\ HasEvidence(episodes[e], q)}}

EvidenceBound(q) ==
    /\ Overlaps
    /\ started[q] # NotStarted
    /\ \E delivery \in Deliveries[q] :
        /\ delivery.causal \cap Denied(q) = {}
        /\ ObserveWorkspaceEvidence(q, EvidenceOf(q, delivery), now)
    /\ UNCHANGED <<now, epoch, candidates, telling, started, cost, crashes, attributions, job, publication>>

(* The ref moves to c and the scanner stores the candidate and the new head. *)
Stored(c) ==
    /\ Overlaps
    /\ ~telling /\ epoch.seq < MaxObserved
    /\ epoch' = [head |-> c, seq |-> epoch.seq + 1]
    /\ candidates' = [candidates EXCEPT ![c] =
                        [seq |-> epoch.seq + 1, at |-> now, decision |-> "pending_evidence"]]
    /\ UNCHANGED <<now, started, cost, crashes, attributions, episodes, job, publication>>

CommitObserved(c) == Parent[c] = epoch.head /\ Stored(c) /\ UNCHANGED telling

(* The scanner waits for the handler it tells about a rewrite.               *)
RewriteObserved(c) ==
    epoch.head # NoCommit /\ ~IsAncestor(epoch.head, c) /\ Stored(c) /\ telling' = TRUE

Price(q) ==
    /\ Overlaps
    /\ \E price \in Costs[q] \ {cost[q]} :
        /\ AtMost(cost[q], price) \/ MayFall
        /\ cost' = [cost EXCEPT ![q] = price]
    /\ UNCHANGED <<now, epoch, candidates, telling, started, crashes, attributions, episodes, job, publication>>

(* The outbox stays, the lane and its work are gone: the restarted dispatcher *)
(* compares all commits with what it queued.                                 *)
Crash ==
    /\ crashes < MaxCrashes
    /\ crashes' = crashes + 1
    /\ job' = NoJob
    /\ telling' = FALSE
    /\ overlap' = 0
    /\ news' = [NoNews EXCEPT !.restart = TRUE]
    /\ UNCHANGED <<now, epoch, candidates, started, cost, attributions, episodes, published>>

(*----------------------------- the dispatcher ---------------------------*)

SlipTell(targets) ==
    /\ UNCHANGED published
    /\ news' = IF targets = {} \/ news.turn # {} THEN news ELSE [news EXCEPT !.turn = UNION targets]

(* A change is told by asking the lane to compare a commit, or all of them.  *)
(* The lane keeps the latest work asked for beside the one whose turn it is: *)
(* of the changes told in one go the first and the last are compared.        *)
Tell(targets) ==
    /\ UNCHANGED published
    /\ \/ targets = {} /\ UNCHANGED news
       \/ /\ news.turn # {}
          /\ \E last \in targets :
                news' = [news EXCEPT !.latest = last,
                                     !.replaced = (@ \cup news.latest \cup UNION targets) \ last]
       \/ /\ news.turn = {}
          /\ \E first, last \in targets :
                /\ first = last <=> targets = {first}
                /\ news' = [news EXCEPT !.turn = first, !.latest = last \ first,
                                        !.replaced = (@ \cup UNION targets) \ (first \cup last)]

(* reconcileCommitEvents on the commits of the turn: what changed is queued.  *)
(* It is read again when it is delivered.                                    *)
Turn ==
    /\ news.turn # {}
    /\ published' = [c \in Commits |-> IF c \in news.turn THEN CostsOn(attributions, c) ELSE published[c]]
    /\ news' = [news EXCEPT !.turn = news.latest, !.latest = {}, !.replaced = @ \ news.turn]
    /\ UNCHANGED <<shared, attributions, episodes, job>>

(* All commits are compared after a restart, and whenever a completed run is *)
(* projected or its evidence bound.                                          *)
ReconcileCommitEvents ==
    /\ published' = [c \in Commits |-> CostsOn(attributions, c)]
    /\ news' = [news EXCEPT !.replaced = {}, !.restart = FALSE]
    /\ UNCHANGED <<shared, attributions, episodes, job>>

Dispatcher == Turn \/ ReconcileCommitEvents

(*-------------------------------- the jobs ------------------------------*)

Idle == job = NoJob
MayBegin == Idle /\ (KeepsUp => news.turn = {} /\ ~news.restart)

(* synchronizePersistedCosts lists the groups of the run ledger once.        *)
Synchronize(queries, all) ==
    /\ MayBegin
    /\ job' = [NoJob EXCEPT !.stage = "costs", !.costs = cost, !.unpriced = queries, !.all = all]
    /\ UNCHANGED <<shared, attributions, episodes, publication>>

ReconcilePersistedState == Synchronize(Queries, FALSE)

(* It tells no commit, and so has all of them compared.                      *)
ObserveRunCompleted(q) == started[q] # NotStarted /\ Synchronize({q}, TRUE)

LiveCommits(q) == {x.commit : x \in LiveOf(attributions, q)}

NextGroup(q) == job.stage = "costs" /\ q \in job.unpriced /\ \A other \in job.unpriced : q <= other

SynchronizeCost(q) ==
    /\ NextGroup(q)
    /\ UpsertCost(q, job.costs[q])
    /\ job' = [job EXCEPT !.unpriced = @ \ {q},
                          !.repriced = @ \cup (IF attributions'[q] # attributions[q] THEN LiveCommits(q) ELSE {}),
                          !.stage = IF job.unpriced = {q} THEN "read" ELSE @]
    /\ UNCHANGED <<shared, episodes, publication>>

(* An assertion of the ledger ends the job.                                  *)
CostRefused(q) ==
    /\ NextGroup(q)
    /\ ~Writable(Repriced(attributions[q], job.costs[q]))
    /\ job' = NoJob
    /\ overlap' = 0
    /\ UNCHANGED <<now, epoch, candidates, telling, started, cost, crashes, attributions, episodes, publication>>

(* markConfirmedRewrites.                                                    *)
Unreachable ==
    {c \in Commits : /\ \E q \in Queries : \E x \in attributions[q].allocations :
                            x.status = "active" /\ x.commit = c
                     /\ ~IsAncestor(c, epoch.head)}

RewriteHandled ==
    /\ MayBegin /\ telling
    /\ MarkRewritePending(Unreachable, candidates[epoch.head].at)
    /\ job' = [NoJob EXCEPT !.rewrite = TRUE, !.stage = IF Unreachable = {} THEN "read" ELSE "reopen",
                            !.unreachable = Unreachable]
    /\ UNCHANGED <<shared, episodes, publication>>

(* It tells of one of the commits.                                           *)
Reopen ==
    /\ job.stage = "reopen"
    /\ ReopenSupersededCommits(job.unreachable)
    /\ job' = [job EXCEPT !.stage = "read", !.unreachable = {}]
    /\ UNCHANGED <<shared, attributions>>
    /\ \E c \in job.unreachable : Tell({{c}})

(*---------------------------- reconcileInternal -------------------------*)

(* Listed after the rewrites that waited too long have expired.              *)
Begin ==
    /\ ExpireRewritePending(now - TTL)
    /\ job' = [job EXCEPT !.stage = "native", !.candidates = candidates, !.episodes = episodes,
                          !.known = attributions']
    /\ UNCHANGED <<shared, episodes, publication>>

(* reconcile() is nothing more than the reconciliation.                      *)
Reconcile == MayBegin /\ Begin
Read == job.stage = "read" /\ Begin

Records == [q \in Queries |-> {job.episodes[e].evidence[q] : e \in {e \in Episodes : job.episodes[e] # NoEpisode}}]

SlipVerdictOn(x) ==
    IF x.pairs = {} \/ job.candidates[x.commit].decision # "reportable" THEN [kind |-> "kept", pairs |-> {}]
    ELSE Verdict(x.commit, x.pairs, Records)

VerdictOn(x) ==
    IF x.pairs = {} \/ job.candidates[x.commit] = NoCandidate THEN [kind |-> "kept", pairs |-> {}]
    ELSE Verdict(x.commit, x.pairs, Records)

Verdicts ==
    [q \in Queries |-> IF HasActiveFirstClaim(attributions, q)
                       THEN VerdictOn(CHOOSE x \in LiveOf(attributions, q) : TRUE)
                       ELSE [kind |-> "kept", pairs |-> {}]]

HasLiveAllocation(a, c) == \E q \in Queries : HasClaimOf(a, q, c)

SlipLost(c) == ~HasLiveAllocation(job.known, c) /\ job.candidates[c] # NoCandidate

(* A candidate that a rejection has left without a claim.                    *)
Lost(c) == ~HasLiveAllocation(attributions', c) /\ job.candidates[c] # NoCandidate

ReconcileNativeRejections ==
    /\ job.stage = "native"
    /\ ReconcileNative(Verdicts)
    /\ LET revoked == UNION {LiveCommits(q) : q \in {q \in Queries : Verdicts[q].kind # "kept"}}
       IN  job' = [job EXCEPT !.stage = "retract", !.revoked = revoked, !.todo = {c \in revoked : Lost(c)}]
    /\ UNCHANGED <<shared, episodes, publication>>

(* reconcileNativeRejectedCandidateStates, one candidate: it is stored as the *)
(* job read it, pending again, unless it is pending for these reasons.       *)
Pended(c) == [job.candidates[c] EXCEPT !.decision = "pending_evidence"]

Retract(c) ==
    /\ job.stage = "retract" /\ c \in job.todo
    /\ \A other \in job.todo : job.candidates[c].seq <= job.candidates[other].seq
    /\ \/ candidates' = [candidates EXCEPT ![c] = Pended(c)]
       \/ Pended(c) = job.candidates[c] /\ UNCHANGED candidates
    /\ job' = [job EXCEPT !.candidates = [@ EXCEPT ![c] = Pended(c)], !.todo = @ \ {c}]
    /\ UNCHANGED <<now, epoch, telling, started, cost, crashes, overlap, attributions, episodes, publication>>

(* synchronizeQueryStatuses, over the queries whose status has changed.      *)
StatusOf(q) ==
    LET of == {e \in Episodes : job.episodes[e] # NoEpisode /\ q \in job.episodes[e].queries}
    IN  IF \A e \in of : ~HasEvidence(job.episodes[e], q) THEN "unattributed"
        ELSE IF \A e \in of : job.episodes[e].status = "stale" THEN "expired"
        ELSE "pending_evidence"

Outdated(q) == WithoutClaim(attributions[q].status) /\ attributions[q].status # StatusOf(q)

Retracted ==
    /\ job.stage = "retract" /\ job.todo = {}
    /\ job' = [job EXCEPT !.stage = "statuses", !.unpriced = {q \in Queries : Outdated(q)}]
    /\ Tell({{c} : c \in job.revoked})
    /\ UNCHANGED <<shared, attributions, episodes>>

SynchronizeStatus(q) ==
    /\ job.stage = "statuses" /\ q \in job.unpriced
    /\ \A other \in job.unpriced : q <= other
    /\ UpsertStatus(q, StatusOf(q))
    /\ job' = [job EXCEPT !.unpriced = @ \ {q}]
    /\ UNCHANGED <<shared, episodes, publication>>

(* What the loop over the candidates goes by.                                *)
Prepared ==
    /\ job.stage = "statuses" /\ job.unpriced = {}
    /\ job' = [job EXCEPT
                !.stage = "candidates",
                !.known = attributions,
                !.active = {q \in Queries : \E x \in attributions[q].allocations : x.status = "active"},
                !.todo = {c \in Commits : job.candidates[c].decision \in {"pending_evidence", "reportable"}}]
    /\ UNCHANGED <<shared, attributions, episodes, publication>>

(* The episodes that may concern a candidate: begun before it, active within *)
(* the window before it, and with evidence of this repository.               *)
Relevant(c) ==
    {e \in Episodes :
        LET episode == job.episodes[e]
            at == job.candidates[c].at
        IN  /\ episode # NoEpisode
            /\ episode.started <= at
            /\ at - episode.lastActivity <= StaleAfter
            /\ \E q \in Queries : HasEvidence(episode, q)}

(* The candidate whose turn it is: they are listed as they were observed.    *)
Current == CHOOSE c \in job.todo : \A other \in job.todo : job.candidates[c].seq <= job.candidates[other].seq
Candidate == job.candidates[Current]

SlipSupersedable(e) ==
    {group \in job.episodes[e].queries \X (Commits \ {Current}) :
        \E x \in job.known[group[1]].allocations :
            x.status = "active" /\ x.commit = group[2] /\ x.episode = e}

(* activeEpisodeSupersessionGroups: the claims of the episode that an earlier *)
(* commit holds, as the job read them.                                       *)
Supersedable(e) ==
    {group \in job.episodes[e].queries \X (Commits \ {Current}) :
        \E x \in job.known[group[1]].allocations :
            x.status = "active" /\ x.commit = group[2] /\ x.episode = e /\ x.at < Candidate.at}

OwnAnchors(e) ==
    {q \in Queries : \E x \in job.known[q].allocations :
        x.status = "active" /\ x.commit = Current /\ x.episode = e}

QueriesOf(groups) == {group[1] : group \in groups}

Evaluation(e) ==
    Evaluate(Current, Candidate, job.episodes[e], job.active \ QueriesOf(Supersedable(e)), OwnAnchors(e))

Proven(e) == Evaluation(e).reportable /\ Evaluation(e).queries # {}

(* rewritePendingGroups.                                                     *)
Rewritten(queries) ==
    {group \in queries \X (Commits \ {Current}) :
        \E x \in job.known[group[1]].allocations :
            x.status = "rewrite_pending" /\ x.commit = group[2]}

ActivitySinceClaim(episode) == episode.claimedAt = -1 \/ episode.lastQuery > episode.claimedAt

(* The episodes still to be tried that the candidate can claim: they are      *)
(* listed with the one active last first, and a claim may take what the next  *)
(* would have claimed.                                                      *)
Claimable == {e \in Relevant(Current) \ job.tried : Proven(e)}
NextClaim == {e \in Claimable : \A other \in Claimable :
                job.episodes[other].lastActivity <= job.episodes[e].lastActivity}

NewAllocations(e, result) ==
    [q \in Queries |-> [commit |-> Current, episode |-> e, status |-> "active", pairs |-> PairsFor(result, q),
                        cost |-> NoCost, at |-> Candidate.at, since |-> 0, retracted |-> FALSE]]

Claim(e) ==
    /\ job.stage = "candidates" /\ job.todo # {} /\ e \in NextClaim
    /\ LET result == Evaluation(e)
           rewritten == Rewritten(result.queries)
           superseded == {group \in Supersedable(e) : group[1] \in result.queries}
           regular == result.queries \ QueriesOf(rewritten \cup superseded)
           fresh == {q \in regular : ~HasActiveFirstClaim(attributions, q)}
           allowed == fresh # {} \/ ActivitySinceClaim(job.episodes[e])
       IN  /\ TryFirstClaim(regular, NewAllocations(e, result))
           /\ job' = [job EXCEPT
                       !.stage = "transfer",
                       !.plan = [episode |-> e, new |-> NewAllocations(e, result),
                                 moves |-> rewritten \cup IF allowed THEN superseded ELSE {}],
                       !.claimed = fresh]
    /\ UNCHANGED <<shared, episodes, publication>>

Transfer(d) ==
    /\ job.stage = "transfer"
    /\ LET group == {move \in job.plan.moves : move[2] = d}
       IN  /\ group # {}
           /\ TransferFirstClaim(QueriesOf(group), d, job.plan.new)
           /\ job' = [job EXCEPT !.plan.moves = @ \ group,
                                 !.claimed = @ \cup {q \in QueriesOf(group) : HasClaimOf(attributions, q, d)}]
    /\ UNCHANGED <<shared, episodes, publication>>

(* The episode is claimed, and the new claim told.                           *)
Claimed ==
    /\ job.stage = "transfer" /\ job.plan.moves = {}
    /\ job' = [job EXCEPT !.stage = "candidates", !.tried = @ \cup {job.plan.episode}, !.plan = <<>>, !.claimed = {},
                          !.active = @ \cup job.claimed, !.reported = @ \/ job.claimed # {}]
    /\ UNCHANGED <<shared, attributions>>
    /\ IF job.claimed = {} THEN UNCHANGED <<episodes, publication>>
       ELSE MarkClaimed(job.plan.episode, Current, Candidate.at) /\ Tell({{Current}})

Decision ==
    IF job.reported \/ Candidate.decision = "reportable" THEN "reportable"
    ELSE IF now - Candidate.at > TTL THEN "expired" ELSE "pending_evidence"

(* The candidate is stored as the job read it, when its decision or one of   *)
(* its reasons changed.                                                      *)
Decide ==
    /\ job.stage = "candidates" /\ job.todo # {} /\ Claimable = {}
    /\ \/ candidates' = [candidates EXCEPT ![Current] = [Candidate EXCEPT !.decision = Decision]]
       \/ Decision = Candidate.decision /\ UNCHANGED candidates
    /\ job' = [job EXCEPT !.todo = @ \ {Current}, !.tried = {}, !.reported = FALSE]
    /\ UNCHANGED <<now, epoch, telling, started, cost, crashes, overlap, attributions, episodes, publication>>

Finish ==
    /\ job.stage = "candidates" /\ job.todo = {}
    /\ job' = NoJob
    /\ telling' = (telling /\ ~job.rewrite)
    /\ overlap' = 0
    /\ UNCHANGED <<now, epoch, candidates, started, cost, crashes, attributions, episodes>>
    /\ Tell(IF job.all THEN {Commits} ELSE {{c} : c \in job.repriced})

(*------------------------------ specification ---------------------------*)

JobStep ==
    \/ \E q \in Queries : SynchronizeCost(q) \/ CostRefused(q)
    \/ Reopen \/ Read \/ ReconcileNativeRejections \/ Retracted \/ Prepared
    \/ \E q \in Queries : SynchronizeStatus(q)
    \/ \E c \in Commits : Retract(c) \/ Transfer(c)
    \/ \E e \in Episodes : Claim(e)
    \/ Claimed \/ Decide \/ Finish

Environment ==
    \/ Tick \/ Crash
    \/ \E q \in Queries : RunStarts(q) \/ RunActive(q) \/ EvidenceBound(q) \/ Price(q)
    \/ \E c \in Commits : CommitObserved(c) \/ RewriteObserved(c)

Asked ==
    \/ Reconcile \/ ReconcilePersistedState \/ RewriteHandled
    \/ \E q \in Queries : ObserveRunCompleted(q)

Next == Environment \/ Dispatcher \/ Asked \/ JobStep

Spec == Init /\ [][Next]_vars

(* A job that runs goes on.  The retry timer asks for a reconciliation again  *)
(* and again, and jobs run in the order they were asked for.  The lane takes *)
(* its turns, and the restarted dispatcher makes its comparison.             *)
FairSpec ==
    /\ Spec
    /\ WF_vars(JobStep) /\ SF_vars(Reconcile)
    /\ WF_vars(Turn) /\ WF_vars(news.restart /\ ReconcileCommitEvents)

(*------------------------------- properties -----------------------------*)

Stages == {"idle", "costs", "reopen", "read", "native", "retract", "statuses", "candidates", "transfer"}

Prices == {FirstCost, NoCost} \cup UNION {Costs[q] : q \in Queries}

Allocation ==
    [commit : Commits, episode : Episodes, status : {"active", "rewrite_pending", "superseded"},
     pairs : SUBSET (Queries \X Writes), cost : Prices, at : 0..MaxNow, since : 0..MaxNow,
     retracted : BOOLEAN]

TypeOK ==
    /\ now \in 0..MaxNow /\ crashes \in 0..MaxCrashes /\ telling \in BOOLEAN
    /\ epoch \in [head : Commits \cup {NoCommit}, seq : 0..MaxObserved]
    /\ \A c \in Commits : candidates[c] = NoCandidate \/
          candidates[c] \in [seq : 1..MaxObserved, at : 0..MaxNow,
                            decision : {"pending_evidence", "reportable", "expired"}]
    /\ started \in [Queries -> [at : -1..MaxNow, base : -1..MaxObserved, head : Commits \cup {NoCommit}]]
    /\ cost \in [Queries -> Prices]
    /\ \A q \in Queries :
          /\ attributions[q].status \in Statuses /\ attributions[q].cost \in Prices
          /\ attributions[q].allocations \subseteq Allocation
    /\ \A e \in Episodes : Exists(e) =>
          /\ episodes[e].status \in {"open", "stale", "claimed"} /\ episodes[e].queries \subseteq Queries
          /\ episodes[e].claimedBy \in Commits \cup {NoCommit}
          /\ {q \in Queries : HasEvidence(episodes[e], q)} \subseteq episodes[e].queries
    /\ job.stage \in Stages /\ job.todo \cup job.revoked \cup job.repriced \subseteq Commits
    /\ \A c \in Commits : published[c] \subseteq Queries \X Prices
    /\ news.turn \cup news.latest \cup news.replaced \subseteq Commits
    /\ news.latest # {} => news.turn # {}

(* A commit that is shown as reportable has, once no job runs, a claim that  *)
(* no native rejection took back: the claim, the rejection and the decision  *)
(* of the candidate are stored by different steps, from a copy of the        *)
(* candidates that another actor overwrites meanwhile.                       *)
ReportableIsClaimed ==
    Idle /\ crashes = 0 =>
        \A c \in Commits : candidates[c].decision = "reportable" =>
            \E q \in Queries : \E x \in attributions[q].allocations : x.commit = c /\ ~x.retracted

(* Once neither a job nor the dispatcher has anything to do, every confirmed  *)
(* claim was published on its commit, with its cost, through claims,         *)
(* transfers, repricings, revalidations, crashes and turns that read before  *)
(* a change and end after it; the lane loses no commit but those whose work  *)
(* was replaced by a later change before its turn.  With several queries     *)
(* this fails after a job that repriced one of them and was refused another, *)
(* whose price fell: the refusal ends the job before it tells.               *)
Rests == Idle /\ news.turn = {} /\ ~news.restart

ClaimsArePublished ==
    Rests => \A c \in Commits \ news.replaced : \A q \in Queries : \A x \in attributions[q].allocations :
                x.status = "active" /\ x.commit = c => <<q, x.cost>> \in published[c]

(* A claim whose writes the evidence has rejected, all of them and without   *)
(* another that proves it, does not stay.                                    *)
CurrentRecords == [q \in Queries |-> {episodes[e].evidence[q] : e \in {e \in Episodes : Exists(e)}}]
Disproved(q) ==
    \E x \in LiveOf(attributions, q) :
        x.pairs # {} /\ Verdict(x.commit, x.pairs, CurrentRecords).kind = "revoked"

RejectedIsRevoked == []<>(\A q \in Queries : ~Disproved(q))

(* The claims behave as FirstClaim says: a confirmed claim moves only to a   *)
(* commit observed after the one that holds it.                             *)
ClaimOf(q) ==
    IF ~HasActiveFirstClaim(attributions, q) THEN [kind |-> "free"]
    ELSE LET x == CHOOSE x \in LiveOf(attributions, q) : TRUE
         IN  [kind |-> IF x.status = "active" THEN "held" ELSE "rewriting", commit |-> x.commit, at |-> x.at]

FirstClaims == INSTANCE FirstClaim WITH Times <- 0..MaxNow, claim <- [q \in Queries |-> ClaimOf(q)]
ClaimsSettle == FirstClaims!Spec

===============================================================================
