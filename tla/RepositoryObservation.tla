------------------------ MODULE RepositoryObservation ------------------------
(***************************************************************************)
(* How the agent follows one watched repository: the poll that compares    *)
(* HEAD and the branches with the cursor of the epoch, makes candidates of *)
(* the commits it has not seen, stores them with the cursor, and tells the *)
(* subscribers (src/attribution/repositoryObservation.ts, its store and    *)
(* packages/agent/src/repositoryObservationService.ts).                    *)
(*                                                                         *)
(* The repository is the environment: its user moves branches and HEAD     *)
(* between any two git commands of a scan.  A step goes from one answer of *)
(* git, the store or a subscriber to the next; commits never change, so a  *)
(* question about the commit graph alone belongs to the step that asks it. *)
(***************************************************************************)
EXTENDS Integers, FiniteSets

CONSTANTS
    Commits, Refs, NoCommit, NoRef,
    Parent,          \* the first parent of a commit, NoCommit for a root
    Start,           \* the branches of the repository when it is first watched
    MayMove, MaxMoves, \* bound: the kinds of moves the user makes, and how many
    MaxFaults        \* bound: failures of the store or a subscriber, and crashes

ASSUME ObservationAssumption ==
    /\ Parent \in [Commits -> Commits \cup {NoCommit}]
    /\ Start \in [Refs -> Commits \cup {NoCommit}]
    /\ NoCommit \notin Commits /\ NoRef \notin Refs /\ Commits \cap Refs = {}
    /\ MayMove \subseteq {"commit", "rewrite", "switch", "detach", "delete"}
    /\ MaxMoves \in Nat /\ MaxFaults \in Nat

(* A commit names its parent by hash: history has no cycle and an end.       *)
ASSUME HistoryAssumption ==
    \A S \in SUBSET Commits : S # {} => \E c \in S : Parent[c] \notin S

VARIABLES
    branch,     \* the commit of every branch, NoCommit for none
    head,       \* what HEAD names: a branch, or a commit when detached
    made,       \* the commits that exist
    moves,      \* moves the user has left
    disk,       \* the stored epoch
    candidates, \* the stored candidates, by <<epoch, ref, commit>>
    epoch,      \* the epoch in memory, which a scan moves before it is stored
    scan,       \* the scan: where it is and what it has read
    subscribed, \* the attribution has subscribed
    failed,     \* a transaction has failed
    faults,     \* faults left
    watching    \* the observer has started

world == <<branch, head, made, moves>>
store == <<disk, candidates>>
observer == <<epoch, scan, subscribed, watching>>
observationVars == <<world, store, observer, failed, faults>>

(*------------------------------ what git says ---------------------------*)

HeadCommit == IF head \in Refs THEN branch[head] ELSE head
HeadRef == IF head \in Refs THEN head ELSE NoRef

(* A commit and all its ancestors. *)
Ancestry[c \in Commits] ==
    {c} \cup (IF Parent[c] = NoCommit THEN {} ELSE Ancestry[Parent[c]])

IsAncestor(a, b) == a \in Ancestry[b]

MovedTo(a, b) ==
    IF IsAncestor(a, b) THEN "fast_forward" ELSE "non_fast_forward_ref_update"

(* A plausible slip: a branch that lost commits has none to show. *)
SlipNewCommits(a, b) == IF IsAncestor(a, b) THEN Ancestry[b] \ Ancestry[a] ELSE {}

(* The commits that a move from a to b makes candidates of. *)
NewCommits(a, b) == {b} \cup (IF IsAncestor(a, b) THEN Ancestry[b] \ Ancestry[a] ELSE {})

(*-------------------------- the user of the repository ------------------*)

May(kind) == kind \in MayMove /\ moves > 0 /\ moves' = moves - 1
StillWatched == UNCHANGED <<store, observer, failed, faults>>

Commit(r, c) ==
    /\ May("commit")
    /\ c \notin made /\ Parent[c] = branch[r]
    /\ branch[r] = NoCommit => head = r
    /\ branch' = [branch EXCEPT ![r] = c]
    /\ made' = made \cup {c}
    /\ UNCHANGED head /\ StillWatched

CommitDetached(c) ==
    /\ May("commit")
    /\ head \notin Refs /\ c \notin made /\ Parent[c] = head
    /\ head' = c
    /\ made' = made \cup {c}
    /\ UNCHANGED branch /\ StillWatched

(* An amend, a reset or a rebase: the branch loses commits.                 *)
Rewrite(r, c) ==
    /\ May("rewrite")
    /\ branch[r] # NoCommit /\ ~IsAncestor(branch[r], c)
    /\ c \in made \/ Parent[c] \in made \cup {NoCommit}
    /\ branch' = [branch EXCEPT ![r] = c]
    /\ made' = made \cup {c}
    /\ UNCHANGED head /\ StillWatched

Switch(r) ==
    /\ May("switch")
    /\ head # r /\ HeadCommit # NoCommit
    /\ head' = r
    /\ branch' = [branch EXCEPT ![r] = IF @ = NoCommit THEN HeadCommit ELSE @]
    /\ UNCHANGED made /\ StillWatched

Detach(c) ==
    /\ May("detach")
    /\ c \in made /\ head # c
    /\ head' = c
    /\ UNCHANGED <<branch, made>> /\ StillWatched

DeleteBranch(r) ==
    /\ May("delete")
    /\ head # r /\ branch[r] # NoCommit
    /\ branch' = [branch EXCEPT ![r] = NoCommit]
    /\ UNCHANGED <<head, made>> /\ StillWatched

User ==
    \/ \E r \in Refs, c \in Commits : Commit(r, c) \/ Rewrite(r, c)
    \/ \E c \in Commits : CommitDetached(c) \/ Detach(c)
    \/ \E r \in Refs : Switch(r) \/ DeleteBranch(r)

(*------------------------------- candidates -----------------------------*)

NoCandidates == [id \in {} |-> 0]
NoEpoch == [id |-> 0]

(* A plausible slip: the commits of one scan are not counted one by one. *)
SlipCandidatesOf(e, commits, r, kind) ==
    [id \in {<<e.id, r, c>> : c \in commits} |-> [kind |-> kind, seq |-> e.seq]]

(* A candidate in the order git lists the commits, oldest first.            *)
CandidatesOf(e, commits, r, kind) ==
    [id \in {<<e.id, r, c>> : c \in commits} |->
        [kind |-> kind, seq |-> e.seq + Cardinality(commits \cap Ancestry[id[3]]) - 1]]

(* classifyTransition, of a HEAD at h on branch r.                          *)
Transition(h, r) ==
    IF epoch.ref = r THEN MovedTo(epoch.cursor, h)
    ELSE IF NoRef \in {epoch.ref, r} THEN "detached_head_change"
    ELSE "branch_switch"

(* A plausible slip: a detached HEAD is left to the branches. *)
SlipFound(h, r) ==
    LET kind == Transition(h, r)
    IN  [kind |-> MovedTo(epoch.cursor, h),
         commits |-> IF kind = "detached_head_change" THEN {} ELSE NewCommits(epoch.cursor, h)]

(* The commits a transition makes candidates of, and the kind they get:     *)
(* those new on the branch that was switched to, when its head is known,   *)
(* else those new since the cursor.                                        *)
Found(h, r) ==
    LET kind == Transition(h, r)
        known == IF r = NoRef THEN NoCommit ELSE epoch.refs[r]
        base == IF kind = "branch_switch" THEN known ELSE epoch.cursor
        sincePrevious == [kind |-> MovedTo(epoch.cursor, h), commits |-> NewCommits(epoch.cursor, h)]
    IN  IF kind # "detached_head_change" /\ base \notin {NoCommit, h}
        THEN [kind |-> MovedTo(base, h), commits |-> NewCommits(base, h)]
        ELSE IF epoch.cursor # h THEN sincePrevious
        ELSE [kind |-> kind, commits |-> {}]

(*--------------------------------- a scan -------------------------------*)

NoBranches == [r \in Refs |-> NoCommit]

(* what and found: the transition being stored and told; then: what the scan*)
(* does after it.                                                           *)
Idle == [at |-> "idle", head |-> NoCommit, skip |-> NoRef, listed |-> NoBranches,
         left |-> {}, what |-> "", found |-> NoCandidates,
         then |-> "idle", again |-> FALSE]

At(where) == watching /\ scan.at = where
Unseen == UNCHANGED world
Fault == faults > 0 /\ faults' = faults - 1
NoFailure == UNCHANGED <<candidates, subscribed, watching, failed, faults>>

(* scanOnce: at the next poll, or as another part of the agent asks for it. *)
Scan ==
    /\ At("idle")
    /\ scan' = [Idle EXCEPT !.at = "ref", !.head = HeadCommit]
    /\ UNCHANGED <<epoch, disk>> /\ NoFailure /\ Unseen

Refresh ==
    /\ watching /\ scan.at # "idle" /\ ~scan.again
    /\ scan' = [scan EXCEPT !.again = TRUE]
    /\ UNCHANGED <<epoch, disk>> /\ NoFailure /\ Unseen

(* The branch is read after the commit, and the cursor moves in memory.     *)
Advance ==
    /\ At("ref")
    /\ LET h == scan.head
           r == HeadRef
           first == epoch.cursor = NoCommit
           found == IF first THEN [kind |-> "fast_forward", commits |-> {h}] ELSE Found(h, r)
       IN  IF h = NoCommit \/ (epoch.cursor = h /\ epoch.ref = r)
           THEN /\ scan' = [scan EXCEPT !.at = "list", !.head = NoCommit, !.skip = r]
                /\ UNCHANGED epoch
           ELSE /\ epoch' = [epoch EXCEPT !.cursor = h, !.ref = r,
                                          !.refs = IF r = NoRef THEN @ ELSE [@ EXCEPT ![r] = h],
                                          !.seq = @ + Cardinality(found.commits)]
                /\ scan' = [scan EXCEPT !.at = "store", !.head = NoCommit, !.skip = r, !.then = "list",
                                        !.what = IF first THEN "fast_forward" ELSE Transition(h, r),
                                        !.found = CandidatesOf(epoch, found.commits, r, found.kind)]
    /\ UNCHANGED disk /\ NoFailure /\ Unseen

(* scanRefTransitions: every branch but the one that was just compared.     *)
ListBranches ==
    /\ At("list")
    /\ scan' = [scan EXCEPT !.at = "branches", !.listed = branch,
                            !.left = {r \in Refs \ {scan.skip} : epoch.refs[r] # branch[r]}]
    /\ UNCHANGED <<epoch, disk>> /\ NoFailure /\ Unseen

CompareBranch(r) ==
    /\ At("branches") /\ r \in scan.left
    /\ LET was == epoch.refs[r]
           is == scan.listed[r]
           both == NoCommit \notin {was, is}
           found == IF both THEN NewCommits(was, is) ELSE {}
           kind == IF both THEN MovedTo(was, is)
                   ELSE IF is = NoCommit THEN "ref_deleted" ELSE "unknown"
       IN  /\ epoch' = [epoch EXCEPT !.refs[r] = is, !.seq = @ + Cardinality(found)]
           /\ scan' = [scan EXCEPT !.at = "store", !.left = @ \ {r}, !.then = "branches",
                                   !.what = kind, !.found = CandidatesOf(epoch, found, r, kind)]
    /\ UNCHANGED disk /\ NoFailure /\ Unseen

(* The branch compared with HEAD keeps what the comparison saw.             *)
BranchesCompared ==
    /\ At("branches") /\ scan.left = {}
    /\ LET seen == IF scan.skip = NoRef THEN scan.listed
                   ELSE [scan.listed EXCEPT ![scan.skip] = epoch.refs[scan.skip]]
       IN  /\ epoch' = [epoch EXCEPT !.refs = seen]
           /\ disk' = IF epoch.refs = seen THEN disk ELSE epoch'
    /\ scan' = [Idle EXCEPT !.at = "snapshot", !.again = scan.again]
    /\ NoFailure /\ Unseen

(* A candidate that is stored already is replaced.                          *)
WithFound(found, stored) ==
    [id \in DOMAIN found \cup DOMAIN stored |->
        IF id \in DOMAIN found THEN found[id] ELSE stored[id]]

(* persistCandidatesAndAdvance is one transaction.                          *)
Store ==
    /\ At("store")
    /\ disk' = epoch
    /\ candidates' = WithFound(scan.found, candidates)
    /\ scan' = [scan EXCEPT !.at = "emit"]
    /\ UNCHANGED <<epoch, subscribed, watching, failed, faults>> /\ Unseen

(* A plausible slip: a failed transaction is logged and the scan goes on. *)
SlipAborted == [scan EXCEPT !.at = "emit"]

(* A scan that throws is over; the epoch in memory stays where it was moved.*)
Aborted == [Idle EXCEPT !.again = scan.again]

StoreFails ==
    /\ At("store") /\ Fault
    /\ failed' = TRUE
    /\ scan' = Aborted
    /\ UNCHANGED <<epoch, disk, candidates, subscribed, watching>> /\ Unseen

(*------------------------------ subscribers -----------------------------*)

OldestFirst(found) == CHOOSE id \in DOMAIN found : \A other \in DOMAIN found : found[id].seq <= found[other].seq

(* The transition is told first, then its candidates.                       *)
AfterTelling ==
    IF scan.what # "" THEN [scan EXCEPT !.at = "emit", !.what = ""]
    ELSE LET told == OldestFirst(scan.found)
         IN  [scan EXCEPT !.at = "emit",
                          !.found = [id \in DOMAIN scan.found \ {told} |-> scan.found[id]]]

(* With nobody listening an event is gone.                                  *)
Emit ==
    /\ At("emit")
    /\ scan' = IF scan.what = "" /\ DOMAIN scan.found = {} THEN [scan EXCEPT !.at = scan.then]
               ELSE IF subscribed THEN [scan EXCEPT !.at = "subscriber"]
               ELSE AfterTelling
    /\ UNCHANGED <<epoch, disk>> /\ NoFailure /\ Unseen

(* The scan waits for the subscriber. *)
Answer ==
    /\ At("subscriber")
    /\ scan' = AfterTelling
    /\ UNCHANGED <<epoch, disk>> /\ NoFailure /\ Unseen

SubscriberFails ==
    /\ At("subscriber") /\ Fault
    /\ scan' = Aborted
    /\ UNCHANGED <<epoch, disk, candidates, subscribed, watching, failed>> /\ Unseen

(*------------------------------- snapshots ------------------------------*)

(* `taken` is the signature of the last snapshot of this process.  A request*)
(* that came during the scan has it run again.                              *)
Snapshot ==
    /\ At("snapshot")
    /\ LET seen == <<HeadCommit, HeadRef>>
       IN  IF epoch.taken = seen
           THEN UNCHANGED <<epoch, disk>>
           ELSE /\ epoch' = [epoch EXCEPT !.seq = @ + 1, !.taken = seen]
                /\ disk' = [epoch' EXCEPT !.taken = <<>>]
    /\ scan' = IF scan.again \/ scan.then = "ref"
               THEN [Idle EXCEPT !.at = "ref", !.head = HeadCommit] ELSE Idle
    /\ NoFailure /\ Unseen

(*--------------------------- start, stop and crash ----------------------*)

CreatedEpoch(h, r) ==
    [id |-> disk.id + 1, initial |-> h, cursor |-> h, ref |-> r, refs |-> branch, seq |-> 1, taken |-> <<>>]

Begin ==
    /\ ~watching /\ scan.at = "idle"
    /\ scan' = [Idle EXCEPT !.at = "begin", !.head = HeadCommit]
    /\ UNCHANGED <<epoch, disk>> /\ NoFailure /\ Unseen

(* The branch is read after the commit here, too, and the branches after it; *)
(* a stored epoch has no use for either.                                    *)
BeginEpoch ==
    /\ scan.at = "begin" /\ disk = NoEpoch
    /\ scan' = [scan EXCEPT !.at = "create", !.skip = HeadRef]
    /\ UNCHANGED <<epoch, disk>> /\ NoFailure /\ Unseen

(* The stored epoch is taken up, or one is created of the branches as they  *)
(* are and stored; the first snapshot is forced and a scan follows.         *)
Watch ==
    /\ scan.at = IF disk # NoEpoch THEN "begin" ELSE "create"
    /\ epoch' = IF disk # NoEpoch THEN disk ELSE CreatedEpoch(scan.head, scan.skip)
    /\ disk' = epoch'
    /\ watching' = TRUE
    /\ scan' = [Idle EXCEPT !.at = "snapshot", !.then = "ref"]
    /\ UNCHANGED <<candidates, subscribed, failed, faults>> /\ Unseen

(* The attribution starts once the observer has, while the first scan may   *)
(* already be running.                                                      *)
Subscribe ==
    /\ watching /\ ~subscribed
    /\ subscribed' = TRUE
    /\ UNCHANGED <<store, epoch, scan, watching, failed, faults>> /\ Unseen

Crash ==
    /\ watching /\ Fault
    /\ watching' = FALSE /\ subscribed' = FALSE
    /\ epoch' = NoEpoch /\ scan' = Idle
    /\ UNCHANGED <<world, store, failed>>

(*----------------------------- specification ----------------------------*)

Init ==
    /\ branch = Start
    /\ head \in {r \in Refs : Start[r] # NoCommit \/ \A other \in Refs : Start[other] = NoCommit}
    /\ made = UNION {Ancestry[c] : c \in {Start[r] : r \in Refs} \ {NoCommit}}
    /\ moves = MaxMoves
    /\ disk = NoEpoch /\ candidates = NoCandidates
    /\ epoch = NoEpoch /\ scan = Idle
    /\ subscribed = FALSE /\ watching = FALSE
    /\ failed = FALSE /\ faults = MaxFaults

Poll ==
    \/ Begin \/ BeginEpoch \/ Watch \/ Scan \/ Advance \/ ListBranches
    \/ \E r \in Refs : CompareBranch(r)
    \/ BranchesCompared \/ Store \/ Emit \/ Answer \/ Snapshot

Next ==
    \/ User \/ Poll
    \/ Refresh \/ Subscribe
    \/ StoreFails \/ SubscriberFails \/ Crash

Spec == Init /\ [][Next]_observationVars

(* The timer polls for ever, git and the store answer, and the process is   *)
(* started again.                                                           *)
FairSpec == Spec /\ WF_observationVars(Poll)

(*------------------------------- properties -----------------------------*)

Epochs(e) ==
    e = NoEpoch \/
    /\ e.id = 1 /\ e.seq \in Nat /\ e.ref \in Refs \cup {NoRef}
    /\ {e.initial, e.cursor} \subseteq Commits \cup {NoCommit}
    /\ e.refs \in [Refs -> Commits \cup {NoCommit}]

(* The branches, the epochs and the scan have their types; candidates are   *)
(* numbered before the next number of the epoch, each with its own.        *)
TypeOK ==
    /\ branch \in [Refs -> made \cup {NoCommit}]
    /\ head \in Refs \cup made /\ made \subseteq Commits
    /\ Epochs(disk) /\ Epochs(epoch)
    /\ DOMAIN candidates \subseteq {1} \X (Refs \cup {NoRef}) \X made
    /\ scan.at \in {"idle", "begin", "create", "ref", "list", "branches", "store", "emit", "subscriber", "snapshot"}
    /\ scan.left \subseteq Refs
    /\ \A id, other \in DOMAIN candidates :
           /\ candidates[id].seq < disk.seq
           /\ candidates[id].seq = candidates[other].seq => id = other

CandidateCommits == {id[3] : id \in DOMAIN candidates}
CursorIsCovered == disk = NoEpoch \/ disk.cursor \in {disk.initial} \cup CandidateCommits

(* While no transaction has failed, the cursor of the stored epoch is a     *)
(* commit the epoch began with or one stored as a candidate: whatever step  *)
(* the agent dies in, a restart passes over no commit it had reached        *)
(* (persistCandidatesAndAdvance stores both at once).                       *)
StoredCursorIsCovered == ~failed => CursorIsCovered

(* A subscriber is told only of candidates it can find in the store, where  *)
(* the reconciliation that it starts looks for them.                        *)
ToldIsStored == scan.at \in {"emit", "subscriber"} => DOMAIN scan.found \subseteq DOMAIN candidates

(* Wherever HEAD comes to rest, by commit, amend, switch or detached, and   *)
(* whatever a scan read before it moved, its commit ends up a candidate or  *)
(* is the one the epoch began with, unless a transaction failed.            *)
RestingHeadIsCandidate ==
    <>[](~failed =>
            disk # NoEpoch /\ HeadCommit \in {NoCommit, disk.initial} \cup CandidateCommits)

=============================================================================
