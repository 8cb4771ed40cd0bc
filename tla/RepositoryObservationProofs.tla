--------------------- MODULE RepositoryObservationProofs ---------------------
(***************************************************************************)
(* That the stored cursor passes over no commit, that a subscriber is told *)
(* of nothing it cannot find and that stored candidates have numbers of    *)
(* their own, for every repository, every history of moves and every       *)
(* number of failures and crashes.                                         *)
(*                                                                         *)
(* The cursor moves in memory one step before it is stored, so the cursor  *)
(* of the epoch in memory is covered by what is stored together with what  *)
(* the scan is about to store; the invariant says so of both epochs.  What *)
(* a scan is about to store is numbered between the two.                   *)
(***************************************************************************)
EXTENDS RepositoryObservation, FiniteSetTheorems, TLAPS

(*------------------------------ the invariant ---------------------------*)

ScanShape ==
    scan = [at |-> scan.at, head |-> scan.head, skip |-> scan.skip, listed |-> scan.listed,
            left |-> scan.left, what |-> scan.what, found |-> scan.found,
            then |-> scan.then, again |-> scan.again]

IsEpoch(e) ==
    e = [id |-> e.id, initial |-> e.initial, cursor |-> e.cursor, ref |-> e.ref,
         refs |-> e.refs, seq |-> e.seq, taken |-> e.taken]

(* The commits of a set of candidate ids.                                   *)
CommitsOf(ids) == {id[3] : id \in ids}

Reached(e, ids) == e.cursor \in {e.initial} \cup CommitsOf(ids)

(* What the scan has found and the store does not have yet.                 *)
Pending == IF scan.at = "store" THEN DOMAIN scan.found ELSE {}

Shapes ==
    /\ ScanShape
    /\ disk = NoEpoch \/ IsEpoch(disk)
    /\ watching => IsEpoch(epoch)

DiskReached == ~failed /\ disk # NoEpoch => Reached(disk, DOMAIN candidates)
EpochReached == ~failed /\ watching => Reached(epoch, DOMAIN candidates \cup Pending)

CursorInv == Shapes /\ DiskReached /\ EpochReached

(*--------------------------------- lemmas -------------------------------*)

(* Candidates are only added to the store.                                  *)
LEMMA MergedDomain ==
    ASSUME NEW f, NEW g
    PROVE  DOMAIN WithFound(f, g) = DOMAIN f \cup DOMAIN g
BY DEF WithFound

(* Covering is kept as the store grows.                                     *)
LEMMA ReachedGrows ==
    ASSUME NEW e, NEW S, NEW T, S \subseteq T, Reached(e, S)
    PROVE  Reached(e, T)
BY DEF Reached, CommitsOf

(* The candidates made of a set of commits name exactly those commits.      *)
LEMMA CandidatesName ==
    ASSUME NEW e, NEW commits, NEW r, NEW kind
    PROVE  CommitsOf(DOMAIN CandidatesOf(e, commits, r, kind)) = commits
<1> DEFINE ids == {<<e.id, r, c>> : c \in commits}
<1>1. DOMAIN CandidatesOf(e, commits, r, kind) = ids
  BY DEF CandidatesOf
<1>2. CommitsOf(ids) = commits
  <2>1. ASSUME NEW c \in commits PROVE c \in CommitsOf(ids)
    <3>1. <<e.id, r, c>> \in ids /\ <<e.id, r, c>>[3] = c
      OBVIOUS
    <3> QED BY <3>1 DEF CommitsOf
  <2>2. ASSUME NEW c \in CommitsOf(ids) PROVE c \in commits
    BY <2>2 DEF CommitsOf
  <2> QED BY <2>1, <2>2
<1> QED BY <1>1, <1>2

(* A HEAD at another commit than the cursor is among the commits found,     *)
(* whatever branch it is on and whatever was known of that branch.          *)
LEMMA HeadIsFound ==
    ASSUME NEW h, NEW r, epoch.cursor # h
    PROVE  h \in Found(h, r).commits
BY DEF Found, NewCommits

(*----------------------------- the induction ----------------------------*)

LEMMA CursorInit == Init => CursorInv
BY DEF Init, CursorInv, Shapes, ScanShape, DiskReached, EpochReached, Idle

(* A step that leaves both epochs, the store and what is about to be stored *)
(* alone keeps them covered.                                                *)
LEMMA CursorKept ==
    ASSUME CursorInv, UNCHANGED <<epoch, disk, candidates, watching, failed>>,
           ScanShape', scan.at # "store", scan'.at # "store"
    PROVE  CursorInv'
BY DEF CursorInv, Shapes, DiskReached, EpochReached, IsEpoch, Reached, Pending, CommitsOf, NoEpoch

LEMMA CursorStep == CursorInv /\ [Next]_observationVars => CursorInv'
<1> SUFFICES ASSUME CursorInv, [Next]_observationVars PROVE CursorInv'
  OBVIOUS
<1> USE DEF CursorInv
<1>1. CASE UNCHANGED observationVars
  BY <1>1 DEF observationVars, world, store, observer, Shapes, ScanShape, IsEpoch, DiskReached,
              EpochReached, Reached, Pending, CommitsOf, NoEpoch
<1>2. CASE User
  <2>1. StillWatched
    BY <1>2 DEF User, Commit, CommitDetached, Rewrite, Switch, Detach, DeleteBranch
  <2> QED BY <2>1 DEF StillWatched, store, observer, Shapes, ScanShape, IsEpoch, DiskReached,
                      EpochReached, Reached, Pending, CommitsOf, NoEpoch
<1>3. CASE Scan
  BY <1>3, CursorKept DEF Scan, At, NoFailure, Idle, ScanShape
<1>4. CASE Refresh
  <2>1. ScanShape' /\ scan'.at = scan.at /\ scan'.found = scan.found
    BY <1>4 DEF Refresh, Shapes, ScanShape
  <2> QED BY <1>4, <2>1 DEF Refresh, NoFailure, Shapes, IsEpoch, DiskReached, EpochReached, Reached,
                            Pending, CommitsOf, NoEpoch
<1>5. CASE Advance
  <2> DEFINE h == scan.head
             r == HeadRef
             first == epoch.cursor = NoCommit
             found == IF first THEN [kind |-> "fast_forward", commits |-> {h}] ELSE Found(h, r)
             ids == DOMAIN CandidatesOf(epoch, found.commits, r, found.kind)
  <2>1. At("ref") /\ disk' = disk /\ NoFailure
    BY <1>5 DEF Advance
  <2>2. CASE h = NoCommit \/ (epoch.cursor = h /\ epoch.ref = r)
    <3>1. epoch' = epoch /\ ScanShape' /\ scan'.at = "list"
      BY <1>5, <2>2 DEF Advance, Shapes, ScanShape
    <3> QED BY <2>1, <3>1, CursorKept DEF At, NoFailure
  <2>3. CASE ~(h = NoCommit \/ (epoch.cursor = h /\ epoch.ref = r))
    <3>1. /\ epoch' = [epoch EXCEPT !.cursor = h, !.ref = r,
                                    !.refs = IF r = NoRef THEN @ ELSE [@ EXCEPT ![r] = h],
                                    !.seq = @ + Cardinality(found.commits)]
          /\ scan' = [scan EXCEPT !.at = "store", !.head = NoCommit, !.skip = r, !.then = "list",
                                  !.what = IF first THEN "fast_forward" ELSE Transition(h, r),
                                  !.found = CandidatesOf(epoch, found.commits, r, found.kind)]
      BY <1>5, <2>3 DEF Advance
    <3>2. IsEpoch(epoch)
      BY <2>1 DEF At, Shapes
    <3>3. IsEpoch(epoch') /\ epoch'.cursor = h /\ epoch'.initial = epoch.initial
      BY <3>1, <3>2 DEF IsEpoch
    <3>4. ScanShape' /\ scan'.at = "store" /\ DOMAIN scan'.found = ids
      BY <3>1 DEF Shapes, ScanShape
    <3>5. Pending' = ids
      BY <3>4 DEF Pending
    <3>6. Shapes' /\ DiskReached'
      BY <2>1, <3>3, <3>4 DEF Shapes, NoFailure, DiskReached, IsEpoch, NoEpoch
    <3>7. CommitsOf(ids) = found.commits
      BY CandidatesName
    <3>8. CASE epoch.cursor # h
      <4>1. h \in found.commits
        BY <3>8, HeadIsFound
      <4>2. Reached(epoch', DOMAIN candidates' \cup Pending')
        <5>1. Reached(epoch', ids)
          BY <3>3, <3>7, <4>1 DEF Reached
        <5>2. ids \subseteq DOMAIN candidates' \cup Pending'
          BY <3>5
        <5> QED BY <5>1, <5>2, ReachedGrows
      <4> QED BY <3>6, <4>2 DEF EpochReached
    <3>9. CASE epoch.cursor = h
      <4>1. ~failed => Reached(epoch, DOMAIN candidates)
        BY <2>1 DEF At, EpochReached, Pending
      <4>2. ~failed => Reached(epoch', DOMAIN candidates)
        BY <3>3, <3>9, <4>1 DEF Reached
      <4>3. ~failed' => Reached(epoch', DOMAIN candidates' \cup Pending')
        BY <2>1, <4>2, ReachedGrows DEF NoFailure
      <4> QED BY <3>6, <4>3 DEF EpochReached
    <3> QED BY <3>8, <3>9
  <2> QED BY <2>2, <2>3
<1>6. CASE ListBranches
  BY <1>6, CursorKept DEF ListBranches, At, NoFailure, Shapes, ScanShape
<1>7. ASSUME NEW r \in Refs, CompareBranch(r) PROVE CursorInv'
  <2>1. At("branches") /\ disk' = disk /\ NoFailure
    BY <1>7 DEF CompareBranch
  <2>2. IsEpoch(epoch)
    BY <2>1 DEF At, Shapes
  <2>3. IsEpoch(epoch') /\ epoch'.cursor = epoch.cursor /\ epoch'.initial = epoch.initial
    BY <1>7, <2>2 DEF CompareBranch, IsEpoch
  <2>4. ScanShape'
    BY <1>7 DEF CompareBranch, Shapes, ScanShape
  <2>5. Shapes' /\ DiskReached'
    BY <2>1, <2>3, <2>4 DEF Shapes, NoFailure, DiskReached, IsEpoch, NoEpoch
  <2>6. ~failed => Reached(epoch, DOMAIN candidates)
    BY <2>1 DEF At, EpochReached, Pending
  <2>7. ~failed => Reached(epoch', DOMAIN candidates)
    BY <2>3, <2>6 DEF Reached
  <2>8. ~failed' => Reached(epoch', DOMAIN candidates' \cup Pending')
    BY <2>1, <2>7, ReachedGrows DEF NoFailure
  <2> QED BY <2>5, <2>8 DEF EpochReached
<1>8. CASE BranchesCompared
  <2>1. At("branches") /\ NoFailure
    BY <1>8 DEF BranchesCompared
  <2>2. IsEpoch(epoch)
    BY <2>1 DEF At, Shapes
  <2>3. IsEpoch(epoch') /\ epoch'.cursor = epoch.cursor /\ epoch'.initial = epoch.initial
    BY <1>8, <2>2 DEF BranchesCompared, IsEpoch
  <2>4. disk' = disk \/ disk' = epoch'
    BY <1>8 DEF BranchesCompared
  <2>5. ScanShape' /\ Pending' = {}
    BY <1>8 DEF BranchesCompared, Idle, ScanShape, Pending
  <2>6. ~failed => Reached(epoch, DOMAIN candidates)
    BY <2>1 DEF At, EpochReached, Pending
  <2>7. ~failed => Reached(epoch', DOMAIN candidates)
    BY <2>3, <2>6 DEF Reached
  <2>8. Shapes'
    BY <2>1, <2>3, <2>4, <2>5 DEF Shapes, NoFailure
  <2>9. DiskReached'
    BY <2>1, <2>4, <2>7 DEF DiskReached, NoFailure, Reached
  <2> QED BY <2>1, <2>5, <2>7, <2>8, <2>9, ReachedGrows DEF EpochReached, NoFailure
<1>9. CASE Store
  <2>1. /\ At("store") /\ disk' = epoch /\ epoch' = epoch
        /\ candidates' = WithFound(scan.found, candidates)
        /\ scan' = [scan EXCEPT !.at = "emit"]
        /\ UNCHANGED <<watching, failed>>
    BY <1>9 DEF Store
  <2>2. ScanShape' /\ Pending' = {}
    BY <2>1 DEF Shapes, ScanShape, Pending
  <2>3. DOMAIN candidates' = DOMAIN candidates \cup Pending
    <3>1. DOMAIN candidates' = DOMAIN scan.found \cup DOMAIN candidates
      BY <2>1, MergedDomain
    <3>2. Pending = DOMAIN scan.found
      BY <2>1 DEF At, Pending
    <3> QED BY <3>1, <3>2
  <2>4. ~failed => Reached(epoch, DOMAIN candidates')
    BY <2>1, <2>3 DEF At, EpochReached
  <2>5. Shapes'
    BY <2>1, <2>2 DEF At, Shapes
  <2>6. DiskReached'
    BY <2>1, <2>4 DEF DiskReached
  <2>7. ~failed' => Reached(epoch', DOMAIN candidates' \cup Pending')
    BY <2>1, <2>2, <2>4
  <2> QED BY <2>5, <2>6, <2>7 DEF EpochReached
<1>10. CASE Emit
  <2>1. At("emit") /\ UNCHANGED <<epoch, disk>> /\ NoFailure
    BY <1>10 DEF Emit
  <2>2. /\ ScanShape'
        /\ scan'.at = "store" => DOMAIN scan.found = {} /\ scan'.found = scan.found
    BY <1>10 DEF Emit, At, AfterTelling, Shapes, ScanShape
  <2>3. Pending' = {} /\ Pending = {}
    BY <2>1, <2>2 DEF Pending, At
  <2> QED BY <2>1, <2>2, <2>3 DEF NoFailure, Shapes, IsEpoch, DiskReached, EpochReached, Reached,
                                  CommitsOf, NoEpoch
<1>11. CASE Answer
  BY <1>11, CursorKept DEF Answer, At, AfterTelling, NoFailure, Shapes, ScanShape
<1>12. CASE Snapshot
  <2>1. At("snapshot") /\ NoFailure
    BY <1>12 DEF Snapshot
  <2>2. IsEpoch(epoch)
    BY <2>1 DEF At, Shapes
  <2>3. /\ IsEpoch(epoch') /\ epoch'.cursor = epoch.cursor /\ epoch'.initial = epoch.initial
        /\ disk' = disk \/ (IsEpoch(disk') /\ disk'.cursor = epoch.cursor /\ disk'.initial = epoch.initial)
    <3>1. CASE epoch' = epoch /\ disk' = disk
      BY <2>2, <3>1 DEF IsEpoch
    <3>2. CASE /\ epoch' = [epoch EXCEPT !.seq = @ + 1, !.taken = <<HeadCommit, HeadRef>>]
               /\ disk' = [epoch' EXCEPT !.taken = <<>>]
      BY <2>2, <3>2 DEF IsEpoch
    <3> QED BY <1>12, <3>1, <3>2 DEF Snapshot
  <2>4. ScanShape' /\ Pending' = {}
    BY <1>12 DEF Snapshot, Idle, ScanShape, Pending
  <2>5. ~failed => Reached(epoch, DOMAIN candidates)
    BY <2>1 DEF At, EpochReached, Pending
  <2>6. ~failed => Reached(epoch', DOMAIN candidates)
    BY <2>3, <2>5 DEF Reached
  <2>7. Shapes'
    BY <2>1, <2>3, <2>4 DEF Shapes, NoFailure
  <2>8. DiskReached'
    BY <2>1, <2>3, <2>5 DEF DiskReached, NoFailure, Reached
  <2> QED BY <2>1, <2>4, <2>6, <2>7, <2>8, ReachedGrows DEF EpochReached, NoFailure
<1>13. CASE Begin
  BY <1>13, CursorKept DEF Begin, Idle, NoFailure, ScanShape
<1>19. CASE BeginEpoch
  <2>1. ScanShape' /\ scan'.at = "create"
    BY <1>19 DEF BeginEpoch, Shapes, ScanShape
  <2> QED BY <1>19, <2>1, CursorKept DEF BeginEpoch, NoFailure
<1>14. CASE Watch
  <2>1. /\ epoch' = IF disk # NoEpoch THEN disk ELSE CreatedEpoch(scan.head, scan.skip)
        /\ disk' = epoch' /\ UNCHANGED <<candidates, failed>>
        /\ scan' = [Idle EXCEPT !.at = "snapshot", !.then = "ref"]
    BY <1>14 DEF Watch
  <2>2. ScanShape' /\ Pending' = {}
    BY <2>1 DEF Idle, ScanShape, Pending
  <2>3. IsEpoch(epoch') /\ (~failed => Reached(epoch', DOMAIN candidates))
    <3>1. CASE disk # NoEpoch
      BY <2>1, <3>1 DEF Shapes, DiskReached
    <3>2. CASE disk = NoEpoch
      BY <2>1, <3>2 DEF CreatedEpoch, IsEpoch, Reached
    <3> QED BY <3>1, <3>2
  <2> QED BY <2>1, <2>2, <2>3, ReachedGrows DEF Shapes, DiskReached, EpochReached
<1>15. CASE Subscribe
  BY <1>15 DEF Subscribe, store, Shapes, ScanShape, IsEpoch, DiskReached, EpochReached, Reached,
               Pending, CommitsOf, NoEpoch
<1>16. CASE StoreFails
  BY <1>16 DEF StoreFails, Aborted, Idle, Shapes, ScanShape, IsEpoch, DiskReached, EpochReached, NoEpoch
<1>17. CASE SubscriberFails
  BY <1>17, CursorKept DEF SubscriberFails, Aborted, Idle, At, ScanShape
<1>18. CASE Crash
  <2>1. ScanShape'
    BY <1>18 DEF Crash, Idle, ScanShape
  <2> QED BY <1>18, <2>1 DEF Crash, store, Shapes, IsEpoch, DiskReached, EpochReached, Reached, CommitsOf, NoEpoch
<1> QED BY <1>1, <1>2, <1>3, <1>4, <1>5, <1>6, <1>7, <1>8, <1>9, <1>10, <1>11, <1>12, <1>13, <1>14,
           <1>15, <1>16, <1>17, <1>18, <1>19 DEF Next, Poll

(* The invariant says of the stored epoch what the property does.           *)
LEMMA CursorInvImplies == CursorInv => StoredCursorIsCovered
BY DEF CursorInv, DiskReached, StoredCursorIsCovered, CursorIsCovered, Reached, CommitsOf, CandidateCommits

(* While no transaction has failed, the stored cursor is the commit the     *)
(* epoch began with or that of a stored candidate: a restart passes over no *)
(* commit the poll had reached (persistCandidatesAndAdvance).               *)
THEOREM CursorIsAlwaysCovered == Spec => []StoredCursorIsCovered
<1>1. Init => CursorInv
  BY CursorInit
<1>2. CursorInv /\ [Next]_observationVars => CursorInv'
  BY CursorStep
<1>3. CursorInv => StoredCursorIsCovered
  BY CursorInvImplies
<1> QED BY <1>1, <1>2, <1>3, PTL DEF Spec

(*-------------------------------- telling -------------------------------*)

(* What is left to tell of a scan was there before, and the store only      *)
(* grows.                                                                   *)
ToldInv == ScanShape /\ ToldIsStored

LEMMA ToldStep == ToldInv /\ [Next]_observationVars => ToldInv'
<1> SUFFICES ASSUME ToldInv, [Next]_observationVars PROVE ToldInv'
  OBVIOUS
<1> USE DEF ToldInv
<1>1. CASE UNCHANGED <<scan, candidates>>
  BY <1>1 DEF ScanShape, ToldIsStored
<1>2. CASE Store
  <2>1. /\ candidates' = WithFound(scan.found, candidates)
        /\ scan' = [scan EXCEPT !.at = "emit"]
    BY <1>2 DEF Store
  <2>2. ScanShape' /\ scan'.found = scan.found
    BY <2>1 DEF ScanShape
  <2>3. DOMAIN scan.found \subseteq DOMAIN candidates'
    BY <2>1, MergedDomain
  <2> QED BY <2>2, <2>3 DEF ToldIsStored
<1>3. ASSUME candidates' = candidates, ScanShape',
             scan'.at \in {"emit", "subscriber"} =>
                 /\ scan.at \in {"emit", "subscriber"}
                 /\ DOMAIN scan'.found \subseteq DOMAIN scan.found
      PROVE  ToldInv'
  BY <1>3 DEF ToldIsStored
<1>4. CASE Scan \/ Begin \/ BeginEpoch \/ Watch
  <2>1. candidates' = candidates /\ ScanShape' /\ scan'.at \notin {"emit", "subscriber"}
    BY <1>4 DEF Scan, Begin, BeginEpoch, Watch, Idle, NoFailure, ScanShape
  <2> QED BY <1>3, <2>1
<1>11. CASE BranchesCompared
  <2>1. candidates' = candidates /\ scan' = [Idle EXCEPT !.at = "snapshot", !.again = scan.again]
    BY <1>11 DEF BranchesCompared, NoFailure
  <2>2. ScanShape' /\ scan'.at \notin {"emit", "subscriber"}
    BY <2>1 DEF Idle, ScanShape
  <2> QED BY <1>3, <2>1, <2>2
<1>12. CASE Snapshot
  <2>1. /\ candidates' = candidates
        /\ scan' = IF scan.again \/ scan.then = "ref"
                   THEN [Idle EXCEPT !.at = "ref", !.head = HeadCommit] ELSE Idle
    BY <1>12 DEF Snapshot, NoFailure
  <2>2. ScanShape' /\ scan'.at \notin {"emit", "subscriber"}
    BY <2>1 DEF Idle, ScanShape
  <2> QED BY <1>3, <2>1, <2>2
<1>5. CASE StoreFails \/ SubscriberFails \/ Crash
  <2>1. candidates' = candidates /\ (scan' = Aborted \/ scan' = Idle)
    BY <1>5 DEF StoreFails, SubscriberFails, Crash, store
  <2>2. ScanShape' /\ scan'.at = "idle"
    <3>1. CASE scan' = Aborted
      BY <3>1 DEF Aborted, Idle, ScanShape
    <3>2. CASE scan' = Idle
      BY <3>2 DEF Idle, ScanShape
    <3> QED BY <2>1, <3>1, <3>2
  <2> QED BY <1>3, <2>1, <2>2
<1>6. CASE Refresh
  BY <1>3, <1>6 DEF Refresh, NoFailure, ScanShape
<1>7. CASE Advance \/ ListBranches \/ \E r \in Refs : CompareBranch(r)
  <2>1. candidates' = candidates /\ ScanShape' /\ scan'.at \notin {"emit", "subscriber"}
    <3>1. candidates' = candidates
      BY <1>7 DEF Advance, ListBranches, CompareBranch, NoFailure
    <3>2. CASE Advance
      <4> DEFINE h == scan.head
                 r == HeadRef
                 first == epoch.cursor = NoCommit
                 found == IF first THEN [kind |-> "fast_forward", commits |-> {h}] ELSE Found(h, r)
      <4>1. CASE h = NoCommit \/ (epoch.cursor = h /\ epoch.ref = r)
        <5>1. scan' = [scan EXCEPT !.at = "list", !.head = NoCommit, !.skip = r]
          BY <3>2, <4>1 DEF Advance
        <5> QED BY <3>1, <5>1 DEF ScanShape
      <4>2. CASE ~(h = NoCommit \/ (epoch.cursor = h /\ epoch.ref = r))
        <5>1. scan' = [scan EXCEPT !.at = "store", !.head = NoCommit, !.skip = r, !.then = "list",
                                   !.what = IF first THEN "fast_forward" ELSE Transition(h, r),
                                   !.found = CandidatesOf(epoch, found.commits, r, found.kind)]
          BY <3>2, <4>2 DEF Advance
        <5> HIDE DEF h, r, first, found
        <5> QED BY <3>1, <5>1 DEF ScanShape
      <4> QED BY <3>1, <4>1, <4>2
    <3>3. CASE ListBranches
      <4>1. \E listed, left : scan' = [scan EXCEPT !.at = "branches", !.listed = listed, !.left = left]
        BY <3>3 DEF ListBranches
      <4> QED BY <3>1, <4>1 DEF ScanShape
    <3>4. CASE \E r \in Refs : CompareBranch(r)
      <4>1. \E left, what, found :
                scan' = [scan EXCEPT !.at = "store", !.left = left, !.then = "branches",
                                     !.what = what, !.found = found]
        BY <3>4 DEF CompareBranch
      <4> QED BY <3>1, <4>1 DEF ScanShape
    <3> QED BY <1>7, <3>2, <3>3, <3>4
  <2> QED BY <1>3, <2>1
<1>8. CASE Emit \/ Answer
  <2>1. candidates' = candidates /\ scan.at \in {"emit", "subscriber"}
    BY <1>8 DEF Emit, Answer, At, NoFailure
  <2>2. \/ scan' = [scan EXCEPT !.at = scan.then]
        \/ scan' = [scan EXCEPT !.at = "subscriber"]
        \/ scan' = AfterTelling
    BY <1>8 DEF Emit, Answer
  <2>3. /\ scan' = [at |-> scan'.at, head |-> scan.head, skip |-> scan.skip,
                    listed |-> scan.listed, left |-> scan.left, what |-> scan'.what,
                    found |-> scan'.found, then |-> scan.then, again |-> scan.again]
        /\ \/ scan'.found = scan.found
           \/ \E told : scan'.found = [id \in DOMAIN scan.found \ {told} |-> scan.found[id]]
    <3>1. \/ \E at : scan' = [scan EXCEPT !.at = at]
          \/ \E at, what : scan' = [scan EXCEPT !.at = at, !.what = what]
          \/ \E at, told : scan' = [scan EXCEPT !.at = at,
                                       !.found = [id \in DOMAIN scan.found \ {told} |-> scan.found[id]]]
      BY <2>2 DEF AfterTelling
    <3>2. CASE \E at : scan' = [scan EXCEPT !.at = at]
      BY <3>2 DEF ScanShape
    <3>3. CASE \E at, what : scan' = [scan EXCEPT !.at = at, !.what = what]
      BY <3>3 DEF ScanShape
    <3>4. ASSUME NEW at, NEW told,
                 scan' = [scan EXCEPT !.at = at,
                             !.found = [id \in DOMAIN scan.found \ {told} |-> scan.found[id]]]
          PROVE  <2>3!1 /\ <2>3!2
      BY <3>4 DEF ScanShape
    <3> QED BY <3>1, <3>2, <3>3, <3>4
  <2>4. ScanShape'
    BY <2>3 DEF ScanShape
  <2>5. DOMAIN scan'.found \subseteq DOMAIN scan.found
    BY <2>3
  <2> QED BY <1>3, <2>1, <2>4, <2>5
<1>9. CASE User
  BY <1>1, <1>9 DEF User, Commit, CommitDetached, Rewrite, Switch, Detach, DeleteBranch, StillWatched,
                    store, observer
<1>10. CASE Subscribe \/ UNCHANGED observationVars
  BY <1>1, <1>10 DEF Subscribe, observationVars, store, observer
<1> QED BY <1>2, <1>4, <1>5, <1>6, <1>7, <1>8, <1>9, <1>10, <1>11, <1>12 DEF Next, Poll

(* A subscriber is told only of candidates the store has: the transaction   *)
(* comes before the first event and nothing takes a candidate away.         *)
THEOREM ToldIsAlwaysStored == Spec => []ToldIsStored
<1>1. Init => ToldInv
  <2> SUFFICES ASSUME Init PROVE ToldInv
    OBVIOUS
  <2>1. scan = Idle
    BY DEF Init
  <2>2. ScanShape
    BY <2>1 DEF ScanShape, Idle
  <2>3. scan.at = "idle"
    BY <2>1 DEF Idle
  <2> QED BY <2>2, <2>3 DEF ToldInv, ToldIsStored
<1>2. ToldInv /\ [Next]_observationVars => ToldInv'
  BY ToldStep
<1>3. ToldInv => ToldIsStored
  BY DEF ToldInv
<1> QED BY <1>1, <1>2, <1>3, PTL DEF Spec

(*------------------------- commits and their ancestry -------------------*)

(* Ancestry is well defined: the smallest set that holds a commit and the   *)
(* parents of its members solves the equation.                              *)
LEMMA AncestryUnfolds ==
    \A c \in Commits : Ancestry[c] = {c} \cup (IF Parent[c] = NoCommit THEN {} ELSE Ancestry[Parent[c]])
<1> DEFINE Closed(S) == \A x \in S : Parent[x] # NoCommit => Parent[x] \in S
           Reach(c) == {d \in Commits : \A S \in SUBSET Commits : c \in S /\ Closed(S) => d \in S}
           Above(g, c) == {c} \cup (IF Parent[c] = NoCommit THEN {} ELSE g[Parent[c]])
           f == [c \in Commits |-> Reach(c)]
<1>1. \A c \in Commits : Parent[c] # NoCommit => Parent[c] \in Commits
  BY ObservationAssumption
<1>2. ASSUME NEW c \in Commits PROVE f[c] = Above(f, c)
  <2>1. Above(f, c) \subseteq Reach(c)
    <3>1. ASSUME NEW d \in Above(f, c), NEW S \in SUBSET Commits, c \in S, Closed(S)
          PROVE  d \in Commits /\ d \in S
      BY <1>1, <3>1
    <3>2. ASSUME NEW d \in Above(f, c) PROVE d \in Commits
      BY <1>1
    <3> HIDE DEF Above, Closed
    <3> QED BY <3>1, <3>2
  <2>2. Reach(c) \subseteq Above(f, c)
    <3>1. Above(f, c) \in SUBSET Commits /\ c \in Above(f, c)
      BY <1>1
    <3>2. Closed(Above(f, c))
      <4> SUFFICES ASSUME NEW x \in Above(f, c), Parent[x] # NoCommit PROVE Parent[x] \in Above(f, c)
        OBVIOUS
      <4>1. CASE x = c
        <5>1. Parent[c] \in Reach(Parent[c])
          BY <1>1, <4>1
        <5> QED BY <1>1, <4>1, <5>1
      <4>2. CASE x # c
        <5>1. Parent[c] # NoCommit /\ x \in Reach(Parent[c])
          BY <1>1, <4>2
        <5>2. Parent[x] \in Reach(Parent[c])
          BY <1>1, <5>1
        <5> QED BY <1>1, <5>1, <5>2
      <4> QED BY <4>1, <4>2
    <3> QED BY <3>1, <3>2
  <2> QED BY <2>1, <2>2
<1>3. f = [c \in Commits |-> Above(f, c)]
  <2> HIDE DEF Above
  <2> QED BY <1>2
<1>4. Ancestry = CHOOSE g : g = [c \in Commits |-> Above(g, c)]
  BY DEF Ancestry
<1>5. Ancestry = [c \in Commits |-> Above(Ancestry, c)]
  <2> HIDE DEF f, Above
  <2> QED BY <1>3, <1>4
<1> QED BY <1>5

(* A set of commits that contains a commit whenever it contains its parent, *)
(* or the commit has none, holds them all.                                  *)
LEMMA FromTheRoots ==
    ASSUME NEW Good \in SUBSET Commits,
           \A c \in Commits : Parent[c] = NoCommit \/ Parent[c] \in Good => c \in Good
    PROVE  Good = Commits
<1>1. CASE Commits \ Good = {}
  BY <1>1
<1>2. CASE Commits \ Good # {}
  <2>1. PICK c \in Commits \ Good : Parent[c] \notin Commits \ Good
    BY <1>2, HistoryAssumption
  <2> QED BY <2>1, ObservationAssumption
<1> QED BY <1>1, <1>2

(* Every commit is among its ancestors, which are commits, and finitely     *)
(* many.                                                                    *)
LEMMA AncestryType ==
    \A c \in Commits : c \in Ancestry[c] /\ Ancestry[c] \subseteq Commits /\ IsFiniteSet(Ancestry[c])
<1> DEFINE Good == {c \in Commits : Ancestry[c] \subseteq Commits /\ IsFiniteSet(Ancestry[c])}
<1>1. ASSUME NEW c \in Commits, Parent[c] = NoCommit \/ Parent[c] \in Good
      PROVE  c \in Good
  <2>1. CASE Parent[c] = NoCommit
    <3>1. Ancestry[c] = {c}
      BY <2>1, AncestryUnfolds
    <3> QED BY <3>1, FS_Singleton
  <2>2. CASE Parent[c] # NoCommit
    <3>1. Ancestry[c] = Ancestry[Parent[c]] \cup {c}
      BY <2>2, AncestryUnfolds
    <3>2. Ancestry[Parent[c]] \subseteq Commits /\ IsFiniteSet(Ancestry[Parent[c]])
      BY <1>1, <2>2
    <3> QED BY <3>1, <3>2, FS_AddElement
  <2> QED BY <2>1, <2>2
<1>2. Good = Commits
  <2> HIDE DEF Good
  <2>1. Good \in SUBSET Commits
    BY DEF Good
  <2> QED BY <1>1, <2>1, FromTheRoots
<1> QED BY <1>2, AncestryUnfolds

(* An ancestor of an ancestor is an ancestor.                               *)
LEMMA AncestryClosed ==
    \A c \in Commits : \A d \in Ancestry[c] : Ancestry[d] \subseteq Ancestry[c]
<1> DEFINE Good == {c \in Commits : \A d \in Ancestry[c] : Ancestry[d] \subseteq Ancestry[c]}
<1>1. ASSUME NEW c \in Commits, Parent[c] = NoCommit \/ Parent[c] \in Good
      PROVE  c \in Good
  BY <1>1, AncestryUnfolds
<1>2. Good = Commits
  <2> HIDE DEF Good
  <2>1. Good \in SUBSET Commits
    BY DEF Good
  <2> QED BY <1>1, <2>1, FromTheRoots
<1> QED BY <1>2

(* Of two ancestors of a commit one is an ancestor of the other.            *)
LEMMA AncestryIsAChain ==
    \A b \in Commits : \A c, d \in Ancestry[b] : c \in Ancestry[d] \/ d \in Ancestry[c]
<1> DEFINE Good == {b \in Commits : \A c, d \in Ancestry[b] : c \in Ancestry[d] \/ d \in Ancestry[c]}
<1>1. ASSUME NEW b \in Commits, Parent[b] = NoCommit \/ Parent[b] \in Good
      PROVE  b \in Good
  <2> SUFFICES ASSUME NEW c \in Ancestry[b], NEW d \in Ancestry[b]
               PROVE  c \in Ancestry[d] \/ d \in Ancestry[c]
    OBVIOUS
  <2>1. CASE b \in {c, d}
    BY <2>1
  <2>2. CASE b \notin {c, d}
    BY <1>1, <2>2, AncestryUnfolds
  <2> QED BY <2>1, <2>2
<1>2. Good = Commits
  <2> HIDE DEF Good
  <2>1. Good \in SUBSET Commits
    BY DEF Good
  <2> QED BY <1>1, <2>1, FromTheRoots
<1> QED BY <1>2

(* No commit is an ancestor of its parent, ...                              *)
LEMMA ParentsAreOlder ==
    \A c \in Commits : Parent[c] # NoCommit => c \notin Ancestry[Parent[c]]
<1> DEFINE Good == {c \in Commits : Parent[c] # NoCommit => c \notin Ancestry[Parent[c]]}
<1>1. ASSUME NEW c \in Commits, Parent[c] = NoCommit \/ Parent[c] \in Good
      PROVE  c \in Good
  <2> SUFFICES ASSUME Parent[c] # NoCommit, c \in Ancestry[Parent[c]] PROVE FALSE
    OBVIOUS
  <2> DEFINE p == Parent[c]
             q == Parent[p]
  <2>1. p \in Commits /\ p \in Good
    BY <1>1
  <2>2. c # p
    <3>1. ASSUME c = p PROVE FALSE
      <4>1. \A x \in {c} : Parent[x] \in {c}
        BY <3>1
      <4>2. {c} \in SUBSET Commits /\ {c} # {}
        OBVIOUS
      <4> QED BY <4>1, <4>2, HistoryAssumption
    <3> QED BY <3>1
  <2>3. q # NoCommit /\ c \in Ancestry[q] /\ q \in Commits
    BY <2>1, <2>2, AncestryUnfolds, ObservationAssumption
  <2>4. p \in Ancestry[c]
    <3>1. p \in Ancestry[p]
      BY <2>1, AncestryType
    <3> QED BY <3>1, AncestryUnfolds
  <2>5. p \in Ancestry[q]
    BY <2>3, <2>4, AncestryClosed
  <2> QED BY <2>1, <2>3, <2>5
<1>2. Good = Commits
  <2> HIDE DEF Good
  <2>1. Good \in SUBSET Commits
    BY DEF Good
  <2> QED BY <1>1, <2>1, FromTheRoots
<1> QED BY <1>2

(* ... so no two commits are ancestors of each other.                       *)
LEMMA AncestryIsAcyclic ==
    ASSUME NEW c \in Commits, NEW d \in Ancestry[c], c \in Ancestry[d]
    PROVE  c = d
<1> SUFFICES ASSUME c # d PROVE FALSE
  OBVIOUS
<1>1. Parent[c] # NoCommit /\ d \in Ancestry[Parent[c]] /\ Parent[c] \in Commits
  BY AncestryUnfolds, ObservationAssumption
<1>2. c \in Ancestry[Parent[c]]
  BY <1>1, AncestryClosed
<1> QED BY <1>1, <1>2, ParentsAreOlder

(*-------------------------- the numbers of candidates -------------------*)

(* The entries of f are numbered from low on and below high, each with its  *)
(* own number.                                                              *)
Numbered(f, low, high) ==
    /\ \A id \in DOMAIN f : f[id].seq \in Nat /\ low <= f[id].seq /\ f[id].seq < high
    /\ \A id, other \in DOMAIN f : f[id].seq = f[other].seq => id = other

(* Commits of one history differ in how many of a finite set they follow.   *)
LEMMA PlacesDiffer ==
    ASSUME NEW h \in Commits, NEW commits \in SUBSET Ancestry[h],
           NEW c \in commits, NEW d \in commits, c # d
    PROVE  Cardinality(commits \cap Ancestry[c]) # Cardinality(commits \cap Ancestry[d])
<1>1. ASSUME NEW x \in commits, NEW y \in commits, x \in Ancestry[y], x # y
      PROVE  Cardinality(commits \cap Ancestry[x]) # Cardinality(commits \cap Ancestry[y])
  <2>1. x \in Commits /\ y \in Commits /\ IsFiniteSet(Ancestry[h])
    BY AncestryType
  <2>2. commits \cap Ancestry[x] \subseteq commits \cap Ancestry[y]
    BY <1>1, <2>1, AncestryClosed
  <2>3. y \in commits \cap Ancestry[y] /\ y \notin commits \cap Ancestry[x]
    BY <1>1, <2>1, AncestryType, AncestryIsAcyclic
  <2>4. IsFiniteSet(commits \cap Ancestry[y])
    <3>1. commits \cap Ancestry[y] \in SUBSET Ancestry[h]
      OBVIOUS
    <3> QED BY <2>1, <3>1, FS_Subset
  <2> QED BY <2>2, <2>3, <2>4, FS_Subset
<1>2. c \in Ancestry[d] \/ d \in Ancestry[c]
  BY AncestryIsAChain
<1> QED BY <1>1, <1>2

(* The candidates made of a stretch of history take the next numbers, one   *)
(* each.                                                                    *)
LEMMA CandidatesNumbered ==
    ASSUME NEW e, e.seq \in Nat, NEW h \in Commits, NEW commits \in SUBSET Ancestry[h],
           NEW r, NEW kind
    PROVE  /\ Cardinality(commits) \in Nat
           /\ Numbered(CandidatesOf(e, commits, r, kind), e.seq, e.seq + Cardinality(commits))
<1> DEFINE f == CandidatesOf(e, commits, r, kind)
           place(c) == Cardinality(commits \cap Ancestry[c])
<1>1. IsFiniteSet(commits) /\ Cardinality(commits) \in Nat
  BY AncestryType, FS_Subset, FS_CardinalityType
<1>2. ASSUME NEW c \in commits
      PROVE  place(c) \in Nat /\ 1 <= place(c) /\ place(c) <= Cardinality(commits)
  <2>1. commits \cap Ancestry[c] \in SUBSET commits /\ c \in commits \cap Ancestry[c]
    BY AncestryType
  <2>2. IsFiniteSet(commits \cap Ancestry[c]) /\ place(c) <= Cardinality(commits)
    BY <1>1, <2>1, FS_Subset
  <2>3. place(c) \in Nat /\ place(c) # 0
    BY <2>1, <2>2, FS_CardinalityType, FS_EmptySet
  <2> QED BY <2>2, <2>3
<1>3. ASSUME NEW id \in DOMAIN f
      PROVE  /\ id[3] \in commits /\ id = <<e.id, r, id[3]>>
             /\ f[id].seq = e.seq + place(id[3]) - 1
  BY DEF CandidatesOf
<1>4. ASSUME NEW id \in DOMAIN f
      PROVE  f[id].seq \in Nat /\ e.seq <= f[id].seq /\ f[id].seq < e.seq + Cardinality(commits)
  <2> HIDE DEF f, place
  <2> QED BY <1>1, <1>2, <1>3
<1>5. ASSUME NEW id \in DOMAIN f, NEW other \in DOMAIN f, f[id].seq = f[other].seq
      PROVE  id = other
  <2>1. place(id[3]) = place(other[3])
    <3>1. place(id[3]) \in Nat /\ place(other[3]) \in Nat
      <4> HIDE DEF f, place
      <4> QED BY <1>2, <1>3
    <3>2. e.seq + place(id[3]) - 1 = e.seq + place(other[3]) - 1
      <4> HIDE DEF f, place
      <4> QED BY <1>3, <1>5
    <3> HIDE DEF place
    <3> QED BY <3>1, <3>2
  <2>2. id[3] = other[3]
    BY <1>3, <2>1, PlacesDiffer
  <2> QED BY <1>3, <2>2
<1> HIDE DEF f
<1>6. Numbered(f, e.seq, e.seq + Cardinality(commits))
  BY <1>4, <1>5 DEF Numbered
<1> QED BY <1>1, <1>6 DEF f

(* Numbers that go on where those of the store end stay apart from them.    *)
LEMMA MergedNumbered ==
    ASSUME NEW f, NEW g, NEW low \in Nat, NEW high \in Nat, low <= high,
           Numbered(f, low, high), Numbered(g, 0, low)
    PROVE  Numbered(WithFound(f, g), 0, high)
<1> DEFINE w == WithFound(f, g)
<1>1. ASSUME NEW id \in DOMAIN w
      PROVE  \/ id \in DOMAIN f /\ w[id] = f[id]
             \/ id \in DOMAIN g /\ w[id] = g[id]
  BY DEF WithFound
<1> HIDE DEF w
<1>2. ASSUME NEW id \in DOMAIN w
      PROVE  w[id].seq \in Nat /\ w[id].seq < high
  BY <1>1 DEF Numbered
<1>3. ASSUME NEW id \in DOMAIN w, NEW other \in DOMAIN w, w[id].seq = w[other].seq
      PROVE  id = other
  BY <1>1, <1>3 DEF Numbered
<1>4. Numbered(w, 0, high)
  BY <1>2, <1>3 DEF Numbered
<1> QED BY <1>4 DEF w

(*------------------- the invariant of types and numbers -----------------*)

TypedEpoch(e) ==
    /\ IsEpoch(e)
    /\ e.id = 1 /\ e.seq \in Nat /\ e.ref \in Refs \cup {NoRef}
    /\ e.initial \in Commits \cup {NoCommit} /\ e.cursor \in Commits \cup {NoCommit}
    /\ e.refs \in [Refs -> Commits \cup {NoCommit}]

(* What exists is closed under parents, so that the commits a scan finds    *)
(* exist.                                                                   *)
WorldType ==
    /\ branch \in [Refs -> made \cup {NoCommit}]
    /\ head \in Refs \cup made /\ made \subseteq Commits
    /\ \A c \in made : Parent[c] \in made \cup {NoCommit}

ScanType ==
    /\ ScanShape
    /\ scan.at \in {"idle", "begin", "create", "ref", "list", "branches", "store", "emit", "subscriber", "snapshot"}
    /\ scan.then \in {"idle", "ref", "list", "branches"}
    /\ scan.head \in made \cup {NoCommit}
    /\ scan.skip \in Refs \cup {NoRef}
    /\ scan.left \subseteq Refs
    /\ scan.listed \in [Refs -> made \cup {NoCommit}]

EpochTypes ==
    /\ disk = NoEpoch \/ TypedEpoch(disk)
    /\ IF watching THEN TypedEpoch(epoch) ELSE epoch = NoEpoch

Ids == {1} \X (Refs \cup {NoRef}) \X made

(* The stored candidates are numbered below the next number on disk, and    *)
(* what a scan is about to store from there to the next number in memory.   *)
StoredNumbers ==
    /\ DOMAIN candidates \subseteq Ids
    /\ IF disk = NoEpoch THEN DOMAIN candidates = {} ELSE Numbered(candidates, 0, disk.seq)

FoundNumbers ==
    watching => /\ disk # NoEpoch /\ disk.seq <= epoch.seq
                /\ scan.at = "store" => /\ DOMAIN scan.found \subseteq Ids
                                        /\ Numbered(scan.found, disk.seq, epoch.seq)

NumberInv == WorldType /\ ScanType /\ EpochTypes /\ StoredNumbers /\ FoundNumbers

(* An epoch is not the marker for none.                                     *)
LEMMA EpochsAreSome == \A e : IsEpoch(e) => e # NoEpoch
<1> SUFFICES ASSUME NEW e, IsEpoch(e), e = NoEpoch PROVE FALSE
  OBVIOUS
<1>1. "cursor" \in DOMAIN e
  BY DEF IsEpoch
<1> QED BY <1>1 DEF NoEpoch

LEMMA NumberInvImplies == NumberInv => TypeOK
<1> SUFFICES ASSUME NumberInv PROVE TypeOK
  OBVIOUS
<1> USE DEF NumberInv
<1>1. Epochs(disk) /\ Epochs(epoch)
  BY DEF EpochTypes, TypedEpoch, Epochs
<1>2. \A id, other \in DOMAIN candidates :
          /\ candidates[id].seq < disk.seq
          /\ candidates[id].seq = candidates[other].seq => id = other
  BY DEF StoredNumbers, Numbered
<1> QED BY <1>1, <1>2 DEF TypeOK, WorldType, ScanType, StoredNumbers, Ids

(*----------------------------- the induction ----------------------------*)

LEMMA NumberInit == Init => NumberInv
<1> SUFFICES ASSUME Init PROVE NumberInv
  OBVIOUS
<1> DEFINE heads == {Start[r] : r \in Refs} \ {NoCommit}
<1>1. heads \subseteq Commits /\ made = UNION {Ancestry[c] : c \in heads}
  BY ObservationAssumption DEF Init
<1>2. made \subseteq Commits /\ heads \subseteq made
  <2> HIDE DEF heads
  <2> QED BY <1>1, AncestryType
<1>3. ASSUME NEW c \in made PROVE Parent[c] \in made \cup {NoCommit}
  <2>1. PICK s \in heads : c \in Ancestry[s]
    BY <1>1
  <2> HIDE DEF heads
  <2>2. CASE Parent[c] # NoCommit
    <3>1. c \in Commits /\ Parent[c] \in Commits
      BY <1>2, <2>2, ObservationAssumption
    <3>2. Parent[c] \in Ancestry[Parent[c]]
      BY <3>1, AncestryType
    <3>3. Parent[c] \in Ancestry[c]
      BY <2>2, <3>1, <3>2, AncestryUnfolds
    <3>4. Parent[c] \in Ancestry[s]
      BY <1>1, <2>1, <3>3, AncestryClosed
    <3> QED BY <1>1, <3>4
  <2> QED BY <2>2
<1>4. WorldType
  <2>1. branch = Start /\ head \in Refs
    BY DEF Init
  <2>2. branch \in [Refs -> made \cup {NoCommit}]
    BY <1>2, <2>1, ObservationAssumption
  <2> QED BY <1>2, <1>3, <2>1, <2>2 DEF WorldType
<1>5. ScanType
  BY DEF Init, Idle, NoBranches, ScanType, ScanShape
<1> QED BY <1>4, <1>5 DEF Init, NumberInv, EpochTypes, StoredNumbers, FoundNumbers, NoCandidates, Ids

(* The ancestors of a commit that exists exist.                             *)
LEMMA AncestorsAreMade ==
    ASSUME WorldType, NEW h \in made
    PROVE  Ancestry[h] \subseteq made
<1> DEFINE Good == {c \in Commits : c \in made => Ancestry[c] \subseteq made}
<1>1. ASSUME NEW c \in Commits, Parent[c] = NoCommit \/ Parent[c] \in Good
      PROVE  c \in Good
  BY <1>1, AncestryUnfolds DEF WorldType
<1>2. Good = Commits
  <2> HIDE DEF Good
  <2>1. Good \in SUBSET Commits
    BY DEF Good
  <2> QED BY <1>1, <2>1, FromTheRoots
<1> QED BY <1>2 DEF WorldType

(* HEAD names a commit that exists, or none.                                *)
LEMMA HeadIsMade ==
    ASSUME WorldType
    PROVE  HeadCommit \in made \cup {NoCommit} /\ HeadRef \in Refs \cup {NoRef}
BY DEF WorldType, HeadCommit, HeadRef

(* The user adds commits and moves branches; nothing that exists goes.      *)
LEMMA UserKeepsWorld ==
    ASSUME WorldType, User
    PROVE  WorldType' /\ made \subseteq made' /\ StillWatched
<1>1. ASSUME NEW r \in Refs, NEW c \in Commits, Commit(r, c)
      PROVE  WorldType' /\ made \subseteq made' /\ StillWatched
  BY <1>1 DEF Commit, WorldType
<1>2. ASSUME NEW r \in Refs, NEW c \in Commits, Rewrite(r, c)
      PROVE  WorldType' /\ made \subseteq made' /\ StillWatched
  BY <1>2 DEF Rewrite, WorldType
<1>3. ASSUME NEW c \in Commits, CommitDetached(c)
      PROVE  WorldType' /\ made \subseteq made' /\ StillWatched
  BY <1>3 DEF CommitDetached, WorldType
<1>4. ASSUME NEW c \in Commits, Detach(c)
      PROVE  WorldType' /\ made \subseteq made' /\ StillWatched
  BY <1>4 DEF Detach, WorldType
<1>5. ASSUME NEW r \in Refs, Switch(r)
      PROVE  WorldType' /\ made \subseteq made' /\ StillWatched
  BY <1>5, HeadIsMade DEF Switch, WorldType
<1>6. ASSUME NEW r \in Refs, DeleteBranch(r)
      PROVE  WorldType' /\ made \subseteq made' /\ StillWatched
  BY <1>6 DEF DeleteBranch, WorldType
<1> QED BY <1>1, <1>2, <1>3, <1>4, <1>5, <1>6 DEF User

(* An epoch whose position or count moves keeps its type.                   *)
LEMMA EpochUpdated ==
    ASSUME NEW e, TypedEpoch(e), NEW f, IsEpoch(f), f.id = e.id, f.initial = e.initial,
           f.seq \in Nat, f.ref \in Refs \cup {NoRef}, f.cursor \in Commits \cup {NoCommit},
           f.refs \in [Refs -> Commits \cup {NoCommit}]
    PROVE  TypedEpoch(f)
BY DEF TypedEpoch

(* A step that stores nothing, finds nothing and leaves the epochs alone.   *)
LEMMA NumbersKept ==
    ASSUME NumberInv, UNCHANGED <<world, epoch, disk, candidates, watching>>, ScanType',
           scan'.at = "store" => scan.at = "store" /\ scan'.found = scan.found
    PROVE  NumberInv'
<1>1. WorldType' /\ EpochTypes'
  BY DEF NumberInv, world, WorldType, EpochTypes, TypedEpoch, IsEpoch, NoEpoch
<1>2. StoredNumbers'
  BY DEF NumberInv, world, StoredNumbers, Numbered, Ids, NoEpoch
<1>3. FoundNumbers'
  BY DEF NumberInv, world, FoundNumbers, Numbered, Ids, NoEpoch
<1> QED BY <1>1, <1>2, <1>3 DEF NumberInv

(* A step that finds the next stretch of a history, if any: the epoch in    *)
(* memory moves past its numbers.                                           *)
IsStretch(commits) == commits = {} \/ \E h \in made : commits \subseteq Ancestry[h]

LEMMA StretchNumbered ==
    ASSUME NumberInv, NEW commits, IsStretch(commits), NEW e, e.id = 1, e.seq \in Nat,
           NEW r \in Refs \cup {NoRef}, NEW kind
    PROVE  /\ Cardinality(commits) \in Nat
           /\ Numbered(CandidatesOf(e, commits, r, kind), e.seq, e.seq + Cardinality(commits))
           /\ DOMAIN CandidatesOf(e, commits, r, kind) \subseteq Ids
<1>1. CASE commits = {}
  <2>1. DOMAIN CandidatesOf(e, commits, r, kind) = {}
    BY <1>1 DEF CandidatesOf
  <2> QED BY <1>1, <2>1, FS_EmptySet DEF Numbered
<1>2. ASSUME NEW h \in made, commits \subseteq Ancestry[h]
      PROVE  /\ Cardinality(commits) \in Nat
             /\ Numbered(CandidatesOf(e, commits, r, kind), e.seq, e.seq + Cardinality(commits))
             /\ DOMAIN CandidatesOf(e, commits, r, kind) \subseteq Ids
  <2>1. h \in Commits
    BY DEF NumberInv, WorldType
  <2>2. commits \subseteq made
    BY <1>2, AncestorsAreMade DEF NumberInv
  <2>3. DOMAIN CandidatesOf(e, commits, r, kind) \subseteq Ids
    BY <2>2 DEF CandidatesOf, Ids
  <2> QED BY <1>2, <2>1, <2>3, CandidatesNumbered
<1> QED BY <1>1, <1>2 DEF IsStretch

LEMMA NumbersFound ==
    ASSUME NumberInv, watching, UNCHANGED <<world, disk, candidates, watching>>, ScanType',
           NEW commits, IsStretch(commits), NEW r \in Refs \cup {NoRef}, NEW kind,
           TypedEpoch(epoch'), epoch'.seq = epoch.seq + Cardinality(commits),
           scan'.found = CandidatesOf(epoch, commits, r, kind)
    PROVE  NumberInv'
<1>1. WorldType' /\ EpochTypes'
  BY DEF NumberInv, world, WorldType, EpochTypes, TypedEpoch, IsEpoch, NoEpoch
<1>2. StoredNumbers'
  BY DEF NumberInv, world, StoredNumbers, Numbered, Ids, NoEpoch
<1>3. epoch.seq \in Nat /\ epoch.id = 1 /\ disk # NoEpoch /\ disk.seq \in Nat /\ disk.seq <= epoch.seq
  BY DEF NumberInv, EpochTypes, TypedEpoch, FoundNumbers
<1>4. /\ Cardinality(commits) \in Nat
      /\ Numbered(scan'.found, epoch.seq, epoch'.seq)
      /\ DOMAIN scan'.found \subseteq Ids
  BY <1>3, StretchNumbered
<1>5. Numbered(scan'.found, disk.seq, epoch'.seq)
  BY <1>3, <1>4 DEF Numbered
<1>6. FoundNumbers'
  BY <1>3, <1>4, <1>5 DEF FoundNumbers, Numbered, Ids, world, NoEpoch
<1> QED BY <1>1, <1>2, <1>6 DEF NumberInv

(* A step that moves the epoch in memory and stores it or not, and finds    *)
(* nothing.                                                                 *)
LEMMA EpochMoves ==
    ASSUME NumberInv, watching, UNCHANGED <<world, candidates, watching>>, ScanType',
           scan'.at # "store", TypedEpoch(epoch'), epoch'.seq \in {epoch.seq, epoch.seq + 1},
           disk' = disk \/ (TypedEpoch(disk') /\ disk'.seq = epoch'.seq)
    PROVE  NumberInv'
<1>1. /\ TypedEpoch(epoch) /\ epoch.seq \in Nat /\ disk # NoEpoch /\ disk.seq <= epoch.seq
      /\ TypedEpoch(disk) /\ disk.seq \in Nat /\ Numbered(candidates, 0, disk.seq)
      /\ DOMAIN candidates \subseteq Ids
  BY DEF NumberInv, EpochTypes, TypedEpoch, FoundNumbers, StoredNumbers
<1>2. /\ TypedEpoch(disk') /\ disk' # NoEpoch /\ disk'.seq \in Nat
      /\ disk.seq <= disk'.seq /\ disk'.seq <= epoch'.seq
  <2>1. CASE disk' = disk
    BY <1>1, <2>1 DEF TypedEpoch
  <2>2. CASE TypedEpoch(disk') /\ disk'.seq = epoch'.seq
    BY <1>1, <2>2, EpochsAreSome DEF TypedEpoch
  <2> QED BY <2>1, <2>2
<1>3. WorldType' /\ EpochTypes'
  BY <1>2 DEF NumberInv, world, WorldType, EpochTypes, TypedEpoch, IsEpoch, NoEpoch
<1>4. Numbered(candidates, 0, disk'.seq)
  BY <1>1, <1>2 DEF Numbered
<1>5. StoredNumbers'
  BY <1>1, <1>2, <1>4 DEF StoredNumbers, Numbered, Ids, world, NoEpoch
<1>6. FoundNumbers'
  BY <1>2 DEF FoundNumbers, NoEpoch
<1> QED BY <1>3, <1>5, <1>6 DEF NumberInv

(* What a comparison finds is a stretch of the history of the new commit.   *)
LEMMA NewAreAncestors ==
    ASSUME NEW b \in Commits, NEW a
    PROVE  NewCommits(a, b) \subseteq Ancestry[b]
BY AncestryType DEF NewCommits

LEMMA NumberStep == NumberInv /\ [Next]_observationVars => NumberInv'
<1> SUFFICES ASSUME NumberInv, [Next]_observationVars PROVE NumberInv'
  OBVIOUS
<1>h. HeadCommit \in made \cup {NoCommit} /\ HeadRef \in Refs \cup {NoRef}
  BY HeadIsMade DEF NumberInv
<1>t. ScanType /\ NoBranches \in [Refs -> made \cup {NoCommit}]
  BY DEF NumberInv, NoBranches
<1>1. CASE UNCHANGED observationVars
  <2>1. ScanType'
    BY <1>1, <1>t DEF observationVars, world, store, observer, ScanType, ScanShape
  <2> QED BY <1>1, <2>1, NumbersKept DEF observationVars, store, observer
<1>2. CASE User
  <2>1. WorldType' /\ made \subseteq made' /\ StillWatched
    BY <1>2, UserKeepsWorld DEF NumberInv
  <2>2. UNCHANGED <<disk, candidates, epoch, scan, watching>>
    BY <2>1 DEF StillWatched, store, observer
  <2>3. ScanType'
    BY <1>t, <2>1, <2>2 DEF ScanType, ScanShape
  <2>4. EpochTypes'
    BY <2>2 DEF NumberInv, EpochTypes, TypedEpoch, IsEpoch, NoEpoch
  <2>5. StoredNumbers' /\ FoundNumbers'
    BY <2>1, <2>2 DEF NumberInv, StoredNumbers, FoundNumbers, Numbered, Ids, NoEpoch
  <2> QED BY <2>1, <2>3, <2>4, <2>5 DEF NumberInv
<1>3. CASE Begin
  <2>1. ScanType' /\ scan'.at = "begin"
    BY <1>3, <1>h, <1>t DEF Begin, Idle, ScanType, ScanShape, Unseen, world
  <2> QED BY <1>3, <2>1, NumbersKept DEF Begin, NoFailure, Unseen
<1>22. CASE BeginEpoch
  <2>1. ScanType' /\ scan'.at = "create"
    BY <1>22, <1>h, <1>t DEF BeginEpoch, ScanType, ScanShape, Unseen, world
  <2> QED BY <1>22, <2>1, NumbersKept DEF BeginEpoch, NoFailure, Unseen
<1>4. CASE Watch
  <2>1. /\ epoch' = IF disk # NoEpoch THEN disk ELSE CreatedEpoch(scan.head, scan.skip)
        /\ disk' = epoch' /\ watching' = TRUE /\ candidates' = candidates
        /\ scan' = [Idle EXCEPT !.at = "snapshot", !.then = "ref"]
        /\ UNCHANGED world
    BY <1>4 DEF Watch, Unseen
  <2>2. ScanType' /\ scan'.at = "snapshot"
    BY <2>1, <1>t DEF Idle, ScanType, ScanShape, world
  <2>3. TypedEpoch(epoch') /\ (disk = NoEpoch => DOMAIN candidates = {})
        /\ (disk # NoEpoch => epoch'.seq = disk.seq)
    <3>1. CASE disk # NoEpoch
      BY <2>1, <3>1 DEF NumberInv, EpochTypes, TypedEpoch, IsEpoch
    <3>2. CASE disk = NoEpoch
      <4>1. epoch' = CreatedEpoch(scan.head, scan.skip)
        BY <2>1, <3>2
      <4>2. disk.id = 0 /\ branch \in [Refs -> Commits \cup {NoCommit}]
            /\ scan.head \in Commits \cup {NoCommit} /\ scan.skip \in Refs \cup {NoRef}
        BY <1>t, <3>2 DEF NoEpoch, NumberInv, WorldType, ScanType
      <4>3. TypedEpoch(epoch')
        BY <4>1, <4>2 DEF CreatedEpoch, TypedEpoch, IsEpoch
      <4> QED BY <3>2, <4>3 DEF NumberInv, StoredNumbers
    <3> QED BY <3>1, <3>2
  <2>4. disk' # NoEpoch /\ disk'.seq \in Nat
    BY <2>1, <2>3, EpochsAreSome DEF TypedEpoch
  <2>5. EpochTypes' /\ WorldType'
    BY <2>1, <2>3 DEF EpochTypes, TypedEpoch, IsEpoch, NoEpoch, NumberInv, WorldType, world
  <2>6. StoredNumbers'
    <3>1. Numbered(candidates, 0, disk'.seq)
      BY <2>1, <2>3 DEF NumberInv, StoredNumbers, Numbered
    <3> QED BY <2>1, <2>4, <3>1 DEF NumberInv, StoredNumbers, Numbered, Ids, world, NoEpoch
  <2>7. FoundNumbers'
    BY <2>1, <2>2, <2>4 DEF FoundNumbers, NoEpoch
  <2> QED BY <2>2, <2>5, <2>6, <2>7 DEF NumberInv
<1>5. CASE Scan
  <2>1. ScanType' /\ scan'.at = "ref"
    BY <1>5, <1>h, <1>t DEF Scan, Idle, ScanType, ScanShape, Unseen, world
  <2> QED BY <1>5, <2>1, NumbersKept DEF Scan, NoFailure, Unseen
<1>6. CASE Refresh
  <2>1. ScanType' /\ scan'.at = scan.at /\ scan'.found = scan.found
    BY <1>6, <1>t DEF Refresh, ScanType, ScanShape, Unseen, world
  <2> QED BY <1>6, <2>1, NumbersKept DEF Refresh, NoFailure, Unseen
<1>7. CASE Advance
  <2> DEFINE h == scan.head
             r == HeadRef
             first == epoch.cursor = NoCommit
             found == IF first THEN [kind |-> "fast_forward", commits |-> {h}] ELSE Found(h, r)
  <2>1. watching /\ scan.at = "ref" /\ disk' = disk /\ NoFailure /\ Unseen
    BY <1>7 DEF Advance, At
  <2>2. CASE h = NoCommit \/ (epoch.cursor = h /\ epoch.ref = r)
    <3>1. epoch' = epoch /\ scan' = [scan EXCEPT !.at = "list", !.head = NoCommit, !.skip = r]
      BY <1>7, <2>2 DEF Advance
    <3>2. ScanType' /\ scan'.at = "list"
      BY <1>h, <1>t, <2>1, <3>1 DEF ScanType, ScanShape, Unseen, world
    <3> QED BY <2>1, <3>1, <3>2, NumbersKept DEF NoFailure, Unseen
  <2>3. CASE ~(h = NoCommit \/ (epoch.cursor = h /\ epoch.ref = r))
    <3>1. /\ epoch' = [epoch EXCEPT !.cursor = h, !.ref = r,
                                    !.refs = IF r = NoRef THEN @ ELSE [@ EXCEPT ![r] = h],
                                    !.seq = @ + Cardinality(found.commits)]
          /\ scan' = [scan EXCEPT !.at = "store", !.head = NoCommit, !.skip = r, !.then = "list",
                                  !.what = IF first THEN "fast_forward" ELSE Transition(h, r),
                                  !.found = CandidatesOf(epoch, found.commits, r, found.kind)]
      BY <1>7, <2>3 DEF Advance
    <3>2. h \in made /\ h \in Commits /\ TypedEpoch(epoch)
      BY <1>t, <2>1, <2>3 DEF NumberInv, WorldType, ScanType, EpochTypes
    <3>3. found.commits \in SUBSET Ancestry[h]
      <4>1. first => found.commits = {h}
        OBVIOUS
      <4>2. ~first => found.commits \subseteq Ancestry[h]
        BY <3>2, NewAreAncestors DEF Found
      <4> QED BY <3>2, <4>1, <4>2, AncestryType
    <3>4. ScanType' /\ scan'.found = CandidatesOf(epoch, found.commits, r, found.kind)
      <4> HIDE DEF found
      <4> QED BY <1>h, <1>t, <2>1, <3>1 DEF ScanType, ScanShape, Unseen, world
    <3> HIDE DEF found
    <3>5. IsStretch(found.commits) /\ Cardinality(found.commits) \in Nat
      BY <1>h, <3>2, <3>3, StretchNumbered DEF IsStretch, TypedEpoch
    <3>6. TypedEpoch(epoch') /\ epoch'.seq = epoch.seq + Cardinality(found.commits)
      <4>1. IsEpoch(epoch)
        BY <3>2 DEF TypedEpoch
      <4>2. /\ IsEpoch(epoch') /\ epoch'.id = epoch.id /\ epoch'.initial = epoch.initial
            /\ epoch'.ref = r /\ epoch'.cursor = h
            /\ epoch'.refs = IF r = NoRef THEN epoch.refs ELSE [epoch.refs EXCEPT ![r] = h]
            /\ epoch'.seq = epoch.seq + Cardinality(found.commits)
        BY <3>1, <4>1 DEF IsEpoch
      <4>3. epoch'.refs \in [Refs -> Commits \cup {NoCommit}]
        BY <3>2, <4>2 DEF TypedEpoch
      <4>4. epoch'.seq \in Nat
        BY <3>2, <3>5, <4>2 DEF TypedEpoch
      <4> QED BY <1>h, <3>2, <4>2, <4>3, <4>4, EpochUpdated
    <3> QED BY <1>h, <2>1, <3>4, <3>5, <3>6, NumbersFound DEF NoFailure, Unseen
  <2> QED BY <2>2, <2>3
<1>8. CASE ListBranches
  <2>1. ScanType' /\ scan'.at = "branches"
    BY <1>8, <1>t DEF ListBranches, NumberInv, WorldType, ScanType, ScanShape, Unseen, world
  <2> QED BY <1>8, <2>1, NumbersKept DEF ListBranches, NoFailure, Unseen
<1>9. ASSUME NEW r \in Refs, CompareBranch(r)
      PROVE  NumberInv'
  <2> DEFINE was == epoch.refs[r]
             is == scan.listed[r]
             both == NoCommit \notin {was, is}
             found == IF both THEN NewCommits(was, is) ELSE {}
             kind == IF both THEN MovedTo(was, is)
                     ELSE IF is = NoCommit THEN "ref_deleted" ELSE "unknown"
  <2>1. /\ watching /\ disk' = disk /\ NoFailure /\ Unseen
        /\ epoch' = [epoch EXCEPT !.refs[r] = is, !.seq = @ + Cardinality(found)]
        /\ scan' = [scan EXCEPT !.at = "store", !.left = @ \ {r}, !.then = "branches",
                                !.what = kind, !.found = CandidatesOf(epoch, found, r, kind)]
    BY <1>9 DEF CompareBranch, At
  <2>2. TypedEpoch(epoch) /\ is \in made \cup {NoCommit} /\ made \subseteq Commits
    BY <1>t, <2>1 DEF NumberInv, EpochTypes, ScanType, WorldType
  <2>3. IsStretch(found)
    BY <2>2, NewAreAncestors DEF IsStretch
  <2>4. ScanType' /\ scan'.found = CandidatesOf(epoch, found, r, kind)
    <3> HIDE DEF found, kind, is
    <3> QED BY <1>t, <2>1 DEF ScanType, ScanShape, Unseen, world
  <2> HIDE DEF found, kind
  <2>5. Cardinality(found) \in Nat
    BY <2>2, <2>3, StretchNumbered DEF TypedEpoch
  <2>6. TypedEpoch(epoch') /\ epoch'.seq = epoch.seq + Cardinality(found)
    <3>1. IsEpoch(epoch)
      BY <2>2 DEF TypedEpoch
    <3>2. /\ IsEpoch(epoch') /\ epoch'.id = epoch.id /\ epoch'.initial = epoch.initial
          /\ epoch'.ref = epoch.ref /\ epoch'.cursor = epoch.cursor
          /\ epoch'.refs = [epoch.refs EXCEPT ![r] = is]
          /\ epoch'.seq = epoch.seq + Cardinality(found)
      BY <2>1, <3>1 DEF IsEpoch
    <3>3. epoch'.refs \in [Refs -> Commits \cup {NoCommit}]
      BY <2>2, <3>2 DEF TypedEpoch
    <3>4. epoch'.seq \in Nat /\ epoch.ref \in Refs \cup {NoRef} /\ epoch.cursor \in Commits \cup {NoCommit}
      BY <2>2, <2>5, <3>2 DEF TypedEpoch
    <3> QED BY <2>2, <3>2, <3>3, <3>4, EpochUpdated
  <2> QED BY <2>1, <2>3, <2>4, <2>6, NumbersFound DEF NoFailure, Unseen
<1>10. CASE BranchesCompared
  <2> DEFINE seen == IF scan.skip = NoRef THEN scan.listed
                     ELSE [scan.listed EXCEPT ![scan.skip] = epoch.refs[scan.skip]]
  <2>1. /\ watching /\ UNCHANGED <<world, candidates, watching>>
        /\ epoch' = [epoch EXCEPT !.refs = seen]
        /\ disk' = IF epoch.refs = seen THEN disk ELSE epoch'
        /\ scan' = [Idle EXCEPT !.at = "snapshot", !.again = scan.again]
    BY <1>10 DEF BranchesCompared, At, NoFailure, Unseen
  <2>2. TypedEpoch(epoch) /\ made \subseteq Commits
    BY <2>1 DEF NumberInv, EpochTypes, WorldType
  <2>3. seen \in [Refs -> Commits \cup {NoCommit}]
    BY <1>t, <2>2 DEF ScanType, TypedEpoch
  <2>4. TypedEpoch(epoch') /\ epoch'.seq = epoch.seq
    BY <2>1, <2>2, <2>3 DEF TypedEpoch, IsEpoch
  <2>5. ScanType' /\ scan'.at = "snapshot"
    BY <1>t, <2>1 DEF Idle, ScanType, ScanShape, world
  <2>6. disk' = disk \/ disk' = epoch'
    BY <2>1
  <2> QED BY <2>1, <2>4, <2>5, <2>6, EpochMoves
<1>11. CASE Store
  <2>1. /\ watching /\ scan.at = "store" /\ disk' = epoch /\ epoch' = epoch
        /\ candidates' = WithFound(scan.found, candidates)
        /\ scan' = [scan EXCEPT !.at = "emit"]
        /\ UNCHANGED <<world, watching>>
    BY <1>11 DEF Store, At, Unseen
  <2>2. TypedEpoch(epoch) /\ epoch # NoEpoch /\ TypedEpoch(disk) /\ disk # NoEpoch
    BY <2>1, EpochsAreSome DEF NumberInv, EpochTypes, FoundNumbers, TypedEpoch
  <2>3. /\ Numbered(scan.found, disk.seq, epoch.seq) /\ Numbered(candidates, 0, disk.seq)
        /\ disk.seq <= epoch.seq
        /\ DOMAIN scan.found \subseteq Ids /\ DOMAIN candidates \subseteq Ids
    BY <2>1, <2>2 DEF NumberInv, FoundNumbers, StoredNumbers
  <2>4. Numbered(candidates', 0, epoch.seq)
    BY <2>1, <2>2, <2>3, MergedNumbered DEF TypedEpoch
  <2>5. DOMAIN candidates' \subseteq Ids
    BY <2>1, <2>3, MergedDomain
  <2>6. ScanType' /\ scan'.at = "emit"
    BY <1>t, <2>1 DEF ScanType, ScanShape, world
  <2>7. WorldType' /\ EpochTypes'
    BY <2>1, <2>2 DEF NumberInv, world, WorldType, EpochTypes, TypedEpoch, IsEpoch, NoEpoch
  <2>8. StoredNumbers'
    BY <2>1, <2>2, <2>4, <2>5 DEF StoredNumbers, Numbered, Ids, world, NoEpoch
  <2>9. FoundNumbers'
    BY <2>1, <2>2, <2>6 DEF FoundNumbers, NoEpoch, TypedEpoch
  <2> QED BY <2>6, <2>7, <2>8, <2>9 DEF NumberInv
<1>12. CASE Emit
  <2>1. ScanType' /\ scan'.at # "store"
    BY <1>12, <1>t DEF Emit, AfterTelling, ScanType, ScanShape, Unseen, world
  <2> QED BY <1>12, <2>1, NumbersKept DEF Emit, NoFailure, Unseen
<1>13. CASE Answer
  <2>1. ScanType' /\ scan'.at # "store"
    BY <1>13, <1>t DEF Answer, AfterTelling, ScanType, ScanShape, Unseen, world
  <2> QED BY <1>13, <2>1, NumbersKept DEF Answer, NoFailure, Unseen
<1>14. CASE Snapshot
  <2> DEFINE seen == <<HeadCommit, HeadRef>>
  <2>1. /\ watching /\ UNCHANGED <<world, candidates, watching>>
        /\ \/ UNCHANGED <<epoch, disk>>
           \/ /\ epoch' = [epoch EXCEPT !.seq = @ + 1, !.taken = seen]
              /\ disk' = [epoch' EXCEPT !.taken = <<>>]
        /\ scan' = IF scan.again \/ scan.then = "ref"
                   THEN [Idle EXCEPT !.at = "ref", !.head = HeadCommit] ELSE Idle
    BY <1>14 DEF Snapshot, At, NoFailure, Unseen
  <2>2. ScanType' /\ scan'.at # "store"
    BY <1>h, <1>t, <2>1 DEF Idle, ScanType, ScanShape, world
  <2>3. CASE UNCHANGED <<epoch, disk>>
    BY <2>1, <2>2, <2>3, NumbersKept
  <2>4. CASE /\ epoch' = [epoch EXCEPT !.seq = @ + 1, !.taken = seen]
             /\ disk' = [epoch' EXCEPT !.taken = <<>>]
    <3>1. TypedEpoch(epoch)
      BY <2>1 DEF NumberInv, EpochTypes
    <3>2. TypedEpoch(epoch') /\ epoch'.seq = epoch.seq + 1
      <4>1. IsEpoch(epoch)
        BY <3>1 DEF TypedEpoch
      <4>2. /\ IsEpoch(epoch') /\ epoch'.id = epoch.id /\ epoch'.initial = epoch.initial
            /\ epoch'.ref = epoch.ref /\ epoch'.cursor = epoch.cursor /\ epoch'.refs = epoch.refs
            /\ epoch'.seq = epoch.seq + 1
        BY <2>4, <4>1 DEF IsEpoch
      <4>3. /\ epoch'.seq \in Nat /\ epoch.ref \in Refs \cup {NoRef}
            /\ epoch.cursor \in Commits \cup {NoCommit} /\ epoch.refs \in [Refs -> Commits \cup {NoCommit}]
        BY <3>1, <4>2 DEF TypedEpoch
      <4> QED BY <3>1, <4>2, <4>3, EpochUpdated
    <3>3. TypedEpoch(disk') /\ disk'.seq = epoch'.seq
      BY <2>4, <3>2 DEF TypedEpoch, IsEpoch
    <3> QED BY <2>1, <2>2, <3>1, <3>2, <3>3, EpochMoves DEF TypedEpoch
  <2> QED BY <2>1, <2>3, <2>4
<1>15. CASE Subscribe
  <2>1. UNCHANGED <<world, epoch, disk, candidates, watching, scan>>
    BY <1>15 DEF Subscribe, store, Unseen
  <2>2. ScanType'
    BY <1>t, <2>1 DEF ScanType, ScanShape, world
  <2> QED BY <2>1, <2>2, NumbersKept
<1>16. CASE StoreFails \/ SubscriberFails
  <2>1. UNCHANGED <<world, epoch, disk, candidates, watching>> /\ scan' = Aborted
    BY <1>16 DEF StoreFails, SubscriberFails, Unseen
  <2>2. ScanType' /\ scan'.at = "idle"
    BY <1>t, <2>1 DEF Aborted, Idle, ScanType, ScanShape, world
  <2> QED BY <2>1, <2>2, NumbersKept
<1>17. CASE Crash
  <2>1. watching' = FALSE /\ epoch' = NoEpoch /\ scan' = Idle /\ UNCHANGED <<world, disk, candidates>>
    BY <1>17 DEF Crash, store
  <2>2. ScanType'
    BY <1>t, <2>1 DEF Idle, ScanType, ScanShape, world
  <2>3. WorldType' /\ EpochTypes'
    BY <2>1 DEF NumberInv, world, WorldType, EpochTypes, TypedEpoch, IsEpoch, NoEpoch
  <2>4. StoredNumbers' /\ FoundNumbers'
    BY <2>1 DEF NumberInv, world, StoredNumbers, FoundNumbers, Numbered, Ids, NoEpoch
  <2> QED BY <2>2, <2>3, <2>4 DEF NumberInv
<1> QED BY <1>1, <1>2, <1>3, <1>4, <1>5, <1>6, <1>7, <1>8, <1>9, <1>10, <1>11, <1>12, <1>13, <1>14,
           <1>15, <1>16, <1>17, <1>22 DEF Next, Poll

(* The branches, the epochs and the scan have their types, and the stored   *)
(* candidates of a repository keep numbers of their own, below the number   *)
(* the next one gets, whatever moves, fails or crashes between the steps of *)
(* scans (repositoryObservation.ts: persistCandidatesAndAdvance and the     *)
(* sequence of the epoch, which moves in memory before it is stored).       *)
THEOREM CandidatesKeepTheirNumbers == Spec => []TypeOK
BY NumberInit, NumberStep, NumberInvImplies, PTL DEF Spec

=============================================================================
