-------------------------- MODULE ProductionUsageProofs --------------------------
(* Proofs, for any feeds. First about the endings of turns: however the       *)
(* observations of a turn are ordered, and whatever passes, retention, resets *)
(* and crashes come between them, the ending that is kept is the best that    *)
(* was told. Then about the breakdown of runs: its rows add up to the totals. *)
(* Last about the epoch: a pass stores nothing that ended before it.          *)
EXTENDS ProductionUsage, FiniteSetTheorems, TLAPS

(* Ending p is no better than ending o.                                       *)
Believed(p, o) ==
  IF p.outcome # None \/ o.outcome # None THEN Weaker(p, o) ELSE p.completed <= o.completed

(* Every turn that was told of is stored, once, with the best of its endings. *)
EndingsAreBest ==
  /\ \A o \in occs : Told(o)
  /\ \A o, p \in occs : o.query = p.query => o = p
  /\ \A t \in arrived : \A p \in t.occs :
        \E o \in occs : o.query = p.query /\ Believed(p, o)

(* Until a reset retention drops only what began before the epoch, and        *)
(* whoever clears the turns has reset the epoch.                              *)
DropsFollowTheEpoch ==
  /\ upkeep.pc = "occurrences" /\ upsets.resets = 0 => upkeep.cutoff <= epoch
  /\ clearing > 0 => upsets.resets > 0

UsageInv ==
  /\ feed \in Feeds /\ arrived \subseteq feed.told
  /\ now \in Nat /\ epoch \in Nat /\ clearing \in Nat
  /\ DOMAIN upkeep = {"pc", "rows", "cutoff"} /\ upkeep.cutoff \in Int
  /\ DOMAIN upsets = {"resets", "crashes", "sweeps"} /\ upsets.resets \in Nat
  /\ DropsFollowTheEpoch
  /\ Undisturbed => EndingsAreBest

-------------------------------------------------------------------------------
(* Endings are totally preordered, and the merge keeps the greater of two.    *)

LEMMA Ranks ==
  /\ \A x : OutcomeRank(x) \in 0 .. 3 /\ EvidenceRank(x) \in 0 .. 3
  /\ \A x \in Outcomes : OutcomeRank(x) > 0
  /\ OutcomeRank(None) = 0
<1>1. \A x : OutcomeRank(x) \in 0 .. 3
  BY DEF OutcomeRank
<1>2. \A x : EvidenceRank(x) \in 0 .. 3
  BY DEF EvidenceRank
<1>3. \A x \in Outcomes : OutcomeRank(x) > 0
  BY DEF OutcomeRank, Outcomes
<1>4. OutcomeRank(None) = 0
  BY UsageAssumption DEF OutcomeRank, Outcomes
<1> QED BY <1>1, <1>2, <1>3, <1>4

(* Weaker, spelt out.                                                         *)
LEMMA WeakerIs ==
  ASSUME NEW p, NEW o
  PROVE  Weaker(p, o) <=>
           \/ OutcomeRank(p.outcome) < OutcomeRank(o.outcome)
           \/ /\ OutcomeRank(p.outcome) = OutcomeRank(o.outcome)
              /\ EvidenceRank(p.evidence) < EvidenceRank(o.evidence)
           \/ /\ OutcomeRank(p.outcome) = OutcomeRank(o.outcome)
              /\ EvidenceRank(p.evidence) = EvidenceRank(o.evidence)
              /\ Moment(p) <= Moment(o)
  BY DEF Weaker

LEMMA MomentIs ==
  ASSUME NEW o, Told(o)
  PROVE  Moment(o) \in Nat /\ (o.outcome # None => Moment(o) = o.completed /\ o.completed \in Nat)
  BY DEF Told, Moment, Never

(* Whether an ending is believed depends on the ending alone.                 *)
LEMMA BelievedIs ==
  ASSUME NEW p, NEW o, Told(p), Told(o)
  PROVE  Believed(p, o) <=>
           IF o.outcome = None THEN p.outcome = None /\ p.completed <= o.completed
           ELSE \/ p.outcome = None
                \/ OutcomeRank(p.outcome) < OutcomeRank(o.outcome)
                \/ /\ OutcomeRank(p.outcome) = OutcomeRank(o.outcome)
                   /\ EvidenceRank(p.evidence) < EvidenceRank(o.evidence)
                \/ /\ OutcomeRank(p.outcome) = OutcomeRank(o.outcome)
                   /\ EvidenceRank(p.evidence) = EvidenceRank(o.evidence)
                   /\ p.completed <= o.completed
<1>1. /\ p.outcome = None => OutcomeRank(p.outcome) = 0
      /\ o.outcome = None => OutcomeRank(o.outcome) = 0
      /\ p.outcome # None => OutcomeRank(p.outcome) > 0
      /\ o.outcome # None => OutcomeRank(o.outcome) > 0
      /\ OutcomeRank(p.outcome) \in 0 .. 3 /\ OutcomeRank(o.outcome) \in 0 .. 3
  BY Ranks DEF Told
<1>2. /\ p.outcome # None => Moment(p) = p.completed
      /\ o.outcome # None => Moment(o) = o.completed
  BY MomentIs
<1> QED BY <1>1, <1>2, WeakerIs DEF Believed

LEMMA BelievedTransitively ==
  ASSUME NEW p, NEW o, NEW q, Told(p), Told(o), Told(q), Believed(p, o), Believed(o, q)
  PROVE  Believed(p, q)
<1>1. /\ OutcomeRank(p.outcome) \in 0 .. 3 /\ OutcomeRank(o.outcome) \in 0 .. 3
      /\ OutcomeRank(q.outcome) \in 0 .. 3 /\ EvidenceRank(p.evidence) \in 0 .. 3
      /\ EvidenceRank(o.evidence) \in 0 .. 3 /\ EvidenceRank(q.evidence) \in 0 .. 3
  BY Ranks
<1>2. /\ p.completed \in Int /\ o.completed \in Int /\ q.completed \in Int
  BY DEF Told, Never
<1> QED BY <1>1, <1>2, BelievedIs

(* Completion picks one of the two, and it is no worse than the other.        *)
LEMMA CompletionIsBest ==
  ASSUME NEW p, NEW o, Told(p), Told(o)
  PROVE  /\ Completion(p, o) \in {p, o}
         /\ Believed(p, Completion(p, o)) /\ Believed(o, Completion(p, o))
<1>1. /\ OutcomeRank(p.outcome) \in 0 .. 3 /\ OutcomeRank(o.outcome) \in 0 .. 3
      /\ EvidenceRank(p.evidence) \in 0 .. 3 /\ EvidenceRank(o.evidence) \in 0 .. 3
      /\ Moment(p) \in Nat /\ Moment(o) \in Nat
  BY Ranks, MomentIs
<1>2. p.completed \in Int /\ o.completed \in Int
  BY DEF Told, Never
<1>3. Completion(p, o) = IF Believed(p, o) THEN o ELSE p
  BY DEF Completion, Believed
<1>4. Believed(p, p) /\ Believed(o, o)
  BY <1>1, <1>2, WeakerIs DEF Believed
<1>5. ~Believed(p, o) => Believed(o, p)
  BY <1>1, <1>2, WeakerIs DEF Believed
<1> QED BY <1>3, <1>4, <1>5

(* An ending that is told has explicit evidence, and is no earlier than the    *)
(* start.                                                                     *)
Explained(o) == o.completed # Never => o.evidence \in Explicit /\ o.completed >= o.start

(* What the worker keeps of two tellings of a turn ends as the better one.    *)
LEMMA KeptIsBest ==
  ASSUME NEW old, NEW new, Told(old), Told(new), NEW kept, kept = KeptOccurrence(old, new)
  PROVE  /\ Told(kept) /\ kept.query = new.query
         /\ Believed(old, kept) /\ Believed(new, kept)
         /\ Explained(old) /\ Explained(new) => Explained(kept)
<1>1. PICK done : done = Completion(old, new)
  OBVIOUS
<1>2. Told(done) /\ Believed(old, done) /\ Believed(new, done) /\ done \in {old, new}
  BY <1>1, CompletionIsBest
<1> DEFINE source == IF SourceRank(new.source) >= SourceRank(old.source) THEN new.source ELSE old.source
           internal == new.internal \/ old.internal
           parent == IF new.parent # None THEN new.parent ELSE old.parent
<1>3. kept = [new EXCEPT !.source = source, !.internal = internal,
                         !.start = IF old.start < @ THEN old.start ELSE @, !.parent = parent,
                         !.completed = done.completed, !.evidence = done.evidence,
                         !.outcome = done.outcome]
  BY <1>1 DEF KeptOccurrence
<1> HIDE DEF source, internal, parent
<1>4. /\ DOMAIN kept = DOMAIN new /\ kept.query = new.query
      /\ kept.start = IF old.start < new.start THEN old.start ELSE new.start
      /\ kept.completed = done.completed /\ kept.evidence = done.evidence
      /\ kept.outcome = done.outcome
  <2>1. DOMAIN new = DOMAIN NoOccurrence
    BY DEF Told
  <2>2. DOMAIN new = {"query", "session", "parent", "start", "source", "completed", "evidence",
                      "outcome", "internal"}
    BY <2>1 DEF NoOccurrence
  <2>3. DOMAIN kept = DOMAIN new
    BY <1>3
  <2>4. kept.query = new.query /\ kept.start = IF old.start < new.start THEN old.start ELSE new.start
    BY <1>3, <2>2
  <2>5. kept.completed = done.completed /\ kept.evidence = done.evidence /\ kept.outcome = done.outcome
    BY <1>3, <2>2
  <2> QED BY <2>3, <2>4, <2>5
<1>5. Told(kept)
  BY <1>2, <1>4 DEF Told
<1>6. Believed(old, kept) /\ Believed(new, kept)
  BY <1>2, <1>4, <1>5, BelievedIs
<1>7. ASSUME Explained(old), Explained(new) PROVE Explained(kept)
  BY <1>2, <1>4, <1>7 DEF Explained, Told, Never
<1> QED BY <1>4, <1>5, <1>6, <1>7
-------------------------------------------------------------------------------
(* An observation, then everything else.                                      *)

LEMMA OccurrenceIs ==
  ASSUME NEW known, NEW o \in known, \A p \in known : p.query = o.query => p = o
  PROVE  OccurrenceOf(known, o.query) = o
  BY DEF OccurrenceOf

(* A batch of occurrences, merged into the stored ones.                       *)
LEMMA MergeKeepsTheBest ==
  ASSUME NEW t, t \in feed.told, arrived \subseteq feed.told, feed \in Feeds, EndingsAreBest,
         NEW merged, merged = MergedOccurrences(t.occs)
  PROVE  /\ \A o \in merged : Told(o)
         /\ \A o, p \in merged : o.query = p.query => o = p
         /\ \A s \in arrived \cup {t} : \A p \in s.occs :
               \E o \in merged : o.query = p.query /\ Believed(p, o)
<1> DEFINE New == t.occs
           Kept(n) == IF \E o \in occs : o.query = n.query
                      THEN KeptOccurrence(OccurrenceOf(occs, n.query), n) ELSE n
<1>1. /\ \A n \in New : Told(n)
      /\ \A n, m \in New : n.query = m.query => n = m
      /\ \A s \in arrived : \A p \in s.occs : Told(p)
  BY UsageAssumption
<1>2. merged = {o \in occs : \A n \in New : n.query # o.query} \cup {Kept(n) : n \in New}
  BY DEF MergedOccurrences
<1>3. ASSUME NEW n \in New
      PROVE  /\ Told(Kept(n)) /\ Kept(n).query = n.query /\ Believed(n, Kept(n))
             /\ \A o \in occs : o.query = n.query => Believed(o, Kept(n))
  <2>1. CASE \E o \in occs : o.query = n.query
    <3>1. PICK o \in occs : o.query = n.query
      BY <2>1
    <3>2. OccurrenceOf(occs, n.query) = o
      BY <3>1, OccurrenceIs DEF EndingsAreBest
    <3>3. PICK kept : kept = KeptOccurrence(o, n)
      OBVIOUS
    <3>4. Kept(n) = kept
      BY <2>1, <3>2, <3>3
    <3>5. Told(o) /\ Told(n) /\ \A p \in occs : p.query = n.query => p = o
      BY <1>1, <3>1 DEF EndingsAreBest
    <3>6. Told(kept) /\ kept.query = n.query /\ Believed(o, kept) /\ Believed(n, kept)
      BY <3>3, <3>5, KeptIsBest
    <3> QED BY <3>4, <3>5, <3>6
  <2>2. CASE ~\E o \in occs : o.query = n.query
    <3>1. Kept(n) = n /\ Told(n)
      BY <1>1, <2>2
    <3>2. Completion(n, n) = n /\ Believed(n, Completion(n, n))
      BY <3>1, CompletionIsBest
    <3> QED BY <2>2, <3>1, <3>2
  <2> QED BY <2>1, <2>2
<1> HIDE DEF Kept, New
<1>4. \A o \in merged : Told(o)
  BY <1>2, <1>3 DEF EndingsAreBest
<1>5. \A o, p \in merged : o.query = p.query => o = p
  <2> SUFFICES ASSUME NEW o \in merged, NEW p \in merged, o.query = p.query PROVE o = p
    OBVIOUS
  <2>1. CASE \E n \in New : n.query = o.query
    <3>1. PICK n \in New : n.query = o.query
      BY <2>1
    <3>2. PICK i \in New : o = Kept(i)
      BY <1>2, <3>1
    <3>3. PICK j \in New : p = Kept(j)
      BY <1>2, <3>1
    <3>4. i.query = j.query
      BY <1>3, <3>2, <3>3
    <3> QED BY <1>1, <3>2, <3>3, <3>4
  <2>2. CASE ~\E n \in New : n.query = o.query
    <3>1. o \in occs /\ p \in occs
      BY <1>2, <1>3, <2>2
    <3> QED BY <3>1 DEF EndingsAreBest
  <2> QED BY <2>1, <2>2
<1>6. ASSUME NEW p \in New PROVE \E o \in merged : o.query = p.query /\ Believed(p, o)
  BY <1>2, <1>3
<1>7. ASSUME NEW s \in arrived, NEW p \in s.occs
      PROVE  \E o \in merged : o.query = p.query /\ Believed(p, o)
  <2>1. PICK o \in occs : o.query = p.query /\ Believed(p, o)
    BY DEF EndingsAreBest
  <2>2. Told(p) /\ Told(o)
    BY <1>1 DEF EndingsAreBest
  <2>3. CASE \E n \in New : n.query = o.query
    <3>1. PICK n \in New : n.query = o.query
      BY <2>3
    <3>2. PICK kept : kept = Kept(n)
      OBVIOUS
    <3>3. Told(kept) /\ kept.query = n.query /\ Believed(o, kept) /\ kept \in merged
      BY <1>2, <1>3, <3>1, <3>2
    <3>4. Believed(p, kept)
      BY <2>1, <2>2, <3>3, BelievedTransitively
    <3> QED BY <2>1, <3>1, <3>3, <3>4
  <2>4. CASE ~\E n \in New : n.query = o.query
    BY <1>2, <2>1, <2>4
  <2> QED BY <2>3, <2>4
<1> QED BY <1>4, <1>5, <1>6, <1>7 DEF New

LEMMA ObserveStep ==
  ASSUME UsageInv, Observe
  PROVE  UsageInv'
<1>1. PICK t \in feed.told : arrived' = arrived \cup {t} /\ occs' = MergedOccurrences(t.occs)
  BY DEF Observe
<1>2. UNCHANGED <<feed, now, epoch, upkeep, clearing, upsets>>
  BY DEF Observe, ledger
<1>3. ASSUME Undisturbed PROVE EndingsAreBest'
  <2>1. PICK merged : merged = MergedOccurrences(t.occs)
    OBVIOUS
  <2>2. /\ \A o \in merged : Told(o)
        /\ \A o, p \in merged : o.query = p.query => o = p
        /\ \A s \in arrived \cup {t} : \A p \in s.occs :
              \E o \in merged : o.query = p.query /\ Believed(p, o)
    BY <1>3, <2>1, MergeKeepsTheBest DEF UsageInv
  <2> QED BY <1>1, <2>1, <2>2 DEF EndingsAreBest
<1> QED BY <1>1, <1>2, <1>3 DEF UsageInv, DropsFollowTheEpoch, Undisturbed

(* Any step that keeps the occurrences and does not lower the epoch, or drops *)
(* them when it has moved.                                                    *)
LEMMA OtherStep ==
  ASSUME UsageInv, UNCHANGED <<feed, arrived>>, now' \in Nat, epoch' \in Nat, clearing' \in Nat,
         DOMAIN upkeep' = {"pc", "rows", "cutoff"}, upkeep'.cutoff \in Int,
         DOMAIN upsets' = {"resets", "crashes", "sweeps"}, upsets'.resets \in Nat,
         DropsFollowTheEpoch', Undisturbed' => Undisturbed /\ UNCHANGED occs
  PROVE  UsageInv'
  BY DEF UsageInv, EndingsAreBest

LEMMA MaxOfTwo ==
  ASSUME NEW a \in Int, NEW b \in Int
  PROVE  Max({a, b}) \in {a, b} /\ Max({a, b}) >= a /\ Max({a, b}) >= b
<1>1. \E x \in {a, b} : \A y \in {a, b} : x >= y
  OBVIOUS
<1> QED BY <1>1 DEF Max

LEMMA UsageInit == Init => UsageInv
<1>1. Init => EndingsAreBest
  BY DEF Init, EndingsAreBest
<1> QED BY <1>1 DEF Init, UsageInv, DropsFollowTheEpoch

LEMMA UsageStep == UsageInv /\ [Next]_vars => UsageInv'
<1> SUFFICES ASSUME UsageInv, [Next]_vars PROVE UsageInv'
  OBVIOUS
<1> USE DEF safe, ledger, passes
<1>1. CASE Observe
  BY <1>1, ObserveStep
<1>2. CASE UNCHANGED <<feed, arrived, now, epoch, occs, upkeep, clearing, upsets>>
  BY <1>2, OtherStep DEF UsageInv, DropsFollowTheEpoch, Undisturbed
<1>3. CASE RebuildStep
  BY <1>2, <1>3 DEF RebuildStep, StartRebuild, ReadRows, ReadOccurrences, ReadAtoms, Project, UpsertRuns
<1>4. ASSUME NEW q \in Queries, ScopedStep(q) PROVE UsageInv'
  BY <1>2, <1>4 DEF ScopedStep, StartScoped, ExpandFamily, ProjectScoped, UpsertScoped
<1>5. CASE Prune
  BY <1>2, <1>5 DEF Prune
<1>6. CASE ReadRetained
  <2>1. /\ upkeep'.pc = "replace" /\ upkeep'.cutoff = now - KeepRuns
        /\ DOMAIN upkeep' = {"pc", "rows", "cutoff"}
        /\ upsets' = [upsets EXCEPT !.sweeps = @ + 1]
        /\ UNCHANGED <<feed, arrived, now, epoch, occs, clearing>>
    BY <1>6 DEF ReadRetained
  <2>2. upkeep'.cutoff \in Int
    BY <2>1, UsageAssumption DEF UsageInv
  <2>3. DOMAIN upsets' = {"resets", "crashes", "sweeps"} /\ upsets'.resets = upsets.resets
    BY <2>1 DEF UsageInv
  <2> QED BY <2>1, <2>2, <2>3, OtherStep DEF UsageInv, DropsFollowTheEpoch, Undisturbed
<1>7. CASE ReplaceRetained
  <2>1. /\ upkeep.pc = "replace" /\ epoch' = Max({epoch, upkeep.cutoff})
        /\ upkeep' = [upkeep EXCEPT !.pc = "occurrences", !.rows = {}]
        /\ UNCHANGED <<feed, arrived, now, occs, clearing, upsets>>
    BY <1>7 DEF ReplaceRetained
  <2>2. epoch' \in Nat /\ epoch' >= epoch /\ epoch' >= upkeep.cutoff
    <3>1. PICK x, y : x = epoch /\ y = upkeep.cutoff
      OBVIOUS
    <3>2. x \in Nat /\ y \in Int
      BY <2>1, <3>1 DEF UsageInv, DropsFollowTheEpoch
    <3>3. Max({x, y}) \in {x, y} /\ Max({x, y}) >= x /\ Max({x, y}) >= y
      BY <3>2, MaxOfTwo
    <3>4. epoch' = Max({x, y})
      BY <2>1, <3>1
    <3> QED BY <3>1, <3>2, <3>3, <3>4
  <2>3. /\ upkeep'.cutoff = upkeep.cutoff /\ upkeep'.pc = "occurrences"
        /\ DOMAIN upkeep' = {"pc", "rows", "cutoff"}
    BY <2>1 DEF UsageInv
  <2> QED BY <2>1, <2>2, <2>3, OtherStep DEF UsageInv, DropsFollowTheEpoch, Undisturbed
<1>8. CASE DropOldOccurrences
  <2>1. /\ upkeep.pc = "occurrences" /\ upkeep' = [pc |-> "idle", rows |-> {}, cutoff |-> 0]
        /\ occs' = {o \in occs : o.start >= upkeep.cutoff}
        /\ UNCHANGED <<feed, arrived, now, epoch, clearing, upsets>>
    BY <1>8 DEF DropOldOccurrences
  <2>2. ASSUME Undisturbed PROVE UNCHANGED occs
    <3>1. upkeep.cutoff \in Int /\ upkeep.cutoff <= 0
      BY <2>1, <2>2 DEF UsageInv, DropsFollowTheEpoch, Undisturbed
    <3>2. \A o \in occs : o.start \in Nat
      BY <2>2 DEF UsageInv, EndingsAreBest, Told
    <3> QED BY <2>1, <3>1, <3>2
  <2> QED BY <2>1, <2>2, OtherStep DEF UsageInv, DropsFollowTheEpoch, Undisturbed
<1>9. CASE ClearHistory
  <2>1. /\ epoch' = now /\ clearing' = clearing + 1 /\ upsets' = [upsets EXCEPT !.resets = @ + 1]
        /\ UNCHANGED <<feed, arrived, now, occs, upkeep>>
    BY <1>9 DEF ClearHistory
  <2>2. /\ DOMAIN upsets' = {"resets", "crashes", "sweeps"} /\ upsets'.resets \in Nat /\ upsets'.resets > 0
        /\ clearing' \in Nat
    BY <2>1 DEF UsageInv
  <2> QED BY <2>1, <2>2, OtherStep DEF UsageInv, DropsFollowTheEpoch, Undisturbed
<1>10. CASE ClearOccurrences
  <2>1. clearing > 0 /\ clearing' = clearing - 1 /\ UNCHANGED <<feed, arrived, now, epoch, upkeep, upsets>>
    BY <1>10 DEF ClearOccurrences
  <2>2. clearing' \in Nat /\ upsets.resets > 0
    BY <2>1 DEF UsageInv, DropsFollowTheEpoch
  <2> QED BY <2>1, <2>2, OtherStep DEF UsageInv, DropsFollowTheEpoch, Undisturbed
<1>11. CASE Tick
  <2>1. now' = now + 1 /\ UNCHANGED <<feed, arrived, epoch, occs, upkeep, clearing, upsets>>
    BY <1>11 DEF Tick
  <2> QED BY <2>1, OtherStep DEF UsageInv, DropsFollowTheEpoch, Undisturbed
<1>12. CASE Crash
  <2>1. /\ upkeep' = [pc |-> "idle", rows |-> {}, cutoff |-> 0] /\ clearing' = 0
        /\ upsets' = [upsets EXCEPT !.crashes = @ + 1]
        /\ UNCHANGED <<feed, arrived, now, epoch, occs>>
    BY <1>12 DEF Crash
  <2>2. DOMAIN upsets' = {"resets", "crashes", "sweeps"} /\ upsets'.resets = upsets.resets
    BY <2>1 DEF UsageInv
  <2> QED BY <2>1, <2>2, OtherStep DEF UsageInv, DropsFollowTheEpoch, Undisturbed
<1>13. CASE UNCHANGED vars
  BY <1>2, <1>13 DEF vars
<1> QED BY <1>1, <1>3, <1>4, <1>5, <1>6, <1>7, <1>8, <1>9, <1>10, <1>11, <1>12, <1>13
        DEF Next, Upkeep, Reset

(* Until the epoch moves, no ending that was told is better than the one the  *)
(* storage worker keeps (preferredQueryOccurrence), in whatever order hooks,  *)
(* spans and quiet told them: the merge is the greater of a total preorder.   *)
THEOREM BestEndingIsAlwaysKept == Spec => []BestEndingIsKept
<1>1. UsageInv => BestEndingIsKept
  <2> SUFFICES ASSUME UsageInv, Undisturbed, NEW o \in occs, NEW t \in arrived,
                      NEW p \in t.occs, p.query = o.query
               PROVE  Completion(p, o) = o
    BY DEF BestEndingIsKept
  <2>1. PICK q \in occs : q.query = p.query /\ Believed(p, q)
    BY DEF UsageInv, EndingsAreBest
  <2>2. q = o
    BY <2>1 DEF UsageInv, EndingsAreBest
  <2>3. Believed(p, o)
    BY <2>1, <2>2
  <2> QED BY <2>3 DEF Believed, Completion
<1> QED BY <1>1, UsageInit, UsageStep, PTL DEF Spec

-------------------------------------------------------------------------------
(*-------------------------- induction on sets ---------------------------*)

(* A set of subsets of a finite set that holds each subset whose smaller      *)
(* ones it holds has them all.                                               *)
LEMMA SmallerFirst ==
  ASSUME NEW S, IsFiniteSet(S), NEW Good,
         \A T \in SUBSET S : (\A U \in SUBSET T : U # T => U \in Good) => T \in Good
  PROVE  SUBSET S \subseteq Good
<1> DEFINE Bad == {T \in SUBSET S : T \notin Good}
<1> SUFFICES ASSUME Bad # {} PROVE FALSE
  OBVIOUS
<1>1. IsWellFoundedOn(StrictSubsetOrdering(S), FiniteSubsetsOf(S))
  BY FS_StrictSubsetOrderingWellFounded
<1>2. Bad \subseteq FiniteSubsetsOf(S)
  BY FS_FiniteSubsetsOfFinite
<1> HIDE DEF Bad
<1>3. PICK T \in Bad : \A U \in Bad : ~(<<U, T>> \in StrictSubsetOrdering(S))
  BY <1>1, <1>2, WFMin
<1>4. \A U \in SUBSET T : U # T => U \notin Bad
  BY <1>3 DEF StrictSubsetOrdering, Bad
<1> QED BY <1>4 DEF Bad

(* A set of numbers that has 0 and with each number the next has them all.    *)
LEMMA FromZero ==
  ASSUME NEW Good, 0 \in Good, \A n \in Nat : n \in Good => n + 1 \in Good
  PROVE  Nat \subseteq Good
<1> DEFINE Bad == {n \in Nat : n \notin Good}
<1> SUFFICES ASSUME Bad # {} PROVE FALSE
  OBVIOUS
<1>1. Bad \subseteq Nat
  OBVIOUS
<1> HIDE DEF Bad
<1>2. PICK n \in Bad : \A m \in Bad : ~(<<m, n>> \in OpToRel(<, Nat))
  BY <1>1, NatLessThanWellFounded, WFMin
<1>3. n \in Nat /\ n # 0 /\ n \notin Good
  BY DEF Bad
<1>4. n - 1 \in Nat /\ n - 1 < n
  BY <1>3
<1>5. n - 1 \notin Bad
  BY <1>2, <1>3, <1>4 DEF OpToRel
<1>6. n - 1 \in Good /\ (n - 1) + 1 = n
  BY <1>3, <1>4, <1>5 DEF Bad
<1> QED BY <1>3, <1>4, <1>6

(* One of finitely many things weighs the most.                              *)
LEMMA HeaviestExists ==
  ASSUME NEW S, IsFiniteSet(S), NEW w \in [S -> Int], S # {}
  PROVE  \E x \in S : \A y \in S : w[y] <= w[x]
<1> DEFINE Good == {T \in SUBSET S : T = {} \/ \E x \in T : \A y \in T : w[y] <= w[x]}
<1>1. ASSUME NEW T \in SUBSET S, \A U \in SUBSET T : U # T => U \in Good
      PROVE  T \in Good
  <2>1. CASE T = {}
    BY <2>1
  <2>2. CASE T # {}
    <3>1. PICK a \in T : TRUE
      BY <2>2
    <3>2. T \ {a} \in Good
      BY <1>1, <3>1
    <3>3. CASE T \ {a} = {}
      <4>1. T = {a} /\ w[a] \in Int
        BY <3>1, <3>3
      <4> QED BY <4>1
    <3>4. CASE T \ {a} # {}
      <4>1. PICK b \in T \ {a} : \A y \in T \ {a} : w[y] <= w[b]
        BY <3>2, <3>4
      <4>2. \A x \in T : w[x] \in Int
        OBVIOUS
      <4>3. CASE w[a] <= w[b]
        BY <3>1, <4>1, <4>2, <4>3
      <4>4. CASE ~(w[a] <= w[b])
        BY <3>1, <4>1, <4>2, <4>4
      <4> QED BY <4>3, <4>4
    <3> QED BY <3>3, <3>4
  <2> QED BY <2>1, <2>2
<1>2. SUBSET S \subseteq Good
  <2> HIDE DEF Good
  <2> QED BY <1>1, SmallerFirst
<1>3. S \in Good
  BY <1>2
<1> QED BY <1>3

(* ... and one of finitely many numbers is the least.                         *)
LEMMA LeastExists ==
  ASSUME NEW S, IsFiniteSet(S), S \subseteq Int, S # {}
  PROVE  \E x \in S : \A y \in S : x <= y
<1>1. PICK w : w = [x \in S |-> 0 - x]
  OBVIOUS
<1>2. w \in [S -> Int] /\ \A x \in S : w[x] = 0 - x
  BY <1>1
<1>3. PICK x \in S : \A y \in S : w[y] <= w[x]
  BY <1>2, HeaviestExists
<1>4. \A y \in S : x <= y
  BY <1>2, <1>3
<1> QED BY <1>4

(*------------------------------- sums ----------------------------------*)

(* The one of a set that is taken first.                                      *)
One(s) == CHOOSE x \in s : TRUE

LEMMA OneIsIn == \A s : s # {} => One(s) \in s
  BY DEF One

(* it adds up the weights of each subset of S.                               *)
Adds(it, w, S) == it = [s \in SUBSET S |-> IF s = {} THEN 0 ELSE w[One(s)] + it[s \ {One(s)}]]

(* A sum, unfolded once.                                                      *)
LEMMA AddsUnfolds ==
  ASSUME NEW it, NEW w, NEW S, Adds(it, w, S), NEW T, T \subseteq S, NEW x, x = One(T)
  PROVE  it[T] = IF T = {} THEN 0 ELSE w[x] + it[T \ {x}]
<1>1. T \in SUBSET S
  OBVIOUS
<1> QED BY <1>1 DEF Adds

(* Every finite set has a sum.                                               *)
LEMMA AddsExists ==
  ASSUME NEW S, IsFiniteSet(S), NEW w
  PROVE  \E it : Adds(it, w, S)
<1> DEFINE Layer(n) == {s \in SUBSET S : Cardinality(s) <= n}
           Value(f, s) == IF s = {} THEN 0 ELSE w[One(s)] + f[s \ {One(s)}]
           Good == {n \in Nat : \E f : f = [s \in Layer(n) |-> Value(f, s)]}
<1>1. \A s \in SUBSET S : IsFiniteSet(s) /\ Cardinality(s) \in Nat /\ Cardinality(s) <= Cardinality(S)
  BY FS_Subset, FS_CardinalityType
<1>2. \A s \in SUBSET S : s # {} =>
        /\ One(s) \in s /\ s \ {One(s)} \in SUBSET S
        /\ Cardinality(s \ {One(s)}) = Cardinality(s) - 1
  <2> SUFFICES ASSUME NEW s \in SUBSET S, s # {}
               PROVE  One(s) \in s /\ Cardinality(s \ {One(s)}) = Cardinality(s) - 1
    OBVIOUS
  <2>1. One(s) \in s
    BY OneIsIn
  <2> QED BY <1>1, <2>1, FS_RemoveElement
<1>3. 0 \in Good
  <2>1. \A s \in Layer(0) : s = {}
    BY <1>1, FS_EmptySet
  <2>2. PICK f : f = [s \in Layer(0) |-> 0]
    OBVIOUS
  <2>3. \A s \in Layer(0) : Value(f, s) = 0
    BY <2>1
  <2>4. f = [s \in Layer(0) |-> Value(f, s)]
    BY <2>2, <2>3
  <2> QED BY <2>4
<1>4. ASSUME NEW n \in Nat, n \in Good PROVE n + 1 \in Good
  <2>1. PICK f : f = [s \in Layer(n) |-> Value(f, s)]
    BY <1>4
  <2>2. PICK g : g = [s \in Layer(n + 1) |-> IF s \in Layer(n) THEN f[s] ELSE Value(f, s)]
    OBVIOUS
  <2>3. \A s \in Layer(n + 1) : s # {} => s \ {One(s)} \in Layer(n) /\ s \ {One(s)} \in Layer(n + 1)
    BY <1>1, <1>2
  <2>4. \A s \in Layer(n) : s \in Layer(n + 1)
    BY <1>1
  <2>5. \A s \in Layer(n) : g[s] = f[s] /\ f[s] = Value(f, s)
    BY <2>1, <2>2, <2>4
  <2>6. \A s \in Layer(n + 1) : Value(g, s) = Value(f, s)
    <3> HIDE DEF Layer
    <3> QED BY <2>3, <2>5
  <2>7. \A s \in Layer(n + 1) : g[s] = Value(g, s)
    <3> HIDE DEF Layer, Value
    <3> QED BY <2>2, <2>5, <2>6
  <2>8. g = [s \in Layer(n + 1) |-> Value(g, s)]
    <3> HIDE DEF Layer, Value
    <3> QED BY <2>2, <2>7
  <2>9. n + 1 \in Nat
    OBVIOUS
  <2> QED
    <3> HIDE DEF Layer, Value
    <3> QED BY <2>8, <2>9
<1>5. Cardinality(S) \in Good
  <2> HIDE DEF Good
  <2> QED BY <1>1, <1>3, <1>4, FromZero
<1>6. Layer(Cardinality(S)) = SUBSET S
  BY <1>1
<1>7. PICK f : f = [s \in SUBSET S |-> Value(f, s)]
  <2> HIDE DEF Layer, Value
  <2> QED BY <1>5, <1>6
<1> QED BY <1>7 DEF Adds

(* The sums of two sets agree where the weights do.                          *)
LEMMA AddsAgree ==
  ASSUME NEW f, NEW g, NEW w, NEW v, NEW S, NEW R, Adds(f, w, S), Adds(g, v, R),
         NEW U, IsFiniteSet(U), U \subseteq S, U \subseteq R, \A x \in U : w[x] = v[x]
  PROVE  f[U] = g[U]
<1> DEFINE Good == {T \in SUBSET U : f[T] = g[T]}
<1>1. ASSUME NEW T \in SUBSET U, \A V \in SUBSET T : V # T => V \in Good
      PROVE  T \in Good
  <2>1. PICK x : x = One(T)
    OBVIOUS
  <2>2. /\ f[T] = IF T = {} THEN 0 ELSE w[x] + f[T \ {x}]
        /\ g[T] = IF T = {} THEN 0 ELSE v[x] + g[T \ {x}]
    <3>1. T \subseteq S /\ T \subseteq R
      OBVIOUS
    <3>2. f[T] = IF T = {} THEN 0 ELSE w[x] + f[T \ {x}]
      BY <2>1, <3>1, AddsUnfolds
    <3>3. g[T] = IF T = {} THEN 0 ELSE v[x] + g[T \ {x}]
      BY <2>1, <3>1, AddsUnfolds
    <3> QED BY <3>2, <3>3
  <2>3. CASE T = {}
    BY <2>2, <2>3
  <2>4. CASE T # {}
    <3>1. x \in T
      BY <2>1, <2>4, OneIsIn
    <3>2. T \ {x} \in Good
      BY <1>1, <3>1
    <3> QED BY <2>2, <2>4, <3>1, <3>2
  <2> QED BY <2>3, <2>4
<1>2. SUBSET U \subseteq Good
  <2> HIDE DEF Good
  <2> QED BY <1>1, SmallerFirst
<1> QED BY <1>2

(* A sum of natural numbers is one, and does not depend on an order.          *)
LEMMA AddsOneByOne ==
  ASSUME NEW it, NEW w, NEW S, IsFiniteSet(S), Adds(it, w, S), \A x \in S : w[x] \in Nat
  PROVE  \A T \in SUBSET S : it[T] \in Nat /\ \A y \in T : it[T] = w[y] + it[T \ {y}]
<1> DEFINE Good == {T \in SUBSET S : it[T] \in Nat /\ \A y \in T : it[T] = w[y] + it[T \ {y}]}
<1>1. ASSUME NEW T \in SUBSET S, \A V \in SUBSET T : V # T => V \in Good
      PROVE  T \in Good
  <2>1. PICK x : x = One(T)
    OBVIOUS
  <2>2. it[T] = IF T = {} THEN 0 ELSE w[x] + it[T \ {x}]
    BY <2>1, AddsUnfolds
  <2>3. CASE T = {}
    BY <2>2, <2>3
  <2>4. CASE T # {}
    <3>1. x \in T
      BY <2>1, <2>4, OneIsIn
    <3>2. T \ {x} \in Good
      BY <1>1, <3>1
    <3>3. it[T] \in Nat /\ w[x] \in Nat
      BY <2>2, <2>4, <3>1, <3>2
    <3>4. ASSUME NEW y \in T PROVE it[T] = w[y] + it[T \ {y}]
      <4>1. CASE y = x
        BY <2>2, <2>4, <4>1
      <4>2. CASE y # x
        <5>1. PICK V : V = (T \ {x}) \ {y}
          OBVIOUS
        <5>2. V = (T \ {y}) \ {x} /\ y \in T \ {x} /\ x \in T \ {y}
          BY <3>1, <4>2, <5>1
        <5>3. T \ {y} \in Good /\ V \in Good
          BY <1>1, <3>1, <5>1
        <5>4. it[T \ {x}] = w[y] + it[V]
          BY <3>2, <5>1, <5>2
        <5>5. it[T \ {y}] = w[x] + it[V]
          BY <5>2, <5>3
        <5>6. w[y] \in Nat /\ it[V] \in Nat
          BY <5>3
        <5> QED BY <2>2, <2>4, <3>3, <5>4, <5>5, <5>6
      <4> QED BY <4>1, <4>2
    <3> QED BY <3>3, <3>4
  <2> QED BY <2>3, <2>4
<1>2. SUBSET S \subseteq Good
  <2> HIDE DEF Good
  <2> QED BY <1>1, SmallerFirst
<1> QED BY <1>2

(* What MapThenSumSet defines is such a sum.                                  *)
LEMMA BaseOfRows ==
  ASSUME NEW rs, IsFiniteSet(rs)
  PROVE  \E it : Adds(it, [r \in rs |-> r.tokens.base], rs) /\ TokensOf(rs).base = it[rs]
<1> DEFINE w == [r \in rs |-> r.tokens.base]
           Sums(it) == it = [s \in SUBSET rs |->
                              IF s = {} THEN 0 ELSE LET x == CHOOSE x \in s : TRUE IN x.tokens.base + it[s \ {x}]]
<1>1. TokensOf(rs).base = (CHOOSE it : Sums(it))[rs]
  BY DEF TokensOf, MapThenSumSet, MapThenFoldSet
<1>2. \A it : Sums(it) <=> Adds(it, w, rs)
  <2> TAKE it
  <2>1. \A s \in SUBSET rs : s # {} => One(s) \in rs
    BY OneIsIn
  <2> QED BY <2>1 DEF Adds, One
<1>3. \E it : Adds(it, w, rs)
  BY AddsExists
<1> HIDE DEF w
<1>4. Sums(CHOOSE it : Sums(it))
  <2> HIDE DEF Sums
  <2> QED BY <1>2, <1>3
<1> QED
  <2> HIDE DEF Sums
  <2> QED BY <1>1, <1>2, <1>4 DEF w

(* ... of the cached tokens of rows,                                         *)
LEMMA CacheOfRows ==
  ASSUME NEW rs, IsFiniteSet(rs)
  PROVE  \E it : Adds(it, [r \in rs |-> r.tokens.cache], rs) /\ TokensOf(rs).cache = it[rs]
<1> DEFINE w == [r \in rs |-> r.tokens.cache]
           Sums(it) == it = [s \in SUBSET rs |->
                              IF s = {} THEN 0 ELSE LET x == CHOOSE x \in s : TRUE IN x.tokens.cache + it[s \ {x}]]
<1>1. TokensOf(rs).cache = (CHOOSE it : Sums(it))[rs]
  BY DEF TokensOf, MapThenSumSet, MapThenFoldSet
<1>2. \A it : Sums(it) <=> Adds(it, w, rs)
  <2> TAKE it
  <2>1. \A s \in SUBSET rs : s # {} => One(s) \in rs
    BY OneIsIn
  <2> QED BY <2>1 DEF Adds, One
<1>3. \E it : Adds(it, w, rs)
  BY AddsExists
<1> HIDE DEF w
<1>4. Sums(CHOOSE it : Sums(it))
  <2> HIDE DEF Sums
  <2> QED BY <1>2, <1>3
<1> QED
  <2> HIDE DEF Sums
  <2> QED BY <1>1, <1>2, <1>4 DEF w

(* ... of the tokens of atoms                                                *)
LEMMA BaseOfAtoms ==
  ASSUME NEW as, IsFiniteSet(as)
  PROVE  \E it : Adds(it, [a \in as |-> a.base], as) /\ Base(as) = it[as]
<1> DEFINE w == [a \in as |-> a.base]
           Sums(it) == it = [s \in SUBSET as |->
                              IF s = {} THEN 0 ELSE LET x == CHOOSE x \in s : TRUE IN x.base + it[s \ {x}]]
<1>1. Base(as) = (CHOOSE it : Sums(it))[as]
  BY DEF Base, MapThenSumSet, MapThenFoldSet
<1>2. \A it : Sums(it) <=> Adds(it, w, as)
  <2> TAKE it
  <2>1. \A s \in SUBSET as : s # {} => One(s) \in as
    BY OneIsIn
  <2> QED BY <2>1 DEF Adds, One
<1>3. \E it : Adds(it, w, as)
  BY AddsExists
<1> HIDE DEF w
<1>4. Sums(CHOOSE it : Sums(it))
  <2> HIDE DEF Sums
  <2> QED BY <1>2, <1>3
<1> QED
  <2> HIDE DEF Sums
  <2> QED BY <1>1, <1>2, <1>4 DEF w

(* ... and of those of them that were cached.                                 *)
LEMMA CacheOfAtoms ==
  ASSUME NEW as, IsFiniteSet(as)
  PROVE  \E it : Adds(it, [a \in as |-> Tokens(a.cache)], as) /\ Cache(as) = it[as]
<1> DEFINE w == [a \in as |-> Tokens(a.cache)]
           Sums(it) == it = [s \in SUBSET as |->
                              IF s = {} THEN 0 ELSE LET x == CHOOSE x \in s : TRUE IN Tokens(x.cache) + it[s \ {x}]]
<1>1. Cache(as) = (CHOOSE it : Sums(it))[as]
  BY DEF Cache, MapThenSumSet, MapThenFoldSet
<1>2. \A it : Sums(it) <=> Adds(it, w, as)
  <2> TAKE it
  <2>1. \A s \in SUBSET as : s # {} => One(s) \in as
    BY OneIsIn
  <2> QED BY <2>1 DEF Adds, One
<1>3. \E it : Adds(it, w, as)
  BY AddsExists
<1> HIDE DEF w
<1>4. Sums(CHOOSE it : Sums(it))
  <2> HIDE DEF Sums
  <2> QED BY <1>2, <1>3
<1> QED
  <2> HIDE DEF Sums
  <2> QED BY <1>1, <1>2, <1>4 DEF w

(* Amounts of tokens, and what adding and taking away does to them.           *)
Amounts == [base : Nat, cache : Nat]

LEMMA AmountsAdd ==
  /\ Zero \in Amounts
  /\ \A x, y \in Amounts : Plus(x, y) \in Amounts /\ Plus(x, y) = Plus(y, x) /\ Plus(x, Zero) = x
  /\ \A x, y, z \in Amounts : Plus(x, Plus(y, z)) = Plus(Plus(x, y), z)
  /\ \A x, y, z \in Amounts : Plus(x, y) = Plus(x, z) => y = z
  BY DEF Amounts, Zero, Plus

LEMMA PlusSwaps ==
  ASSUME NEW x \in Amounts, NEW y \in Amounts, NEW z \in Amounts
  PROVE  Plus(x, Plus(y, z)) = Plus(y, Plus(x, z))
  BY DEF Amounts, Plus

(* What is left of an amount.                                                *)
LEMMA MinusIs ==
  ASSUME NEW x \in Amounts, NEW y \in Amounts
  PROVE  /\ Minus(x, y) \in Amounts
         /\ NoMore(y, x) => Plus(y, Minus(x, y)) = x
         /\ Minus(x, x) = Zero
<1>1. \A n \in Int : Max({0, n}) = IF n >= 0 THEN n ELSE 0
  <2> TAKE n \in Int
  <2>1. \E m \in {0, n} : \A k \in {0, n} : m >= k
    OBVIOUS
  <2> QED BY <2>1 DEF Max
<1>2. /\ x.base - y.base \in Int /\ x.cache - y.cache \in Int
      /\ x.base - x.base = 0 /\ x.cache - x.cache = 0
  BY DEF Amounts
<1>3. Minus(x, y) = [base |-> IF x.base - y.base >= 0 THEN x.base - y.base ELSE 0,
                     cache |-> IF x.cache - y.cache >= 0 THEN x.cache - y.cache ELSE 0]
  BY <1>1, <1>2 DEF Minus
<1>4. Minus(x, x) = Zero
  BY <1>1, <1>2 DEF Minus, Zero
<1> QED BY <1>3, <1>4 DEF Amounts, NoMore, Plus

(* The sum of rows, row by row.                                              *)
LEMMA RowsOneByOne ==
  ASSUME NEW rs, IsFiniteSet(rs), \A r \in rs : r.tokens \in Amounts
  PROVE  /\ TokensOf(rs) \in Amounts
         /\ rs = {} => TokensOf(rs) = Zero
         /\ \A r \in rs : TokensOf(rs) = Plus(r.tokens, TokensOf(rs \ {r}))
<1>1. TokensOf(rs) = [base |-> TokensOf(rs).base, cache |-> TokensOf(rs).cache]
  BY DEF TokensOf
<1> DEFINE b == [r \in rs |-> r.tokens.base]
           c == [r \in rs |-> r.tokens.cache]
<1>2. \A r \in rs : b[r] \in Nat /\ c[r] \in Nat
  BY DEF Amounts
<1>3. PICK f : Adds(f, b, rs) /\ TokensOf(rs).base = f[rs]
  BY BaseOfRows
<1>4. PICK g : Adds(g, c, rs) /\ TokensOf(rs).cache = g[rs]
  BY CacheOfRows
<1> HIDE DEF b, c
<1>5. f[rs] \in Nat /\ \A r \in rs : f[rs] = b[r] + f[rs \ {r}]
  BY <1>2, <1>3, AddsOneByOne
<1>6. g[rs] \in Nat /\ \A r \in rs : g[rs] = c[r] + g[rs \ {r}]
  BY <1>2, <1>4, AddsOneByOne
<1>7. TokensOf(rs) \in Amounts
  BY <1>1, <1>3, <1>4, <1>5, <1>6 DEF Amounts
<1>8. rs = {} => TokensOf(rs) = Zero
  BY <1>1, <1>3, <1>4, AddsUnfolds DEF Zero
<1>9. ASSUME NEW r \in rs PROVE TokensOf(rs) = Plus(r.tokens, TokensOf(rs \ {r}))
  <2> DEFINE less == rs \ {r}
  <2>1. IsFiniteSet(less) /\ less \subseteq rs
    BY FS_RemoveElement
  <2> HIDE DEF less
  <2>2. PICK h : Adds(h, [x \in less |-> x.tokens.base], less) /\ TokensOf(less).base = h[less]
    BY <2>1, BaseOfRows
  <2>3. PICK k : Adds(k, [x \in less |-> x.tokens.cache], less) /\ TokensOf(less).cache = k[less]
    BY <2>1, CacheOfRows
  <2>4. f[less] = h[less]
    <3>1. \A x \in less : b[x] = [y \in less |-> y.tokens.base][x]
      BY <2>1 DEF b
    <3> QED BY <1>3, <2>1, <2>2, <3>1, AddsAgree
  <2>5. g[less] = k[less]
    <3>1. \A x \in less : c[x] = [y \in less |-> y.tokens.cache][x]
      BY <2>1 DEF c
    <3> QED BY <1>4, <2>1, <2>3, <3>1, AddsAgree
  <2>6. TokensOf(less) = [base |-> f[less], cache |-> g[less]]
    BY <2>2, <2>3, <2>4, <2>5 DEF TokensOf
  <2>7. b[r] = r.tokens.base /\ c[r] = r.tokens.cache
    BY DEF b, c
  <2>8. f[rs] = b[r] + f[less] /\ g[rs] = c[r] + g[less]
    BY <1>5, <1>6 DEF less
  <2>9. TokensOf(rs) = [base |-> f[rs], cache |-> g[rs]]
    BY <1>1, <1>3, <1>4
  <2>10. TokensOf(rs) = Plus(r.tokens, TokensOf(less))
    BY <2>6, <2>7, <2>8, <2>9 DEF Plus
  <2> QED BY <2>10 DEF less
<1> QED BY <1>7, <1>8, <1>9

(* Rows that are put together add up.                                        *)
LEMMA RowsTogether ==
  ASSUME NEW rs, NEW ss, IsFiniteSet(rs), IsFiniteSet(ss), rs \cap ss = {},
         \A r \in rs \cup ss : r.tokens \in Amounts
  PROVE  TokensOf(rs \cup ss) = Plus(TokensOf(rs), TokensOf(ss))
<1> DEFINE Good == {T \in SUBSET ss : TokensOf(rs \cup T) = Plus(TokensOf(rs), TokensOf(T))}
<1>1. TokensOf(rs) \in Amounts
  BY RowsOneByOne
<1>2. \A T \in SUBSET ss : IsFiniteSet(T) /\ IsFiniteSet(rs \cup T) /\ \A r \in rs \cup T : r.tokens \in Amounts
  BY FS_Subset, FS_Union
<1>3. ASSUME NEW T \in SUBSET ss, \A U \in SUBSET T : U # T => U \in Good
      PROVE  T \in Good
  <2>1. CASE T = {}
    <3>1. TokensOf(T) = Zero /\ rs \cup T = rs
      BY <1>2, <2>1, RowsOneByOne
    <3> QED BY <1>1, <3>1, AmountsAdd
  <2>2. CASE T # {}
    <3>1. PICK r \in T : TRUE
      BY <2>2
    <3>2. T \ {r} \in Good /\ (rs \cup T) \ {r} = rs \cup (T \ {r}) /\ r \in rs \cup T
      BY <1>3, <3>1
    <3>3. TokensOf(rs \cup T) = Plus(r.tokens, TokensOf(rs \cup (T \ {r})))
      <4>1. PICK both : both = rs \cup T
        OBVIOUS
      <4>2. IsFiniteSet(both) /\ (\A x \in both : x.tokens \in Amounts) /\ r \in both
        BY <1>2, <3>2, <4>1
      <4>3. TokensOf(both) = Plus(r.tokens, TokensOf(both \ {r}))
        BY <4>2, RowsOneByOne
      <4> QED BY <3>2, <4>1, <4>3
    <3>4. TokensOf(T) = Plus(r.tokens, TokensOf(T \ {r}))
      BY <1>2, <3>1, RowsOneByOne
    <3>5. TokensOf(rs \cup (T \ {r})) = Plus(TokensOf(rs), TokensOf(T \ {r}))
      BY <3>2
    <3>6. r.tokens \in Amounts /\ TokensOf(T \ {r}) \in Amounts
      <4>1. T \ {r} \in SUBSET ss
        OBVIOUS
      <4> QED BY <1>2, <3>1, <4>1, RowsOneByOne
    <3>7. Plus(r.tokens, Plus(TokensOf(rs), TokensOf(T \ {r}))) = Plus(TokensOf(rs), Plus(r.tokens, TokensOf(T \ {r})))
      BY <1>1, <3>6, PlusSwaps
    <3> QED BY <3>3, <3>4, <3>5, <3>7
  <2> QED BY <2>1, <2>2
<1>4. SUBSET ss \subseteq Good
  <2> HIDE DEF Good
  <2> QED BY <1>3, SmallerFirst
<1> QED BY <1>4

(* Rows that are renamed one by one add up to the same.                       *)
LEMMA RowsRenamed ==
  ASSUME NEW rs, IsFiniteSet(rs), NEW f, \A r \in rs : r.tokens \in Amounts /\ f[r].tokens = r.tokens,
         \A r, s \in rs : f[r] = f[s] => r = s
  PROVE  IsFiniteSet({f[r] : r \in rs}) /\ TokensOf({f[r] : r \in rs}) = TokensOf(rs)
<1> DEFINE Named(T) == {f[r] : r \in T}
           Good == {T \in SUBSET rs : IsFiniteSet(Named(T)) /\ TokensOf(Named(T)) = TokensOf(T)}
<1>1. ASSUME NEW T \in SUBSET rs, \A U \in SUBSET T : U # T => U \in Good
      PROVE  T \in Good
  <2>1. CASE T = {}
    <3>1. Named(T) = T
      BY <2>1
    <3> QED BY <2>1, <3>1, FS_EmptySet
  <2>2. CASE T # {}
    <3>1. PICK r \in T : TRUE
      BY <2>2
    <3> DEFINE U == T \ {r}
    <3>2. U \in Good /\ IsFiniteSet(T)
      BY <1>1, <3>1, FS_Subset
    <3>3. Named(T) = Named(U) \cup {f[r]} /\ f[r] \notin Named(U) /\ f[r] \in Named(T)
      BY <3>1
    <3>4. Named(T) \ {f[r]} = Named(U)
      BY <3>3
    <3>5. IsFiniteSet(Named(U)) /\ TokensOf(Named(U)) = TokensOf(U)
      BY <3>2
    <3>6. \A x \in Named(T) : x.tokens \in Amounts
      OBVIOUS
    <3> HIDE DEF Named
    <3>9. IsFiniteSet(Named(T))
      <4>1. IsFiniteSet(Named(U) \cup {f[r]})
        BY <3>5, FS_AddElement
      <4> QED BY <3>3, <4>1
    <3>7. TokensOf(Named(T)) = Plus(f[r].tokens, TokensOf(Named(U)))
      <4>1. PICK ns, n : ns = Named(T) /\ n = f[r]
        OBVIOUS
      <4>2. IsFiniteSet(ns) /\ (\A x \in ns : x.tokens \in Amounts) /\ n \in ns
        BY <3>3, <3>6, <3>9, <4>1
      <4>3. TokensOf(ns) = Plus(n.tokens, TokensOf(ns \ {n}))
        BY <4>2, RowsOneByOne
      <4> QED BY <3>4, <4>1, <4>3
    <3>8. TokensOf(T) = Plus(r.tokens, TokensOf(U))
      BY <3>1, <3>2, RowsOneByOne
    <3> QED BY <3>1, <3>2, <3>5, <3>7, <3>8, <3>9
  <2> QED BY <2>1, <2>2
<1>2. SUBSET rs \subseteq Good
  <2> HIDE DEF Good
  <2> QED BY <1>1, SmallerFirst
<1> QED BY <1>2

(* The usage of finitely many measured atoms is an amount.                    *)
Measured(a) == a.base \in Nat /\ a.cache \in Nat \cup {Never}

(* What finitely many measured things add up to is an amount.                 *)
LEMMA UsageIsAmount ==
  ASSUME NEW as, IsFiniteSet(as), \A a \in as : Measured(a)
  PROVE  Usage(as) \in Amounts
<1> DEFINE b == [a \in as |-> a.base]
           c == [a \in as |-> Tokens(a.cache)]
<1>1. \A a \in as : b[a] \in Nat /\ c[a] \in Nat
  BY DEF Measured, Tokens
<1>2. PICK f : Adds(f, b, as) /\ Base(as) = f[as]
  BY BaseOfAtoms
<1>3. PICK g : Adds(g, c, as) /\ Cache(as) = g[as]
  BY CacheOfAtoms
<1> HIDE DEF b, c
<1>4. f[as] \in Nat
  BY <1>1, <1>2, AddsOneByOne
<1>5. g[as] \in Nat
  BY <1>1, <1>3, AddsOneByOne
<1> QED BY <1>2, <1>3, <1>4, <1>5 DEF Usage, Amounts

(*---------------------- the breakdown of one run ------------------------*)

(* Finitely many things have finitely many images.                            *)
LEMMA ImagesAreFinite ==
  ASSUME NEW S, IsFiniteSet(S), NEW f
  PROVE  IsFiniteSet({f[x] : x \in S})
<1> DEFINE Image(T) == {f[x] : x \in T}
           Good == {T \in SUBSET S : IsFiniteSet(Image(T))}
<1>1. ASSUME NEW T \in SUBSET S, \A U \in SUBSET T : U # T => U \in Good
      PROVE  T \in Good
  <2>1. CASE T = {}
    <3>1. Image(T) = {}
      BY <2>1
    <3> QED BY <3>1, FS_EmptySet
  <2>2. CASE T # {}
    <3>1. PICK x \in T : TRUE
      BY <2>2
    <3>2. IsFiniteSet(Image(T \ {x}))
      BY <1>1, <3>1
    <3>3. Image(T) = Image(T \ {x}) \cup {f[x]}
      BY <3>1
    <3> HIDE DEF Image
    <3>4. IsFiniteSet(Image(T \ {x}) \cup {f[x]})
      BY <3>2, FS_AddElement
    <3> QED BY <3>3, <3>4
  <2> QED BY <2>1, <2>2
<1>2. SUBSET S \subseteq Good
  <2> HIDE DEF Good
  <2> QED BY <1>1, SmallerFirst
<1> QED BY <1>2

(* The rows of a breakdown.                                                   *)
RowFields == {"kind", "name", "under", "tokens", "coverage", "count", "failures", "rejected"}

RowType(r) == DOMAIN r = RowFields /\ r.under \in Seq(Nat) /\ r.tokens \in Amounts

(* Finitely many rows, no two of the same place.                              *)
SoundRows(rs) ==
  /\ IsFiniteSet(rs) /\ \A r \in rs : RowType(r)
  /\ \A r, s \in rs : r.kind = s.kind /\ r.name = s.name /\ r.under = s.under => r = s

(* A row is what Row makes it.                                                *)
LEMMA RowIs ==
  ASSUME NEW kind, NEW name, NEW group, NEW tokens \in Amounts, NEW coverage, NEW r,
         r = Row(kind, name, group, tokens, coverage)
  PROVE  /\ RowType(r) /\ r.kind = kind /\ r.name = name /\ r.under = <<>> /\ r.tokens = tokens
  BY DEF Row, RowType, RowFields

(* Another row of a place of its own.                                         *)
LEMMA RowAdded ==
  ASSUME NEW rs, SoundRows(rs), NEW r, RowType(r),
         \A s \in rs : ~(r.kind = s.kind /\ r.name = s.name /\ r.under = s.under)
  PROVE  SoundRows(rs \cup {r}) /\ TokensOf(rs \cup {r}) = Plus(TokensOf(rs), r.tokens)
<1>1. r \notin rs
  OBVIOUS
<1>2. IsFiniteSet(rs \cup {r})
  BY FS_AddElement DEF SoundRows
<1>3. \A s \in rs \cup {r} : RowType(s)
  BY DEF SoundRows
<1>4. SoundRows(rs \cup {r})
  BY <1>2, <1>3 DEF SoundRows
<1>5. (rs \cup {r}) \ {r} = rs
  BY <1>1
<1>6. TokensOf(rs \cup {r}) = Plus(r.tokens, TokensOf((rs \cup {r}) \ {r}))
  <2>1. PICK all : all = rs \cup {r}
    OBVIOUS
  <2>2. IsFiniteSet(all) /\ (\A s \in all : s.tokens \in Amounts) /\ r \in all
    BY <1>2, <1>3, <2>1 DEF RowType
  <2>3. TokensOf(all) = Plus(r.tokens, TokensOf(all \ {r}))
    BY <2>2, RowsOneByOne
  <2> QED BY <2>1, <2>3
<1>7. TokensOf(rs) \in Amounts /\ r.tokens \in Amounts
  BY RowsOneByOne DEF SoundRows, RowType
<1>8. Plus(r.tokens, TokensOf(rs)) = Plus(TokensOf(rs), r.tokens)
  BY <1>7, AmountsAdd
<1> QED BY <1>4, <1>5, <1>6, <1>8

(* Rows of groups of a set, each with its kind and name, that take no more    *)
(* than there is.                                                            *)
OfGroup(r, s) == \E g \in s : \E a \in g : r.kind = a.kind /\ r.name = a.name

(* The rows that the groups in s have taken, within the totals.               *)
GroupRows(rs, s, totals) ==
  /\ SoundRows(rs) /\ NoMore(TokensOf(rs), totals)
  /\ \A r \in rs : r.under = <<>> /\ OfGroup(r, s)

(* Being within an amount, spelt out.                                         *)
LEMMA NoMoreIs ==
  ASSUME NEW x \in Amounts, NEW y \in Amounts
  PROVE  NoMore(x, y) \in BOOLEAN /\ NoMore(x, x) /\ NoMore(Zero, x)
  BY DEF Amounts, NoMore, Zero

(* A group that takes its turn adds one row, and stays within the totals.     *)
LEMMA GroupTaken ==
  ASSUME NEW provider, NEW as, NEW g, NEW one, one \in g, NEW s, NEW rs, NEW sel, NEW totals \in Amounts,
         Usage(sel) \in Amounts, GroupRows(rs, s, totals),
         \A a \in g : a.kind = one.kind /\ a.name = one.name,
         \A h \in s : \A a \in h : ~(a.kind = one.kind /\ a.name = one.name)
  PROVE  GroupRows(Taken(provider, as, g, rs, sel, totals), s \cup {g}, totals)
<1> DEFINE first == CHOOSE a \in g : TRUE
           fits == sel # {} /\ NoMore(Plus(TokensOf(rs), Usage(sel)), totals)
           row == IF fits THEN Row(first.kind, first.name, g, Usage(sel), Coverage(provider, as, g, sel))
                  ELSE Row(first.kind, first.name, g, Zero, "unavailable")
<1>1. Taken(provider, as, g, rs, sel, totals) = rs \cup {row}
  BY DEF Taken
<1>2. first \in g
  OBVIOUS
<1>3. first.kind = one.kind /\ first.name = one.name
  BY <1>2
<1> HIDE DEF first
<1>4. /\ RowType(row) /\ row.kind = one.kind /\ row.name = one.name /\ row.under = <<>>
      /\ row.tokens = IF fits THEN Usage(sel) ELSE Zero
  <2>1. CASE fits
    <3>1. row = Row(first.kind, first.name, g, Usage(sel), Coverage(provider, as, g, sel))
      BY <2>1
    <3> HIDE DEF row, fits
    <3>2. /\ RowType(row) /\ row.kind = first.kind /\ row.name = first.name /\ row.under = <<>>
          /\ row.tokens = Usage(sel)
      BY <3>1 DEF Row, RowType, RowFields
    <3> QED BY <1>3, <2>1, <3>2
  <2>2. CASE ~fits
    <3>1. row = Row(first.kind, first.name, g, Zero, "unavailable")
      BY <2>2
    <3> HIDE DEF row, fits
    <3>2. /\ RowType(row) /\ row.kind = first.kind /\ row.name = first.name /\ row.under = <<>>
          /\ row.tokens = Zero
      BY <3>1, AmountsAdd DEF Row, RowType, RowFields
    <3> QED BY <1>3, <2>2, <3>2
  <2> QED BY <2>1, <2>2
<1> HIDE DEF row
<1>5. \A r \in rs : ~(row.kind = r.kind /\ row.name = r.name /\ row.under = r.under)
  BY <1>4 DEF GroupRows, OfGroup
<1>6. SoundRows(rs \cup {row}) /\ TokensOf(rs \cup {row}) = Plus(TokensOf(rs), row.tokens)
  BY <1>4, <1>5, RowAdded DEF GroupRows
<1>7. TokensOf(rs) \in Amounts
  BY RowsOneByOne DEF GroupRows, SoundRows, RowType
<1>8. NoMore(TokensOf(rs \cup {row}), totals)
  <2>1. CASE fits
    BY <1>4, <1>6, <2>1
  <2>2. CASE ~fits
    <3>1. TokensOf(rs \cup {row}) = Plus(TokensOf(rs), Zero)
      BY <1>4, <1>6, <2>2
    <3> QED BY <1>7, <3>1, AmountsAdd DEF GroupRows
  <2> QED BY <2>1, <2>2
<1>9. \A r \in rs \cup {row} : r.under = <<>> /\ OfGroup(r, s \cup {g})
  BY <1>4 DEF GroupRows, OfGroup
<1> QED BY <1>1, <1>6, <1>8, <1>9 DEF GroupRows

(* Of finitely many groups one is the last.                                   *)
LEMMA LastGroupIsIn ==
  ASSUME NEW s, IsFiniteSet(s), s # {},
         \A g \in s : g # {} /\ IsFiniteSet(g) /\ \A a \in g : a.id \in Nat
  PROVE  LastGroup(s) \in s
<1> DEFINE ids(g) == {a.id : a \in g}
           w == [g \in s |-> Min(ids(g))]
<1>1. ASSUME NEW g \in s PROVE Min(ids(g)) \in Int
  <2> DEFINE f == [a \in g |-> a.id]
  <2>1. IsFiniteSet({f[a] : a \in g})
    <3> HIDE DEF f
    <3> QED BY ImagesAreFinite
  <2>2. {f[a] : a \in g} = ids(g)
    OBVIOUS
  <2>3. IsFiniteSet(ids(g)) /\ ids(g) # {} /\ ids(g) \subseteq Int
    <3>1. IsFiniteSet(ids(g))
      <4> HIDE DEF f, ids
      <4> QED BY <2>1, <2>2
    <3>2. ids(g) # {} /\ ids(g) \subseteq Int
      <4>1. PICK a \in g : TRUE
        OBVIOUS
      <4>2. a.id \in ids(g)
        OBVIOUS
      <4>3. \A b \in g : b.id \in Int
        OBVIOUS
      <4> QED BY <4>2, <4>3
    <3> QED BY <3>1, <3>2
  <2> HIDE DEF ids
  <2>4. \E n \in ids(g) : \A m \in ids(g) : n <= m
    BY <2>3, LeastExists
  <2> QED BY <2>3, <2>4 DEF Min
<1> HIDE DEF ids
<1>2. w \in [s -> Int] /\ \A g \in s : w[g] = Min(ids(g))
  BY <1>1
<1> HIDE DEF w
<1>3. \E g \in s : \A h \in s : w[h] <= w[g]
  BY <1>2, HeaviestExists
<1>4. \E g \in s : \A h \in s : Min(ids(h)) <= Min(ids(g))
  BY <1>2, <1>3
<1> QED BY <1>4 DEF LastGroup, ids

(* A run's rows are of different places and add up to its tokens.             *)
BalancedRows(rs, tokens) == SoundRows(rs) /\ tokens \in Amounts /\ TokensOf(rs) = tokens

(* With the rest that nobody owns the rows add up to the totals.              *)
LEMMA RestAdded ==
  ASSUME NEW rs, NEW s, NEW totals \in Amounts, GroupRows(rs, s, totals),
         \A g \in s : \A a \in g : a.kind # "unallocated"
  PROVE  /\ BalancedRows(WithRest(rs, totals), totals)
         /\ \A r \in WithRest(rs, totals) : r.under = <<>>
<1> DEFINE rest == Minus(totals, TokensOf(rs))
           row == [Row("unallocated", "unallocated", {}, rest, "partial") EXCEPT !.count = 1]
<1>1. WithRest(rs, totals) = rs \cup IF rest = Zero THEN {} ELSE {row}
  BY DEF WithRest, Unallocated
<1>2. TokensOf(rs) \in Amounts /\ SoundRows(rs) /\ NoMore(TokensOf(rs), totals)
  BY RowsOneByOne DEF GroupRows, SoundRows, RowType
<1>3. rest \in Amounts /\ Plus(TokensOf(rs), rest) = totals
  BY <1>2, MinusIs
<1> HIDE DEF rest
<1>4. /\ RowType(row) /\ row.kind = "unallocated" /\ row.under = <<>> /\ row.tokens = rest
  <2>1. PICK plain : plain = Row("unallocated", "unallocated", {}, rest, "partial")
    OBVIOUS
  <2>2. /\ RowType(plain) /\ plain.kind = "unallocated" /\ plain.under = <<>> /\ plain.tokens = rest
    BY <1>3, <2>1 DEF Row, RowType, RowFields
  <2>3. row = [plain EXCEPT !.count = 1]
    BY <2>1
  <2> HIDE DEF row
  <2> QED BY <2>2, <2>3 DEF RowType, RowFields
<1> HIDE DEF row
<1>5. \A r \in rs : r.under = <<>> /\ r.kind # "unallocated"
  BY DEF GroupRows, OfGroup
<1>6. CASE rest = Zero
  <2>1. TokensOf(rs) = totals
    BY <1>2, <1>3, <1>6, AmountsAdd
  <2> QED BY <1>1, <1>2, <1>5, <1>6, <2>1 DEF BalancedRows
<1>7. CASE rest # Zero
  <2>1. SoundRows(rs \cup {row}) /\ TokensOf(rs \cup {row}) = Plus(TokensOf(rs), row.tokens)
    BY <1>2, <1>4, <1>5, RowAdded
  <2> QED BY <1>1, <1>3, <1>4, <1>5, <1>7, <2>1 DEF BalancedRows
<1> QED BY <1>6, <1>7

(* Groups take turns, the last of them at last.                               *)
LEMMA BreakdownIsBalanced ==
  ASSUME NEW provider, NEW as, NEW told, IsFiniteSet(told), NEW totals \in Amounts,
         \A a \in told : a.id \in Nat /\ a.kind # "unallocated",
         \A g \in SUBSET told : Usage(Allocatable(provider, as, g)) \in Amounts
  PROVE  /\ BalancedRows(runBreakdown(provider, as, told, totals), totals)
         /\ \A r \in runBreakdown(provider, as, told, totals) : r.under = <<>>
<1> DEFINE Like(a) == {b \in told : b.kind = a.kind /\ b.name = a.name}
           groups == {Like(a) : a \in told}
           take(g, rs) == Taken(provider, as, g, rs, Allocatable(provider, as, g), totals)
           Value(f, s) == IF s = {} THEN {} ELSE take(LastGroup(s), f[s \ {LastGroup(s)}])
           Layer(n) == {s \in SUBSET groups : Cardinality(s) <= n}
           Numbers == {n \in Nat : \E f : f = [s \in Layer(n) |-> Value(f, s)]}
<1>1. IsFiniteSet(groups)
  <2> DEFINE f == [a \in told |-> Like(a)]
  <2>1. {f[a] : a \in told} = groups
    <3> HIDE DEF Like
    <3> QED OBVIOUS
  <2>2. IsFiniteSet({f[a] : a \in told})
    <3> HIDE DEF f
    <3> QED BY ImagesAreFinite
  <2> QED BY <2>1, <2>2
<1>2. \A g \in groups : g \in SUBSET told /\ g # {} /\ IsFiniteSet(g) /\ \A a \in g : g = Like(a) /\ a.id \in Nat
  <2> SUFFICES ASSUME NEW b \in told
               PROVE  /\ Like(b) \in SUBSET told /\ Like(b) # {} /\ IsFiniteSet(Like(b))
                      /\ \A a \in Like(b) : Like(b) = Like(a) /\ a.id \in Nat
    OBVIOUS
  <2>1. Like(b) \in SUBSET told /\ b \in Like(b)
    OBVIOUS
  <2>2. IsFiniteSet(Like(b))
    <3> HIDE DEF Like
    <3> QED BY <2>1, FS_Subset
  <2>3. \A a \in Like(b) : Like(b) = Like(a) /\ a.id \in Nat
    OBVIOUS
  <2> QED BY <2>1, <2>2, <2>3
<1>3. \A g \in groups : \A a, b \in g : a.kind = b.kind /\ a.name = b.name
  OBVIOUS
<1>4. \A g, h \in groups : \A a \in g : \A b \in h : a.kind = b.kind /\ a.name = b.name => g = h
  <2> SUFFICES ASSUME NEW g \in groups, NEW h \in groups, NEW a \in g, NEW b \in h, a.kind = b.kind, a.name = b.name
               PROVE  g = h
    OBVIOUS
  <2>1. g = Like(a) /\ h = Like(b)
    <3> HIDE DEF Like, groups
    <3> QED BY <1>2
  <2>2. Like(a) = Like(b)
    OBVIOUS
  <2> QED BY <2>1, <2>2
<1> HIDE DEF Like, groups
<1>5. \A s \in SUBSET groups : IsFiniteSet(s) /\ Cardinality(s) \in Nat /\ Cardinality(s) <= Cardinality(groups)
  BY <1>1, FS_Subset, FS_CardinalityType
<1>6. ASSUME NEW s \in SUBSET groups, s # {}
      PROVE  /\ LastGroup(s) \in s
             /\ Cardinality(s \ {LastGroup(s)}) = Cardinality(s) - 1
  <2>1. LastGroup(s) \in s
    BY <1>2, <1>5, <1>6, LastGroupIsIn
  <2> QED BY <1>5, <2>1, FS_RemoveElement
<1>7. PICK it : it = [s \in SUBSET groups |-> Value(it, s)]
  <2>1. 0 \in Numbers
    <3>1. \A s \in Layer(0) : s = {}
      BY <1>5, FS_EmptySet
    <3>2. PICK f : f = [s \in Layer(0) |-> {}]
      OBVIOUS
    <3>3. \A s \in Layer(0) : Value(f, s) = {}
      BY <3>1
    <3>4. f = [s \in Layer(0) |-> Value(f, s)]
      <4> HIDE DEF Layer, Value
      <4> QED BY <3>2, <3>3
    <3> HIDE DEF Layer, Value
    <3> QED BY <3>4
  <2>2. ASSUME NEW n \in Nat, n \in Numbers PROVE n + 1 \in Numbers
    <3> HIDE DEF take
    <3>1. PICK f : f = [s \in Layer(n) |-> Value(f, s)]
      BY <2>2
    <3>2. PICK g : g = [s \in Layer(n + 1) |-> IF s \in Layer(n) THEN f[s] ELSE Value(f, s)]
      OBVIOUS
    <3>3. \A s \in Layer(n + 1) : s # {} =>
            s \ {LastGroup(s)} \in Layer(n) /\ s \ {LastGroup(s)} \in Layer(n + 1)
      BY <1>5, <1>6
    <3>4. \A s \in Layer(n) : s \in Layer(n + 1)
      BY <1>5
    <3>5. \A s \in Layer(n) : g[s] = f[s] /\ f[s] = Value(f, s)
      BY <3>1, <3>2, <3>4
    <3>6. \A s \in Layer(n + 1) : Value(g, s) = Value(f, s)
      <4> HIDE DEF Layer
      <4> QED BY <3>3, <3>5
    <3>7. \A s \in Layer(n + 1) : g[s] = Value(g, s)
      <4> HIDE DEF Layer, Value
      <4> QED BY <3>2, <3>5, <3>6
    <3>8. g = [s \in Layer(n + 1) |-> Value(g, s)] /\ n + 1 \in Nat
      <4> HIDE DEF Layer, Value
      <4> QED BY <3>2, <3>7
    <3> HIDE DEF Layer, Value
    <3> QED BY <3>8
  <2>3. Cardinality(groups) \in Numbers
    <3> HIDE DEF Numbers
    <3> QED BY <1>5, <2>1, <2>2, FromZero
  <2>4. Layer(Cardinality(groups)) = SUBSET groups
    BY <1>5
  <2> HIDE DEF Layer, Value
  <2> QED BY <2>3, <2>4
<1>8. PICK f : f = [s \in SUBSET groups |-> Value(f, s)] /\ runBreakdown(provider, as, told, totals) = WithRest(f[groups], totals)
  <2>1. runBreakdown(provider, as, told, totals) =
          WithRest((CHOOSE f : f = [s \in SUBSET groups |-> Value(f, s)])[groups], totals)
    BY DEF runBreakdown, MapThenFoldSet, groups, Like
  <2> HIDE DEF Value
  <2> QED BY <1>7, <2>1
<1> DEFINE Good == {s \in SUBSET groups : GroupRows(f[s], s, totals)}
<1>9. ASSUME NEW s \in SUBSET groups, \A u \in SUBSET s : u # s => u \in Good
      PROVE  s \in Good
  <2>1. f[s] = Value(f, s)
    <3> HIDE DEF Value
    <3> QED BY <1>8
  <2>2. CASE s = {}
    <3>1. f[s] = {}
      BY <2>1, <2>2
    <3>2. SoundRows({})
      BY FS_EmptySet DEF SoundRows
    <3>3. TokensOf({}) = Zero
      BY <3>2, RowsOneByOne DEF SoundRows
    <3> QED BY <3>1, <3>2, <3>3, NoMoreIs DEF GroupRows
  <2>3. CASE s # {}
    <3>1. PICK g : g = LastGroup(s)
      OBVIOUS
    <3>2. PICK u : u = s \ {g}
      OBVIOUS
    <3>3. g \in s /\ g \in groups /\ u \cup {g} = s /\ u \in SUBSET s /\ u # s
      BY <1>6, <2>3, <3>1, <3>2
    <3>4. f[s] = take(g, f[u])
      BY <2>1, <2>3, <3>1, <3>2
    <3>5. GroupRows(f[u], u, totals)
      BY <1>9, <3>3
    <3>6. PICK one \in g : TRUE
      BY <1>2, <3>3
    <3>7. \A a \in g : a.kind = one.kind /\ a.name = one.name
      BY <1>3, <3>3, <3>6
    <3>8. \A h \in u : \A a \in h : ~(a.kind = one.kind /\ a.name = one.name)
      BY <1>4, <3>2, <3>3, <3>6
    <3>9. PICK sel : sel = Allocatable(provider, as, g)
      OBVIOUS
    <3>10. Usage(sel) \in Amounts
      BY <1>2, <3>3, <3>9
    <3>11. f[s] = Taken(provider, as, g, f[u], sel, totals)
      BY <3>4, <3>9
    <3>12. PICK rs : rs = f[u]
      OBVIOUS
    <3>13. GroupRows(rs, u, totals)
      BY <3>5, <3>12
    <3>14. GroupRows(Taken(provider, as, g, rs, sel, totals), u \cup {g}, totals)
      BY <3>6, <3>7, <3>8, <3>10, <3>13, GroupTaken
    <3> QED BY <3>3, <3>11, <3>12, <3>14
  <2> QED BY <2>2, <2>3
<1>10. GroupRows(f[groups], groups, totals)
  <2>1. SUBSET groups \subseteq Good
    <3> HIDE DEF Good
    <3> QED BY <1>1, <1>9, SmallerFirst
  <2> QED BY <2>1
<1>11. \A g \in groups : \A a \in g : a.kind # "unallocated"
  BY <1>2
<1>12. PICK rs : rs = f[groups]
  OBVIOUS
<1>13. /\ BalancedRows(WithRest(rs, totals), totals)
       /\ \A r \in WithRest(rs, totals) : r.under = <<>>
  <2>1. GroupRows(rs, groups, totals)
    BY <1>10, <1>12
  <2> QED BY <1>11, <2>1, RestAdded
<1> QED BY <1>8, <1>12, <1>13

(*---------------------------- usage selected ---------------------------*)

(* Finitely many well-formed atoms.                                           *)
AtomSet(as) == IsFiniteSet(as) /\ \A a \in as : UsageAtom(a)

AtomFields == {"id", "query", "session", "request", "authority", "kind", "surface", "base", "cache",
               "reported", "rated", "start", "end", "mode", "owner", "conflicts", "title"}

(* Fewer, or more, of them are again.                                         *)
LEMMA SomeAtoms ==
  ASSUME NEW as, AtomSet(as), NEW some, some \subseteq as
  PROVE  AtomSet(some)
  BY FS_Subset DEF AtomSet

LEMMA MoreAtoms ==
  ASSUME NEW as, NEW bs, AtomSet(as), AtomSet(bs)
  PROVE  AtomSet(as \cup bs)
  BY FS_Union DEF AtomSet

(* The atoms xs end when some of as do.                                       *)
EndLike(xs, as) == \A x \in xs : x.end = Never \/ \E a \in as : x.end = a.end

(* They add up to an amount.                                                  *)
LEMMA AtomsAreMeasured ==
  ASSUME NEW as, AtomSet(as)
  PROVE  Usage(as) \in Amounts
  BY UsageIsAmount DEF AtomSet, UsageAtom, Measured

(* Of finitely many atoms one is the last.                                    *)
LEMMA LastAtomExists ==
  ASSUME NEW as, AtomSet(as), as # {}
  PROVE  \E a \in as : \A b \in as : NoLater(b, a)
<1>1. \A a \in as : a.id \in Int /\ a.end \in Int /\ Weight(a) \in Int
  <2> TAKE a \in as
  <2>1. UsageAtom(a)
    BY DEF AtomSet
  <2> QED BY <2>1 DEF UsageAtom, Weight, Tokens, Never
<1>2. PICK e : e = [a \in as |-> a.end]
  OBVIOUS
<1>3. PICK x \in as : \A b \in as : b.end <= x.end
  <2>1. \E a \in as : \A b \in as : e[b] <= e[a]
    BY <1>1, <1>2, HeaviestExists DEF AtomSet
  <2> QED BY <1>2, <2>1
<1> DEFINE late == {a \in as : a.end = x.end}
<1>4. PICK w : w = [a \in late |-> Weight(a)]
  OBVIOUS
<1>5. PICK y \in late : \A b \in late : Weight(b) <= Weight(y)
  <2>1. IsFiniteSet(late) /\ late # {}
    BY FS_Subset DEF AtomSet
  <2>2. \A a \in late : Weight(a) \in Int
    BY <1>1
  <2>3. \E a \in late : \A b \in late : w[b] <= w[a]
    <3> HIDE DEF late
    <3> QED BY <1>4, <2>1, <2>2, HeaviestExists
  <2> QED
    <3> HIDE DEF late
    <3> QED BY <1>4, <2>3
<1> DEFINE heavy == {a \in late : Weight(a) = Weight(y)}
<1>6. PICK i : i = [a \in heavy |-> a.id]
  OBVIOUS
<1>7. PICK z \in heavy : \A b \in heavy : b.id <= z.id
  <2>1. IsFiniteSet(heavy) /\ heavy # {}
    BY FS_Subset DEF AtomSet
  <2>2. \A a \in heavy : a.id \in Int
    BY <1>1
  <2>3. \E a \in heavy : \A b \in heavy : i[b] <= i[a]
    <3> HIDE DEF heavy
    <3> QED BY <1>6, <2>1, <2>2, HeaviestExists
  <2> QED
    <3> HIDE DEF heavy
    <3> QED BY <1>6, <2>3
<1>8. ASSUME NEW b \in as PROVE NoLater(b, z)
  <2>1. b.end \in Int /\ z.end \in Int /\ b.end <= z.end /\ Weight(b) \in Int /\ Weight(z) \in Int
    BY <1>1, <1>3
  <2>2. CASE b.end # z.end
    BY <2>1, <2>2 DEF NoLater
  <2>3. CASE b.end = z.end
    <3>1. b \in late /\ Weight(b) <= Weight(z)
      BY <1>5, <2>3
    <3>2. CASE Weight(b) # Weight(z)
      BY <2>1, <2>3, <3>1, <3>2 DEF NoLater
    <3>3. CASE Weight(b) = Weight(z)
      BY <1>7, <2>3, <3>1, <3>3 DEF NoLater
    <3> QED BY <3>2, <3>3
  <2> QED BY <2>2, <2>3
<1> QED BY <1>8

(* An atom of another owner or cache is well formed still.                    *)
LEMMA AtomChanged ==
  ASSUME NEW a, UsageAtom(a), NEW owner, NEW conflicts
  PROVE  /\ UsageAtom([a EXCEPT !.owner = owner, !.conflicts = conflicts]) /\ UsageAtom([a EXCEPT !.owner = owner])
         /\ [a EXCEPT !.owner = owner, !.conflicts = conflicts].end = a.end /\ [a EXCEPT !.owner = owner].end = a.end
  BY DEF UsageAtom

(* Revisions are settled by atoms ...                                         *)
LEMMA ReconciledIs ==
  ASSUME NEW as, AtomSet(as)
  PROVE  AtomSet(Reconciled(as)) /\ EndLike(Reconciled(as), as)
<1> DEFINE revisions(a) == IF a.request = None THEN {a} ELSE {b \in as : b.request = a.request}
           last(revs)     == CHOOSE a \in revs : \A b \in revs : NoLater(b, a)
           owners(revs)   == {a.owner : a \in revs} \ {None}
           disputed(revs) == UNION {a.conflicts : a \in revs}
           settle(revs) == IF disputed(revs) # {} \/ Cardinality(owners(revs)) > 1
                           THEN [last(revs) EXCEPT !.owner = None, !.conflicts = disputed(revs) \cup owners(revs)]
                           ELSE [last(revs) EXCEPT !.owner = IF owners(revs) = {} THEN None
                                                            ELSE CHOOSE o \in owners(revs) : TRUE]
           f == [a \in as |-> settle(revisions(a))]
<1>1. Reconciled(as) = {settle(revisions(a)) : a \in as}
  BY DEF Reconciled
<1>2. Reconciled(as) = {f[a] : a \in as}
  <2> HIDE DEF settle, revisions
  <2> QED BY <1>1
<1>3. IsFiniteSet(Reconciled(as))
  <2>1. IsFiniteSet({f[a] : a \in as})
    <3> HIDE DEF f
    <3> QED BY ImagesAreFinite DEF AtomSet
  <2> HIDE DEF f
  <2> QED BY <1>2, <2>1
<1>4. ASSUME NEW a \in as PROVE UsageAtom(settle(revisions(a))) /\ \E b \in as : settle(revisions(a)).end = b.end
  <2>1. PICK revs : revs = revisions(a)
    OBVIOUS
  <2>2. revs \subseteq as /\ revs # {}
    BY <2>1
  <2>3. AtomSet(revs)
    BY <2>2, SomeAtoms
  <2>4. UsageAtom(last(revs)) /\ last(revs) \in as
    <3>1. \E x \in revs : \A b \in revs : NoLater(b, x)
      BY <2>2, <2>3, LastAtomExists
    <3>2. last(revs) \in revs
      BY <3>1
    <3> HIDE DEF last
    <3> QED BY <2>2, <2>3, <3>2 DEF AtomSet
  <2> HIDE DEF last, owners, disputed, revisions
  <2>5. UsageAtom(settle(revs)) /\ settle(revs).end = last(revs).end
    BY <2>4, AtomChanged
  <2> HIDE DEF settle
  <2> QED BY <2>1, <2>4, <2>5
<1> QED
  <2> HIDE DEF settle, revisions
  <2> QED BY <1>1, <1>3, <1>4 DEF AtomSet, EndLike

(* ... traces take from logs what is measured ...                             *)
LEMMA JoinedIs ==
  ASSUME NEW ts, NEW ls, AtomSet(ts), AtomSet(ls)
  PROVE  AtomSet(Joined(ts, ls)) /\ EndLike(Joined(ts, ls), ts \cup ls)
<1> DEFINE same(t) == {l \in ls : t.request # None /\ l.request = t.request}
           enriched(t, l) ==
             [t EXCEPT !.cache = OrTime(@, l.cache), !.reported = OrTime(@, l.reported),
                       !.start = Min({@, l.start}), !.end = OrTime(@, l.end), !.owner = Or(@, l.owner),
                       !.conflicts = IF @ # {} THEN @ ELSE l.conflicts]
           joined(t) == IF same(t) = {} THEN t ELSE enriched(t, CHOOSE l \in same(t) : TRUE)
           f == [t \in ts |-> joined(t)]
           rest == {l \in ls : ~\E t \in ts : t.request # None /\ t.request = l.request}
<1>1. Joined(ts, ls) = {joined(t) : t \in ts} \cup rest
  BY DEF Joined
<1>2. {joined(t) : t \in ts} = {f[t] : t \in ts}
  <2> HIDE DEF joined
  <2> QED OBVIOUS
<1>3. IsFiniteSet({joined(t) : t \in ts})
  <2>1. IsFiniteSet({f[t] : t \in ts})
    <3> HIDE DEF f
    <3> QED BY ImagesAreFinite DEF AtomSet
  <2> HIDE DEF f, joined
  <2> QED BY <1>2, <2>1
<1>4. ASSUME NEW t \in ts, NEW l \in ls PROVE UsageAtom(enriched(t, l)) /\ enriched(t, l).end \in {t.end, l.end}
  <2>1. UsageAtom(t) /\ UsageAtom(l)
    BY DEF AtomSet
  <2>2. DOMAIN t = AtomFields
    BY <2>1 DEF UsageAtom, AtomFields
  <2>3. DOMAIN enriched(t, l) = AtomFields
    BY <2>2 DEF AtomFields
  <2>4. enriched(t, l).id = t.id /\ enriched(t, l).base = t.base
    BY <2>2 DEF AtomFields
  <2>5. enriched(t, l).cache = OrTime(t.cache, l.cache) /\ enriched(t, l).end = OrTime(t.end, l.end)
    BY <2>2 DEF AtomFields
  <2> HIDE DEF enriched
  <2> QED BY <2>1, <2>3, <2>4, <2>5 DEF UsageAtom, AtomFields, OrTime
<1>5. ASSUME NEW t \in ts PROVE UsageAtom(joined(t)) /\ \E a \in ts \cup ls : joined(t).end = a.end
  <2>1. CASE same(t) = {}
    BY <2>1 DEF AtomSet
  <2>2. CASE same(t) # {}
    <3>1. PICK l : l = CHOOSE k \in same(t) : TRUE
      OBVIOUS
    <3>2. l \in ls
      BY <2>2, <3>1
    <3>3. joined(t) = enriched(t, l)
      <4> HIDE DEF same, enriched
      <4> QED BY <2>2, <3>1
    <3> HIDE DEF enriched, joined
    <3> QED BY <1>4, <3>2, <3>3
  <2> QED BY <2>1, <2>2
<1>6. AtomSet({joined(t) : t \in ts})
  <2> HIDE DEF joined
  <2> QED BY <1>3, <1>5 DEF AtomSet
<1>7. AtomSet(rest)
  <2>1. rest \subseteq ls
    OBVIOUS
  <2> QED BY <2>1, SomeAtoms
<1>8. rest \subseteq ls
  OBVIOUS
<1> HIDE DEF joined, rest
<1>9. EndLike(Joined(ts, ls), ts \cup ls)
  BY <1>1, <1>5, <1>8 DEF EndLike
<1> QED BY <1>1, <1>6, <1>7, <1>9, MoreAtoms

(* ... and so every surface is.                                               *)
LEMMA PreferredIs ==
  ASSUME NEW provider, NEW as, AtomSet(as)
  PROVE  /\ AtomSet(preferProviderUsageSurface(provider, as))
         /\ EndLike(preferProviderUsageSurface(provider, as), as)
<1>1. AtomSet({a \in as : a.surface = "traces"}) /\ AtomSet({a \in as : a.surface # "traces"})
  <2>1. {a \in as : a.surface = "traces"} \subseteq as /\ {a \in as : a.surface # "traces"} \subseteq as
    OBVIOUS
  <2> QED BY <2>1, SomeAtoms
<1>2. AtomSet(TraceFirst(as)) /\ EndLike(TraceFirst(as), as)
  <2>1. PICK ts : ts = Reconciled({a \in as : a.surface = "traces"})
    OBVIOUS
  <2>2. PICK ls : ls = Reconciled({a \in as : a.surface # "traces"})
    OBVIOUS
  <2>3. AtomSet(ts) /\ AtomSet(ls) /\ EndLike(ts, as) /\ EndLike(ls, as)
    <3>1. PICK xs, ys : xs = {a \in as : a.surface = "traces"} /\ ys = {a \in as : a.surface # "traces"}
      OBVIOUS
    <3>2. AtomSet(ts) /\ AtomSet(ls) /\ EndLike(ts, xs) /\ EndLike(ls, ys)
      BY <1>1, <2>1, <2>2, <3>1, ReconciledIs
    <3>3. xs \subseteq as /\ ys \subseteq as
      BY <3>1
    <3> QED BY <3>2, <3>3 DEF EndLike
  <2>4. PICK js : js = Joined(ts, ls)
    OBVIOUS
  <2>5. AtomSet(js) /\ EndLike(js, ts \cup ls)
    BY <2>3, <2>4, JoinedIs
  <2>6. AtomSet(Reconciled(js)) /\ EndLike(Reconciled(js), js)
    BY <2>5, ReconciledIs
  <2>7. EndLike(js, as)
    <3> SUFFICES ASSUME NEW x \in js, x.end # Never PROVE \E a \in as : x.end = a.end
      BY DEF EndLike
    <3>1. PICK y \in ts \cup ls : x.end = y.end
      BY <2>5 DEF EndLike
    <3>2. \E a \in as : y.end = a.end
      BY <2>3, <3>1 DEF EndLike
    <3> QED BY <3>1, <3>2
  <2>8. EndLike(Reconciled(js), as)
    BY <2>6, <2>7 DEF EndLike
  <2> QED BY <2>1, <2>2, <2>4, <2>6, <2>8 DEF TraceFirst
<1>3. PICK traces : traces = {a \in as : a.surface = "traces"}
  OBVIOUS
<1>4. preferProviderUsageSurface(provider, as) \in {traces, as, TraceFirst(as)}
  BY <1>3 DEF preferProviderUsageSurface
<1>5. EndLike(as, as) /\ EndLike(traces, as)
  BY <1>3 DEF EndLike
<1> QED BY <1>1, <1>2, <1>3, <1>4, <1>5

(* What a run span takes from others leaves it well formed.                   *)
LEMMA EnrichedIs ==
  ASSUME NEW provider, NEW authority, NEW selected, NEW accounting, AtomSet(selected), AtomSet(accounting)
  PROVE  /\ AtomSet(Enriched(provider, authority, selected, accounting))
         /\ EndLike(Enriched(provider, authority, selected, accounting), selected)
<1> DEFINE others == preferProviderUsageSurface(provider,
                       OfAuthority(accounting, "model") \cup OfAuthority(accounting, "turn"))
           added(a) == [a EXCEPT !.cache = IF Tokens(@) > 0 \/ Cache(others) = 0 THEN @ ELSE Cache(others)]
           f == [a \in selected |-> added(a)]
<1>1. Cache(others) \in Nat
  <2>1. OfAuthority(accounting, "model") \cup OfAuthority(accounting, "turn") \subseteq accounting
    BY DEF OfAuthority
  <2>2. AtomSet(others)
    <3>1. AtomSet(OfAuthority(accounting, "model") \cup OfAuthority(accounting, "turn"))
      BY <2>1, SomeAtoms
    <3> QED BY <3>1, PreferredIs
  <2> HIDE DEF others
  <2>3. Usage(others) \in Amounts
    BY <2>2, AtomsAreMeasured
  <2> QED BY <2>3 DEF Usage, Amounts
<1> HIDE DEF others
<1>2. ASSUME NEW a \in selected PROVE UsageAtom(added(a)) /\ added(a).end = a.end
  <2>1. UsageAtom(a)
    BY DEF AtomSet
  <2> QED BY <1>1, <2>1 DEF UsageAtom
<1>3. {added(a) : a \in selected} = {f[a] : a \in selected}
  <2> HIDE DEF added
  <2> QED OBVIOUS
<1>4. IsFiniteSet({added(a) : a \in selected})
  <2>1. IsFiniteSet({f[a] : a \in selected})
    <3> HIDE DEF f
    <3> QED BY ImagesAreFinite DEF AtomSet
  <2> HIDE DEF f, added
  <2> QED BY <1>3, <2>1
<1>5. Enriched(provider, authority, selected, accounting) \in {selected, {added(a) : a \in selected}}
  BY DEF Enriched, others
<1> HIDE DEF added
<1> QED BY <1>2, <1>4, <1>5 DEF AtomSet, EndLike

(* What is selected for the totals adds up to an amount.                      *)
LEMMA SelectedIs ==
  ASSUME NEW provider, NEW authority, NEW accounting, AtomSet(accounting)
  PROVE  /\ Usage(Selected(provider, authority, accounting)) \in Amounts
         /\ AtomSet(Selected(provider, authority, accounting))
         /\ EndLike(Selected(provider, authority, accounting), accounting)
<1>1. PICK some : some = OfAuthority(accounting, authority)
  OBVIOUS
<1>2. some \subseteq accounting
  BY <1>1 DEF OfAuthority
<1>3. PICK best : best = preferProviderUsageSurface(provider, some)
  OBVIOUS
<1>4. AtomSet(best) /\ EndLike(best, some)
  BY <1>2, <1>3, SomeAtoms, PreferredIs
<1>5. PICK sel : sel = Enriched(provider, authority, best, accounting)
  OBVIOUS
<1>6. AtomSet(sel) /\ EndLike(sel, best)
  BY <1>4, <1>5, EnrichedIs
<1>7. EndLike(sel, accounting)
  BY <1>2, <1>4, <1>6 DEF EndLike
<1>8. Selected(provider, authority, accounting) = sel
  BY <1>1, <1>3, <1>5 DEF Selected
<1> QED BY <1>6, <1>7, <1>8, AtomsAreMeasured

(* ... and so does what a group may take.                                     *)
LEMMA AllocatableIs ==
  ASSUME NEW provider, NEW as, NEW group, AtomSet(as)
  PROVE  Usage(Allocatable(provider, as, group)) \in Amounts
<1> DEFINE owners == UNION {a.aliases : a \in group}
           candidates == {a \in as : a.owner \in owners /\ a.request \notin Disputed(provider, as)}
           some == OfAuthority(candidates, TopAuthority(provider, candidates))
<1>1. some \subseteq as
  BY DEF OfAuthority
<1>2. Allocatable(provider, as, group) \in {{}, preferProviderUsageSurface(provider, some)}
  BY DEF Allocatable
<1> HIDE DEF some
<1>3. AtomSet({}) /\ AtomSet(preferProviderUsageSurface(provider, some))
  <2>1. AtomSet({})
    BY SomeAtoms
  <2> QED BY <1>1, <2>1, SomeAtoms, PreferredIs
<1> QED BY <1>2, <1>3, AtomsAreMeasured

(*------------------------------ activities ------------------------------*)

(* A chain of sets, each made from the one before.                            *)
KeepsTo(step, V) == \A v \in V : step[v] \in V

IsChain(f, V, base, step, N) ==
  f \in [0 .. N -> V] /\ f[0] = base /\ \A n \in 1 .. N : f[n] = step[f[n - 1]]

(* A step that stays within V makes chains of any length.                     *)
LEMMA ChainExists ==
  ASSUME NEW V, NEW base \in V, NEW step, KeepsTo(step, V), NEW N \in Nat
  PROVE  \E f : IsChain(f, V, base, step, N)
<1> USE DEF KeepsTo
<1> DEFINE Chain(f, m) == f[0] = base /\ \A n \in 1 .. m : f[n] = step[f[n - 1]]
           Good == {m \in Nat : \E f \in [0 .. m -> V] : Chain(f, m)}
<1>1. 0 \in Good
  <2>1. PICK f : f = [n \in 0 .. 0 |-> base]
    OBVIOUS
  <2>2. f \in [0 .. 0 -> V] /\ Chain(f, 0)
    BY <2>1
  <2> QED BY <2>2
<1>2. ASSUME NEW m \in Nat, m \in Good PROVE m + 1 \in Good
  <2>1. PICK f \in [0 .. m -> V] : Chain(f, m)
    BY <1>2
  <2>2. PICK g : g = [n \in 0 .. (m + 1) |-> IF n \in 0 .. m THEN f[n] ELSE step[f[m]]]
    OBVIOUS
  <2>3. g \in [0 .. (m + 1) -> V] /\ \A n \in 0 .. m : g[n] = f[n]
    BY <2>2
  <2>4. \A n \in 1 .. (m + 1) : g[n] = step[g[n - 1]]
    <3> TAKE n \in 1 .. (m + 1)
    <3>1. CASE n \in 1 .. m
      BY <2>1, <2>3, <3>1
    <3>2. CASE n = m + 1
      <4>1. g[n] = step[f[m]] /\ n - 1 = m /\ g[m] = f[m]
        BY <2>2, <2>3, <3>2
      <4> QED BY <4>1
    <3> QED BY <3>1, <3>2
  <2>5. Chain(g, m + 1)
    BY <2>1, <2>3, <2>4
  <2> HIDE DEF Chain
  <2> QED BY <2>3, <2>5
<1>3. N \in Good
  <2> HIDE DEF Good
  <2> QED BY <1>1, <1>2, FromZero
<1> QED BY <1>3 DEF IsChain

(* The activities a run is broken down by.                                    *)
ActFields == {"id", "query", "call", "child", "kind", "name", "basis", "origin", "outcome", "native",
              "start", "end", "aliases"}

(* Finitely many tellings of activities, each of a name of its own.           *)
ActSet(as) == IsFiniteSet(as) /\ NamedApart(as) /\ \A a \in as : ActivityAtom(a)

(* Two copies of one activity, or of one that is one hop apart.               *)
Together(b, c, as) ==
  /\ b.query = c.query /\ DecisionGroup(b, as) = DecisionGroup(c, as)
  /\ \/ b.call # None /\ b.call = c.call
     \/ b.child # None /\ b.child = c.child

(* A component is the least closed set of activities that holds the first.    *)
LEMMA ComponentIs ==
  ASSUME NEW as, IsFiniteSet(as), NEW a \in as
  PROVE  /\ Component(a, as) \subseteq as /\ a \in Component(a, as)
         /\ \A b \in as : \A c \in Component(a, as) : Together(b, c, as) => b \in Component(a, as)
         /\ \A X : a \in X /\ (\A b \in as : \A c \in X : Together(b, c, as) => b \in X) => Component(a, as) \subseteq X
<1>0. PICK N : N = Cardinality(as)
  OBVIOUS
<1>1. N \in Nat
  BY <1>0, FS_CardinalityType
<1> DEFINE Grow(X) == X \cup {b \in as : \E c \in X : Together(b, c, as)}
           Near(f, m) == f = [n \in 0 .. m |-> IF n = 0 THEN {a} ELSE Grow(f[n - 1])]
<1>2. \E f : Near(f, N)
  <2>1. PICK step : step = [X \in SUBSET as |-> Grow(X)]
    OBVIOUS
  <2>2. (\A X \in SUBSET as : step[X] \in SUBSET as) /\ {a} \in SUBSET as
    BY <2>1
  <2>3. PICK f \in [0 .. N -> SUBSET as] : f = [n \in 0 .. N |-> IF n = 0 THEN {a} ELSE step[f[n - 1]]]
    <3>1. PICK V : V = SUBSET as
      OBVIOUS
    <3>2. PICK base \in V : base = {a}
      BY <3>1
    <3>3. KeepsTo(step, V)
      BY <2>2, <3>1 DEF KeepsTo
    <3>4. PICK f : IsChain(f, V, base, step, N)
      BY <1>1, <3>2, <3>3, ChainExists
    <3>5. \A n \in 0 .. N : f[n] = IF n = 0 THEN {a} ELSE step[f[n - 1]]
      BY <1>1, <3>2, <3>4 DEF IsChain
    <3> QED BY <3>1, <3>4, <3>5 DEF IsChain
  <2> HIDE DEF Grow
  <2>4. \A n \in 0 .. N : n # 0 => step[f[n - 1]] = Grow(f[n - 1])
    <3> TAKE n \in 0 .. N
    <3>1. n # 0 => n - 1 \in 0 .. N
      BY <1>1
    <3> QED BY <2>1, <3>1
  <2>5. Near(f, N)
    BY <2>3, <2>4
  <2> QED BY <2>5
<1>3. PICK near : Near(near, N) /\ Component(a, as) = near[N]
  <2>1. Component(a, as) = (CHOOSE f : Near(f, Cardinality(as)))[Cardinality(as)]
    BY DEF Component, Together
  <2> HIDE DEF Near
  <2> QED BY <1>0, <1>2, <2>1
<1>4. \A X : X \subseteq Grow(X) /\ (X \subseteq as => Grow(X) \subseteq as)
  OBVIOUS
<1>5. \A X : Grow(X) = X => \A b \in as : \A c \in X : Together(b, c, as) => b \in X
  OBVIOUS
<1>6. \A X, Y : X \subseteq Y /\ (\A b \in as : \A c \in Y : Together(b, c, as) => b \in Y) => Grow(X) \subseteq Y
  OBVIOUS
<1> HIDE DEF Grow
<1>7. near[0] = {a} /\ \A n \in Nat : n + 1 <= N => near[n + 1] = Grow(near[n])
  <2>1. \A n \in Nat : n + 1 <= N => n + 1 \in 0 .. N /\ n + 1 # 0 /\ (n + 1) - 1 = n
    BY <1>1
  <2>2. 0 \in 0 .. N
    BY <1>1
  <2> QED BY <1>3, <2>1, <2>2
<1> HIDE DEF Near
<1> DEFINE Large(n) == /\ a \in near[n] /\ near[n] \subseteq as
                       /\ Grow(near[n]) = near[n] \/ Cardinality(near[n]) >= n + 1
           Good == {n \in Nat : n <= N => Large(n)}
<1>8. 0 \in Good
  <2>1. Cardinality({a}) = 1
    BY FS_Singleton
  <2>2. Cardinality(near[0]) = 1 /\ a \in near[0] /\ near[0] \subseteq as
    BY <1>7, <2>1
  <2>3. Cardinality(near[0]) >= 0 + 1
    BY <2>2
  <2>4. Large(0)
    BY <2>2, <2>3
  <2> HIDE DEF Large
  <2> QED BY <2>4
<1>9. ASSUME NEW n \in Nat, n \in Good PROVE n + 1 \in Good
  <2>1. SUFFICES ASSUME n + 1 <= N PROVE Large(n + 1)
    <3> HIDE DEF Large
    <3> QED OBVIOUS
  <2>2. Large(n)
    <3> HIDE DEF Large
    <3> QED BY <1>1, <1>9, <2>1
  <2>3. near[n + 1] = Grow(near[n])
    BY <1>7, <2>1
  <2>4. a \in near[n + 1] /\ near[n + 1] \subseteq as /\ near[n] \subseteq near[n + 1]
    BY <1>4, <2>2, <2>3
  <2>5. CASE Grow(near[n]) = near[n]
    BY <2>3, <2>4, <2>5
  <2>6. CASE Grow(near[n]) # near[n]
    <3>1. near[n + 1] # near[n] /\ Cardinality(near[n]) >= n + 1
      BY <2>2, <2>3, <2>6
    <3>2. IsFiniteSet(near[n + 1]) /\ IsFiniteSet(near[n])
      BY <2>4, FS_Subset
    <3>3. /\ Cardinality(near[n]) <= Cardinality(near[n + 1])
          /\ Cardinality(near[n + 1]) # Cardinality(near[n])
      BY <2>4, <3>1, <3>2, FS_Subset
    <3>4. Cardinality(near[n]) \in Nat /\ Cardinality(near[n + 1]) \in Nat
      BY <3>2, FS_CardinalityType
    <3>5. Cardinality(near[n + 1]) >= (n + 1) + 1
      BY <3>1, <3>3, <3>4
    <3> QED BY <2>4, <3>5
  <2> QED BY <2>5, <2>6
<1>10. N \in Good
  <2> HIDE DEF Good
  <2> QED BY <1>1, <1>8, <1>9, FromZero
<1>11. near[N] \subseteq as /\ a \in near[N] /\ Grow(near[N]) = near[N]
  <2>1. Large(N)
    <3> HIDE DEF Large
    <3> QED BY <1>1, <1>10
  <2>2. IsFiniteSet(near[N]) /\ Cardinality(near[N]) <= N
    BY <1>0, <2>1, FS_Subset
  <2>3. Cardinality(near[N]) \in Nat
    BY <2>2, FS_CardinalityType
  <2>4. ~(Cardinality(near[N]) >= N + 1)
    BY <1>1, <2>2, <2>3
  <2> QED BY <2>1, <2>4
<1>12. ASSUME NEW X, a \in X, \A b \in as : \A c \in X : Together(b, c, as) => b \in X
      PROVE  near[N] \subseteq X
  <2> DEFINE Inside == {n \in Nat : n <= N => near[n] \subseteq X}
  <2>1. 0 \in Inside
    BY <1>7, <1>12
  <2>2. ASSUME NEW n \in Nat, n \in Inside PROVE n + 1 \in Inside
    <3>1. SUFFICES ASSUME n + 1 <= N PROVE near[n + 1] \subseteq X
      OBVIOUS
    <3>2. near[n] \subseteq X
      BY <1>1, <2>2, <3>1
    <3>3. near[n + 1] = Grow(near[n])
      BY <1>7, <3>1
    <3>4. PICK Y : Y = near[n]
      OBVIOUS
    <3>5. Grow(Y) \subseteq X
      BY <1>6, <1>12, <3>2, <3>4
    <3> QED BY <3>3, <3>4, <3>5
  <2>3. N \in Inside
    <3> HIDE DEF Inside
    <3> QED BY <1>1, <2>1, <2>2, FromZero
  <2> QED BY <1>1, <2>3
<1>13. \A b \in as : \A c \in near[N] : Together(b, c, as) => b \in near[N]
  BY <1>5, <1>11
<1> QED BY <1>3, <1>11, <1>12, <1>13

(* Two components that share an activity are the same.                        *)
LEMMA ComponentsAreApart ==
  ASSUME NEW as, IsFiniteSet(as), NEW a \in as, NEW b \in as, NEW x \in Component(a, as), x \in Component(b, as)
  PROVE  Component(a, as) = Component(b, as)
<1>1. ASSUME NEW c \in as, NEW d \in as, NEW y \in Component(c, as), y \in Component(d, as)
      PROVE  Component(d, as) \subseteq Component(c, as)
  <2> DEFINE C == Component(c, as)
             D == Component(d, as)
             X == {z \in D : z \in C => d \in C}
             outside == {z \in D : z \notin C}
  <2>1. C \subseteq as /\ \A z \in as : \A u \in C : Together(z, u, as) => z \in C
    BY ComponentIs
  <2>2. d \in C
    <3>1. CASE d \notin C
      <4>1. d \in outside
        BY <3>1, ComponentIs
      <4>2. \A z \in as : \A u \in outside : Together(z, u, as) => z \in outside
        <5> SUFFICES ASSUME NEW z \in as, NEW u \in outside, Together(z, u, as) PROVE z \in outside
          OBVIOUS
        <5>1. z \in D
          BY ComponentIs
        <5>2. u \in as
          BY ComponentIs
        <5>3. Together(u, z, as)
          BY DEF Together
        <5>4. z \notin C
          <6> HIDE DEF C
          <6> QED BY <2>1, <5>2, <5>3
        <5> QED BY <5>1, <5>4
      <4>3. D \subseteq outside
        <5> HIDE DEF outside
        <5> QED BY <4>1, <4>2, ComponentIs
      <4> QED BY <1>1, <4>3
    <3> QED BY <3>1
  <2>3. D \subseteq C
    <3>1. PICK Y : Y = C
      OBVIOUS
    <3>2. d \in Y /\ \A z \in as : \A u \in Y : Together(z, u, as) => z \in Y
      BY <2>1, <2>2, <3>1
    <3> QED BY <3>1, <3>2, ComponentIs
  <2> QED BY <2>3
<1> QED BY <1>1

(* The first of finitely many activities is one of them.                      *)
LEMMA FirstIs ==
  ASSUME NEW as, IsFiniteSet(as), \A a \in as : a.id \in Int, NEW default
  PROVE  First(as, default) \in as \cup {default}
<1>1. CASE as = {}
  BY <1>1 DEF First
<1>2. CASE as # {}
  <2>1. PICK w : w = [a \in as |-> 0 - a.id]
    OBVIOUS
  <2>2. ASSUME NEW a \in as PROVE 0 - a.id \in Int
    <3>1. \A n \in Int : 0 - n \in Int
      OBVIOUS
    <3>2. a.id \in Int
      OBVIOUS
    <3> QED BY <3>1, <3>2
  <2>3. w \in [as -> Int] /\ \A a \in as : w[a] = 0 - a.id
    BY <2>1, <2>2
  <2>5. PICK a \in as : \A b \in as : w[b] <= w[a]
    BY <1>2, <2>3, HeaviestExists
  <2>4. ASSUME NEW b \in as PROVE a.id <= b.id
    <3>1. a.id \in Int /\ b.id \in Int /\ 0 - b.id <= 0 - a.id
      BY <2>3, <2>5
    <3> QED BY <3>1
  <2> QED BY <1>2, <2>4 DEF First
<1> QED BY <1>1, <1>2

(* Of finitely many copies one is preferred.                                  *)
LEMMA PreferredActivityExists ==
  ASSUME NEW c, IsFiniteSet(c), c # {}, \A a \in c : a.id \in Int
  PROVE  \E a \in c : \A b \in c : Preference(b) < Preference(a) \/ (Preference(b) = Preference(a) /\ b.id <= a.id)
<1>1. \A a \in c : Preference(a) \in Int
  BY DEF Preference
<1>2. PICK w : w = [a \in c |-> Preference(a)]
  OBVIOUS
<1>3. PICK x \in c : \A b \in c : Preference(b) <= Preference(x)
  <2>1. \E a \in c : \A b \in c : w[b] <= w[a]
    BY <1>1, <1>2, HeaviestExists
  <2> QED BY <1>2, <2>1
<1> DEFINE best == {a \in c : Preference(a) = Preference(x)}
<1>4. PICK i : i = [a \in best |-> a.id]
  OBVIOUS
<1>5. PICK y \in best : \A b \in best : b.id <= y.id
  <2>1. IsFiniteSet(best) /\ best # {} /\ \A a \in best : a.id \in Int
    BY FS_Subset
  <2>2. \E a \in best : \A b \in best : i[b] <= i[a]
    <3> HIDE DEF best
    <3> QED BY <1>4, <2>1, HeaviestExists
  <2> QED
    <3> HIDE DEF best
    <3> QED BY <1>4, <2>2
<1>6. ASSUME NEW b \in c PROVE Preference(b) < Preference(y) \/ (Preference(b) = Preference(y) /\ b.id <= y.id)
  <2>1. Preference(b) \in Int /\ Preference(y) \in Int /\ Preference(b) <= Preference(y)
    BY <1>1, <1>3
  <2>2. CASE Preference(b) = Preference(y)
    BY <1>5, <2>2
  <2> QED BY <2>1, <2>2
<1> QED BY <1>6

(* A merged activity has its name and its kind from its copies.               *)
LEMMA MergedActivityIs ==
  ASSUME NEW provider, NEW c, IsFiniteSet(c), c # {}, \A a \in c : ActivityAtom(a),
         NEW m, m = mergeActivityEvidence(provider, c)
  PROVE  DOMAIN m = ActFields /\ (\E a \in c : m.id = a.id) /\ (\E a \in c : m.kind = a.kind)
<1> DEFINE preferred == CHOOSE a \in c : \A b \in c :
                          Preference(b) < Preference(a) \/ (Preference(b) = Preference(a) /\ b.id <= a.id)
           alike(a)  == \A b \in c : SameCall(b, a)
           decisions == {a \in c : a.native /\ alike(a)}
           lifecycle == {a \in c : IsLifecycle(a)}
           launches  == {a \in c : provider = "claude-code" /\ IsLaunch(a)}
           authority == IF lifecycle # {} THEN lifecycle ELSE launches
           traces    == {a \in c : a.basis = "trace_span"}
           semantic  == First(authority, preferred)
           canonical == First(authority, First(traces, preferred))
           timing    == IF authority # {} THEN authority ELSE c
           outcome   == CASE \E a \in c : a.outcome = "rejected" /\ alike(a) -> "rejected"
                          [] \E a \in c : a.outcome = "failure" -> "failure"
                          [] authority # {} -> semantic.outcome
                          [] \E a \in c : a.outcome = "success" -> "success"
                          [] OTHER -> "unknown"
           child == Or(semantic.child, Or(canonical.child, First({a \in c : a.child # None}, preferred).child))
           from  == Min({a.start : a \in timing})
           till  == Latest({a.end : a \in timing})
<1>1. m = IF decisions # {}
          THEN [First(decisions, preferred) EXCEPT !.child = None, !.end = Never]
          ELSE [canonical EXCEPT
                  !.id = First(traces, canonical).id, !.kind = semantic.kind, !.name = semantic.name,
                  !.outcome = outcome, !.child = child, !.start = from, !.end = till]
  BY DEF mergeActivityEvidence
<1>2. \A a \in c : a.id \in Int
  BY DEF ActivityAtom
<1>3. preferred \in c
  BY <1>2, PreferredActivityExists
<1>4. ASSUME NEW s, s \subseteq c, NEW d \in c PROVE First(s, d) \in c
  <2>1. IsFiniteSet(s) /\ \A a \in s : a.id \in Int
    BY <1>2, <1>4, FS_Subset
  <2>2. First(s, d) \in s \cup {d}
    BY <2>1, FirstIs
  <2> QED BY <1>4, <2>2
<1>5. authority \subseteq c /\ traces \subseteq c /\ decisions \subseteq c
  OBVIOUS
<1> HIDE DEF preferred, decisions, authority, traces, timing, outcome, child, from, till
<1>6. First(decisions, preferred) \in c /\ semantic \in c /\ canonical \in c /\ First(traces, canonical) \in c
  BY <1>3, <1>4, <1>5
<1> HIDE DEF semantic, canonical
<1>7. CASE decisions # {}
  <2>1. PICK f \in c : f = First(decisions, preferred)
    BY <1>6
  <2>2. m = [f EXCEPT !.child = None, !.end = Never]
    BY <1>1, <1>7, <2>1
  <2>3. DOMAIN f = ActFields
    BY <2>1 DEF ActivityAtom, ActFields
  <2>4. DOMAIN m = ActFields /\ m.id = f.id /\ m.kind = f.kind
    BY <2>2, <2>3 DEF ActFields
  <2> QED BY <2>4
<1>8. CASE decisions = {}
  <2>1. PICK f \in c : f = First(traces, canonical)
    BY <1>6
  <2>2. m = [canonical EXCEPT !.id = f.id, !.kind = semantic.kind, !.name = semantic.name,
                  !.outcome = outcome, !.child = child, !.start = from, !.end = till]
    BY <1>1, <1>8, <2>1
  <2>3. DOMAIN canonical = ActFields
    BY <1>6 DEF ActivityAtom, ActFields
  <2>4. DOMAIN m = ActFields /\ m.id = f.id /\ m.kind = semantic.kind
    BY <2>2, <2>3 DEF ActFields
  <2> QED BY <1>6, <2>4
<1> QED BY <1>7, <1>8

(* The merged activities are as far apart as their copies.                     *)
LEMMA ActivitiesAre ==
  ASSUME NEW provider, NEW as, ActSet(as)
  PROVE  ActSet(Activities(provider, as))
<1> DEFINE merged(c) ==
             LET m == mergeActivityEvidence(provider, c)
                 disputed == \/ Cardinality({a.child : a \in c} \ {None}) > 1
                             \/ Cardinality({<<a.kind, a.name>> : a \in c}) > 1
             IN  [m EXCEPT !.aliases = IF m.native \/ disputed THEN {} ELSE {a.id : a \in c}]
           one(a) == merged(Component(a, as))
           f == [a \in as |-> one(a)]
<1>1. Activities(provider, as) = {one(a) : a \in as}
  BY DEF Activities
<1>2. IsFiniteSet(as) /\ NamedApart(as) /\ \A a \in as : ActivityAtom(a)
  BY DEF ActSet
<1>3. ASSUME NEW a \in as
      PROVE  ActivityAtom(one(a)) /\ \E b \in Component(a, as) : one(a).id = b.id
  <2>1. PICK c : c = Component(a, as)
    OBVIOUS
  <2>2. c \subseteq as /\ a \in c
    BY <1>2, <2>1, ComponentIs
  <2>3. IsFiniteSet(c) /\ c # {} /\ \A b \in c : ActivityAtom(b)
    BY <1>2, <2>2, FS_Subset
  <2>4. PICK m : m = mergeActivityEvidence(provider, c)
    OBVIOUS
  <2>5. DOMAIN m = ActFields /\ (\E b \in c : m.id = b.id) /\ (\E b \in c : m.kind = b.kind)
    BY <2>3, <2>4, MergedActivityIs
  <2>6. PICK owners : merged(c) = [m EXCEPT !.aliases = owners]
    BY <2>4
  <2> HIDE DEF merged
  <2>7. DOMAIN merged(c) = ActFields /\ merged(c).id = m.id /\ merged(c).kind = m.kind
    BY <2>5, <2>6 DEF ActFields
  <2>8. ActivityAtom(merged(c))
    BY <2>3, <2>5, <2>7 DEF ActivityAtom, ActFields
  <2> QED BY <2>1, <2>5, <2>7, <2>8
<1>4. ASSUME NEW a \in as, NEW b \in as, one(a).id = one(b).id PROVE one(a) = one(b)
  <2> HIDE DEF merged
  <2>1. PICK x \in Component(a, as) : one(a).id = x.id
    BY <1>3
  <2>2. PICK y \in Component(b, as) : one(b).id = y.id
    BY <1>3
  <2>3. x \in as /\ y \in as
    BY <1>2, ComponentIs
  <2>4. x = y
    BY <1>2, <1>4, <2>1, <2>2, <2>3 DEF NamedApart
  <2>5. Component(a, as) = Component(b, as)
    BY <1>2, <2>4, ComponentsAreApart
  <2> QED BY <2>5
<1>5. IsFiniteSet({one(a) : a \in as})
  <2> HIDE DEF one
  <2>1. {one(a) : a \in as} = {f[a] : a \in as}
    OBVIOUS
  <2>2. IsFiniteSet({f[a] : a \in as})
    <3> HIDE DEF f
    <3> QED BY <1>2, ImagesAreFinite
  <2> HIDE DEF f
  <2> QED BY <2>1, <2>2
<1> HIDE DEF one
<1>6. NamedApart({one(a) : a \in as})
  BY <1>4 DEF NamedApart
<1>7. \A m \in {one(a) : a \in as} : ActivityAtom(m)
  BY <1>3
<1> QED BY <1>1, <1>5, <1>6, <1>7 DEF ActSet

(*------------------------- linked subagent runs -------------------------*)

(* A place is of the run itself or of a subagent in S.                        *)
Under(rs, S) == \A r \in rs : r.under = <<>> \/ (r.under # <<>> /\ r.under[1] \in S)

(* Tokens that move from row to row.                                          *)
LEMMA PlusMoves ==
  ASSUME NEW b \in Amounts, NEW o \in Amounts, NEW r \in Amounts, NEW n \in Amounts
  PROVE  Plus(Plus(b, Plus(o, r)), n) = Plus(Plus(o, b), Plus(r, n))
  BY DEF Amounts, Plus

(* Some of the rows are sound rows.                                           *)
LEMMA SomeRows ==
  ASSUME NEW rs, SoundRows(rs), NEW some, some \subseteq rs
  PROVE  SoundRows(some) /\ TokensOf(some) \in Amounts
<1>1. SoundRows(some)
  BY FS_Subset DEF SoundRows
<1> QED BY <1>1, RowsOneByOne DEF SoundRows, RowType

(* The rows of a child below the activity i of its parent.                    *)
MovedUnder(rs, i) == {[r EXCEPT !.under = <<i>> \o @] : r \in rs}

(* Rows that are moved under a subagent keep apart and add up to the same.    *)
LEMMA RowsMovedUnder ==
  ASSUME NEW rs, SoundRows(rs), NEW i \in Nat
  PROVE  /\ SoundRows(MovedUnder(rs, i)) /\ TokensOf(MovedUnder(rs, i)) = TokensOf(rs)
         /\ \A r \in MovedUnder(rs, i) : r.under # <<>> /\ r.under[1] = i
<1> DEFINE move(r) == [r EXCEPT !.under = <<i>> \o @]
           moved == {move(r) : r \in rs}
<1>0. moved = MovedUnder(rs, i)
  BY DEF MovedUnder
<1>1. PICK f : f = [r \in rs |-> move(r)]
  OBVIOUS
<1>2. ASSUME NEW r \in rs
      PROVE  /\ RowType(move(r)) /\ move(r).tokens = r.tokens
             /\ move(r).kind = r.kind /\ move(r).name = r.name /\ move(r).under = <<i>> \o r.under
             /\ move(r).under # <<>> /\ move(r).under[1] = i
  <2>1. RowType(r)
    BY DEF SoundRows
  <2>2. DOMAIN r = RowFields /\ r.under \in Seq(Nat) /\ r.tokens \in Amounts
    BY <2>1 DEF RowType
  <2>3. PICK u : u = <<i>> \o r.under
    OBVIOUS
  <2>4. u \in Seq(Nat) /\ u # <<>> /\ u[1] = i
    BY <2>2, <2>3
  <2>5. move(r) = [r EXCEPT !.under = u]
    BY <2>2, <2>3 DEF RowFields
  <2> HIDE DEF move
  <2>6. /\ DOMAIN move(r) = RowFields /\ move(r).tokens = r.tokens
        /\ move(r).kind = r.kind /\ move(r).name = r.name /\ move(r).under = u
    BY <2>2, <2>5 DEF RowFields
  <2> QED BY <2>2, <2>3, <2>4, <2>6 DEF RowType
<1> HIDE DEF move
<1>3. ASSUME NEW r \in rs, NEW s \in rs, <<i>> \o r.under = <<i>> \o s.under PROVE r.under = s.under
  <2>1. r.under \in Seq(Nat) /\ s.under \in Seq(Nat)
    BY DEF SoundRows, RowType
  <2>2. PICK u \in Seq(Nat) : u = r.under
    BY <2>1
  <2>3. PICK v \in Seq(Nat) : v = s.under
    BY <2>1
  <2>4. PICK x : x = <<i>> \o u /\ x = <<i>> \o v
    BY <1>3, <2>2, <2>3
  <2>5. Len(x) = Len(u) + 1 /\ Len(x) = Len(v) + 1 /\ Len(u) \in Nat /\ Len(v) \in Nat
    BY <2>4
  <2>6. \A n \in 1 .. Len(u) : x[n + 1] = u[n]
    BY <2>4
  <2>7. \A n \in 1 .. Len(v) : x[n + 1] = v[n]
    BY <2>4
  <2>8. Len(u) = Len(v)
    BY <2>5
  <2>9. \A n \in 1 .. Len(u) : u[n] = v[n]
    BY <2>6, <2>7, <2>8
  <2>10. u = [n \in 1 .. Len(u) |-> u[n]] /\ v = [n \in 1 .. Len(v) |-> v[n]]
    OBVIOUS
  <2>11. u = v
    BY <2>8, <2>9, <2>10
  <2> QED BY <2>2, <2>3, <2>11
<1>4. ASSUME NEW r \in rs, NEW s \in rs,
             move(r).kind = move(s).kind, move(r).name = move(s).name, move(r).under = move(s).under
      PROVE  r = s
  <2>1. r.kind = s.kind /\ r.name = s.name /\ <<i>> \o r.under = <<i>> \o s.under
    BY <1>2, <1>4
  <2>2. r.under = s.under
    BY <1>3, <2>1
  <2> QED BY <2>1, <2>2 DEF SoundRows
<1>5. \A r, s \in rs : f[r] = f[s] => r = s
  <2> SUFFICES ASSUME NEW r \in rs, NEW s \in rs, f[r] = f[s] PROVE r = s
    OBVIOUS
  <2>1. move(r) = move(s)
    BY <1>1
  <2> QED BY <1>4, <2>1
<1>6. \A r \in rs : r.tokens \in Amounts /\ f[r].tokens = r.tokens
  BY <1>1, <1>2 DEF SoundRows, RowType
<1>7. IsFiniteSet(moved) /\ TokensOf(moved) = TokensOf(rs)
  <2>1. IsFiniteSet({f[r] : r \in rs}) /\ TokensOf({f[r] : r \in rs}) = TokensOf(rs)
    BY <1>5, <1>6, RowsRenamed DEF SoundRows
  <2>2. {f[r] : r \in rs} = moved
    BY <1>1
  <2> HIDE DEF moved
  <2> QED BY <2>1, <2>2
<1>8. SoundRows(moved)
  BY <1>2, <1>4, <1>7 DEF SoundRows
<1>9. \A r \in moved : r.under # <<>> /\ r.under[1] = i
  BY <1>2
<1> QED BY <1>0, <1>7, <1>8, <1>9

(* A child's rows join its parent's: what it named under the activity that    *)
(* started it, the rest in the row of that activity.                          *)
LEMMA MergedRowsAre ==
  ASSUME NEW parent, NEW child, NEW act, act.id \in Nat, NEW S, act.id \notin S,
         BalancedRows(parent.rows, parent.tokens), BalancedRows(child.rows, child.tokens), Under(parent.rows, S)
  PROVE  LET merged == mergeSubagentBreakdown(parent, child, act)
         IN  BalancedRows(merged, Plus(parent.tokens, child.tokens)) /\ Under(merged, S \cup {act.id})
<1> DEFINE mine(r)   == r.kind = "subagent" /\ r.name = act.name /\ r.under = <<>>
           own       == IF \E r \in parent.rows : mine(r) THEN CHOOSE r \in parent.rows : mine(r)
                        ELSE Row("subagent", act.name, {act}, Zero, "unavailable")
           named     == {r \in child.rows : r.kind # "unallocated"}
           rest      == TokensOf(child.rows \ named)
           residual  == Minus(child.tokens, TokensOf(child.rows))
           tokens    == Plus(own.tokens, Plus(rest, residual))
           coverage  == CASE tokens = Zero -> own.coverage
                          [] \E r \in named : r.tokens # Zero -> "partial"
                          [] OTHER -> "unavailable"
           mended    == [own EXCEPT !.tokens = tokens, !.coverage = coverage]
           others    == parent.rows \ {own}
           moved     == MovedUnder(named, act.id)
<1>1. mergeSubagentBreakdown(parent, child, act) = (others \cup {mended}) \cup moved
  BY DEF mergeSubagentBreakdown, MovedUnder
<1>2. /\ SoundRows(parent.rows) /\ parent.tokens \in Amounts /\ TokensOf(parent.rows) = parent.tokens
      /\ SoundRows(child.rows) /\ child.tokens \in Amounts /\ TokensOf(child.rows) = child.tokens
  BY DEF BalancedRows
<1>3. /\ RowType(own) /\ mine(own) /\ \A r \in others : ~mine(r)
      /\ SoundRows(others) /\ TokensOf(others) \in Amounts /\ parent.tokens = Plus(own.tokens, TokensOf(others))
  <2>1. SoundRows(others) /\ TokensOf(others) \in Amounts
    <3>1. others \subseteq parent.rows
      OBVIOUS
    <3> HIDE DEF others
    <3> QED BY <1>2, <3>1, SomeRows
  <2>2. CASE \E r \in parent.rows : mine(r)
    <3>1. own \in parent.rows /\ mine(own)
      BY <2>2
    <3> HIDE DEF own
    <3>2. RowType(own) /\ \A r \in others : ~mine(r)
      BY <1>2, <3>1 DEF SoundRows
    <3>3. parent.tokens = Plus(own.tokens, TokensOf(others))
      <4>1. IsFiniteSet(parent.rows) /\ \A r \in parent.rows : r.tokens \in Amounts
        BY <1>2 DEF SoundRows, RowType
      <4>2. TokensOf(parent.rows) = Plus(own.tokens, TokensOf(parent.rows \ {own}))
        BY <3>1, <4>1, RowsOneByOne
      <4> QED BY <1>2, <4>2
    <3> QED BY <2>1, <3>1, <3>2, <3>3
  <2>3. CASE ~\E r \in parent.rows : mine(r)
    <3>1. own = Row("subagent", act.name, {act}, Zero, "unavailable")
      BY <2>3
    <3> HIDE DEF own
    <3>2. RowType(own) /\ mine(own) /\ own.tokens = Zero
      BY <3>1, AmountsAdd DEF Row, RowType, RowFields
    <3>3. others = parent.rows
      BY <2>3, <3>2
    <3>4. parent.tokens = Plus(Zero, TokensOf(others))
      BY <1>2, <3>3, AmountsAdd
    <3> QED BY <2>1, <2>3, <3>2, <3>3, <3>4
  <2> QED BY <2>2, <2>3
<1> HIDE DEF own
<1>4. /\ SoundRows(named) /\ TokensOf(named) \in Amounts /\ rest \in Amounts
      /\ child.tokens = Plus(rest, TokensOf(named))
  <2>1. PICK unnamed : unnamed = child.rows \ named
    OBVIOUS
  <2>2. named \subseteq child.rows /\ unnamed \subseteq child.rows /\ unnamed \cap named = {} /\ unnamed \cup named = child.rows
    BY <2>1
  <2> HIDE DEF named
  <2>3. SoundRows(named) /\ TokensOf(named) \in Amounts /\ SoundRows(unnamed) /\ TokensOf(unnamed) \in Amounts
    BY <1>2, <2>2, SomeRows
  <2>4. \A r \in unnamed \cup named : r.tokens \in Amounts
    BY <2>3 DEF SoundRows, RowType
  <2>5. TokensOf(unnamed \cup named) = Plus(TokensOf(unnamed), TokensOf(named))
    BY <2>2, <2>3, <2>4, RowsTogether DEF SoundRows
  <2> QED BY <1>2, <2>1, <2>2, <2>3, <2>5
<1>5. residual = Zero
  BY <1>2, MinusIs
<1> HIDE DEF named, rest, residual
<1>6. own.tokens \in Amounts
  BY <1>3 DEF RowType
<1>7. tokens = Plus(own.tokens, rest) /\ tokens \in Amounts
  BY <1>4, <1>5, <1>6, AmountsAdd
<1> HIDE DEF tokens, coverage
<1>8. RowType(mended) /\ mended.kind = own.kind /\ mended.name = own.name /\ mended.under = own.under /\ mended.tokens = tokens
  BY <1>3, <1>7 DEF RowType, RowFields
<1> HIDE DEF mended
<1>9. SoundRows(others \cup {mended}) /\ TokensOf(others \cup {mended}) = Plus(TokensOf(others), tokens)
  <2>1. \A r \in others : ~(mended.kind = r.kind /\ mended.name = r.name /\ mended.under = r.under)
    BY <1>3, <1>8
  <2> HIDE DEF others
  <2> QED BY <1>3, <1>8, <2>1, RowAdded
<1>10. /\ SoundRows(moved) /\ TokensOf(moved) = TokensOf(named)
       /\ \A r \in moved : r.under # <<>> /\ r.under[1] = act.id
  BY <1>4, RowsMovedUnder
<1> HIDE DEF moved
<1>11. \A r \in others \cup {mended} : r.under = <<>> \/ (r.under # <<>> /\ r.under[1] \in S)
  BY <1>3, <1>8 DEF Under
<1>12. Under((others \cup {mended}) \cup moved, S \cup {act.id})
  BY <1>10, <1>11 DEF Under
<1>13. \A r \in others \cup {mended} : \A s \in moved : r.under # s.under
  BY <1>10, <1>11
<1> DEFINE all == (others \cup {mended}) \cup moved
<1>14. SoundRows(all)
  <2>1. IsFiniteSet(all)
    BY <1>9, <1>10, FS_Union DEF SoundRows
  <2> QED BY <1>9, <1>10, <1>13, <2>1 DEF SoundRows
<1>15. TokensOf(all) = Plus(parent.tokens, child.tokens)
  <2>1. (others \cup {mended}) \cap moved = {}
    BY <1>13
  <2>2. \A r \in all : r.tokens \in Amounts
    BY <1>14 DEF SoundRows, RowType
  <2>3. TokensOf(all) = Plus(TokensOf(others \cup {mended}), TokensOf(moved))
    BY <1>9, <1>10, <2>1, <2>2, RowsTogether DEF SoundRows
  <2>4. TokensOf(all) = Plus(Plus(TokensOf(others), Plus(own.tokens, rest)), TokensOf(named))
    BY <1>7, <1>9, <1>10, <2>3
  <2>5. Plus(Plus(TokensOf(others), Plus(own.tokens, rest)), TokensOf(named))
          = Plus(Plus(own.tokens, TokensOf(others)), Plus(rest, TokensOf(named)))
    BY <1>3, <1>4, <1>6, PlusMoves
  <2> QED BY <1>3, <1>4, <2>4, <2>5
<1>16. Plus(parent.tokens, child.tokens) \in Amounts
  BY <1>2, AmountsAdd
<1> HIDE DEF all
<1> QED BY <1>1, <1>12, <1>14, <1>15, <1>16 DEF BalancedRows, all

(* Runs as groupRun and projectOccurrenceOnlyGroup make them.                 *)
RunFields == {"query", "session", "tokens", "cost", "costs", "tools", "rows", "start", "end", "outcome"}

(* A run whose rows add up to its totals.                                     *)
BalancedRun(r) == DOMAIN r = RunFields /\ BalancedRows(r.rows, r.tokens)

(* Only how completely the rows are known changes in the end.                 *)
LEMMA FinalizedRowsAre ==
  ASSUME NEW r, BalancedRun(r), NEW ls, NEW done, done = finalizeLinkedSubagentBreakdown(r, ls)
  PROVE  BalancedRun(done) /\ done.query = r.query
<1> DEFINE linked(name) == Cardinality({l \in ls : l.act.name = name})
           proved(x) == x.kind = "subagent" /\ x.under = <<>> /\ linked(x.name) = x.count /\ x.tokens # Zero
           mend(x) == IF proved(x) THEN [x EXCEPT !.coverage = "complete"] ELSE x
           mended == {mend(x) : x \in r.rows}
<1>1. PICK f : f = [x \in r.rows |-> mend(x)]
  OBVIOUS
<1>2. done = IF ls = {} THEN r ELSE [r EXCEPT !.rows = mended]
  BY DEF finalizeLinkedSubagentBreakdown
<1>3. SoundRows(r.rows) /\ r.tokens \in Amounts /\ TokensOf(r.rows) = r.tokens /\ DOMAIN r = RunFields
  BY DEF BalancedRun, BalancedRows
<1>4. ASSUME NEW x \in r.rows
      PROVE  /\ RowType(mend(x)) /\ mend(x).tokens = x.tokens /\ mend(x).kind = x.kind
             /\ mend(x).name = x.name /\ mend(x).under = x.under
  <2>1. RowType(x)
    BY <1>3 DEF SoundRows
  <2>2. PICK y : y = [x EXCEPT !.coverage = "complete"]
    OBVIOUS
  <2>3. RowType(y) /\ y.tokens = x.tokens /\ y.kind = x.kind /\ y.name = x.name /\ y.under = x.under
    BY <2>1, <2>2 DEF RowType, RowFields
  <2>4. mend(x) \in {x, y}
    BY <2>2
  <2> HIDE DEF mend
  <2> QED BY <2>1, <2>3, <2>4
<1> HIDE DEF mend
<1>5. ASSUME NEW x \in r.rows, NEW y \in r.rows,
             mend(x).kind = mend(y).kind, mend(x).name = mend(y).name, mend(x).under = mend(y).under
      PROVE  x = y
  BY <1>3, <1>4, <1>5 DEF SoundRows
<1>6. \A x, y \in r.rows : f[x] = f[y] => x = y
  <2> SUFFICES ASSUME NEW x \in r.rows, NEW y \in r.rows, f[x] = f[y] PROVE x = y
    OBVIOUS
  <2>1. mend(x) = mend(y)
    BY <1>1
  <2> QED BY <1>5, <2>1
<1>7. \A x \in r.rows : x.tokens \in Amounts /\ f[x].tokens = x.tokens
  BY <1>1, <1>3, <1>4 DEF SoundRows, RowType
<1>8. IsFiniteSet(mended) /\ TokensOf(mended) = TokensOf(r.rows)
  <2>1. PICK rs : rs = r.rows
    OBVIOUS
  <2>2. IsFiniteSet({f[x] : x \in rs}) /\ TokensOf({f[x] : x \in rs}) = TokensOf(rs)
    BY <1>3, <1>6, <1>7, <2>1, RowsRenamed DEF SoundRows
  <2>3. {f[x] : x \in rs} = mended
    BY <1>1, <2>1
  <2> HIDE DEF mended
  <2> QED BY <2>1, <2>2, <2>3
<1>9. SoundRows(mended)
  BY <1>4, <1>5, <1>8 DEF SoundRows
<1> HIDE DEF mended
<1>10. CASE ls = {}
  BY <1>2, <1>10
<1>11. CASE ls # {}
  <2>1. done.rows = mended /\ done.tokens = r.tokens /\ done.query = r.query /\ DOMAIN done = RunFields
    BY <1>2, <1>3, <1>11 DEF RunFields
  <2> QED BY <1>3, <1>8, <1>9, <2>1 DEF BalancedRun, BalancedRows
<1> QED BY <1>10, <1>11

(* A child joins its parent, under an activity nothing was joined under yet.  *)
LEMMA MergedRunIs ==
  ASSUME NEW parent, NEW child, NEW act, act.id \in Nat, NEW S, act.id \notin S,
         BalancedRun(parent), BalancedRun(child), Under(parent.rows, S), NEW run,
         run = mergeLinkedSubagentRun(parent, child, act)
  PROVE  BalancedRun(run) /\ Under(run.rows, S \cup {act.id}) /\ run.query = parent.query
<1>1. PICK rs : rs = mergeSubagentBreakdown(parent, child, act)
  OBVIOUS
<1>2. BalancedRows(rs, Plus(parent.tokens, child.tokens)) /\ Under(rs, S \cup {act.id})
  BY <1>1, MergedRowsAre DEF BalancedRun
<1>3. /\ DOMAIN run = DOMAIN parent /\ run.rows = rs /\ run.tokens = Plus(parent.tokens, child.tokens)
      /\ run.query = parent.query
  BY <1>1 DEF mergeLinkedSubagentRun, BalancedRun, RunFields
<1> QED BY <1>2, <1>3 DEF BalancedRun

(*--------------------------- runs on their own --------------------------*)

(* A run is what Run makes it.                                                *)
LEMMA RunIs ==
  ASSUME NEW q, NEW session, NEW tokens \in Amounts, NEW price, NEW told, NEW rs, NEW o, NEW start, NEW end,
         BalancedRows(rs, tokens), NEW run, run = Run(q, session, tokens, price, told, rs, o, start, end)
  PROVE  BalancedRun(run) /\ run.query = q /\ run.rows = rs
  BY DEF Run, BalancedRun, RunFields

(* A run of the turn q, all of whose rows are its own.                        *)
OwnRun(run, q) == BalancedRun(run) /\ run.query = q /\ \A r \in run.rows : r.under = <<>>

(* A turn of which usage is known is projected to such a run ...              *)
LEMMA ProjectedGroupIs ==
  ASSUME NEW provider, NEW q, NEW as, AtomSet(as), NEW time, NEW o, NEW told, ActSet(told), NEW run,
         run = projectGroup(provider, q, as, time, o, told)
  PROVE  OwnRun(run, q)
<1>1. PICK accounting : accounting = {a \in as : a.kind # "lifecycle"}
  OBVIOUS
<1>2. PICK sel : sel = Selected(provider, TopAuthority(provider, IF accounting # {} THEN accounting ELSE as), accounting)
  OBVIOUS
<1>3. run = groupRun(provider, q, as, accounting, sel, time, o, told)
  BY <1>1, <1>2 DEF projectGroup
<1>4. AtomSet(accounting)
  BY <1>1, SomeAtoms
<1>5. Usage(sel) \in Amounts
  BY <1>2, <1>4, SelectedIs
<1>6. \A g \in SUBSET told : Usage(Allocatable(provider, as, g)) \in Amounts
  BY AllocatableIs
<1>7. PICK rs : rs = runBreakdown(provider, as, told, Usage(sel))
  OBVIOUS
<1>8. BalancedRows(rs, Usage(sel)) /\ \A r \in rs : r.under = <<>>
  <2>1. PICK tokens \in Amounts : tokens = Usage(sel)
    BY <1>5
  <2>2. IsFiniteSet(told) /\ \A a \in told : a.id \in Nat /\ a.kind # "unallocated"
    BY DEF ActSet, ActivityAtom
  <2> QED BY <1>6, <1>7, <2>1, <2>2, BreakdownIsBalanced
<1>9. PICK session, start, end : run = Run(q, session, Usage(sel), Price(sel), told, rs, o, start, end)
  BY <1>3, <1>7 DEF groupRun
<1>10. BalancedRun(run) /\ run.query = q /\ run.rows = rs
  BY <1>5, <1>8, <1>9, RunIs
<1> QED BY <1>8, <1>10 DEF OwnRun

(* ... and so is a completed one of which none is.                            *)
LEMMA SilentGroupIs ==
  ASSUME NEW provider, NEW o, NEW told, ActSet(told), NEW run,
         run = projectOccurrenceOnlyGroup(provider, o, told)
  PROVE  OwnRun(run, o.query)
<1>1. AtomSet({})
  BY FS_EmptySet DEF AtomSet
<1>2. \A g \in SUBSET told : Usage(Allocatable(provider, {}, g)) \in Amounts
  BY <1>1, AllocatableIs
<1>3. IsFiniteSet(told) /\ \A a \in told : a.id \in Nat /\ a.kind # "unallocated"
  BY DEF ActSet, ActivityAtom
<1>4. Zero \in Amounts
  BY AmountsAdd
<1>5. PICK rs : rs = runBreakdown(provider, {}, told, Zero)
  OBVIOUS
<1>6. BalancedRows(rs, Zero) /\ \A r \in rs : r.under = <<>>
  BY <1>2, <1>3, <1>4, <1>5, BreakdownIsBalanced
<1>7. PICK price : run = Run(o.query, o.session, Zero, price, told, rs, o, o.start, o.completed)
  BY <1>5 DEF projectOccurrenceOnlyGroup
<1>8. BalancedRun(run) /\ run.query = o.query /\ run.rows = rs
  BY <1>4, <1>6, <1>7, RunIs
<1> QED BY <1>6, <1>8 DEF OwnRun

(*---------------------------- linked together ---------------------------*)

(* Finitely many links, no two of one activity.                               *)
SoundLinks(ls) ==
  /\ IsFiniteSet(ls) /\ \A l \in ls : l.act.id \in Nat
  /\ \A l, m \in ls : l.act.id = m.act.id => l = m

(* Of finitely many links one is the last.                                    *)
LEMMA LastLinkIsIn ==
  ASSUME NEW ls, SoundLinks(ls), ls # {}
  PROVE  LastLink(ls) \in ls
<1>1. PICK w : w = [l \in ls |-> l.act.id]
  OBVIOUS
<1>2. w \in [ls -> Int] /\ \A l \in ls : w[l] = l.act.id
  BY <1>1 DEF SoundLinks
<1>3. PICK l \in ls : \A m \in ls : w[m] <= w[l]
  BY <1>2, HeaviestExists DEF SoundLinks
<1>4. \A m \in ls : m.act.id <= l.act.id
  BY <1>2, <1>3
<1> QED BY <1>4 DEF LastLink

(* What folded puts together of a run and the runs that stand for its children. *)
LinkedRun(r, ls, whole, runs) ==
  MapThenFoldSet(LAMBDA l, x : mergeLinkedSubagentRun(x, whole[CHOOSE y \in runs : y.query = l.child], l.act),
                 r, LAMBDA l : l, LastLink, ls)

(* linked holds what each set of links makes of r.                            *)
IsLinking(linked, r, ls, whole, runs) ==
  linked = [s \in SUBSET ls |->
              IF s = {} THEN r
              ELSE mergeLinkedSubagentRun(linked[s \ {LastLink(s)}],
                                          whole[CHOOSE y \in runs : y.query = LastLink(s).child], LastLink(s).act)]

(* There is such a function, and it makes the linked run.                     *)
LEMMA LinkingExists ==
  ASSUME NEW r, NEW ls, SoundLinks(ls), NEW whole, NEW runs
  PROVE  \E f : IsLinking(f, r, ls, whole, runs) /\ LinkedRun(r, ls, whole, runs) = f[ls]
<1> DEFINE kid(l) == whole[CHOOSE y \in runs : y.query = l.child]
           take(l, x) == mergeLinkedSubagentRun(x, kid(l), l.act)
           Value(f, s) == IF s = {} THEN r ELSE take(LastLink(s), f[s \ {LastLink(s)}])
           Layer(n) == {s \in SUBSET ls : Cardinality(s) <= n}
           Numbers == {n \in Nat : \E f : f = [s \in Layer(n) |-> Value(f, s)]}
<1>1. \A s \in SUBSET ls : IsFiniteSet(s) /\ Cardinality(s) \in Nat /\ Cardinality(s) <= Cardinality(ls)
  BY FS_Subset, FS_CardinalityType DEF SoundLinks
<1>2. ASSUME NEW s \in SUBSET ls, s # {}
      PROVE  LastLink(s) \in s /\ Cardinality(s \ {LastLink(s)}) = Cardinality(s) - 1
  <2>1. SoundLinks(s)
    BY <1>1 DEF SoundLinks
  <2>2. LastLink(s) \in s
    BY <1>2, <2>1, LastLinkIsIn
  <2> QED BY <1>1, <2>2, FS_RemoveElement
<1> HIDE DEF kid
<1>3. PICK it : it = [s \in SUBSET ls |-> Value(it, s)]
  <2>1. 0 \in Numbers
    <3>1. \A s \in Layer(0) : s = {}
      BY <1>1, FS_EmptySet
    <3>2. PICK f : f = [s \in Layer(0) |-> r]
      OBVIOUS
    <3>3. \A s \in Layer(0) : Value(f, s) = r
      BY <3>1
    <3>4. f = [s \in Layer(0) |-> Value(f, s)]
      <4> HIDE DEF Layer, Value
      <4> QED BY <3>2, <3>3
    <3> HIDE DEF Layer, Value
    <3> QED BY <3>4
  <2>2. ASSUME NEW n \in Nat, n \in Numbers PROVE n + 1 \in Numbers
    <3> HIDE DEF take
    <3>1. PICK f : f = [s \in Layer(n) |-> Value(f, s)]
      BY <2>2
    <3>2. PICK g : g = [s \in Layer(n + 1) |-> IF s \in Layer(n) THEN f[s] ELSE Value(f, s)]
      OBVIOUS
    <3>3. \A s \in Layer(n + 1) : s # {} =>
            s \ {LastLink(s)} \in Layer(n) /\ s \ {LastLink(s)} \in Layer(n + 1)
      BY <1>1, <1>2
    <3>4. \A s \in Layer(n) : s \in Layer(n + 1)
      BY <1>1
    <3>5. \A s \in Layer(n) : g[s] = f[s] /\ f[s] = Value(f, s)
      BY <3>1, <3>2, <3>4
    <3>6. \A s \in Layer(n + 1) : Value(g, s) = Value(f, s)
      <4> HIDE DEF Layer
      <4> QED BY <3>3, <3>5
    <3>7. \A s \in Layer(n + 1) : g[s] = Value(g, s)
      <4> HIDE DEF Layer, Value
      <4> QED BY <3>2, <3>5, <3>6
    <3>8. g = [s \in Layer(n + 1) |-> Value(g, s)] /\ n + 1 \in Nat
      <4> HIDE DEF Layer, Value
      <4> QED BY <3>2, <3>7
    <3> HIDE DEF Layer, Value
    <3> QED BY <3>8
  <2>3. Cardinality(ls) \in Numbers
    <3> HIDE DEF Numbers
    <3> QED BY <1>1, <2>1, <2>2, FromZero
  <2>4. Layer(Cardinality(ls)) = SUBSET ls
    BY <1>1
  <2> HIDE DEF Layer, Value
  <2> QED BY <2>3, <2>4
<1>4. LinkedRun(r, ls, whole, runs) = (CHOOSE f : f = [s \in SUBSET ls |-> Value(f, s)])[ls]
  BY DEF LinkedRun, MapThenFoldSet, kid
<1>5. PICK f : f = [s \in SUBSET ls |-> Value(f, s)] /\ LinkedRun(r, ls, whole, runs) = f[ls]
  <2> HIDE DEF Value
  <2> QED BY <1>3, <1>4
<1>6. IsLinking(f, r, ls, whole, runs)
  BY <1>5 DEF IsLinking, kid
<1> QED BY <1>5, <1>6

Relinked(f, s, whole, runs) ==
  \E l \in s : f[s] = mergeLinkedSubagentRun(f[s \ {l}], whole[CHOOSE y \in runs : y.query = l.child], l.act)

(* The last link is merged into what the others make.                         *)
LEMMA LinkingUnfolds ==
  ASSUME NEW f, NEW r, NEW ls, SoundLinks(ls), NEW whole, NEW runs, IsLinking(f, r, ls, whole, runs),
         NEW s, s \subseteq ls
  PROVE  (s = {} => f[s] = r) /\ (s # {} => Relinked(f, s, whole, runs))
<1>1. s \in SUBSET ls
  OBVIOUS
<1>2. CASE s = {}
  BY <1>1, <1>2 DEF IsLinking
<1>3. CASE s # {}
  <2>1. SoundLinks(s)
    BY FS_Subset DEF SoundLinks
  <2>2. PICK l : l = LastLink(s)
    OBVIOUS
  <2>3. l \in s
    BY <1>3, <2>1, <2>2, LastLinkIsIn
  <2>4. f[s] = mergeLinkedSubagentRun(f[s \ {l}], whole[CHOOSE y \in runs : y.query = l.child], l.act)
    BY <1>1, <1>3, <2>2 DEF IsLinking
  <2> QED BY <1>3, <2>3, <2>4 DEF Relinked
<1> QED BY <1>2, <1>3

(* One child after another joins a run that had none, and it stays balanced.  *)
LEMMA LinkedRunIs ==
  ASSUME NEW r, BalancedRun(r), Under(r.rows, {}), NEW ls, SoundLinks(ls), NEW whole, NEW runs,
         \A l \in ls : BalancedRun(whole[CHOOSE y \in runs : y.query = l.child]),
         NEW done, done = LinkedRun(r, ls, whole, runs)
  PROVE  BalancedRun(done) /\ done.query = r.query
<1> DEFINE kid(l) == whole[CHOOSE y \in runs : y.query = l.child]
<1>1. PICK f : IsLinking(f, r, ls, whole, runs) /\ done = f[ls]
  BY LinkingExists
<1> DEFINE Ids(s) == {l.act.id : l \in s}
           Good == {s \in SUBSET ls : BalancedRun(f[s]) /\ f[s].query = r.query /\ Under(f[s].rows, Ids(s))}
<1>2. ASSUME NEW s \in SUBSET ls, \A u \in SUBSET s : u # s => u \in Good
      PROVE  s \in Good
  <2>1. (s = {} => f[s] = r) /\ (s # {} => Relinked(f, s, whole, runs))
    BY <1>1, LinkingUnfolds
  <2>2. CASE s = {}
    <3>1. f[s] = r /\ Ids(s) = {}
      BY <2>1, <2>2
    <3> QED BY <3>1
  <2>3. CASE s # {}
    <3>1. PICK l \in s : f[s] = mergeLinkedSubagentRun(f[s \ {l}], kid(l), l.act)
      BY <2>1, <2>3 DEF Relinked
    <3> HIDE DEF kid
    <3>2. PICK u : u = s \ {l}
      OBVIOUS
    <3>3. l \in ls /\ u \in SUBSET s /\ u # s /\ u \in SUBSET ls
      BY <3>1, <3>2
    <3>4. BalancedRun(f[u]) /\ f[u].query = r.query /\ Under(f[u].rows, Ids(u))
      BY <1>2, <3>3
    <3>5. l.act.id \in Nat /\ l.act.id \notin Ids(u) /\ Ids(s) = Ids(u) \cup {l.act.id}
      <4>1. \A m \in u : m.act.id # l.act.id
        BY <3>2, <3>3 DEF SoundLinks
      <4> QED BY <3>1, <3>2, <3>3, <4>1 DEF SoundLinks
    <3>6. BalancedRun(kid(l))
      BY <3>3 DEF kid
    <3>7. PICK x, y, a, S, z : x = f[u] /\ y = kid(l) /\ a = l.act /\ S = Ids(u) /\ z = mergeLinkedSubagentRun(x, y, a)
      OBVIOUS
    <3> HIDE DEF Ids
    <3>8. BalancedRun(z) /\ Under(z.rows, S \cup {a.id}) /\ z.query = x.query
      <4>1. a.id \in Nat /\ a.id \notin S /\ BalancedRun(x) /\ BalancedRun(y) /\ Under(x.rows, S)
        BY <3>4, <3>5, <3>6, <3>7
      <4>2. z = mergeLinkedSubagentRun(x, y, a)
        BY <3>7
      <4> QED BY <4>1, <4>2, MergedRunIs
    <3>9. f[s] = z
      BY <3>1, <3>2, <3>7
    <3> QED BY <3>4, <3>5, <3>7, <3>8, <3>9
  <2> QED BY <2>2, <2>3
<1>3. ls \in Good
  <2>1. SUBSET ls \subseteq Good
    <3> HIDE DEF Good
    <3> QED BY <1>2, SmallerFirst DEF SoundLinks
  <2> QED BY <2>1
<1> QED BY <1>1, <1>3

(* A run is linked by an activity, and to a run.                              *)
LEMMA LinksAre ==
  ASSUME NEW runs, IsFiniteSet(runs), NEW told, ActSet(told)
  PROVE  /\ SoundLinks(Links(runs, told))
         /\ \A l \in Links(runs, told) : \E r \in runs : r.query = l.child
<1> DEFINE children(a) == {r \in runs : r.session = a.child}
           candidates == {a \in told : /\ a.kind = "subagent" /\ a.child # None
                                       /\ Cardinality(children(a)) = 1
                                       /\ \A r \in children(a) : r.query # a.query
                                       /\ \E r \in runs : r.query = a.query}
           link(a) == [parent |-> a.query, act |-> a, child |-> (CHOOSE r \in children(a) : TRUE).query]
           links == {link(a) : a \in candidates}
<1>1. Links(runs, told) \subseteq links
  BY DEF Links
<1>2. ASSUME NEW a \in candidates
      PROVE  link(a).act = a /\ a \in told /\ a.id \in Nat /\ \E r \in runs : r.query = link(a).child
  <2>1. a \in told /\ Cardinality(children(a)) = 1
    OBVIOUS
  <2>2. children(a) # {}
    BY <2>1, FS_EmptySet
  <2>3. (CHOOSE r \in children(a) : TRUE) \in runs
    BY <2>2
  <2>4. link(a).act = a /\ link(a).child = (CHOOSE r \in children(a) : TRUE).query
    OBVIOUS
  <2> HIDE DEF link, children
  <2> QED BY <2>1, <2>3, <2>4 DEF ActSet, ActivityAtom
<1>3. IsFiniteSet(links)
  <2>1. PICK f : f = [a \in candidates |-> link(a)]
    OBVIOUS
  <2>2. candidates \subseteq told
    OBVIOUS
  <2> HIDE DEF candidates, link
  <2>3. IsFiniteSet(candidates)
    BY <2>2, FS_Subset DEF ActSet
  <2>4. IsFiniteSet({f[a] : a \in candidates})
    BY <2>3, ImagesAreFinite
  <2>5. {f[a] : a \in candidates} = links
    BY <2>1
  <2> HIDE DEF links
  <2> QED BY <2>4, <2>5
<1> HIDE DEF link, candidates
<1>4. \A l \in links : l.act \in told /\ l.act.id \in Nat /\ (\E r \in runs : r.query = l.child) /\ l = link(l.act)
  BY <1>2
<1> HIDE DEF links
<1>5. \A l, m \in links : l.act.id = m.act.id => l = m
  BY <1>4 DEF ActSet, NamedApart
<1>6. IsFiniteSet(Links(runs, told))
  BY <1>1, <1>3, FS_Subset
<1> QED BY <1>1, <1>4, <1>5, <1>6 DEF SoundLinks

(* layers holds what each number of layers of links makes of each run.       *)
IsLayering(layers, runs, links, N) ==
  layers = [n \in 0 .. N |->
              [r \in runs |->
                 IF n = 0 THEN r
                 ELSE finalizeLinkedSubagentBreakdown(
                        LinkedRun(r, {l \in links : l.parent = r.query}, layers[n - 1], runs),
                        {l \in links : l.parent = r.query})]]

(* There is such a function, and the last of its layers holds the outcome.    *)
LEMMA LayeringExists ==
  ASSUME NEW runs, IsFiniteSet(runs), NEW told, NEW links, links = Links(runs, told),
         NEW N \in Nat, N = Cardinality(runs)
  PROVE  \E f : /\ IsLayering(f, runs, links, N)
                /\ aggregateLinkedSubagentRuns(runs, told) =
                     {f[N][r] : r \in {x \in runs : ~\E l \in links : l.child = x.query}}
<1> DEFINE below(r) == {l \in links : l.parent = r.query}
           grown(g, r) == finalizeLinkedSubagentBreakdown(LinkedRun(r, below(r), g, runs), below(r))
           Value(f, n) == [r \in runs |-> IF n = 0 THEN r ELSE grown(f[n - 1], r)]
           Numbers == {m \in Nat : \E f : f = [n \in 0 .. m |-> Value(f, n)]}
<1>1. PICK it : it = [n \in 0 .. N |-> Value(it, n)]
  <2> HIDE DEF grown
  <2>1. 0 \in Numbers
    <3>1. PICK f : f = [n \in 0 .. 0 |-> [r \in runs |-> r]]
      OBVIOUS
    <3>2. \A n \in 0 .. 0 : Value(f, n) = [r \in runs |-> r]
      OBVIOUS
    <3> HIDE DEF Value
    <3> QED BY <3>1, <3>2
  <2>2. ASSUME NEW m \in Nat, m \in Numbers PROVE m + 1 \in Numbers
    <3>1. PICK f : f = [n \in 0 .. m |-> Value(f, n)]
      BY <2>2
    <3>2. PICK g : g = [n \in 0 .. (m + 1) |-> IF n \in 0 .. m THEN f[n] ELSE Value(f, n)]
      OBVIOUS
    <3>3. \A n \in 0 .. m : n \in 0 .. (m + 1) /\ g[n] = f[n] /\ f[n] = Value(f, n)
      <4> HIDE DEF Value
      <4> QED BY <3>1, <3>2
    <3>4. \A n \in 0 .. (m + 1) : Value(g, n) = Value(f, n)
      <4> TAKE n \in 0 .. (m + 1)
      <4>1. CASE n = 0
        BY <4>1
      <4>2. CASE n # 0
        <5>1. n - 1 \in 0 .. m
          BY <4>2
        <5>2. g[n - 1] = f[n - 1]
          BY <3>3, <5>1
        <5> QED BY <5>2
      <4> QED BY <4>1, <4>2
    <3> HIDE DEF Value
    <3>5. \A n \in 0 .. (m + 1) : g[n] = Value(g, n)
      BY <3>2, <3>3, <3>4
    <3>6. g = [n \in 0 .. (m + 1) |-> Value(g, n)] /\ m + 1 \in Nat
      BY <3>2, <3>5
    <3> QED BY <3>6
  <2> HIDE DEF Numbers
  <2>3. N \in Numbers
    BY <2>1, <2>2, FromZero
  <2> QED BY <2>3 DEF Numbers
<1>2. aggregateLinkedSubagentRuns(runs, told)
        = {(CHOOSE f : f = [n \in 0 .. N |-> Value(f, n)])[N][r] :
             r \in {x \in runs : ~\E l \in links : l.child = x.query}}
  BY DEF aggregateLinkedSubagentRuns, LinkedRun
<1>3. PICK f : f = CHOOSE g : g = [n \in 0 .. N |-> Value(g, n)]
  OBVIOUS
<1>4. aggregateLinkedSubagentRuns(runs, told) = {f[N][r] : r \in {x \in runs : ~\E l \in links : l.child = x.query}}
  <2> HIDE DEF Value
  <2> QED BY <1>2, <1>3
<1>5. f = [n \in 0 .. N |-> Value(f, n)]
  <2> HIDE DEF Value
  <2> QED BY <1>1, <1>3
<1>6. IsLayering(f, runs, links, N)
  BY <1>5 DEF IsLayering
<1> HIDE DEF Value
<1> QED BY <1>4, <1>6

(* A layer is made of the one below it.                                       *)
LEMMA LayeringUnfolds ==
  ASSUME NEW f, NEW runs, NEW links, NEW N \in Nat, IsLayering(f, runs, links, N), NEW r \in runs
  PROVE  /\ f[0][r] = r
         /\ \A n \in Nat : n + 1 <= N =>
              \E ls : /\ ls = {l \in links : l.parent = r.query}
                      /\ f[n + 1][r] = finalizeLinkedSubagentBreakdown(LinkedRun(r, ls, f[n], runs), ls)
<1>1. 0 \in 0 .. N
  OBVIOUS
<1>2. f[0][r] = r
  BY <1>1 DEF IsLayering
<1>3. ASSUME NEW n \in Nat, n + 1 <= N
      PROVE  \E ls : /\ ls = {l \in links : l.parent = r.query}
                     /\ f[n + 1][r] = finalizeLinkedSubagentBreakdown(LinkedRun(r, ls, f[n], runs), ls)
  <2>1. n + 1 \in 0 .. N /\ (n + 1) - 1 = n /\ n + 1 # 0
    BY <1>3
  <2>2. PICK ls : ls = {l \in links : l.parent = r.query}
    OBVIOUS
  <2>3. f[n + 1][r] = finalizeLinkedSubagentBreakdown(LinkedRun(r, ls, f[n], runs), ls)
    <3>1. PICK m : m = n + 1
      OBVIOUS
    <3>2. m \in 0 .. N /\ m # 0 /\ m - 1 = n
      BY <2>1, <3>1
    <3>3. PICK g : g = [x \in runs |-> IF m = 0 THEN x
                                      ELSE finalizeLinkedSubagentBreakdown(
                                             LinkedRun(x, {l \in links : l.parent = x.query}, f[m - 1], runs),
                                             {l \in links : l.parent = x.query})]
      OBVIOUS
    <3>4. f[m] = g
      BY <3>2, <3>3 DEF IsLayering
    <3>5. g[r] = finalizeLinkedSubagentBreakdown(LinkedRun(r, {l \in links : l.parent = r.query}, f[m - 1], runs),
                                                {l \in links : l.parent = r.query})
      BY <3>2, <3>3
    <3>6. f[m][r] = finalizeLinkedSubagentBreakdown(LinkedRun(r, ls, f[m - 1], runs), ls)
      BY <2>2, <3>4, <3>5
    <3> QED BY <3>1, <3>2, <3>6
  <2> QED BY <2>2, <2>3
<1> QED BY <1>2, <1>3

(* Runs balance again once their children have joined them, layer by layer.   *)
LEMMA AggregatedRunsAre ==
  ASSUME NEW runs, IsFiniteSet(runs), \A r \in runs : BalancedRun(r) /\ Under(r.rows, {}),
         NEW told, ActSet(told)
  PROVE  \A r \in aggregateLinkedSubagentRuns(runs, told) : BalancedRun(r)
<1>0. PICK N : N = Cardinality(runs)
  OBVIOUS
<1>1. N \in Nat
  BY <1>0, FS_CardinalityType
<1>2. PICK links : links = Links(runs, told)
  OBVIOUS
<1>3. SoundLinks(links) /\ \A l \in links : \E r \in runs : r.query = l.child
  BY <1>2, LinksAre
<1>4. PICK f : /\ IsLayering(f, runs, links, N)
               /\ aggregateLinkedSubagentRuns(runs, told) =
                    {f[N][r] : r \in {x \in runs : ~\E l \in links : l.child = x.query}}
  BY <1>0, <1>1, <1>2, LayeringExists
<1> DEFINE Good == {n \in Nat : n <= N => \A r \in runs : BalancedRun(f[n][r])}
<1>5. 0 \in Good
  BY <1>1, <1>4, LayeringUnfolds
<1>6. ASSUME NEW n \in Nat, n \in Good PROVE n + 1 \in Good
  <2> SUFFICES ASSUME n + 1 <= N, NEW r \in runs PROVE BalancedRun(f[n + 1][r])
    OBVIOUS
  <2>1. \A x \in runs : BalancedRun(f[n][x])
    BY <1>1, <1>6
  <2>2. PICK ls : /\ ls = {l \in links : l.parent = r.query}
                  /\ f[n + 1][r] = finalizeLinkedSubagentBreakdown(LinkedRun(r, ls, f[n], runs), ls)
    BY <1>1, <1>4, LayeringUnfolds
  <2>3. SoundLinks(ls) /\ \A l \in ls : \E x \in runs : x.query = l.child
    BY <1>3, <2>2, FS_Subset DEF SoundLinks
  <2>4. PICK g : g = f[n]
    OBVIOUS
  <2>5. \A l \in ls : BalancedRun(g[CHOOSE y \in runs : y.query = l.child])
    BY <2>1, <2>3, <2>4
  <2>6. PICK x : x = LinkedRun(r, ls, g, runs)
    OBVIOUS
  <2>7. BalancedRun(x)
    BY <2>3, <2>5, <2>6, LinkedRunIs
  <2>8. PICK y : y = finalizeLinkedSubagentBreakdown(x, ls)
    OBVIOUS
  <2>9. BalancedRun(y)
    BY <2>7, <2>8, FinalizedRowsAre
  <2> QED BY <2>2, <2>4, <2>6, <2>8, <2>9
<1>7. N \in Good
  <2> HIDE DEF Good
  <2> QED BY <1>1, <1>5, <1>6, FromZero
<1>8. \A r \in runs : BalancedRun(f[N][r])
  BY <1>1, <1>7
<1> HIDE DEF Good
<1> QED BY <1>4, <1>8

(* Fewer activities are as far apart.                                         *)
LEMMA SomeActs ==
  ASSUME NEW as, ActSet(as), NEW some, some \subseteq as
  PROVE  ActSet(some)
  BY FS_Subset DEF ActSet, NamedApart

LEMMA NothingYet == AtomSet({}) /\ ActSet({})
  BY FS_EmptySet DEF AtomSet, ActSet, NamedApart

(* r is projected of one turn: from the usage asked for under its query, or   *)
(* from its occurrence alone.                                                 *)
OneTurn(r, provider, customer, time, known, merged) ==
  \/ \E q \in {a.query : a \in customer} :
        r = projectGroup(provider, q, {y \in customer : y.query = q}, time, OccurrenceOf(known, q),
                         {y \in merged : y.query = q})
  \/ \E o \in known : Outcome(o) /\ r = projectOccurrenceOnlyGroup(provider, o, {y \in merged : y.query = o.query})

(* Finitely many runs, each of one turn, are linked together.                 *)
Projection(runs, provider, used, time, known, seen) ==
  \E customer, merged, all :
     /\ customer \subseteq Visible(used, known) /\ ActSet(merged) /\ IsFiniteSet(all)
     /\ \A r \in all : OneTurn(r, provider, customer, time, known, merged)
     /\ runs = aggregateLinkedSubagentRuns(all, merged)

LEMMA ProjectionIs ==
  ASSUME NEW provider, NEW used, AtomSet(used), NEW time, NEW known, IsFiniteSet(known), NEW seen, ActSet(seen)
  PROVE  Projection(project(provider, used, time, known, seen), provider, used, time, known, seen)
<1>1. PICK visible : visible = Visible(used, known)
  OBVIOUS
<1>2. PICK customer : customer = visible \ Titles(visible)
  OBVIOUS
<1>3. PICK merged : merged = Activities(provider, Visible(seen, known))
  OBVIOUS
<1> DEFINE of(x, q) == {y \in x : y.query = q}
           asked == {a.query : a \in customer}
           group(q) == projectGroup(provider, q, of(customer, q), time, OccurrenceOf(known, q), of(merged, q))
           alone(o) == projectOccurrenceOnlyGroup(provider, o, of(merged, o.query))
           ended == {p \in known : Outcome(p) /\ p.query \notin asked}
           runs == {group(q) : q \in asked}
           silent == {alone(o) : o \in ended}
<1>4. project(provider, used, time, known, seen) = aggregateLinkedSubagentRuns(runs \cup silent, merged)
  BY <1>1, <1>2, <1>3 DEF project
<1>5. AtomSet(customer) /\ customer \subseteq Visible(used, known)
  <2>1. customer \subseteq visible /\ customer \subseteq used
    BY <1>1, <1>2 DEF Visible
  <2> QED BY <1>1, <2>1, SomeAtoms
<1>6. ActSet(merged)
  <2>1. Visible(seen, known) \subseteq seen
    BY DEF Visible
  <2>2. ActSet(Visible(seen, known))
    BY <2>1, SomeActs
  <2> QED BY <1>3, <2>2, ActivitiesAre
<1>7. IsFiniteSet(runs) /\ IsFiniteSet(silent)
  <2>1. PICK f : f = [a \in customer |-> a.query]
    OBVIOUS
  <2>2. IsFiniteSet({f[a] : a \in customer})
    BY <1>5, ImagesAreFinite DEF AtomSet
  <2>3. {f[a] : a \in customer} = asked
    BY <2>1
  <2>4. IsFiniteSet(asked)
    <3> HIDE DEF asked
    <3> QED BY <2>2, <2>3
  <2>5. ended \subseteq known
    OBVIOUS
  <2> HIDE DEF ended, asked
  <2>6. IsFiniteSet(ended)
    BY <2>5, FS_Subset
  <2> HIDE DEF group, alone
  <2>7. PICK g : g = [q \in asked |-> group(q)]
    OBVIOUS
  <2>8. PICK h : h = [o \in ended |-> alone(o)]
    OBVIOUS
  <2>9. IsFiniteSet({g[q] : q \in asked}) /\ IsFiniteSet({h[o] : o \in ended})
    BY <2>4, <2>6, ImagesAreFinite
  <2>10. {g[q] : q \in asked} = runs /\ {h[o] : o \in ended} = silent
    BY <2>7, <2>8
  <2> HIDE DEF runs, silent
  <2> QED BY <2>9, <2>10
<1>8. ASSUME NEW r \in runs \cup silent PROVE OneTurn(r, provider, customer, time, known, merged)
  <2>1. CASE r \in runs
    <3>1. PICK q \in asked : r = group(q)
      BY <2>1
    <3> QED BY <3>1 DEF OneTurn
  <2>2. CASE r \in silent
    <3>1. PICK o \in known : Outcome(o) /\ r = alone(o)
      BY <2>2
    <3> QED BY <3>1 DEF OneTurn
  <2> QED BY <2>1, <2>2
<1>9. PICK all : all = runs \cup silent
  OBVIOUS
<1> HIDE DEF runs, silent
<1>10. IsFiniteSet(all) /\ \A r \in all : OneTurn(r, provider, customer, time, known, merged)
  BY <1>7, <1>8, <1>9, FS_Union
<1> QED BY <1>4, <1>5, <1>6, <1>9, <1>10 DEF Projection

(* Every run that is projected from finite evidence adds up.                  *)
LEMMA ProjectedRunsAre ==
  ASSUME NEW provider, NEW used, AtomSet(used), NEW time, NEW known, IsFiniteSet(known), NEW seen, ActSet(seen)
  PROVE  \A r \in project(provider, used, time, known, seen) : BalancedRun(r)
<1>1. PICK runs : runs = project(provider, used, time, known, seen)
  OBVIOUS
<1>2. Projection(runs, provider, used, time, known, seen)
  BY <1>1, ProjectionIs
<1>3. PICK customer, merged, all :
        /\ customer \subseteq Visible(used, known) /\ ActSet(merged) /\ IsFiniteSet(all)
        /\ \A r \in all : OneTurn(r, provider, customer, time, known, merged)
        /\ runs = aggregateLinkedSubagentRuns(all, merged)
  BY <1>2 DEF Projection
<1>4. AtomSet(customer)
  BY <1>3, SomeAtoms DEF Visible
<1>5. ASSUME NEW r \in all PROVE BalancedRun(r) /\ Under(r.rows, {})
  <2>1. CASE \E q : r = projectGroup(provider, q, {y \in customer : y.query = q}, time, OccurrenceOf(known, q),
                                     {y \in merged : y.query = q})
    <3>1. PICK q : r = projectGroup(provider, q, {y \in customer : y.query = q}, time, OccurrenceOf(known, q),
                                    {y \in merged : y.query = q})
      BY <2>1
    <3>2. PICK as, told, o : /\ as = {y \in customer : y.query = q} /\ told = {y \in merged : y.query = q}
                             /\ o = OccurrenceOf(known, q)
      OBVIOUS
    <3>3. as \subseteq customer /\ told \subseteq merged
      BY <3>2
    <3>4. AtomSet(as) /\ ActSet(told)
      BY <1>3, <1>4, <3>3, SomeAtoms, SomeActs
    <3>5. r = projectGroup(provider, q, as, time, o, told)
      BY <3>1, <3>2
    <3>6. OwnRun(r, q)
      BY <3>4, <3>5, ProjectedGroupIs
    <3> QED BY <3>6 DEF OwnRun, Under
  <2>2. CASE \E o \in known : r = projectOccurrenceOnlyGroup(provider, o, {y \in merged : y.query = o.query})
    <3>1. PICK o \in known : r = projectOccurrenceOnlyGroup(provider, o, {y \in merged : y.query = o.query})
      BY <2>2
    <3>2. PICK told : told = {y \in merged : y.query = o.query}
      OBVIOUS
    <3>3. told \subseteq merged
      BY <3>2
    <3>4. ActSet(told)
      BY <1>3, <3>3, SomeActs
    <3>5. OwnRun(r, o.query)
      BY <3>1, <3>2, <3>4, SilentGroupIs
    <3> QED BY <3>5 DEF OwnRun, Under
  <2> QED BY <1>3, <2>1, <2>2 DEF OneTurn
<1>6. \A r \in runs : BalancedRun(r)
  BY <1>3, <1>5, AggregatedRunsAre
<1> QED BY <1>1, <1>6

(* The rows of each run add up to its totals.                                 *)
Conserved(runs) == \A r \in runs : TokensOf(r.rows) = r.tokens

(* The completed runs of a pass are among the projected ones.                 *)
LEMMA CompletedRunsAre ==
  ASSUME NEW used, AtomSet(used), NEW known, IsFiniteSet(known), NEW seen, ActSet(seen)
  PROVE  Conserved(Completed(used, known, seen))
<1>1. Completed(used, known, seen) \subseteq project(feed.provider, used, now, known, seen)
  BY DEF Completed, projectProduction
<1>2. PICK runs : runs = project(feed.provider, used, now, known, seen)
  OBVIOUS
<1>3. \A r \in runs : BalancedRun(r)
  BY <1>2, ProjectedRunsAre
<1> QED BY <1>1, <1>2, <1>3 DEF Conserved, BalancedRun, BalancedRows

(* A family grows out of its members and the turns that are known.            *)
LEMMA FamilyIsFinite ==
  ASSUME NEW known, IsFiniteSet(known), NEW members, IsFiniteSet(members), NEW root, NEW until
  PROVE  IsFiniteSet(ByParent(known, members, root, until))
<1>0. PICK N : N = Cardinality(known)
  OBVIOUS
<1>1. N \in Nat
  BY <1>0, FS_CardinalityType
<1> DEFINE from(o, m) == o.parent # None /\ m.session = o.parent
           more(X) == X \cup {o \in known : Within(o, root, until) /\ \E m \in X : from(o, m)}
           V == SUBSET (known \cup members)
           Grown(f) == f = [n \in 0 .. N |-> IF n = 0 THEN members ELSE more(f[n - 1])]
<1>2. ByParent(known, members, root, until) = (CHOOSE f : Grown(f))[N]
  BY <1>0 DEF ByParent
<1>3. \A X \in V : more(X) \in V
  OBVIOUS
<1> HIDE DEF more
<1>4. \E f : Grown(f)
  <2>1. PICK step : step = [X \in V |-> more(X)]
    OBVIOUS
  <2>2. KeepsTo(step, V)
    BY <1>3, <2>1 DEF KeepsTo
  <2>3. members \in V
    OBVIOUS
  <2> HIDE DEF V
  <2>4. PICK f : IsChain(f, V, members, step, N)
    BY <1>1, <2>2, <2>3, ChainExists
  <2>5. \A n \in 0 .. N : f[n] = IF n = 0 THEN members ELSE more(f[n - 1])
    <3> TAKE n \in 0 .. N
    <3>1. CASE n = 0
      BY <2>4, <3>1 DEF IsChain
    <3>2. CASE n # 0
      <4>1. n \in 1 .. N /\ n - 1 \in 0 .. N
        BY <1>1, <3>2
      <4>2. f[n] = step[f[n - 1]] /\ f[n - 1] \in V
        BY <2>4, <4>1 DEF IsChain
      <4> QED BY <2>1, <3>2, <4>2
    <3> QED BY <3>1, <3>2
  <2>6. f = [n \in 0 .. N |-> IF n = 0 THEN members ELSE more(f[n - 1])]
    BY <2>4, <2>5 DEF IsChain
  <2> QED BY <2>6
<1>5. PICK f : Grown(f) /\ ByParent(known, members, root, until) = f[N]
  <2> HIDE DEF Grown
  <2> QED BY <1>2, <1>4
<1> DEFINE Good == {n \in Nat : n <= N => f[n] \in V}
<1>6. 0 \in Good
  <2>1. f[0] = members
    BY <1>1, <1>5
  <2> QED BY <2>1
<1>7. ASSUME NEW n \in Nat, n \in Good PROVE n + 1 \in Good
  <2> SUFFICES ASSUME n + 1 <= N PROVE f[n + 1] \in V
    OBVIOUS
  <2>1. n <= N /\ n + 1 \in 0 .. N /\ (n + 1) - 1 = n /\ n + 1 # 0
    BY <1>1
  <2>2. f[n] \in V
    BY <1>7, <2>1
  <2> HIDE DEF V
  <2>3. f[n + 1] = more(f[n])
    BY <1>5, <2>1
  <2> QED BY <1>3, <2>2, <2>3
<1>8. N \in Good
  <2> HIDE DEF Good
  <2> QED BY <1>1, <1>6, <1>7, FromZero
<1>9. f[N] \subseteq known \cup members
  BY <1>1, <1>8
<1>10. IsFiniteSet(known \cup members)
  BY FS_Union
<1> QED BY <1>5, <1>9, <1>10, FS_Subset

(*------------------------- the evidence and passes ----------------------*)

(* The stored evidence, each row with the observation that told it last.      *)
StoredAtoms(stored) == IsFiniteSet(stored) /\ \A s \in stored : UsageAtom(s.value)

StoredActs(stored) ==
  /\ IsFiniteSet(stored) /\ \A s \in stored : ActivityAtom(s.value)
  /\ \A s, t \in stored : s.value.id = t.value.id => s = t

(* A pass holds finite evidence, and runs that add up.                        *)
SoundPass(pass) ==
  /\ DOMAIN pass = {"pc", "root", "epoch", "since", "occs", "members", "asked", "atoms", "acts", "runs"}
  /\ AtomSet(pass.atoms) /\ ActSet(pass.acts) /\ Conserved(pass.runs)
  /\ IsFiniteSet(pass.occs) /\ IsFiniteSet(pass.members)

(* The evidence is finite and well formed, wherever a pass holds it, and the  *)
(* runs a pass, the ledger or retention holds add up.                         *)
BreakdownInv ==
  /\ feed \in Feeds
  /\ StoredAtoms(atoms) /\ StoredActs(acts) /\ IsFiniteSet(occs)
  /\ SoundPass(rebuild)
  /\ DOMAIN scoped = Queries /\ \A q \in Queries : SoundPass(scoped[q])
  /\ DOMAIN upkeep = {"pc", "rows", "cutoff"} /\ Conserved(upkeep.rows)
  /\ Conserved(rows)

(* The values of stored evidence are evidence.                                *)
LEMMA StoredEvidence ==
  /\ \A stored : StoredAtoms(stored) => AtomSet(Values(stored))
  /\ \A stored : StoredActs(stored) => ActSet(Values(stored))
<1>1. ASSUME NEW stored, IsFiniteSet(stored) PROVE IsFiniteSet(Values(stored))
  <2>1. PICK f : f = [s \in stored |-> s.value]
    OBVIOUS
  <2>2. IsFiniteSet({f[s] : s \in stored})
    BY <1>1, ImagesAreFinite
  <2>3. {f[s] : s \in stored} = Values(stored)
    BY <2>1 DEF Values
  <2> QED BY <2>2, <2>3
<1>2. ASSUME NEW stored, StoredAtoms(stored) PROVE AtomSet(Values(stored))
  <2>1. IsFiniteSet(Values(stored))
    BY <1>1, <1>2 DEF StoredAtoms
  <2> QED BY <1>2, <2>1 DEF StoredAtoms, AtomSet, Values
<1>3. ASSUME NEW stored, StoredActs(stored) PROVE ActSet(Values(stored))
  <2>1. IsFiniteSet(Values(stored))
    BY <1>1, <1>3 DEF StoredActs
  <2> QED BY <1>3, <2>1 DEF StoredActs, ActSet, NamedApart, Values
<1> QED BY <1>2, <1>3

LEMMA SinceIsSome == \A stored, from : Since(stored, from) \subseteq Values(stored)
  BY DEF Since, Values

(* Pruning leaves stored evidence.                                            *)
LEMMA SomeStored ==
  ASSUME NEW stored, NEW some, some \subseteq stored
  PROVE  (StoredAtoms(stored) => StoredAtoms(some)) /\ (StoredActs(stored) => StoredActs(some))
  BY FS_Subset DEF StoredAtoms, StoredActs

(* Merging keeps the fields of an atom.                                       *)
LEMMA MergedAtomsAre ==
  ASSUME NEW stored, StoredAtoms(stored), NEW new, AtomSet(new), NEW id
  PROVE  StoredAtoms(Merged(stored, new, id, KeptAtom))
<1> DEFINE old(n) == {s \in stored : s.value.id = n.id}
           kept(n) == IF old(n) = {} THEN n ELSE KeptAtom((CHOOSE s \in old(n) : TRUE).value, n)
           row(n) == [value |-> kept(n), by |-> id]
           rest == {s \in stored : \A n \in new : n.id # s.value.id}
<1>1. Merged(stored, new, id, KeptAtom) = rest \cup {row(n) : n \in new}
  BY DEF Merged
<1>2. ASSUME NEW n \in new PROVE UsageAtom(kept(n))
  <2>1. UsageAtom(n)
    BY DEF AtomSet
  <2>2. PICK x : x = (CHOOSE s \in old(n) : TRUE).value
    OBVIOUS
  <2>3. kept(n) \in {n, KeptAtom(x, n)}
    BY <2>2
  <2>4. UsageAtom(KeptAtom(x, n))
    BY <2>1 DEF UsageAtom, KeptAtom
  <2> HIDE DEF kept
  <2> QED BY <2>1, <2>3, <2>4
<1> HIDE DEF kept
<1>3. IsFiniteSet({row(n) : n \in new})
  <2>1. PICK f : f = [n \in new |-> row(n)]
    OBVIOUS
  <2>2. IsFiniteSet({f[n] : n \in new})
    BY ImagesAreFinite DEF AtomSet
  <2>3. {f[n] : n \in new} = {row(n) : n \in new}
    BY <2>1
  <2> HIDE DEF row
  <2> QED BY <2>2, <2>3
<1>4. rest \subseteq stored
  OBVIOUS
<1> HIDE DEF rest
<1>5. IsFiniteSet(rest \cup {row(n) : n \in new})
  <2> HIDE DEF row
  <2> QED BY <1>3, <1>4, FS_Subset, FS_Union DEF StoredAtoms
<1>6. \A s \in rest \cup {row(n) : n \in new} : UsageAtom(s.value)
  BY <1>2, <1>4 DEF StoredAtoms
<1> HIDE DEF row
<1> QED BY <1>1, <1>5, <1>6 DEF StoredAtoms

(* ... and no two activities of one name are stored.                          *)
LEMMA MergedActsAre ==
  ASSUME NEW stored, StoredActs(stored), NEW new, ActSet(new), NEW id
  PROVE  StoredActs(Merged(stored, new, id, KeptActivity))
<1> DEFINE old(n) == {s \in stored : s.value.id = n.id}
           kept(n) == IF old(n) = {} THEN n ELSE KeptActivity((CHOOSE s \in old(n) : TRUE).value, n)
           row(n) == [value |-> kept(n), by |-> id]
           rest == {s \in stored : \A n \in new : n.id # s.value.id}
<1>1. Merged(stored, new, id, KeptActivity) = rest \cup {row(n) : n \in new}
  BY DEF Merged
<1>2. ASSUME NEW n \in new PROVE ActivityAtom(kept(n)) /\ kept(n).id = n.id
  <2>1. ActivityAtom(n)
    BY DEF ActSet
  <2>2. CASE old(n) = {}
    BY <2>1, <2>2
  <2>3. CASE old(n) # {}
    <3>1. PICK s : s = CHOOSE x \in old(n) : TRUE
      OBVIOUS
    <3>2. s \in stored /\ s.value.id = n.id
      BY <2>3, <3>1
    <3>3. kept(n) \in {s.value, n}
      BY <2>3, <3>1 DEF KeptActivity
    <3> HIDE DEF kept
    <3> QED BY <2>1, <3>2, <3>3 DEF StoredActs
  <2> QED BY <2>2, <2>3
<1> HIDE DEF kept
<1>3. IsFiniteSet({row(n) : n \in new})
  <2>1. PICK f : f = [n \in new |-> row(n)]
    OBVIOUS
  <2>2. IsFiniteSet({f[n] : n \in new})
    BY ImagesAreFinite DEF ActSet
  <2>3. {f[n] : n \in new} = {row(n) : n \in new}
    BY <2>1
  <2> HIDE DEF row
  <2> QED BY <2>2, <2>3
<1>4. rest \subseteq stored /\ \A s \in rest : \A n \in new : n.id # s.value.id
  OBVIOUS
<1> HIDE DEF rest
<1>5. IsFiniteSet(rest \cup {row(n) : n \in new})
  <2> HIDE DEF row
  <2> QED BY <1>3, <1>4, FS_Subset, FS_Union DEF StoredActs
<1>6. \A n \in new : row(n).value = kept(n)
  OBVIOUS
<1>7. \A m, n \in new : row(m).value.id = row(n).value.id => row(m) = row(n)
  BY <1>2 DEF ActSet, NamedApart
<1> HIDE DEF row
<1>8. \A s \in rest \cup {row(n) : n \in new} : ActivityAtom(s.value)
  BY <1>2, <1>4, <1>6 DEF StoredActs
<1>9. \A s, t \in rest \cup {row(n) : n \in new} : s.value.id = t.value.id => s = t
  BY <1>2, <1>4, <1>6, <1>7 DEF StoredActs
<1> QED BY <1>1, <1>5, <1>8, <1>9 DEF StoredActs

(* Merging leaves finitely many turns.                                        *)
LEMMA MergedOccurrencesAreFinite ==
  ASSUME IsFiniteSet(occs), NEW new, IsFiniteSet(new)
  PROVE  IsFiniteSet(MergedOccurrences(new))
<1> DEFINE kept(n) == IF \E o \in occs : o.query = n.query
                      THEN KeptOccurrence(OccurrenceOf(occs, n.query), n) ELSE n
           rest == {o \in occs : \A n \in new : n.query # o.query}
<1>1. MergedOccurrences(new) = rest \cup {kept(n) : n \in new}
  BY DEF MergedOccurrences
<1> HIDE DEF kept
<1>2. IsFiniteSet({kept(n) : n \in new})
  <2>1. PICK f : f = [n \in new |-> kept(n)]
    OBVIOUS
  <2>2. IsFiniteSet({f[n] : n \in new})
    BY ImagesAreFinite
  <2>3. {f[n] : n \in new} = {kept(n) : n \in new}
    BY <2>1
  <2> QED BY <2>2, <2>3
<1>3. IsFiniteSet(rest)
  <2>1. rest \subseteq occs
    OBVIOUS
  <2> HIDE DEF rest
  <2> QED BY <2>1, FS_Subset
<1> HIDE DEF rest
<1> QED BY <1>1, <1>2, <1>3, FS_Union

(* A pass that is not under way holds nothing.                                *)
LEMMA IdleIsSound == SoundPass(Idle) /\ Conserved({})
<1>1. Conserved({}) /\ IsFiniteSet({})
  BY FS_EmptySet DEF Conserved
<1> QED BY <1>1, NothingYet DEF SoundPass, Idle

(* Runs that add up replace runs that do.                                     *)
LEMMA UpsertedRows ==
  ASSUME Conserved(rows), NEW runs, Conserved(runs)
  PROVE  Conserved(Upsert(runs))
  BY DEF Conserved, Upsert

(* The invariant holds at first, and every action keeps it.                   *)
LEMMA BreakdownInit ==
  ASSUME Init
  PROVE  BreakdownInv
<1>1. StoredAtoms({}) /\ StoredActs({}) /\ IsFiniteSet({})
  BY FS_EmptySet DEF StoredAtoms, StoredActs
<1> QED BY <1>1, IdleIsSound DEF Init, BreakdownInv

(* An observation is merged into the evidence; no pass sees it yet.            *)
LEMMA BreakdownObserve ==
  ASSUME BreakdownInv, Observe
  PROVE  BreakdownInv'
<1>1. PICK t \in feed.told : /\ atoms' = Merged(atoms, t.atoms, t.id, KeptAtom)
                             /\ acts' = Merged(acts, t.acts, t.id, KeptActivity)
                             /\ occs' = MergedOccurrences(t.occs)
  BY DEF Observe
<1>2. AtomSet(t.atoms) /\ ActSet(t.acts) /\ IsFiniteSet(t.occs)
  BY UsageAssumption DEF BreakdownInv, AtomSet, ActSet
<1>3. StoredAtoms(atoms') /\ StoredActs(acts') /\ IsFiniteSet(occs')
  <2>1. StoredAtoms(atoms')
    BY <1>1, <1>2, MergedAtomsAre DEF BreakdownInv
  <2>2. StoredActs(acts')
    BY <1>1, <1>2, MergedActsAre DEF BreakdownInv
  <2>3. IsFiniteSet(occs')
    BY <1>1, <1>2, MergedOccurrencesAreFinite DEF BreakdownInv
  <2> QED BY <2>1, <2>2, <2>3
<1>4. UNCHANGED <<feed, rebuild, scoped, upkeep, rows>> /\ Queries' = Queries
  BY DEF Observe, ledger, Queries
<1> QED BY <1>3, <1>4 DEF BreakdownInv

LEMMA BreakdownRebuild ==
  ASSUME BreakdownInv, RebuildStep
  PROVE  BreakdownInv'
<1>1. SoundPass(rebuild) /\ Conserved(rows)
  BY DEF BreakdownInv
<1>2. SoundPass(rebuild') /\ Conserved(rows')
  <2>1. CASE StartRebuild
    <3>1. rebuild' = [Idle EXCEPT !.pc = "rows", !.epoch = epoch] /\ rows' = rows
      BY <2>1 DEF StartRebuild, ledger
    <3> QED BY <1>1, <3>1, IdleIsSound DEF SoundPass
  <2>2. CASE ReadRows
    <3>1. rebuild' = [rebuild EXCEPT !.pc = "occurrences", !.since = projectionStartedAt(rebuild.epoch)] /\ rows' = rows
      BY <2>2 DEF ReadRows, ledger
    <3> QED BY <1>1, <3>1 DEF SoundPass
  <2>3. CASE ReadOccurrences
    <3>1. rebuild' = [rebuild EXCEPT !.pc = "atoms", !.occs = occs] /\ rows' = rows
      BY <2>3 DEF ReadOccurrences, ledger
    <3> QED BY <1>1, <3>1 DEF SoundPass, BreakdownInv
  <2>4. CASE ReadAtoms
    <3>1. PICK used : used = productionAtomsAfterEpoch(Since(atoms, rebuild.since), rebuild.occs, rebuild.epoch)
      OBVIOUS
    <3>2. PICK known : known = occurrencesForProjection(rebuild.occs, used, rebuild.since, rebuild.epoch)
      OBVIOUS
    <3>3. rebuild' = [rebuild EXCEPT !.pc = "project", !.atoms = used, !.occs = known] /\ rows' = rows
      BY <2>4, <3>1, <3>2 DEF ReadAtoms, ledger
    <3>4. used \subseteq Values(atoms) /\ known \subseteq rebuild.occs
      BY <3>1, <3>2, SinceIsSome DEF productionAtomsAfterEpoch, occurrencesForProjection
    <3>5. AtomSet(used)
      BY <3>4, StoredEvidence, SomeAtoms DEF BreakdownInv
    <3>6. IsFiniteSet(known)
      BY <1>1, <3>4, FS_Subset DEF SoundPass
    <3> QED BY <1>1, <3>3, <3>5, <3>6 DEF SoundPass
  <2>5. CASE Project
    <3>1. PICK seen : seen = Since(acts, rebuild.since)
      OBVIOUS
    <3>2. PICK runs : runs = Completed(rebuild.atoms, rebuild.occs, seen)
      OBVIOUS
    <3>3. rebuild' = [Idle EXCEPT !.pc = "upsert", !.epoch = rebuild.epoch, !.runs = runs] /\ rows' = rows
      BY <2>5, <3>1, <3>2 DEF Project, ledger
    <3>4. ActSet(seen)
      BY <3>1, SinceIsSome, StoredEvidence, SomeActs DEF BreakdownInv
    <3>5. Conserved(runs)
      BY <1>1, <3>2, <3>4, CompletedRunsAre DEF SoundPass
    <3> QED BY <1>1, <3>3, <3>5, IdleIsSound DEF SoundPass
  <2>6. CASE UpsertRuns
    <3>1. rows' = Upsert(rebuild.runs) /\ rebuild' = Idle
      BY <2>6 DEF UpsertRuns
    <3> QED BY <1>1, <3>1, IdleIsSound, UpsertedRows DEF SoundPass
  <2> QED BY <2>1, <2>2, <2>3, <2>4, <2>5, <2>6 DEF RebuildStep
<1>3. UNCHANGED <<feed, atoms, acts, occs, scoped, upkeep>> /\ Queries' = Queries
  BY DEF RebuildStep, StartRebuild, ReadRows, ReadOccurrences, ReadAtoms, Project, UpsertRuns, safe, Queries
<1> QED BY <1>2, <1>3 DEF BreakdownInv

LEMMA BreakdownScoped ==
  ASSUME BreakdownInv, NEW q \in Queries, ScopedStep(q)
  PROVE  BreakdownInv'
<1>1. SoundPass(scoped[q]) /\ Conserved(rows) /\ DOMAIN scoped = Queries
  BY DEF BreakdownInv
<1>2. PICK pass : /\ pass = scoped'[q] /\ scoped' = [scoped EXCEPT ![q] = pass]
                  /\ SoundPass(pass) /\ Conserved(rows')
  <2>1. CASE StartScoped(q)
    <3>1. PICK o, root, until : /\ o = OccurrenceOf(occs, q) /\ root = Root(occs, o)
                               /\ until = OrTime(root.completed, o.completed)
      OBVIOUS
    <3>2. PICK members : members = ByParent(occs, {root}, root, until)
      OBVIOUS
    <3>3. PICK start : start = [Idle EXCEPT !.pc = "expand", !.occs = occs, !.root = root.query, !.members = members]
      OBVIOUS
    <3>4. PICK pass \in {start, Idle} : scoped' = [scoped EXCEPT ![q] = pass] /\ rows' = rows
      BY <2>1, <3>1, <3>2, <3>3 DEF StartScoped, ledger
    <3>5. IsFiniteSet(occs) /\ IsFiniteSet({root})
      BY FS_Singleton DEF BreakdownInv
    <3>6. IsFiniteSet(members)
      BY <3>2, <3>5, FamilyIsFinite
    <3>7. SoundPass(pass)
      BY <3>3, <3>4, <3>5, <3>6, IdleIsSound DEF SoundPass
    <3> QED BY <1>1, <3>4, <3>7
  <2>2. CASE ExpandFamily(q)
    <3> DEFINE p == scoped[q]
               root == OccurrenceOf(p.occs, p.root)
               members == ByParent(p.occs, p.members, root, root.completed)
               told == {a \in Values(acts) : \E m \in members \ p.asked : m.query = a.query}
               seen == {a \in p.acts : \A t \in told : t.id # a.id} \cup told
               named == {o \in p.occs : Within(o, root, root.completed) /\ \E a \in told : a.child = o.session}
               family == ByParent(p.occs, members \cup named, root, root.completed)
               ready == [p EXCEPT !.pc = "project", !.occs = members, !.members = {}, !.asked = {}, !.acts = seen]
               more == [p EXCEPT !.members = family, !.asked = members, !.acts = seen]
    <3>1. rows' = rows /\ scoped' = [scoped EXCEPT ![q] = IF family \subseteq members THEN ready ELSE more]
      BY <2>2 DEF ExpandFamily, ledger
    <3>2. PICK pass \in {ready, more} : scoped' = [scoped EXCEPT ![q] = pass]
      <4> HIDE DEF family, members, ready, more
      <4> QED BY <3>1
    <3>3. IsFiniteSet(p.occs) /\ IsFiniteSet(p.members)
      BY <1>1 DEF SoundPass
    <3>4. IsFiniteSet(members)
      <4> HIDE DEF p, root
      <4> QED BY <3>3, FamilyIsFinite
    <3>5. IsFiniteSet(members \cup named)
      <4> HIDE DEF p, root, members, told
      <4>1. named \subseteq p.occs
        OBVIOUS
      <4> HIDE DEF named
      <4> QED BY <4>1, <3>3, <3>4, FS_Subset, FS_Union
    <3>6. IsFiniteSet(family) /\ IsFiniteSet({})
      <4> HIDE DEF p, root, members, named
      <4> QED BY <3>3, <3>5, FamilyIsFinite, FS_EmptySet
    <3>7. ActSet(told) /\ ActSet(p.acts)
      <4> HIDE DEF members
      <4>1. ActSet(told)
        BY StoredEvidence, SomeActs DEF BreakdownInv
      <4> QED BY <4>1, <1>1 DEF SoundPass
    <3>8. ActSet(seen)
      <4> HIDE DEF p, told
      <4>1. IsFiniteSet(seen)
        BY <3>7, FS_Subset, FS_Union DEF ActSet
      <4>2. (\A a \in seen : ActivityAtom(a)) /\ NamedApart(seen)
        BY <3>7 DEF ActSet, NamedApart
      <4> QED BY <4>1, <4>2 DEF ActSet
    <3>9. SoundPass(ready) /\ SoundPass(more)
      <4>1. SoundPass(p)
        BY <1>1
      <4> HIDE DEF p, members, family, seen
      <4> QED BY <4>1, <3>4, <3>6, <3>8 DEF SoundPass
    <3>10. SoundPass(pass)
      <4> HIDE DEF ready, more
      <4> QED BY <3>2, <3>9
    <3> HIDE DEF p, root, members, told, seen, named, family, ready, more
    <3> QED BY <1>1, <3>1, <3>2, <3>10
  <2>3. CASE ProjectScoped(q)
    <3>1. PICK p : p = scoped[q]
      OBVIOUS
    <3>2. PICK used : used = {a \in Values(atoms) : \E o \in p.occs : o.query = a.query}
      OBVIOUS
    <3>3. PICK runs : runs = {r \in Completed(used, p.occs, p.acts) : r.query = p.root}
      OBVIOUS
    <3>4. PICK pass : pass = [Idle EXCEPT !.pc = "upsert", !.runs = runs]
      OBVIOUS
    <3>5. scoped' = [scoped EXCEPT ![q] = pass] /\ rows' = rows
      BY <2>3, <3>1, <3>2, <3>3, <3>4 DEF ProjectScoped, ledger
    <3>6. AtomSet(used)
      BY <3>2, StoredEvidence, SomeAtoms DEF BreakdownInv
    <3>7. Conserved(Completed(used, p.occs, p.acts))
      BY <1>1, <3>1, <3>6, CompletedRunsAre DEF SoundPass
    <3>8. Conserved(runs)
      BY <3>3, <3>7 DEF Conserved
    <3>9. SoundPass(pass)
      BY <3>4, <3>8, IdleIsSound DEF SoundPass
    <3> QED BY <1>1, <3>5, <3>9
  <2>4. CASE UpsertScoped(q)
    <3>1. rows' = Upsert(scoped[q].runs) /\ scoped' = [scoped EXCEPT ![q] = Idle]
      BY <2>4 DEF UpsertScoped
    <3> QED BY <1>1, <3>1, IdleIsSound, UpsertedRows DEF SoundPass
  <2> QED BY <2>1, <2>2, <2>3, <2>4 DEF ScopedStep
<1>3. UNCHANGED <<feed, atoms, acts, occs, rebuild, upkeep>> /\ Queries' = Queries
  BY DEF ScopedStep, StartScoped, ExpandFamily, ProjectScoped, UpsertScoped, safe, Queries
<1>4. DOMAIN scoped' = Queries /\ \A p \in Queries : SoundPass(scoped'[p])
  BY <1>1, <1>2 DEF BreakdownInv
<1> QED BY <1>2, <1>3, <1>4 DEF BreakdownInv

LEMMA BreakdownUpkeep ==
  ASSUME BreakdownInv, Upkeep \/ Reset
  PROVE  BreakdownInv'
<1>1. UNCHANGED <<feed, rebuild, scoped>> /\ Queries' = Queries
  BY DEF Upkeep, Reset, Prune, ReadRetained, ReplaceRetained, DropOldOccurrences, ClearHistory, ClearOccurrences,
         passes, Queries
<1>2. StoredAtoms(atoms') /\ StoredActs(acts') /\ IsFiniteSet(occs')
  <2>1. atoms' \subseteq atoms /\ acts' \subseteq acts /\ occs' \subseteq occs
    BY DEF Upkeep, Reset, Prune, ReadRetained, ReplaceRetained, DropOldOccurrences, ClearHistory, ClearOccurrences, safe
  <2> QED BY <2>1, SomeStored, FS_Subset DEF BreakdownInv
<1>3. DOMAIN upkeep' = {"pc", "rows", "cutoff"} /\ Conserved(upkeep'.rows) /\ Conserved(rows')
  <2>1. DOMAIN upkeep = {"pc", "rows", "cutoff"} /\ Conserved(upkeep.rows) /\ Conserved(rows) /\ Conserved({})
    BY IdleIsSound DEF BreakdownInv
  <2>2. CASE Prune \/ ClearOccurrences
    BY <2>1, <2>2 DEF Prune, ClearOccurrences, ledger
  <2>3. CASE ReadRetained
    <3>1. PICK kept, cutoff : /\ kept = {r \in rows : r.end >= now - KeepRuns}
                             /\ upkeep' = [pc |-> "replace", rows |-> kept, cutoff |-> cutoff] /\ rows' = rows
      BY <2>3 DEF ReadRetained, ledger
    <3>2. Conserved(kept)
      BY <2>1, <3>1 DEF Conserved
    <3> QED BY <2>1, <3>1, <3>2
  <2>4. CASE ReplaceRetained
    <3>1. rows' = upkeep.rows /\ upkeep' = [upkeep EXCEPT !.pc = "occurrences", !.rows = {}]
      BY <2>4 DEF ReplaceRetained
    <3> QED BY <2>1, <3>1
  <2>5. CASE DropOldOccurrences
    BY <2>1, <2>5 DEF DropOldOccurrences, ledger
  <2>6. CASE ClearHistory
    BY <2>1, <2>6 DEF ClearHistory
  <2> QED BY <2>2, <2>3, <2>4, <2>5, <2>6 DEF Upkeep, Reset
<1> QED BY <1>1, <1>2, <1>3 DEF BreakdownInv

LEMMA BreakdownCrash ==
  ASSUME BreakdownInv, Tick \/ Crash
  PROVE  BreakdownInv'
<1>1. UNCHANGED <<feed, atoms, acts, occs, rows>> /\ Queries' = Queries
  BY DEF Tick, Crash, safe, ledger, Queries
<1>2. SoundPass(rebuild') /\ DOMAIN scoped' = Queries /\ \A q \in Queries : SoundPass(scoped'[q])
  BY IdleIsSound DEF Tick, Crash, BreakdownInv
<1>3. DOMAIN upkeep' = {"pc", "rows", "cutoff"} /\ Conserved(upkeep'.rows)
  BY IdleIsSound DEF Tick, Crash, BreakdownInv
<1> QED BY <1>1, <1>2, <1>3 DEF BreakdownInv

LEMMA BreakdownStep ==
  ASSUME BreakdownInv, [Next]_vars
  PROVE  BreakdownInv'
<1>1. CASE Next
  BY <1>1, BreakdownObserve, BreakdownRebuild, BreakdownScoped, BreakdownUpkeep, BreakdownCrash DEF Next
<1>2. CASE UNCHANGED vars
  <2>1. UNCHANGED <<feed, atoms, acts, occs, rebuild, scoped, upkeep, rows>> /\ Queries' = Queries
    BY <1>2 DEF vars, safe, ledger, passes, Queries
  <2> QED BY <2>1 DEF BreakdownInv
<1> QED BY <1>1, <1>2

(* The rows of every stored run's breakdown add up to the run's totals,       *)
(* whatever was told, reconciled, shared out, linked and overwritten          *)
(* (runBreakdown, mergeSubagentBreakdown, aggregateLinkedSubagentRuns).       *)
THEOREM BreakdownAlwaysConserves == Spec => []BreakdownConserves
<1>1. Init => BreakdownInv
  BY BreakdownInit
<1>2. ASSUME BreakdownInv, [Next]_vars PROVE BreakdownInv'
  BY <1>2, BreakdownStep
<1>3. BreakdownInv => BreakdownConserves
  BY DEF BreakdownInv, Conserved, BreakdownConserves
<1> QED BY <1>1, <1>2, <1>3, PTL DEF Spec

(*------------------ what was cleared stays cleared ----------------------*)

(* A time that is not told, or one from then on.                              *)
Timed(time, from) == time = Never \/ (time \in Nat /\ time >= from)

LateRun(r, from) == DOMAIN r = RunFields /\ Timed(r.end, from)

(* The latest of finitely many times is one of them, or none is.              *)
LEMMA LatestIs ==
  ASSUME NEW times, IsFiniteSet(times), times \subseteq Nat \cup {Never}
  PROVE  Latest(times) \in times \cup {Never}
<1>1. PICK all : all = times \cup {Never}
  OBVIOUS
<1>2. IsFiniteSet(all) /\ all \subseteq Int /\ all # {}
  BY <1>1, FS_AddElement DEF Never
<1>3. PICK w : w = [t \in all |-> t]
  OBVIOUS
<1>4. w \in [all -> Int] /\ \A t \in all : w[t] = t
  BY <1>2, <1>3
<1>5. PICK t \in all : \A u \in all : w[u] <= w[t]
  BY <1>2, <1>4, HeaviestExists
<1>6. \A u \in all : t >= u
  BY <1>2, <1>4, <1>5
<1>7. Max(all) \in all
  BY <1>6 DEF Max
<1> QED BY <1>1, <1>7 DEF Latest

(* ... and so the latest ending of atoms is late if each of theirs is.        *)
LEMMA LatestIsLate ==
  ASSUME NEW as, AtomSet(as), NEW from, \A a \in as : Timed(a.end, from)
  PROVE  Timed(Latest({a.end : a \in as}), from)
<1>1. PICK f : f = [a \in as |-> a.end]
  OBVIOUS
<1>2. PICK times : times = {f[a] : a \in as}
  OBVIOUS
<1>3. IsFiniteSet(times)
  BY <1>2, ImagesAreFinite DEF AtomSet
<1>4. times = {a.end : a \in as}
  BY <1>1, <1>2
<1>5. \A t \in times : Timed(t, from) /\ t \in Nat \cup {Never}
  BY <1>4 DEF AtomSet, UsageAtom
<1>6. Latest(times) \in times \cup {Never}
  BY <1>3, <1>5, LatestIs
<1> QED BY <1>4, <1>5, <1>6 DEF Timed

(* The completion of a turn is late if its explicit ending is, or, when it    *)
(* was told of none, if that of its atoms is.                                 *)
LEMMA CompletionIsLate ==
  ASSUME NEW provider, NEW as, AtomSet(as), NEW time, NEW o, NEW from,
         o.completed # Never => Boundary(o) = o.completed /\ Timed(o.completed, from),
         o.completed = Never => \A a \in as : Timed(a.end, from)
  PROVE  Timed(completedAt(provider, as, time, o), from)
<1>1. PICK latest : latest = Latest({a.end : a \in as})
  OBVIOUS
<1>2. PICK closed : closed = {b \in as : ClosedBoundary(provider, b)}
  OBVIOUS
<1>3. PICK closing : closing = Latest({a.end : a \in closed})
  OBVIOUS
<1>4. CASE o.completed # Never
  <2>1. Boundary(o) # Never /\ Timed(Boundary(o), from) /\ Timed(Never, from)
    BY <1>4 DEF Timed
  <2>2. completedAt(provider, as, time, o) \in {Boundary(o), Never}
    BY <2>1 DEF completedAt
  <2> QED BY <2>1, <2>2
<1>5. CASE o.completed = Never
  <2>1. Boundary(o) = Never
    BY <1>5 DEF Boundary
  <2>2. Timed(latest, from) /\ Timed(Never, from)
    BY <1>1, <1>5, LatestIsLate DEF Timed
  <2>3. Timed(closing, from)
    <3>1. closed \subseteq as
      BY <1>2
    <3>2. AtomSet(closed) /\ \A a \in closed : Timed(a.end, from)
      BY <1>5, <3>1, SomeAtoms
    <3> QED BY <1>3, <3>2, LatestIsLate
  <2>4. completedAt(provider, as, time, o) \in {closing, latest, Never}
    BY <1>1, <1>2, <1>3, <2>1 DEF completedAt
  <2> QED BY <2>2, <2>3, <2>4
<1> QED BY <1>4, <1>5

(* A run ends when its turn does ...                                          *)
LEMMA ProjectedGroupIsLate ==
  ASSUME NEW provider, NEW q, NEW as, AtomSet(as), NEW time, NEW o, NEW told, NEW from,
         o.completed # Never => Boundary(o) = o.completed /\ Timed(o.completed, from),
         o.completed = Never => \A a \in as : Timed(a.end, from),
         NEW run, run = projectGroup(provider, q, as, time, o, told)
  PROVE  LateRun(run, from)
<1>1. PICK accounting : accounting = {a \in as : a.kind # "lifecycle"}
  OBVIOUS
<1>2. PICK authority : authority = TopAuthority(provider, IF accounting # {} THEN accounting ELSE as)
  OBVIOUS
<1>3. PICK sel : sel = Selected(provider, authority, accounting)
  OBVIOUS
<1>4. run = groupRun(provider, q, as, accounting, sel, time, o, told)
  BY <1>1, <1>2, <1>3 DEF projectGroup
<1>5. accounting \subseteq as
  BY <1>1
<1>6. AtomSet(accounting)
  BY <1>5, SomeAtoms
<1>7. AtomSet(sel) /\ EndLike(sel, accounting)
  BY <1>3, <1>6, SelectedIs
<1>8. o.completed = Never => \A a \in sel : Timed(a.end, from)
  BY <1>5, <1>7 DEF EndLike, Timed
<1>9. PICK some : some = IF sel # {} THEN sel ELSE accounting
  OBVIOUS
<1>10. AtomSet(some) /\ (o.completed = Never => \A a \in some : Timed(a.end, from))
  BY <1>5, <1>6, <1>7, <1>8, <1>9
<1>11. PICK done : done = completedAt(provider, some, time, o)
  OBVIOUS
<1>12. Timed(done, from)
  BY <1>10, <1>11, CompletionIsLate
<1>13. PICK session, start, rs : run = Run(q, session, Usage(sel), Price(sel), told, rs, o, start,
                                           IF accounting = {} THEN Never ELSE done)
  BY <1>4, <1>9, <1>11 DEF groupRun
<1>14. DOMAIN run = RunFields /\ run.end = IF accounting = {} THEN Never ELSE done
  BY <1>13 DEF Run, RunFields
<1> QED BY <1>12, <1>14 DEF LateRun, Timed

LEMMA SilentGroupIsLate ==
  ASSUME NEW provider, NEW o, NEW told, NEW from, Timed(o.completed, from),
         NEW run, run = projectOccurrenceOnlyGroup(provider, o, told)
  PROVE  LateRun(run, from)
  BY DEF projectOccurrenceOnlyGroup, Run, RunFields, LateRun

(* ... and a run its children have joined ends when the last of them does.    *)
LEMMA MergedRunIsLate ==
  ASSUME NEW parent, NEW child, NEW act, NEW from, LateRun(parent, from), LateRun(child, from),
         NEW run, run = mergeLinkedSubagentRun(parent, child, act)
  PROVE  LateRun(run, from)
<1>1. DOMAIN run = RunFields
  BY DEF mergeLinkedSubagentRun, LateRun
<1>2. run.end = IF parent.end # Never /\ child.end # Never THEN Max({parent.end, child.end}) ELSE Never
  BY DEF mergeLinkedSubagentRun, LateRun, RunFields
<1>3. CASE parent.end # Never /\ child.end # Never
  <2>1. PICK x, y : x = parent.end /\ y = child.end
    OBVIOUS
  <2>2. x \in Nat /\ y \in Nat /\ x >= from /\ y >= from
    BY <1>3, <2>1 DEF LateRun, Timed
  <2>3. Max({x, y}) \in {x, y}
    BY <2>2, MaxOfTwo
  <2> QED BY <1>1, <1>2, <1>3, <2>1, <2>2, <2>3 DEF LateRun, Timed
<1>4. CASE ~(parent.end # Never /\ child.end # Never)
  BY <1>1, <1>2, <1>4 DEF LateRun, Timed
<1> QED BY <1>3, <1>4

LEMMA FinalizedRunIsLate ==
  ASSUME NEW r, NEW from, LateRun(r, from), NEW ls, NEW done, done = finalizeLinkedSubagentBreakdown(r, ls)
  PROVE  LateRun(done, from)
<1>1. PICK rs : done \in {r, [r EXCEPT !.rows = rs]}
  BY DEF finalizeLinkedSubagentBreakdown
<1> QED BY <1>1 DEF LateRun, RunFields

LEMMA LinkedRunIsLate ==
  ASSUME NEW r, NEW from, LateRun(r, from), NEW ls, SoundLinks(ls), NEW whole, NEW runs,
         \A l \in ls : LateRun(whole[CHOOSE y \in runs : y.query = l.child], from),
         NEW done, done = LinkedRun(r, ls, whole, runs)
  PROVE  LateRun(done, from)
<1> DEFINE kid(l) == whole[CHOOSE y \in runs : y.query = l.child]
<1>1. PICK f : IsLinking(f, r, ls, whole, runs) /\ done = f[ls]
  BY LinkingExists
<1> DEFINE Good == {s \in SUBSET ls : LateRun(f[s], from)}
<1>2. ASSUME NEW s \in SUBSET ls, \A u \in SUBSET s : u # s => u \in Good
      PROVE  s \in Good
  <2>1. (s = {} => f[s] = r) /\ (s # {} => Relinked(f, s, whole, runs))
    BY <1>1, LinkingUnfolds
  <2>2. CASE s = {}
    BY <2>1, <2>2
  <2>3. CASE s # {}
    <3>1. PICK l \in s : f[s] = mergeLinkedSubagentRun(f[s \ {l}], kid(l), l.act)
      BY <2>1, <2>3 DEF Relinked
    <3>2. LateRun(f[s \ {l}], from) /\ LateRun(kid(l), from)
      BY <1>2, <3>1
    <3>3. PICK x, y, a, z : x = f[s \ {l}] /\ y = kid(l) /\ a = l.act /\ z = f[s]
      OBVIOUS
    <3> HIDE DEF kid
    <3>4. LateRun(x, from) /\ LateRun(y, from) /\ z = mergeLinkedSubagentRun(x, y, a)
      BY <3>1, <3>2, <3>3
    <3>5. LateRun(z, from)
      BY <3>4, MergedRunIsLate
    <3> QED BY <3>3, <3>5
  <2> QED BY <2>2, <2>3
<1>3. SUBSET ls \subseteq Good
  <2> HIDE DEF Good
  <2> QED BY <1>2, SmallerFirst DEF SoundLinks
<1> QED BY <1>1, <1>3

LEMMA AggregatedRunsAreLate ==
  ASSUME NEW runs, IsFiniteSet(runs), NEW from, \A r \in runs : LateRun(r, from), NEW told, ActSet(told)
  PROVE  \A r \in aggregateLinkedSubagentRuns(runs, told) : LateRun(r, from)
<1>0. PICK N : N = Cardinality(runs)
  OBVIOUS
<1>1. N \in Nat
  BY <1>0, FS_CardinalityType
<1>2. PICK links : links = Links(runs, told)
  OBVIOUS
<1>3. SoundLinks(links) /\ \A l \in links : \E r \in runs : r.query = l.child
  BY <1>2, LinksAre
<1>4. PICK f : /\ IsLayering(f, runs, links, N)
               /\ aggregateLinkedSubagentRuns(runs, told) =
                    {f[N][r] : r \in {x \in runs : ~\E l \in links : l.child = x.query}}
  BY <1>0, <1>1, <1>2, LayeringExists
<1> DEFINE Good == {n \in Nat : n <= N => \A r \in runs : LateRun(f[n][r], from)}
<1>5. 0 \in Good
  BY <1>1, <1>4, LayeringUnfolds
<1>6. ASSUME NEW n \in Nat, n \in Good PROVE n + 1 \in Good
  <2> SUFFICES ASSUME n + 1 <= N, NEW r \in runs PROVE LateRun(f[n + 1][r], from)
    OBVIOUS
  <2>1. \A x \in runs : LateRun(f[n][x], from)
    BY <1>1, <1>6
  <2>2. PICK ls : /\ ls = {l \in links : l.parent = r.query}
                  /\ f[n + 1][r] = finalizeLinkedSubagentBreakdown(LinkedRun(r, ls, f[n], runs), ls)
    BY <1>1, <1>4, LayeringUnfolds
  <2>3. SoundLinks(ls) /\ \A l \in ls : \E x \in runs : x.query = l.child
    BY <1>3, <2>2, FS_Subset DEF SoundLinks
  <2>4. PICK g : g = f[n]
    OBVIOUS
  <2>5. \A l \in ls : LateRun(g[CHOOSE y \in runs : y.query = l.child], from)
    BY <2>1, <2>3, <2>4
  <2>6. PICK x : x = LinkedRun(r, ls, g, runs)
    OBVIOUS
  <2>7. LateRun(x, from)
    BY <2>3, <2>5, <2>6, LinkedRunIsLate
  <2>8. PICK y : y = finalizeLinkedSubagentBreakdown(x, ls)
    OBVIOUS
  <2>9. LateRun(y, from)
    BY <2>7, <2>8, FinalizedRunIsLate
  <2> QED BY <2>2, <2>4, <2>6, <2>8, <2>9
<1>7. N \in Good
  <2> HIDE DEF Good
  <2> QED BY <1>1, <1>5, <1>6, FromZero
<1>8. \A r \in runs : LateRun(f[N][r], from)
  BY <1>1, <1>7
<1> HIDE DEF Good
<1> QED BY <1>4, <1>8

(* What a pass that projects holds is of from or later: the ending of a turn   *)
(* it has usage of, or where that has none the usage; and every turn with an  *)
(* outcome.                                                                   *)
TimelyEvidence(used, known, from) ==
  /\ \A o \in known : Explained(o) /\ (Outcome(o) => Timed(o.completed, from))
  /\ \A a \in used : \E o : /\ o = OccurrenceOf(known, a.query)
                            /\ o.completed # Never => Timed(o.completed, from)
                            /\ o.completed = Never => Timed(a.end, from)

(* An explained ending is a boundary, unless the turn is internal.            *)
LEMMA ExplainedEndingIsBoundary ==
  ASSUME NEW known, \A o \in known : Explained(o), NEW q, NEW o, o = OccurrenceOf(known, q),
         ~o.internal, o.completed # Never
  PROVE  Boundary(o) = o.completed
<1>1. o # NoOccurrence
  BY DEF NoOccurrence
<1>2. o \in known
  BY <1>1 DEF OccurrenceOf
<1> QED BY <1>2 DEF Explained, Boundary

(* Nothing that is projected from timely evidence ended before.               *)
LEMMA ProjectedRunsAreLate ==
  ASSUME NEW provider, NEW used, AtomSet(used), NEW time, NEW known, IsFiniteSet(known), NEW seen, ActSet(seen),
         NEW from, TimelyEvidence(used, known, from)
  PROVE  \A r \in project(provider, used, time, known, seen) : LateRun(r, from)
<1>1. PICK runs : runs = project(provider, used, time, known, seen)
  OBVIOUS
<1>2. Projection(runs, provider, used, time, known, seen)
  BY <1>1, ProjectionIs
<1>3. PICK customer, merged, all :
        /\ customer \subseteq Visible(used, known) /\ ActSet(merged) /\ IsFiniteSet(all)
        /\ \A r \in all : OneTurn(r, provider, customer, time, known, merged)
        /\ runs = aggregateLinkedSubagentRuns(all, merged)
  BY <1>2 DEF Projection
<1>4. customer \subseteq used /\ \A a \in customer : ~OccurrenceOf(known, a.query).internal
  BY <1>3 DEF Visible
<1>5. ASSUME NEW q \in {a.query : a \in customer}, NEW r,
             r = projectGroup(provider, q, {y \in customer : y.query = q}, time, OccurrenceOf(known, q),
                              {y \in merged : y.query = q})
      PROVE  LateRun(r, from)
  <2>1. PICK as, told, o : /\ as = {y \in customer : y.query = q} /\ told = {y \in merged : y.query = q}
                           /\ o = OccurrenceOf(known, q)
    OBVIOUS
  <2>2. as \subseteq used /\ \A a \in as : a.query = q /\ a \in used
    BY <1>4, <2>1
  <2>3. AtomSet(as)
    BY <2>2, SomeAtoms
  <2>4. PICK b \in customer : b.query = q
    BY <1>5
  <2>5. ~o.internal /\ b \in used /\ b.query = q
    BY <1>4, <2>1, <2>4
  <2>6. ASSUME o.completed # Never PROVE Boundary(o) = o.completed /\ Timed(o.completed, from)
    <3>1. Boundary(o) = o.completed
      BY <2>1, <2>5, <2>6, ExplainedEndingIsBoundary DEF TimelyEvidence
    <3>2. Timed(o.completed, from)
      BY <2>1, <2>5, <2>6 DEF TimelyEvidence
    <3> QED BY <3>1, <3>2
  <2>7. ASSUME o.completed = Never, NEW a \in as PROVE Timed(a.end, from)
    BY <2>1, <2>2, <2>7 DEF TimelyEvidence
  <2>8. r = projectGroup(provider, q, as, time, o, told)
    BY <1>5, <2>1
  <2> QED BY <2>3, <2>6, <2>7, <2>8, ProjectedGroupIsLate
<1>6. ASSUME NEW o \in known, Outcome(o), NEW r,
             r = projectOccurrenceOnlyGroup(provider, o, {y \in merged : y.query = o.query})
      PROVE  LateRun(r, from)
  <2>1. PICK told : told = {y \in merged : y.query = o.query}
    OBVIOUS
  <2>2. Timed(o.completed, from)
    BY <1>6 DEF TimelyEvidence
  <2>3. r = projectOccurrenceOnlyGroup(provider, o, told)
    BY <1>6, <2>1
  <2> QED BY <2>2, <2>3, SilentGroupIsLate
<1>7. \A r \in all : LateRun(r, from)
  BY <1>3, <1>5, <1>6 DEF OneTurn
<1>8. \A r \in runs : LateRun(r, from)
  BY <1>3, <1>7, AggregatedRunsAreLate
<1> QED BY <1>1, <1>8

(* ... and the completed ones did end.                                        *)
LEMMA CompletedRunsAreLate ==
  ASSUME NEW used, AtomSet(used), NEW known, IsFiniteSet(known), NEW seen, ActSet(seen),
         NEW from, TimelyEvidence(used, known, from)
  PROVE  \A r \in Completed(used, known, seen) : r.end >= from
<1>1. PICK runs : runs = project(feed.provider, used, now, known, seen)
  OBVIOUS
<1>2. \A r \in Completed(used, known, seen) : r \in runs /\ r.end # Never
  BY <1>1 DEF Completed, projectProduction, isCompletedRun
<1>3. \A r \in runs : LateRun(r, from)
  BY <1>1, ProjectedRunsAreLate
<1> QED BY <1>2, <1>3 DEF LateRun, Timed

(* Turns told of once, each of whose endings is explained.                    *)
SoundTurns(known) ==
  /\ \A o \in known : Told(o) /\ Explained(o)
  /\ \A o, p \in known : o.query = p.query => o = p

(* A pass that reads after its epoch reads timely evidence.                   *)
LEMMA ReadEvidenceIsTimely ==
  ASSUME NEW known, SoundTurns(known), NEW stored, \A a \in stored : UsageAtom(a), NEW from \in Nat,
         NEW since \in Nat, since >= from,
         NEW used, used = productionAtomsAfterEpoch(stored, known, from),
         NEW some, some = occurrencesForProjection(known, used, since, from)
  PROVE  TimelyEvidence(used, some, from)
<1>1. \A o \in known : o.start \in Nat /\ (o.completed = Never \/ (o.completed \in Nat /\ o.completed >= o.start))
  BY DEF SoundTurns, Told, Explained
<1>2. some \subseteq known
  BY DEF occurrencesForProjection
<1>3. ASSUME NEW a \in used
      PROVE  \E o : /\ o = OccurrenceOf(known, a.query) /\ o = OccurrenceOf(some, a.query)
                    /\ o.completed # Never => Timed(o.completed, from)
                    /\ o.completed = Never => Timed(a.end, from)
  <2>1. PICK o : o = OccurrenceOf(known, a.query)
    OBVIOUS
  <2>2. OrTime(o.completed, OrTime(a.end, a.start)) >= from /\ a \in stored
    BY <2>1 DEF productionAtomsAfterEpoch
  <2>3. UsageAtom(a)
    BY <2>2
  <2>4. o.completed # Never => Timed(o.completed, from)
    <3> SUFFICES ASSUME o.completed # Never PROVE Timed(o.completed, from)
      OBVIOUS
    <3>1. o # NoOccurrence
      BY DEF NoOccurrence
    <3>2. o \in known
      BY <2>1, <3>1 DEF OccurrenceOf
    <3> QED BY <1>1, <2>2, <3>2 DEF OrTime, Timed
  <2>5. o.completed = Never => Timed(a.end, from)
    BY <2>2, <2>3 DEF OrTime, Timed, UsageAtom
  <2>6. o = OccurrenceOf(some, a.query)
    <3>1. CASE \E p \in known : p.query = a.query
      <4>1. PICK p \in known : p.query = a.query
        BY <3>1
      <4>2. \A r \in known : r.query = p.query => r = p
        BY <4>1 DEF SoundTurns
      <4>3. p \in some
        BY <4>1 DEF occurrencesForProjection
      <4>4. OccurrenceOf(known, p.query) = p
        BY <4>1, <4>2, OccurrenceIs
      <4>5. \A r \in some : r.query = p.query => r = p
        BY <1>2, <4>2
      <4>6. OccurrenceOf(some, p.query) = p
        BY <4>3, <4>5, OccurrenceIs
      <4> QED BY <2>1, <4>1, <4>4, <4>6
    <3>2. CASE ~\E p \in known : p.query = a.query
      BY <1>2, <2>1, <3>2 DEF OccurrenceOf
    <3> QED BY <3>1, <3>2
  <2> QED BY <2>1, <2>4, <2>5, <2>6
<1>4. ASSUME NEW o \in some, Outcome(o) PROVE Timed(o.completed, from)
  <2>1. o \in known /\ o.completed \in Nat /\ o.completed >= o.start /\ o.start \in Nat
    BY <1>1, <1>2, <1>4 DEF Outcome
  <2>2. CASE o.start >= since \/ o.start >= from
    BY <2>1, <2>2 DEF Timed
  <2>3. CASE \E a \in used : a.query = o.query
    <3>1. PICK a \in used : a.query = o.query
      BY <2>3
    <3>2. \A p \in known : p.query = o.query => p = o
      BY <2>1 DEF SoundTurns
    <3>3. OccurrenceOf(known, o.query) = o
      BY <2>1, <3>2, OccurrenceIs
    <3> QED BY <1>3, <2>1, <3>1, <3>3 DEF Never
  <2> QED BY <2>2, <2>3 DEF occurrencesForProjection
<1>5. \A o \in some : Explained(o)
  BY <1>2 DEF SoundTurns
<1> QED BY <1>3, <1>4, <1>5 DEF TimelyEvidence

(* Every ending that is told has explicit evidence, and is no earlier than    *)
(* the start of its turn. The classification writes no other evidence of a    *)
(* turn's end: a quiet spell ends usage atoms only.                           *)
EndingsAreExplicit == \A t \in feed.told : \A o \in t.occs : Explained(o)

(* The stored turns stay sound when more of them are told.                    *)
LEMMA MergedTurnsAreSound ==
  ASSUME SoundTurns(occs), NEW new, \A o \in new : Told(o) /\ Explained(o),
         \A o, p \in new : o.query = p.query => o = p,
         NEW merged, merged = MergedOccurrences(new)
  PROVE  SoundTurns(merged)
<1> DEFINE Kept(n) == IF \E o \in occs : o.query = n.query
                      THEN KeptOccurrence(OccurrenceOf(occs, n.query), n) ELSE n
<1>1. merged = {o \in occs : \A n \in new : n.query # o.query} \cup {Kept(n) : n \in new}
  BY DEF MergedOccurrences
<1>2. ASSUME NEW n \in new
      PROVE  Told(Kept(n)) /\ Explained(Kept(n)) /\ Kept(n).query = n.query
  <2>1. CASE \E o \in occs : o.query = n.query
    <3>1. PICK o \in occs : o.query = n.query
      BY <2>1
    <3>2. OccurrenceOf(occs, n.query) = o
      BY <3>1, OccurrenceIs DEF SoundTurns
    <3>3. PICK kept : kept = KeptOccurrence(o, n)
      OBVIOUS
    <3>4. Told(kept) /\ Explained(kept) /\ kept.query = n.query
      BY <3>3, KeptIsBest DEF SoundTurns
    <3> QED BY <2>1, <3>2, <3>3, <3>4
  <2>2. CASE ~\E o \in occs : o.query = n.query
    BY <2>2
  <2> QED BY <2>1, <2>2
<1> HIDE DEF Kept
<1>3. \A o \in merged : Told(o) /\ Explained(o)
  BY <1>1, <1>2 DEF SoundTurns
<1>4. ASSUME NEW o \in merged, NEW p \in merged, o.query = p.query PROVE o = p
  <2>1. CASE \E n \in new : n.query = o.query
    <3>1. PICK n \in new : n.query = o.query
      BY <2>1
    <3>2. PICK i \in new : o = Kept(i)
      BY <1>1, <3>1
    <3>3. PICK j \in new : p = Kept(j)
      BY <1>1, <1>4, <3>1
    <3>4. i.query = j.query
      BY <1>2, <1>4, <3>2, <3>3
    <3> QED BY <3>2, <3>3, <3>4
  <2>2. CASE ~\E n \in new : n.query = o.query
    <3>1. o \in occs /\ p \in occs
      BY <1>1, <1>2, <1>4, <2>2
    <3> QED BY <1>4, <3>1 DEF SoundTurns
  <2> QED BY <2>1, <2>2
<1> QED BY <1>3, <1>4 DEF SoundTurns

(* What the pass in flight has read so far is of its epoch or later, and so is *)
(* what it is about to store.                                                 *)
PassIsTimely ==
  /\ rebuild.epoch \in Nat
  /\ rebuild.pc \in {"occurrences", "atoms"} => rebuild.since \in Nat /\ rebuild.since >= rebuild.epoch
  /\ rebuild.pc = "atoms" => SoundTurns(rebuild.occs)
  /\ rebuild.pc = "project" => TimelyEvidence(rebuild.atoms, rebuild.occs, rebuild.epoch)
  /\ rebuild.pc = "upsert" => \A r \in rebuild.runs : r.end >= rebuild.epoch

ClearedInv ==
  /\ UsageInv /\ BreakdownInv
  /\ EndingsAreExplicit
  /\ SoundTurns(occs)
  /\ PassIsTimely

LEMMA IdleIsTimely == rebuild' = Idle => PassIsTimely'
  BY DEF Idle, PassIsTimely

(* The turns are sound whatever becomes of them.                              *)
LEMMA TurnsStaySound ==
  ASSUME ClearedInv, [Next]_vars
  PROVE  SoundTurns(occs') /\ EndingsAreExplicit'
<1>1. feed' = feed
  BY DEF Next, Observe, RebuildStep, StartRebuild, ReadRows, ReadOccurrences, ReadAtoms, Project, UpsertRuns,
         ScopedStep, StartScoped, ExpandFamily, ProjectScoped, UpsertScoped, Upkeep, Prune, ReadRetained,
         ReplaceRetained, DropOldOccurrences, Reset, ClearHistory, ClearOccurrences, Tick, Crash, vars
<1>2. CASE Observe
  <2>1. PICK t \in feed.told : occs' = MergedOccurrences(t.occs)
    BY <1>2 DEF Observe
  <2>2. PICK new : new = t.occs
    OBVIOUS
  <2>3. /\ \A o \in new : Told(o) /\ Explained(o)
        /\ \A o, p \in new : o.query = p.query => o = p
    BY <2>2, UsageAssumption DEF ClearedInv, UsageInv, EndingsAreExplicit
  <2>4. SoundTurns(occs')
    BY <2>1, <2>2, <2>3, MergedTurnsAreSound DEF ClearedInv
  <2> QED BY <1>1, <2>4 DEF ClearedInv, EndingsAreExplicit
<1>3. CASE ~Observe
  <2>1. occs' \subseteq occs
    BY <1>3 DEF Next, RebuildStep, StartRebuild, ReadRows, ReadOccurrences, ReadAtoms, Project, UpsertRuns,
         ScopedStep, StartScoped, ExpandFamily, ProjectScoped, UpsertScoped, Upkeep, Prune, ReadRetained,
         ReplaceRetained, DropOldOccurrences, Reset, ClearHistory, ClearOccurrences, Tick, Crash, vars, safe
  <2>2. SoundTurns(occs')
    BY <2>1 DEF ClearedInv, SoundTurns
  <2> QED BY <1>1, <2>2 DEF ClearedInv, EndingsAreExplicit
<1> QED BY <1>2, <1>3

LEMMA PassStaysTimely ==
  ASSUME ClearedInv, [Next]_vars
  PROVE  PassIsTimely'
<1>0. /\ PassIsTimely /\ SoundTurns(occs) /\ SoundPass(rebuild) /\ epoch \in Nat /\ now \in Nat
      /\ StoredAtoms(atoms) /\ StoredActs(acts)
  BY DEF ClearedInv, UsageInv, BreakdownInv
<1>1. CASE UNCHANGED rebuild
  BY <1>0, <1>1 DEF PassIsTimely
<1>2. CASE StartRebuild
  <2>1. rebuild' = [Idle EXCEPT !.pc = "rows", !.epoch = epoch]
    BY <1>2 DEF StartRebuild
  <2>2. rebuild'.pc = "rows" /\ rebuild'.epoch = epoch
    BY <2>1 DEF Idle
  <2> QED BY <1>0, <2>2 DEF PassIsTimely
<1>3. CASE ReadRows
  <2>1. PICK since : since = projectionStartedAt(rebuild.epoch)
    OBVIOUS
  <2>2. rebuild' = [rebuild EXCEPT !.pc = "occurrences", !.since = since]
    BY <1>3, <2>1 DEF ReadRows
  <2>3. rebuild'.pc = "occurrences" /\ rebuild'.epoch = rebuild.epoch /\ rebuild'.since = since
    BY <1>0, <2>2 DEF SoundPass
  <2>4. since \in Nat /\ since >= rebuild.epoch
    <3>1. PICK x, y : x = rebuild.epoch /\ y = now - Week
      OBVIOUS
    <3>2. x \in Nat /\ y \in Int
      BY <1>0, <3>1, UsageAssumption DEF PassIsTimely
    <3>3. Max({x, y}) \in {x, y} /\ Max({x, y}) >= x
      BY <3>2, MaxOfTwo
    <3>4. since \in {x, Max({x, y})}
      BY <2>1, <3>1 DEF projectionStartedAt
    <3> QED BY <3>1, <3>2, <3>3, <3>4
  <2> QED BY <1>0, <2>3, <2>4 DEF PassIsTimely
<1>4. CASE ReadOccurrences
  <2>1. rebuild.pc = "occurrences" /\ rebuild' = [rebuild EXCEPT !.pc = "atoms", !.occs = occs]
    BY <1>4 DEF ReadOccurrences
  <2>2. /\ rebuild'.pc = "atoms" /\ rebuild'.epoch = rebuild.epoch /\ rebuild'.since = rebuild.since
        /\ rebuild'.occs = occs
    BY <1>0, <2>1 DEF SoundPass
  <2> QED BY <1>0, <2>1, <2>2 DEF PassIsTimely
<1>5. CASE ReadAtoms
  <2>1. PICK stored, known, from, since :
          stored = Since(atoms, rebuild.since) /\ known = rebuild.occs /\ from = rebuild.epoch /\ since = rebuild.since
    OBVIOUS
  <2>2. PICK used : used = productionAtomsAfterEpoch(stored, known, from)
    OBVIOUS
  <2>3. PICK some : some = occurrencesForProjection(known, used, since, from)
    OBVIOUS
  <2>4. rebuild.pc = "atoms" /\ rebuild' = [rebuild EXCEPT !.pc = "project", !.atoms = used, !.occs = some]
    BY <1>5, <2>1, <2>2, <2>3 DEF ReadAtoms
  <2>5. SoundTurns(known) /\ from \in Nat /\ since \in Nat /\ since >= from
    BY <1>0, <2>1, <2>4 DEF PassIsTimely
  <2>6. \A a \in stored : UsageAtom(a)
    BY <1>0, <2>1, StoredEvidence, SinceIsSome DEF AtomSet
  <2>7. TimelyEvidence(used, some, from)
    BY <2>2, <2>3, <2>5, <2>6, ReadEvidenceIsTimely
  <2>8. rebuild'.pc = "project" /\ rebuild'.epoch = from /\ rebuild'.atoms = used /\ rebuild'.occs = some
    BY <1>0, <2>1, <2>4 DEF SoundPass
  <2> QED BY <2>5, <2>7, <2>8 DEF PassIsTimely
<1>6. CASE Project
  <2>1. PICK used, known, seen, from :
          used = rebuild.atoms /\ known = rebuild.occs /\ seen = Since(acts, rebuild.since) /\ from = rebuild.epoch
    OBVIOUS
  <2>2. PICK runs : runs = Completed(used, known, seen)
    OBVIOUS
  <2>3. rebuild.pc = "project" /\ rebuild' = [Idle EXCEPT !.pc = "upsert", !.epoch = from, !.runs = runs]
    BY <1>6, <2>1, <2>2 DEF Project
  <2>4. ActSet(seen)
    BY <1>0, <2>1, SinceIsSome, StoredEvidence, SomeActs
  <2>5. AtomSet(used) /\ IsFiniteSet(known) /\ TimelyEvidence(used, known, from) /\ from \in Nat
    BY <1>0, <2>1, <2>3 DEF SoundPass, PassIsTimely
  <2>6. \A r \in runs : r.end >= from
    BY <2>2, <2>4, <2>5, CompletedRunsAreLate
  <2>7. rebuild'.pc = "upsert" /\ rebuild'.epoch = from /\ rebuild'.runs = runs
    BY <2>3 DEF Idle
  <2> QED BY <2>5, <2>6, <2>7 DEF PassIsTimely
<1>7. CASE UpsertRuns \/ Crash
  BY <1>7, IdleIsTimely DEF UpsertRuns, Crash
<1>8. CASE Observe \/ (\E q \in Queries : ScopedStep(q)) \/ Upkeep \/ Reset \/ Tick \/ UNCHANGED vars
  BY <1>1, <1>8 DEF Observe, ScopedStep, StartScoped, ExpandFamily, ProjectScoped, UpsertScoped, Upkeep, Prune,
     ReadRetained, ReplaceRetained, DropOldOccurrences, Reset, ClearHistory, ClearOccurrences, Tick, vars, passes
<1> QED BY <1>2, <1>3, <1>4, <1>5, <1>6, <1>7, <1>8 DEF Next, RebuildStep

(* A pass that began after the history was cleared stores no run that ended   *)
(* before that, if every ending that is told has explicit evidence:           *)
(* productionAtomsAfterEpoch and occurrencesForProjection keep out what ended *)
(* before, and no step of the projection puts an ending earlier.              *)
THEOREM ClearedAlwaysStaysCleared == Spec /\ EndingsAreExplicit => []ClearedStaysCleared
<1>1. Init /\ EndingsAreExplicit => ClearedInv
  <2> SUFFICES ASSUME Init, EndingsAreExplicit PROVE ClearedInv
    OBVIOUS
  <2>1. SoundTurns(occs) /\ PassIsTimely
    BY DEF Init, SoundTurns, PassIsTimely, Idle
  <2> QED BY <2>1, UsageInit, BreakdownInit DEF ClearedInv
<1>2. ClearedInv /\ [Next]_vars => ClearedInv'
  <2> SUFFICES ASSUME ClearedInv, [Next]_vars PROVE ClearedInv'
    OBVIOUS
  <2>1. UsageInv' /\ BreakdownInv'
    BY UsageStep, BreakdownStep DEF ClearedInv
  <2> QED BY <2>1, TurnsStaySound, PassStaysTimely DEF ClearedInv, SoundTurns
<1>3. ClearedInv => ClearedStaysCleared
  BY DEF ClearedInv, PassIsTimely, ClearedStaysCleared
<1> QED BY <1>1, <1>2, <1>3, PTL DEF Spec
================================================================================
