---------------------------- MODULE ProductionUsage ----------------------------
(* The ledger of production runs: observations are appended to the safe journal *)
(* (agent-storage/src/worker.ts), passes project what is stored into runs and   *)
(* upsert them (agent/src/productionUsageService.ts), and maintenance, a reset  *)
(* or a crash cut in between any two storage calls of a pass. A feed is what    *)
(* one provider will tell: a set of observations                                *)
(*   [id, time, atoms, acts, occs], none of which can arrive before its time,   *)
(* and the tokens each query really used.                                       *)
EXTENDS UsagePipeline

CONSTANTS Feeds,        \* records [provider, root, told, truth]
          Week,         \* rebuild look-back and journal retention
          KeepRuns,     \* product retention
          MaxObservations,      \* rows the journal keeps
          MaxNow, MaxDelay,
          MaxUpsets             \* resets, crashes and product retentions together

(* An occurrence that has an outcome has a completion time, whoever tells it.   *)
Told(o) ==
    /\ DOMAIN o = DOMAIN NoOccurrence
    /\ o.start \in Nat /\ o.completed \in Nat \cup {Never}
    /\ o.outcome \in Outcomes \cup {None}
    /\ o.outcome # None => o.completed # Never

UsageAtom(a) ==
    /\ DOMAIN a = {"id", "query", "session", "request", "authority", "kind", "surface", "base", "cache",
                   "reported", "rated", "start", "end", "mode", "owner", "conflicts", "title"}
    /\ a.id \in Nat /\ a.base \in Nat /\ a.cache \in Nat \cup {Never} /\ a.end \in Nat \cup {Never}

(* No telling of an activity is named like the rest that nobody owns.           *)
ActivityAtom(a) ==
    /\ DOMAIN a = {"id", "query", "call", "child", "kind", "name", "basis", "origin", "outcome", "native",
                   "start", "end", "aliases"}
    /\ a.id \in Nat /\ a.kind # "unallocated"

NamedApart(evidence) == \A a, b \in evidence : a.id = b.id => a = b

(* A batch that tells of one thing twice is told as one that tells it once: the *)
(* worker merges its rows one after another in one transaction.                 *)
ASSUME UsageAssumption ==
    /\ {Week, KeepRuns, MaxObservations, MaxNow, MaxDelay, MaxUpsets, QuietPeriod} \subseteq Nat
    /\ None \notin Outcomes
    /\ \A f \in Feeds : \A t \in f.told :
          /\ \A o, p \in t.occs : Told(o) /\ (o.query = p.query => o = p)
          /\ \A a \in t.atoms : UsageAtom(a)
          /\ \A a \in t.acts : ActivityAtom(a)
          /\ NamedApart(t.atoms) /\ NamedApart(t.acts)
          /\ IsFiniteSet(t.occs) /\ IsFiniteSet(t.atoms) /\ IsFiniteSet(t.acts)

VARIABLES
    feed, arrived,          \* what is told, what of it has come
    now,
    journal,                \* observation |-> when it was appended
    atoms, acts, occs,      \* the safe evidence; atoms and acts name their last observation
    epoch, rows,            \* production_usage_epoch.started_at, production_runs
    wanted, rebuild,        \* usageRebuildRequested and the pass in flight
    due, scoped,            \* terminal projections queued and in flight, by query
    upkeep, clearing,       \* product retention between two steps; clear-history requests between theirs
    upsets                  \* how many resets, crashes and retentions there were

safe     == <<journal, atoms, acts, occs>>
ledger   == <<epoch, rows>>
passes   == <<wanted, rebuild, due, scoped>>
vars == <<feed, arrived, now, safe, ledger, passes, upkeep, clearing, upsets>>

Queries == UNION {{o.query : o \in t.occs} : t \in feed.told}

Idle == [pc |-> "idle", root |-> None, epoch |-> 0, since |-> 0, occs |-> {}, members |-> {}, asked |-> {},
         atoms |-> {}, acts |-> {}, runs |-> {}]

Init ==
    /\ feed \in Feeds
    /\ arrived = {} /\ now = 0
    /\ journal = <<>> /\ atoms = {} /\ acts = {} /\ occs = {}
    /\ epoch = 0 /\ rows = {}
    /\ wanted = FALSE /\ rebuild = Idle
    /\ due = {} /\ scoped = [q \in Queries |-> Idle]
    /\ upkeep = [pc |-> "idle", rows |-> {}, cutoff |-> 0] /\ clearing = 0
    /\ upsets = [resets |-> 0, crashes |-> 0, sweeps |-> 0]

(* -------------------------------- evidence -------------------------------- *)
Values(stored) == {s.value : s \in stored}

(* Each row of an observation replaces the stored one of its id, merged.        *)
Merged(stored, new, id, Keep(_, _)) ==
    LET old(n) == {s \in stored : s.value.id = n.id}
        kept(n) == IF old(n) = {} THEN n ELSE Keep((CHOOSE s \in old(n) : TRUE).value, n)
    IN  {s \in stored : \A n \in new : n.id # s.value.id} \cup {[value |-> kept(n), by |-> id] : n \in new}

MergedOccurrences(new) ==
    LET kept(n) == IF \E o \in occs : o.query = n.query THEN KeptOccurrence(OccurrenceOf(occs, n.query), n) ELSE n
    IN  {o \in occs : \A n \in new : n.query # o.query} \cup {kept(n) : n \in new}

Terminal(o) == o.completed # Never /\ ~o.internal /\ o.evidence \notin {None, "inactivity"}

(* Evidence for a turn known to have ended: its session is remembered for a     *)
(* few seconds, so it may or may not ask for another terminal projection.       *)
Corrections(t) ==
    {x.query : x \in {e \in t.atoms \cup t.acts : \E o \in occs : o.query = e.query /\ Terminal(o) /\ e.start <= o.completed}}

Observe ==
    /\ \E t \in feed.told \ arrived :
          /\ now \in t.time..(t.time + MaxDelay)
          /\ arrived' = arrived \cup {t}
          /\ journal' = (t.id :> now) @@ journal
          /\ atoms' = Merged(atoms, t.atoms, t.id, KeptAtom)
          /\ acts' = Merged(acts, t.acts, t.id, KeptActivity)
          /\ occs' = MergedOccurrences(t.occs)
          /\ \E more \in SUBSET Corrections(t) :
                due' = due \cup {o.query : o \in {p \in t.occs : Terminal(p)}} \cup more
    /\ wanted' = TRUE
    /\ UNCHANGED <<feed, now, ledger, rebuild, scoped, upkeep, clearing, upsets>>

(* a plausible slip: what was appended at the very start is left out            *)
SlipSince(stored, time) == {s.value : s \in {x \in stored : journal[x.by] > time}}

Since(stored, time) == {s.value : s \in {x \in stored : journal[x.by] >= time}}

(* The journal loses what is old, then the oldest of what it still has too many *)
(* of (rows of one time by their ids: any of them). Deleting a journal row      *)
(* deletes the rows that name it.                                               *)
Overflow(young) ==
    {old \in SUBSET young :
        /\ Cardinality(old) = Max({0, Cardinality(young) - MaxObservations})
        /\ \A o \in old, n \in young \ old : journal[o] <= journal[n]}

Prune ==
    LET young == {id \in DOMAIN journal : journal[id] >= now - Week}
    IN  \E old \in Overflow(young) :
        LET left == young \ old
            kept(stored) == {s \in stored : s.by \in left}
        IN
        /\ left # DOMAIN journal
        /\ journal' = [id \in left |-> journal[id]]
        /\ atoms' = kept(atoms)
        /\ acts' = kept(acts)
        /\ UNCHANGED <<feed, arrived, now, occs, ledger, passes, upkeep, clearing, upsets>>

(* ------------------------------- projection ------------------------------- *)
Upsert(runs) == {r \in rows : \A n \in runs : n.query # r.query} \cup runs

projectionStartedAt(from) == IF rows = {} THEN from ELSE Max({from, now - Week})

(* a plausible slip: the look-back alone is trusted                             *)
SlipAtomsAfterEpoch(stored, known, from) == stored

productionAtomsAfterEpoch(stored, known, from) ==
    LET terminalAt(a) == OrTime(OccurrenceOf(known, a.query).completed, OrTime(a.end, a.start))
    IN  {a \in stored : terminalAt(a) >= from}

occurrencesForProjection(known, used, since, from) ==
    {o \in known :
        \/ o.start >= since
        \/ \E a \in used : a.query = o.query
        \/ /\ o.start >= from /\ Terminal(o) /\ o.completed >= since /\ o.outcome # None}

StartRebuild ==
    /\ rebuild.pc = "idle" /\ wanted
    /\ wanted' = FALSE
    /\ rebuild' = [Idle EXCEPT !.pc = "rows", !.epoch = epoch]
    /\ UNCHANGED <<feed, arrived, now, safe, ledger, due, scoped, upkeep, clearing, upsets>>

ReadRows ==
    /\ rebuild.pc = "rows"
    /\ rebuild' = [rebuild EXCEPT !.pc = "occurrences", !.since = projectionStartedAt(rebuild.epoch)]
    /\ UNCHANGED <<feed, arrived, now, safe, ledger, wanted, due, scoped, upkeep, clearing, upsets>>

ReadOccurrences ==
    /\ rebuild.pc = "occurrences"
    /\ rebuild' = [rebuild EXCEPT !.pc = "atoms", !.occs = occs]
    /\ UNCHANGED <<feed, arrived, now, safe, ledger, wanted, due, scoped, upkeep, clearing, upsets>>

ReadAtoms ==
    /\ rebuild.pc = "atoms"
    /\ LET used == productionAtomsAfterEpoch(Since(atoms, rebuild.since), rebuild.occs, rebuild.epoch)
       IN  rebuild' = [rebuild EXCEPT !.pc = "project", !.atoms = used,
                          !.occs = occurrencesForProjection(@, used, rebuild.since, rebuild.epoch)]
    /\ UNCHANGED <<feed, arrived, now, safe, ledger, wanted, due, scoped, upkeep, clearing, upsets>>

Completed(used, known, seen) ==
    {r \in projectProduction(feed.provider, used, now, known, seen) : isCompletedRun(r)}

Project ==
    /\ rebuild.pc = "project"
    /\ rebuild' = [Idle EXCEPT !.pc = "upsert", !.epoch = rebuild.epoch,
                      !.runs = Completed(rebuild.atoms, rebuild.occs, Since(acts, rebuild.since))]
    /\ UNCHANGED <<feed, arrived, now, safe, ledger, wanted, due, scoped, upkeep, clearing, upsets>>

UpsertRuns ==
    /\ rebuild.pc = "upsert"
    /\ rows' = Upsert(rebuild.runs)
    /\ rebuild' = Idle
    /\ UNCHANGED <<feed, arrived, now, safe, epoch, wanted, due, scoped, upkeep, clearing, upsets>>

(* -------------------------- one completed query --------------------------- *)
(* The turn whose session another was started from, the latest that began no    *)
(* later than it.                                                               *)
Parent(known, o) ==
    LET started == {p \in known : o.parent # None /\ p.session = o.parent /\ p.start <= o.start}
    IN  IF started = {} THEN o ELSE CHOOSE p \in started : \A s \in started : s.start <= p.start

Ancestors(known, o) ==
    LET up[n \in 0..Cardinality(known)] == IF n = 0 THEN o ELSE Parent(known, up[n - 1])
    IN  {up[n] : n \in DOMAIN up}

Root(known, o) == CHOOSE a \in Ancestors(known, o) : Parent(known, a) = a

Within(o, root, until) == ~o.internal /\ o.start >= root.start /\ (until # Never => o.start <= until)

(* The turns started from the sessions of members, and from theirs in turn.     *)
ByParent(known, members, root, until) ==
    LET from(o, m) == o.parent # None /\ m.session = o.parent
        grown[n \in 0..Cardinality(known)] ==
            IF n = 0 THEN members
            ELSE grown[n - 1] \cup {o \in known : Within(o, root, until) /\ \E m \in grown[n - 1] : from(o, m)}
    IN  grown[Cardinality(known)]

(* The epoch and the turns are two reads; what changes between them would as    *)
(* well have changed after both.                                                *)
StartScoped(q) ==
    /\ q \in due /\ scoped[q].pc = "idle"
    /\ due' = due \ {q}
    /\ LET o == OccurrenceOf(occs, q)
           root == Root(occs, o)
           visible == o # NoOccurrence /\ \A a \in Ancestors(occs, o) : ~a.internal
           start == [Idle EXCEPT !.pc = "expand", !.occs = occs, !.root = root.query,
                       !.members = ByParent(occs, {root}, root, OrTime(root.completed, o.completed))]
       IN  scoped' = [scoped EXCEPT ![q] = IF visible /\ root.start >= epoch THEN start ELSE Idle]
    /\ UNCHANGED <<feed, arrived, now, safe, ledger, wanted, rebuild, upkeep, clearing, upsets>>

(* What the members not yet asked for did, and the turns of the sessions that   *)
(* this names; the family is whole when it brings nobody to ask.                *)
ExpandFamily(q) ==
    LET pass == scoped[q]
        root == OccurrenceOf(pass.occs, pass.root)
        More(members) == ByParent(pass.occs, members, root, root.completed)
        members == More(pass.members)
        told == {a \in Values(acts) : \E m \in members \ pass.asked : m.query = a.query}
        seen == {a \in pass.acts : \A t \in told : t.id # a.id} \cup told
        named == {o \in pass.occs : Within(o, root, root.completed) /\ \E a \in told : a.child = o.session}
        family == More(members \cup named)
    IN
    /\ pass.pc = "expand"
    /\ scoped' = [scoped EXCEPT ![q] =
          IF family \subseteq members
          THEN [pass EXCEPT !.pc = "project", !.occs = members, !.members = {}, !.asked = {}, !.acts = seen]
          ELSE [pass EXCEPT !.members = family, !.asked = members, !.acts = seen]]
    /\ UNCHANGED <<feed, arrived, now, safe, ledger, wanted, rebuild, due, upkeep, clearing, upsets>>

ProjectScoped(q) ==
    /\ scoped[q].pc = "project"
    /\ LET pass == scoped[q]
           used == {a \in Values(atoms) : \E o \in pass.occs : o.query = a.query}
       IN  scoped' = [scoped EXCEPT ![q] = [Idle EXCEPT !.pc = "upsert",
                         !.runs = {r \in Completed(used, pass.occs, pass.acts) : r.query = pass.root}]]
    /\ UNCHANGED <<feed, arrived, now, safe, ledger, wanted, rebuild, due, upkeep, clearing, upsets>>

UpsertScoped(q) ==
    /\ scoped[q].pc = "upsert"
    /\ rows' = Upsert(scoped[q].runs)
    /\ scoped' = [scoped EXCEPT ![q] = Idle]
    /\ UNCHANGED <<feed, arrived, now, safe, epoch, wanted, rebuild, due, upkeep, clearing, upsets>>

(* -------------------------- retention and reset --------------------------- *)
MoreUpsets == upsets.resets + upsets.crashes + upsets.sweeps < MaxUpsets

(* Every sweep replaces the rows by what it read, and the passes go on.         *)
ReadRetained ==
    /\ upkeep.pc = "idle" /\ MoreUpsets
    /\ upsets' = [upsets EXCEPT !.sweeps = @ + 1]
    /\ upkeep' = [pc |-> "replace", rows |-> {r \in rows : r.end >= now - KeepRuns}, cutoff |-> now - KeepRuns]
    /\ UNCHANGED <<feed, arrived, now, safe, ledger, passes, clearing>>

ReplaceRetained ==
    /\ upkeep.pc = "replace"
    /\ rows' = upkeep.rows
    /\ epoch' = Max({epoch, upkeep.cutoff})
    /\ upkeep' = [upkeep EXCEPT !.pc = "occurrences", !.rows = {}]
    /\ UNCHANGED <<feed, arrived, now, safe, passes, clearing, upsets>>

DropOldOccurrences ==
    /\ upkeep.pc = "occurrences"
    /\ occs' = {o \in occs : o.start >= upkeep.cutoff}
    /\ upkeep' = [pc |-> "idle", rows |-> {}, cutoff |-> 0]
    /\ UNCHANGED <<feed, arrived, now, journal, atoms, acts, ledger, passes, clearing, upsets>>

ClearHistory ==
    /\ MoreUpsets
    /\ upsets' = [upsets EXCEPT !.resets = @ + 1]
    /\ epoch' = now /\ rows' = {} /\ clearing' = clearing + 1
    /\ UNCHANGED <<feed, arrived, now, safe, passes, upkeep>>

ClearOccurrences ==
    /\ clearing > 0
    /\ clearing' = clearing - 1
    /\ occs' = {}
    /\ UNCHANGED <<feed, arrived, now, journal, atoms, acts, ledger, passes, upkeep, upsets>>

(* ---------------------------- time and failure ---------------------------- *)
Working == wanted \/ rebuild # Idle \/ due # {} \/ \E q \in Queries : scoped[q] # Idle

(* A pass takes far less than a unit of time; a periodic rebuild starts in each.*)
Tick ==
    /\ now < MaxNow /\ ~Working /\ upkeep.pc = "idle" /\ clearing = 0
    /\ now' = now + 1
    /\ wanted' = TRUE
    /\ UNCHANGED <<feed, arrived, safe, ledger, rebuild, due, scoped, upkeep, clearing, upsets>>

(* Passes die with the process; the warm-up of the next one rebuilds.           *)
Crash ==
    /\ MoreUpsets
    /\ upsets' = [upsets EXCEPT !.crashes = @ + 1]
    /\ wanted' = TRUE /\ rebuild' = Idle
    /\ due' = {} /\ scoped' = [q \in Queries |-> Idle]
    /\ upkeep' = [pc |-> "idle", rows |-> {}, cutoff |-> 0] /\ clearing' = 0
    /\ UNCHANGED <<feed, arrived, now, safe, ledger>>

RebuildStep == StartRebuild \/ ReadRows \/ ReadOccurrences \/ ReadAtoms \/ Project \/ UpsertRuns
ScopedStep(q) == StartScoped(q) \/ ExpandFamily(q) \/ ProjectScoped(q) \/ UpsertScoped(q)
Upkeep == Prune \/ ReadRetained \/ ReplaceRetained \/ DropOldOccurrences
Reset == ClearHistory \/ ClearOccurrences

Next == Observe \/ RebuildStep \/ (\E q \in Queries : ScopedStep(q)) \/ Upkeep \/ Reset \/ Tick \/ Crash

Spec == Init /\ [][Next]_vars

(* -------------------------------- properties ------------------------------ *)
(* A stored run never shows more tokens than its turn and its subagents used,   *)
(* though every use is told on several surfaces, in revisions and in any order, *)
(* and passes over different evidence overwrite each other.                     *)
NothingIsCountedTwice == \A r \in rows : NoMore(r.tokens, feed.truth[r.query])

(* The rows of a run's breakdown add up to its totals, whatever was linked into *)
(* it and however much could not be allocated.                                  *)
BreakdownConserves == \A r \in rows : TokensOf(r.rows) = r.tokens

(* No reset and no retention has moved the epoch.                               *)
Undisturbed == epoch = 0 /\ upsets.resets = 0

(* In whatever order the endings of a turn are told, by hooks, spans and quiet, *)
(* none of them is better than the one that is kept.                            *)
BestEndingIsKept ==
    Undisturbed => \A o \in occs, t \in arrived : \A p \in t.occs : p.query = o.query => Completion(p, o) = o

(* A pass that began after the history was cleared stores no run that ended     *)
(* before that.                                                                 *)
ClearedStaysCleared == rebuild.pc = "upsert" => \A r \in rebuild.runs : r.end >= rebuild.epoch

(* The ledger shows all tokens of the feed's root and its subagents.            *)
Whole == \E r \in rows : r.query = feed.root /\ r.tokens = feed.truth[feed.root]

(* All that is told has been in the journal for a while, and the look-back      *)
(* reaches it.                                                                  *)
Gathered == \A t \in feed.told : t \in arrived /\ t.id \in DOMAIN journal /\ journal[t.id] \in (now - Week)..(now - 1)

(* Once all evidence of a turn is gathered, every rebuild leaves its run whole, *)
(* and so a row that was lost comes back; no pass makes a whole run partial.    *)
(* Only retention, which replaces the rows by those it read before, may lose    *)
(* what a pass has stored meanwhile.                                            *)
EvidenceIsCounted ==
    [][Gathered /\ Undisturbed' =>
          /\ UpsertRuns => Whole'
          /\ Whole /\ ~Whole' => ReplaceRetained]_vars

(* constructs.md: "Once a durable run ledger exists, restart and periodic       *)
(* projection must preserve ledger history".                                    *)
HistoryIsPreserved ==
    (~Working /\ Undisturbed /\ arrived = feed.told /\ \A t \in feed.told : t.time + MaxDelay < now) => Whole
================================================================================
