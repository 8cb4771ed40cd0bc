----------------------------- MODULE UsagePipeline -----------------------------
(* How usage atoms, activities and query occurrences become runs               *)
(* (packages/engine/src/shadowUsage.ts). Pure: the operators take the evidence *)
(* as sets. Token dimensions are folded to two: base (input and output, always *)
(* reported) and cache (the optional ones, Never where not reported). A row of *)
(* a run's breakdown is a record; rows of a child are kept under their parent. *)
EXTENDS ObservationMerge, FiniteSetsExt, Folds, Sequences, TLC

CONSTANT QuietPeriod    \* INACTIVITY_COMPLETION_MS

NoOccurrence ==
    [query |-> None, session |-> None, parent |-> None, start |-> Never, source |-> None,
     completed |-> Never, evidence |-> None, outcome |-> None, internal |-> FALSE]

OccurrenceOf(occs, q) ==
    IF \E o \in occs : o.query = q THEN CHOOSE o \in occs : o.query = q ELSE NoOccurrence

Explicit == {"stop_hook", "session_hook", "closed_root_span", "provider_completed_event"}

(* The time an explicit completion froze the run at.                           *)
Boundary(o) ==
    IF ~o.internal /\ o.evidence \in Explicit /\ o.completed >= o.start /\ o.completed # Never
    THEN o.completed ELSE Never

(* a plausible slip: what was told after the end is taken as well               *)
SlipWithinBoundary(x, occs) == x.start # Never

WithinBoundary(x, occs) ==
    LET b == Boundary(OccurrenceOf(occs, x.query)) IN b = Never \/ x.start <= b

Visible(evidence, occs) ==
    {x \in evidence : ~OccurrenceOf(occs, x.query).internal /\ WithinBoundary(x, occs)}

(* A request known from one copy to have asked for a session title is excluded *)
(* on every surface.                                                           *)
Titles(atoms) ==
    LET requests == {a.request : a \in {b \in atoms : b.title}} \ {None}
    IN  {a \in atoms : a.title \/ a.request \in requests}

(* --------------------------- selection of atoms --------------------------- *)
authorityPriority(provider) ==
    CASE provider = "github-copilot" -> <<"run", "request", "turn", "model", "event">>
      [] provider = "claude-code"    -> <<"request", "turn", "model", "event", "run">>
      [] OTHER                       -> <<"turn", "request", "model", "event", "run">>

TopAuthority(provider, atoms) ==
    LET order == authorityPriority(provider)
        ranks == {i \in DOMAIN order : \E a \in atoms : a.authority = order[i]}
    IN  order[Min(ranks)]

OfAuthority(atoms, authority) == {a \in atoms : a.authority = authority}

Tokens(n) == IF n = Never THEN 0 ELSE n
Base(atoms)  == MapThenSumSet(LAMBDA a : a.base, atoms)
Cache(atoms) == MapThenSumSet(LAMBDA a : Tokens(a.cache), atoms)
Weight(a) == a.base + Tokens(a.cache)

NoLater(a, b) ==
    \/ a.end < b.end
    \/ a.end = b.end /\ (Weight(a) < Weight(b) \/ (Weight(a) = Weight(b) /\ a.id <= b.id))

(* Revisions of one request count once, as the last of them; an owner named by *)
(* any of them holds unless two are named.                                     *)
Reconciled(atoms) ==
    LET revisions(a) == IF a.request = None THEN {a} ELSE {b \in atoms : b.request = a.request}
        settle(revs) ==
            LET last     == CHOOSE a \in revs : \A b \in revs : NoLater(b, a)
                owners   == {a.owner : a \in revs} \ {None}
                disputed == UNION {a.conflicts : a \in revs}
            IN  IF disputed # {} \/ Cardinality(owners) > 1
                THEN [last EXCEPT !.owner = None, !.conflicts = disputed \cup owners]
                ELSE [last EXCEPT !.owner = IF owners = {} THEN None ELSE CHOOSE o \in owners : TRUE]
    IN  {settle(revisions(a)) : a \in atoms}

Or(x, y)     == IF x = None THEN y ELSE x
OrTime(t, u) == IF t = Never THEN u ELSE t

(* A trace of a request takes what only its log tells; a log without a trace    *)
(* stands for itself.                                                           *)
Joined(traces, logs) ==
    LET same(t) == {l \in logs : t.request # None /\ l.request = t.request}
        enriched(t, l) ==
            [t EXCEPT !.cache = OrTime(@, l.cache), !.reported = OrTime(@, l.reported),
                      !.start = Min({@, l.start}), !.end = OrTime(@, l.end), !.owner = Or(@, l.owner),
                      !.conflicts = IF @ # {} THEN @ ELSE l.conflicts]
    IN  {IF same(t) = {} THEN t ELSE enriched(t, CHOOSE l \in same(t) : TRUE) : t \in traces}
        \cup {l \in logs : ~\E t \in traces : t.request # None /\ t.request = l.request}

TraceFirst(atoms) ==
    Reconciled(Joined(Reconciled({a \in atoms : a.surface = "traces"}),
                      Reconciled({a \in atoms : a.surface # "traces"})))

preferProviderUsageSurface(provider, atoms) ==
    LET traces == {a \in atoms : a.surface = "traces"}
    IN  CASE provider \in {"github-copilot", "codex"} -> IF traces # {} THEN traces ELSE atoms
          [] provider = "claude-code" -> TraceFirst(atoms)
          [] OTHER -> atoms

(* A single Copilot run span without cache tokens takes those of the model or  *)
(* turn spans that add up to it.                                               *)
Enriched(provider, authority, selected, accounting) ==
    LET others == preferProviderUsageSurface(provider,
                      OfAuthority(accounting, "model") \cup OfAuthority(accounting, "turn"))
    IN  IF /\ provider = "github-copilot" /\ authority = "run" /\ Cardinality(selected) = 1
           /\ others # {} /\ Base(others) = Base(selected)
        THEN {[a EXCEPT !.cache = IF Tokens(@) > 0 \/ Cache(others) = 0 THEN @ ELSE Cache(others)] :
                  a \in selected}
        ELSE selected

(* ------------------------- completion of a group ------------------------- *)
ClosedBoundary(provider, a) ==
    /\ a.mode = "explicit" /\ a.end # Never /\ a.surface = "traces"
    /\ \/ provider = "github-copilot" /\ a.authority = "run"
       \/ provider \in {"codex", "cursor"} /\ a.authority = "turn"

Latest(times) == Max(times \cup {Never})

completedAt(provider, atoms, now, o) ==
    LET latest   == Latest({a.end : a \in atoms})
        ended    == latest # Never /\ \A a \in atoms : a.end # Never
        settling == \/ \E a \in atoms : a.mode = "inactivity"
                    \/ provider = "codex" /\ \A a \in atoms : a.authority = "event" /\ a.surface = "traces"
    IN  CASE Boundary(o) # Never -> IF ended THEN Boundary(o) ELSE Never
          [] Boundary(o) = Never /\ o.source = "submission_hook" ->
                Latest({a.end : a \in {b \in atoms : ClosedBoundary(provider, b)}})
          [] OTHER -> IF ended /\ ~(settling /\ latest + QuietPeriod > now) THEN latest ELSE Never

(* ------------------------------- activities ------------------------------ *)
SameCall(a, b) ==
    a.query = b.query /\ a.kind = b.kind /\ a.name = b.name /\ a.call # None /\ a.call = b.call

(* The native rejection an activity belongs with, if any.                      *)
DecisionGroup(a, acts) ==
    LET key(d) == IF d.call # None THEN <<d.query, d.call, d.kind, d.name>> ELSE <<d.query, d.id>>
        same   == {d \in acts : d.native /\ SameCall(d, a)}
    IN  IF a.native THEN key(a)
        ELSE IF same # {} THEN key(CHOOSE d \in same : \A e \in same : d.id <= e.id)
        ELSE <<>>

(* Copies of one activity are joined by their call or their child session,     *)
(* however many hops apart.                                                    *)
Component(a, acts) ==
    LET joined(b, c) ==
            /\ b.query = c.query /\ DecisionGroup(b, acts) = DecisionGroup(c, acts)
            /\ \/ b.call # None /\ b.call = c.call
               \/ b.child # None /\ b.child = c.child
        near[n \in 0..Cardinality(acts)] ==
            IF n = 0 THEN {a} ELSE near[n - 1] \cup {b \in acts : \E c \in near[n - 1] : joined(b, c)}
    IN  near[Cardinality(acts)]

Preference(a) ==
      (CASE a.basis = "subagent_hook" -> 16 [] a.basis = "tool_hook" -> 12
         [] a.basis = "trace_span" -> 8 [] OTHER -> 0)
    + (IF a.end # Never THEN 4 ELSE 0)
    + (CASE a.outcome \in {"failure", "rejected"} -> 2 [] a.outcome = "success" -> 1 [] OTHER -> 0)

First(acts, default) ==
    IF acts = {} THEN default ELSE CHOOSE a \in acts : \A b \in acts : a.id <= b.id

IsLifecycle(a) == a.kind = "subagent" /\ a.basis = "subagent_hook" /\ a.origin = "lifecycle"
IsLaunch(a) ==
    a.kind = "subagent" /\ a.child # None /\ a.basis = "subagent_hook" /\ a.origin = "tools"

(* One activity out of its copies: a child's own lifecycle, or else the launch *)
(* of the agent, says what it was and how it ended; the trace names it.        *)
mergeActivityEvidence(provider, acts) ==
    LET preferred == CHOOSE a \in acts : \A b \in acts :
                        Preference(b) < Preference(a) \/ (Preference(b) = Preference(a) /\ b.id <= a.id)
        alike(a)  == \A b \in acts : SameCall(b, a)
        decisions == {a \in acts : a.native /\ alike(a)}
        lifecycle == {a \in acts : IsLifecycle(a)}
        launches  == {a \in acts : provider = "claude-code" /\ IsLaunch(a)}
        authority == IF lifecycle # {} THEN lifecycle ELSE launches
        traces    == {a \in acts : a.basis = "trace_span"}
        semantic  == First(authority, preferred)
        canonical == First(authority, First(traces, preferred))
        timing    == IF authority # {} THEN authority ELSE acts
        outcome   == CASE \E a \in acts : a.outcome = "rejected" /\ alike(a) -> "rejected"
                       [] \E a \in acts : a.outcome = "failure" -> "failure"
                       [] authority # {} -> semantic.outcome
                       [] \E a \in acts : a.outcome = "success" -> "success"
                       [] OTHER -> "unknown"
    IN  IF decisions # {}
        THEN [First(decisions, preferred) EXCEPT !.child = None, !.end = Never]
        ELSE [canonical EXCEPT
                !.id = First(traces, canonical).id, !.kind = semantic.kind, !.name = semantic.name,
                !.outcome = outcome,
                !.child = Or(semantic.child, Or(canonical.child,
                             First({a \in acts : a.child # None}, preferred).child)),
                !.start = Min({a.start : a \in timing}), !.end = Latest({a.end : a \in timing})]

(* The merged activities with the identities under which they may own usage.   *)
Activities(provider, acts) ==
    LET merged(c) ==
            LET m == mergeActivityEvidence(provider, c)
                disputed == \/ Cardinality({a.child : a \in c} \ {None}) > 1
                            \/ Cardinality({<<a.kind, a.name>> : a \in c}) > 1
            IN  [m EXCEPT !.aliases = IF m.native \/ disputed THEN {} ELSE {a.id : a \in c}]
    IN  {merged(Component(a, acts)) : a \in acts}

(* ------------------------- breakdown of a run --------------------------- *)
Zero == [base |-> 0, cache |-> 0]
Plus(x, y)  == [base |-> x.base + y.base, cache |-> x.cache + y.cache]
Minus(x, y) == [base |-> Max({0, x.base - y.base}), cache |-> Max({0, x.cache - y.cache})]
NoMore(x, y) == x.base <= y.base /\ x.cache <= y.cache
Usage(atoms) == [base |-> Base(atoms), cache |-> Cache(atoms)]
TokensOf(rows) ==
    [base |-> MapThenSumSet(LAMBDA r : r.tokens.base, rows),
     cache |-> MapThenSumSet(LAMBDA r : r.tokens.cache, rows)]

(* Requests whose ownership is disputed stay unallocated, all copies of them.  *)
Disputed(provider, atoms) ==
    LET copies(r) == {a \in atoms : a.request = r}
        owners(r) == ({a.owner : a \in copies(r)} \ {None}) \cup UNION {a.conflicts : a \in copies(r)}
    IN  {r \in {a.request : a \in atoms} \ {None} :
            \/ \E a \in copies(r) : a.conflicts # {}
            \/ provider = "claude-code" /\ Cardinality(owners(r)) > 1}

Allocatable(provider, atoms, group) ==
    LET owners     == UNION {a.aliases : a \in group}
        candidates == {a \in atoms : a.owner \in owners /\ a.request \notin Disputed(provider, atoms)}
    IN  IF candidates = {} THEN {}
        ELSE preferProviderUsageSurface(provider,
                 OfAuthority(candidates, TopAuthority(provider, candidates)))

Coverage(provider, atoms, group, selected) ==
    LET owned(a)  == \E x \in selected : x.owner \in a.aliases
        children  == {a.child : a \in group} \ {None}
        everyone  == children = {} \/ (Cardinality(children) = Cardinality(group) /\ \A a \in group : owned(a))
        claimants == UNION {a.conflicts : a \in atoms} \cup
                     {a.owner : a \in {b \in atoms : /\ provider = "claude-code"
                                                     /\ b.request \in Disputed(provider, atoms)}}
    IN  IF (UNION {a.aliases : a \in group}) \cap claimants # {}
           \/ ((\E a \in group : a.kind = "subagent") /\ ~everyone)
        THEN "partial" ELSE "complete"

Row(kind, name, group, tokens, coverage) ==
    [kind |-> kind, name |-> name, under |-> <<>>, tokens |-> tokens, coverage |-> coverage,
     count |-> Cardinality(group),
     failures |-> Cardinality({a \in group : a.outcome \in {"failure", "rejected"}}),
     rejected |-> Cardinality({a \in group : a.outcome = "rejected"})]

Unallocated(tokens) ==
    IF tokens = Zero THEN {}
    ELSE {[Row("unallocated", "unallocated", {}, tokens, "partial") EXCEPT !.count = 1]}

(* Groups of like activities take the usage they own, one after another while  *)
(* the run's totals last; the rest is left unallocated.                        *)
Taken(provider, atoms, group, rows, selected, totals) ==
    LET fits == selected # {} /\ NoMore(Plus(TokensOf(rows), Usage(selected)), totals)
        one  == CHOOSE a \in group : TRUE
    IN  rows \cup {IF fits THEN Row(one.kind, one.name, group, Usage(selected),
                                   Coverage(provider, atoms, group, selected))
                   ELSE Row(one.kind, one.name, group, Zero, "unavailable")}

WithRest(rows, totals) == rows \cup Unallocated(Minus(totals, TokensOf(rows)))

LastGroup(groups) ==
    CHOOSE g \in groups : \A h \in groups : Min({a.id : a \in h}) <= Min({a.id : a \in g})

runBreakdown(provider, atoms, acts, totals) ==
    LET groups == {{b \in acts : b.kind = a.kind /\ b.name = a.name} : a \in acts}
    IN  WithRest(MapThenFoldSet(LAMBDA g, rows : Taken(provider, atoms, g, rows, Allocatable(provider, atoms, g), totals),
                                {}, LAMBDA g : g, LastGroup, groups), totals)

(* --------------------------------- runs --------------------------------- *)
Price(atoms) ==
    LET reported == {a \in atoms : a.reported # Never}
        rated    == IF reported # {} THEN reported ELSE {a \in atoms : a.rated}
        cost     == IF reported # {} THEN MapThenSumSet(LAMBDA a : a.reported, reported)
                                     ELSE MapThenSumSet(Weight, rated)
        complete == atoms # {} /\ rated = atoms
    IN  [cost     |-> IF complete \/ cost > 0 THEN cost ELSE Never,
         coverage |-> IF complete THEN "complete" ELSE IF cost > 0 THEN "partial" ELSE "unavailable"]

Outcome(o) ==
    /\ ~o.internal /\ o.completed # Never /\ o.completed >= o.start
    /\ o.evidence \notin {None, "inactivity"} /\ o.outcome # None

Run(q, session, tokens, price, acts, rows, o, start, end) ==
    [query |-> q, session |-> session, tokens |-> tokens, cost |-> price.cost, costs |-> price.coverage,
     tools |-> Cardinality(acts), rows |-> rows, start |-> start, end |-> end,
     outcome |-> IF Outcome(o) THEN o.outcome ELSE None]

groupRun(provider, q, atoms, accounting, selected, now, o, acts) ==
    LET sessions == {a.session : a \in atoms} \ {None}
        session  == CASE o.session # None -> o.session
                      [] o.session = None /\ Cardinality(sessions) = 1 -> CHOOSE s \in sessions : TRUE
                      [] OTHER -> q
        end      == IF accounting = {} THEN Never
                    ELSE completedAt(provider, IF selected # {} THEN selected ELSE accounting, now, o)
        starts   == {a.start : a \in atoms} \cup ({o.start} \ {Never})
    IN  Run(q, session, Usage(selected), Price(selected), acts,
            runBreakdown(provider, atoms, acts, Usage(selected)), o, Min(starts), end)

Selected(provider, authority, accounting) ==
    Enriched(provider, authority,
             preferProviderUsageSurface(provider, OfAuthority(accounting, authority)), accounting)

projectGroup(provider, q, atoms, now, o, acts) ==
    LET accounting == {a \in atoms : a.kind # "lifecycle"}
        authority  == TopAuthority(provider, IF accounting # {} THEN accounting ELSE atoms)
    IN  groupRun(provider, q, atoms, accounting, Selected(provider, authority, accounting), now, o, acts)

(* A completed turn of which no usage is known is a run of no tokens.          *)
projectOccurrenceOnlyGroup(provider, o, acts) ==
    Run(o.query, o.session, Zero, [cost |-> Never, coverage |-> "unavailable"], acts,
        runBreakdown(provider, {}, acts, Zero), o, o.start, o.completed)

(* -------------------------- linked subagent runs ------------------------- *)
(* An activity links the one run of its child session to the run it is in,     *)
(* when no other run claims that child.                                        *)
Links(runs, acts) ==
    LET children(a) == {r \in runs : r.session = a.child}
        candidates == {a \in acts : /\ a.kind = "subagent" /\ a.child # None
                                    /\ Cardinality(children(a)) = 1
                                    /\ \A r \in children(a) : r.query # a.query
                                    /\ \E r \in runs : r.query = a.query}
        link(a) == [parent |-> a.query, act |-> a, child |-> (CHOOSE r \in children(a) : TRUE).query]
        links   == {link(a) : a \in candidates}
    IN  {l \in links : \A m \in links : m.child = l.child => m.parent = l.parent}

(* a plausible slip: what a child could not allocate is dropped                 *)
SlipMergeSubagentBreakdown(parent, child, act) ==
    parent.rows \cup {[r EXCEPT !.under = <<act.id>> \o @] : r \in {c \in child.rows : c.kind # "unallocated"}}

mergeSubagentBreakdown(parent, child, act) ==
    LET mine(r)   == r.kind = "subagent" /\ r.name = act.name /\ r.under = <<>>
        own       == IF \E r \in parent.rows : mine(r) THEN CHOOSE r \in parent.rows : mine(r)
                     ELSE Row("subagent", act.name, {act}, Zero, "unavailable")
        named     == {r \in child.rows : r.kind # "unallocated"}
        rest      == TokensOf(child.rows \ named)
        residual  == Minus(child.tokens, TokensOf(child.rows))
        tokens    == Plus(own.tokens, Plus(rest, residual))
        coverage  == CASE tokens = Zero -> own.coverage
                       [] \E r \in named : r.tokens # Zero -> "partial"
                       [] OTHER -> "unavailable"
    IN  (parent.rows \ {own}) \cup {[own EXCEPT !.tokens = tokens, !.coverage = coverage]}
            \cup {[r EXCEPT !.under = <<act.id>> \o @] : r \in named}

mergeLinkedSubagentRun(parent, child, act) ==
    [parent EXCEPT
        !.tokens = Plus(@, child.tokens),
        !.cost   = IF @ = Never /\ child.cost = Never THEN Never ELSE Tokens(@) + Tokens(child.cost),
        !.costs  = IF @ = child.costs /\ @ # "partial" THEN @ ELSE "partial",
        !.tools  = @ + child.tools,
        !.rows   = mergeSubagentBreakdown(parent, child, act),
        !.start  = Min({@, child.start}),
        !.end    = IF @ # Never /\ child.end # Never THEN Max({@, child.end}) ELSE Never]

finalizeLinkedSubagentBreakdown(run, links) ==
    LET linked(name) == Cardinality({l \in links : l.act.name = name})
        proved(r) == r.kind = "subagent" /\ r.under = <<>> /\ linked(r.name) = r.count /\ r.tokens # Zero
    IN  IF links = {} THEN run
        ELSE [run EXCEPT !.rows = {IF proved(r) THEN [r EXCEPT !.coverage = "complete"] ELSE r : r \in @}]

LastLink(links) == CHOOSE l \in links : \A m \in links : m.act.id <= l.act.id

aggregateLinkedSubagentRuns(runs, acts) ==
    LET links   == Links(runs, acts)
        below(r) == {l \in links : l.parent = r.query}
        run(q)  == CHOOSE x \in runs : x.query = q
        folded[n \in 0..Cardinality(runs)] ==
            [r \in runs |->
                IF n = 0 THEN r
                ELSE finalizeLinkedSubagentBreakdown(
                        MapThenFoldSet(LAMBDA l, whole : mergeLinkedSubagentRun(whole, folded[n - 1][run(l.child)], l.act),
                                       r, LAMBDA l : l, LastLink, below(r)),
                        below(r))]
    IN  {folded[Cardinality(runs)][r] : r \in {x \in runs : ~\E l \in links : l.child = x.query}}

(* ------------------------------ projection ------------------------------ *)
project(provider, atoms, now, occs, acts) ==
    LET visible  == Visible(atoms, occs)
        customer == visible \ Titles(visible)
        merged   == Activities(provider, Visible(acts, occs))
        of(x, q) == {y \in x : y.query = q}
        used     == {a.query : a \in customer}
        runs     == {projectGroup(provider, q, of(customer, q), now, OccurrenceOf(occs, q), of(merged, q)) : q \in used}
        silent   == {projectOccurrenceOnlyGroup(provider, o, of(merged, o.query)) :
                        o \in {p \in occs : Outcome(p) /\ p.query \notin used}}
    IN  aggregateLinkedSubagentRuns(runs \cup silent, merged)

(* The runs a customer is shown: Claude's only when a prompt was submitted.    *)
projectProduction(provider, atoms, now, occs, acts) ==
    {r \in project(provider, atoms, now, occs, acts) :
        provider = "claude-code" =>
            LET o == OccurrenceOf(occs, r.query) IN ~o.internal /\ o.source = "submission_hook"}

isCompletedRun(r) == r.end # Never /\ r.end >= r.start
================================================================================
