--------------------------- MODULE MCProductionUsage ---------------------------
(* What three providers tell of a few turns, for TLC. Times are small integers; *)
(* evidence of a turn may arrive at any moment after it happened, in any order. *)
EXTENDS ProductionUsage

Atom(id, q, s, request, authority, surface, start, end) ==
    [id |-> id, query |-> q, session |-> s, request |-> request, authority |-> authority,
     kind |-> "usage", surface |-> surface, base |-> 1, cache |-> Never, reported |-> Never,
     rated |-> TRUE, start |-> start, end |-> end, mode |-> "explicit", owner |-> None,
     conflicts |-> {}, title |-> FALSE]

Activity(id, q, kind, name, basis, start, end) ==
    [id |-> id, query |-> q, call |-> None, child |-> None, kind |-> kind, name |-> name,
     basis |-> basis, origin |-> "tools", outcome |-> "success", native |-> FALSE,
     start |-> start, end |-> end, aliases |-> {}]

Turn(q, s, source, start) ==
    [NoOccurrence EXCEPT !.query = q, !.session = s, !.source = source, !.start = start]

Done(turn, end, evidence, outcome) ==
    [turn EXCEPT !.completed = end, !.evidence = evidence, !.outcome = outcome]

Batch(id, time, as, cs, os) == [id |-> id, time |-> time, atoms |-> as, acts |-> cs, occs |-> os]

(* Claude Code: a tool call owns the first request, told by its log and by its  *)
(* trace; the turn ends by its Stop hook, and a request begins after the end.   *)
Prompt == Turn("q1", "s1", "submission_hook", 0)
Claude ==
    [provider |-> "claude-code", root |-> "q1",
     told |-> {
        Batch("t1", 0, {[Atom(1, "q1", "s1", "x1", "request", "logs", 0, 0) EXCEPT !.base = 2]},
                      {[Activity(2, "q1", "tool", "Read", "tool_hook", 0, 0) EXCEPT !.call = "u1"]}, {Prompt}),
        Batch("t2", 0, {[Atom(2, "q1", "s1", "x1", "request", "traces", 0, 0) EXCEPT
                          !.base = 2, !.cache = 1, !.owner = 1]},
                      {[Activity(1, "q1", "tool", "Read", "trace_span", 0, 0) EXCEPT !.call = "u1"]}, {}),
        Batch("t3", 1, {[Atom(3, "q1", "s1", "x2", "request", "logs", 1, 1) EXCEPT !.base = 3],
                      [Atom(9, "q1", "s1", "x9", "request", "logs", 0, 0) EXCEPT !.title = TRUE]}, {},
                      {Done(Prompt, 1, "stop_hook", "success")}),
        Batch("t4", 2, {Atom(4, "q1", "s1", "x3", "request", "logs", 2, 2)}, {},
                      {Done(Prompt, 2, "inactivity", None)})},
     truth |-> [q \in {"q1"} |-> [base |-> 5, cache |-> 1]]]

(* Codex: slices of the turn, then its closed trace; a subagent's session is    *)
(* linked by the activity that started it.                                      *)
User  == Turn("q1", "s1", "provider_user_prompt_event", 0)
Child == Turn("q2", "s2", "provider_user_prompt_event", 0)
Codex ==
    [provider |-> "codex", root |-> "q1",
     told |-> {
        Batch("t1", 0, {[Atom(1, "q1", "s1", "x1", "request", "logs", 0, 0) EXCEPT !.mode = "inactivity"]},
                      {[Activity(1, "q1", "subagent", "explore", "trace_span", 0, 1) EXCEPT !.child = "s2"]}, {User}),
        Batch("t2", 1, {[Atom(2, "q1", "s1", None, "turn", "traces", 0, 1) EXCEPT !.base = 3]}, {},
                      {Done(User, 1, "provider_completed_event", "success")}),
        Batch("t3", 1, {[Atom(3, "q2", "s2", None, "turn", "traces", 0, 1) EXCEPT !.base = 2]}, {},
                      {Done(Child, 1, "provider_completed_event", "success")})},
     truth |-> ("q1" :> [base |-> 5, cache |-> 0]) @@ ("q2" :> [base |-> 2, cache |-> 0])]

(* Copilot: the run span carries no cache tokens, its model spans do.           *)
Chat == Turn("q1", "s1", "provider_root_span", 0)
Copilot ==
    [provider |-> "github-copilot", root |-> "q1",
     told |-> {
        Batch("t1", 1, {[Atom(1, "q1", "s1", None, "run", "traces", 0, 1) EXCEPT !.base = 3]}, {},
                      {Done(Chat, 1, "closed_root_span", None)}),
        Batch("t2", 0, {[Atom(2, "q1", "s1", "x1", "model", "traces", 0, 0) EXCEPT !.base = 2, !.cache = 1, !.owner = 1]}, {},
                      {Done(Chat, 0, "inactivity", None)}),
        Batch("t3", 1, {[Atom(3, "q1", "s1", "x2", "model", "traces", 1, 1) EXCEPT !.cache = 1]}, {}, {}),
        Batch("t4", 0, {}, {Activity(1, "q1", "tool", "edit", "trace_span", 0, 0)}, {Chat})},
     truth |-> [q \in {"q1"} |-> [base |-> 3, cache |-> 2]]]

AllFeeds == {Claude, Codex, Copilot}
================================================================================
