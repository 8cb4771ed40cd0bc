--------------------------- MODULE MCAgentRuntime ---------------------------
EXTENDS AgentRuntime

OneRun == [o \in Observations |-> CHOOSE r \in Runs : TRUE]

Scene(who, warm, sent, calls, faults) ==
    [owner |-> who, warm |-> warm, sent |-> sent, calls |-> calls, faults |-> faults]

Others == Observations \ Closing

(* A quiesce of an agent at work, with an observation that closes the run,   *)
(* with others, and with requests and changes of attribution under way; a  *)
(* start, a crash and a restart; the transition to full ownership; failures*)
(* of storage and dispatch; changes of attribution of a run that completes.*)
RuntimeScenes ==
    { Scene("full", TRUE, Closing, {"quiesce"}, {}),
      Scene("full", TRUE, Others, {"quiesce"}, {}),
      Scene("full", TRUE, {}, {"quiesce", "test", "attribution"}, {}),
      Scene("full", FALSE, Closing, {}, {"crash"}),
      Scene("usage", TRUE, Closing, {}, {}),
      Scene("full", TRUE, Closing, {"upkeep"}, {"ledger", "dispatch"}),
      Scene("full", TRUE, Closing, {"attribution"}, {}) }

=============================================================================
