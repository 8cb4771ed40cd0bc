------------------------------- MODULE CodexSource -------------------------------
(* What TelemetrySourceConfiguration decides about Codex's config.toml. An      *)
(* exporter or a hook of Tirion's is named by the token it carries; "traces"    *)
(* stands for the trace and the metrics exporter, which are written and checked *)
(* alike. The hooks run a relay script the agent keeps beside its state.        *)
EXTENDS FiniteSets

CONSTANT Tokens

Keys   == {"logs", "traces", "prompt", "feature"}
Events == {"lifecycle", "tool"}

UserValues ==
  [k \in Keys |-> IF k \in {"logs", "traces"} THEN {"absent", "foreign"}
                  ELSE {"absent", "0", "1"}]

Exporters(f) == {f.logs, f.traces}

HooksExact(f, token, relay, e) == relay /\ f[e] = token

Drifted(f, b, token, relay) ==
  \/ Exporters(f) # {token}
  \/ (f.prompt = "1") # (b.capture = "1")
  \/ f.feature # "1"
  \/ HooksExact(f, token, relay, "tool") # b.tools
  \/ ~HooksExact(f, token, relay, "lifecycle")

(* codexStatus, without a remembered baseline and with one.                    *)
UnmanagedState(f, token) ==
  IF Exporters(f) \subseteq Tokens THEN "adoptable_local"
  ELSE IF Exporters(f) \ {"absent", token} # {} THEN "foreign_managed"
  ELSE "unmanaged"

ManagedState(f, b, token, relay) ==
  IF Exporters(f) = {"absent"} /\ f.prompt = "absent" THEN "managed_drifted"
  ELSE IF Exporters(f) \subseteq Tokens /\ Exporters(f) # {token}
  THEN "managed_stale_authority"
  ELSE IF Drifted(f, b, token, relay) THEN "managed_drifted"
  ELSE "managed_current"

-------------------------------------------------------------------------------
(* configureCodex.                                                             *)

Refused(f, state, token) ==
  /\ Exporters(f) \ {"absent", token} # {}
  /\ state \notin {"managed_stale_authority", "adoptable_local"}

Written(f, token, capture, tools) ==
  [f EXCEPT !.there = TRUE, !.feature = "1", !.prompt = capture,
            !.logs = token, !.traces = token, !.lifecycle = token,
            !.tool = IF tools THEN token ELSE "absent"]

(* What is remembered: nothing of an exporter's value, and nothing at all of a *)
(* file that already held Tirion's exporters.                                  *)
Baseline(f, adopted, capture, tools) ==
  [there   |-> f.there,
   adopted |-> adopted,
   present |-> IF adopted THEN {} ELSE {k \in {"logs", "traces"} : f[k] # "absent"},
   prompt  |-> IF adopted THEN "absent" ELSE f.prompt,
   feature |-> f.feature,
   capture |-> capture,
   tools   |-> tools]

(* The entries parseRestoreState accepts; it refuses the file for any other.   *)
Baselines ==
  [there : BOOLEAN, adopted : BOOLEAN, present : SUBSET {"logs", "traces"},
   prompt : {"absent", "0", "1"}, feature : {"absent", "0", "1"},
   capture : {"0", "1"}, tools : BOOLEAN]

Rerecorded(b, new) == [b EXCEPT !.capture = new.capture, !.tools = new.tools]

-------------------------------------------------------------------------------
(* restoreCodex.                                                               *)

(* A hook of Tirion's counts whatever token it carries.                        *)
HooksManaged(f, relay, e) == relay /\ f[e] \in Tokens

SlipRestoreReady(f, b, token, relay) ==
  /\ f.feature = "1"
  /\ Exporters(f) = {token}
  /\ HooksManaged(f, relay, "lifecycle")
  /\ b.tools => HooksManaged(f, relay, "tool")

RestoreReady(f, b, token, relay) ==
  LET stale == ManagedState(f, b, token, relay) = "managed_stale_authority"
  IN  /\ f.feature = "1"
      /\ IF stale THEN Exporters(f) \subseteq Tokens ELSE Exporters(f) = {token}
      /\ f.prompt = b.capture
      /\ HooksManaged(f, relay, "lifecycle")
      /\ b.tools => HooksManaged(f, relay, "tool")

RestoreRefused(f, b, token, relay) ==
  IF b.adopted
  THEN ManagedState(f, b, token, relay)
         \notin {"managed_current", "managed_stale_authority"}
  ELSE ~RestoreReady(f, b, token, relay)

RestoredValue(f, b, k) ==
  CASE k \in {"logs", "traces"} -> IF k \in b.present THEN f[k] ELSE "absent"
    [] k = "prompt"             -> b.prompt
    [] k = "feature"            -> IF b.adopted THEN "absent" ELSE b.feature
    [] k \in Events             -> "absent"
    [] OTHER                    -> f[k]

Restored(f, b) ==
  LET values == [k \in DOMAIN f |-> RestoredValue(f, b, k)]
      empty  == ~f.other /\ \A k \in Keys : values[k] = "absent"
  IN  [values EXCEPT !.there = b.there \/ ~empty]
===============================================================================
