------------------------------ MODULE CursorSource ------------------------------
(* What TelemetrySourceConfiguration decides about Cursor's hooks.json: only    *)
(* hooks, each running a relay script, and the file's version field.            *)
EXTENDS FiniteSets

CONSTANT Tokens

Keys   == {"version"}
Events == {"lifecycle", "tool"}

UserValues == [k \in Keys |-> {"absent", "1"}]

HooksManaged(f, relay, e) == relay /\ f[e] \in Tokens

(* A hook that runs the relay at its path, the script being there or not.      *)
LocalShape(f) == \E e \in Events : f[e] \in Tokens

HeaderMismatch(f, token) ==
  \E e \in Events : f[e] \in Tokens /\ f[e] # token

(* cursorStatus, without a remembered baseline and with one.                   *)
UnmanagedState(f) == IF LocalShape(f) THEN "adoptable_local" ELSE "unmanaged"

ManagedState(f, b, token, relay) ==
  IF \A e \in Events : ~HooksManaged(f, relay, e) THEN "managed_drifted"
  ELSE IF HeaderMismatch(f, token) THEN "managed_stale_authority"
  ELSE IF \/ ~HooksManaged(f, relay, "lifecycle")
          \/ HooksManaged(f, relay, "tool") # b.tools
  THEN "managed_drifted"
  ELSE "managed_current"

Written(f, token, tools) ==
  [f EXCEPT !.there = TRUE, !.version = "1", !.lifecycle = token,
            !.tool = IF tools THEN token ELSE "absent"]

Baseline(f, adopted, tools) ==
  [there |-> f.there, adopted |-> adopted, version |-> f.version, tools |-> tools]

(* The entries parseRestoreState accepts; it refuses the file for any other.   *)
Baselines ==
  [there : BOOLEAN, adopted : BOOLEAN, version : {"absent", "1"}, tools : BOOLEAN]

Rerecorded(b, new) == [b EXCEPT !.tools = new.tools]

RestoreRefused(f, b, token, relay) ==
  IF b.adopted
  THEN ManagedState(f, b, token, relay)
         \notin {"managed_current", "managed_stale_authority"}
  ELSE \/ ~HooksManaged(f, relay, "lifecycle")
       \/ b.tools /\ ~HooksManaged(f, relay, "tool")

Restored(f, b) ==
  LET version == IF b.version = "absent" THEN "absent" ELSE f.version
  IN  [f EXCEPT !.lifecycle = "absent", !.tool = "absent", !.version = version,
                !.there = b.there \/ f.other \/ version # "absent"]
===============================================================================
