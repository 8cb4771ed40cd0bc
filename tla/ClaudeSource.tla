------------------------------ MODULE ClaudeSource ------------------------------
(* What TelemetrySourceConfiguration decides about Claude Code's settings.json: *)
(* whose configuration the file holds, when configuring or restoring it is      *)
(* refused, what is written and what is remembered (sourceConfiguration.ts).    *)
(* The managed environment keys are grouped by the rule that governs them:      *)
(*   cadence   the two export intervals   enabled  the two telemetry gates      *)
(*   gate      the content gates          exporter the two exporter lists       *)
(*   endpoint  endpoints and protocols    headers  the authorization header     *)
(* and the managed hooks into lifecycle and tool events. A header or a hook of  *)
(* Tirion's is named by the token it carries.                                   *)
EXTENDS FiniteSets

CONSTANT Tokens   \* the OTLP tokens the agent may hold over time

Keys   == {"cadence", "enabled", "gate", "exporter", "endpoint", "headers"}
Events == {"lifecycle", "tool"}

(* The values the user gives a key: never one of Tirion's tokens.              *)
UserValues ==
  [k \in Keys |->
     CASE k = "cadence"  -> {"absent", "user", "invalid"}
       [] k = "enabled"  -> {"absent", "0", "1"}
       [] k = "gate"     -> {"absent", "0", "1"}
       [] k = "exporter" -> {"absent", "console", "foreign"}
       [] k = "endpoint" -> {"absent", "foreign"}
       [] k = "headers"  -> {"absent", "foreign"}]

Footprint(f) == \E k \in Keys : f[k] # "absent"

Reaches(f) == f.exporter \in {"otlp", "console,otlp"}

(* logsEnabled and tracesEnabled of claudeState.                               *)
Enabled(f) == f.enabled = "1" /\ Reaches(f) /\ f.endpoint = "ours"

(* A Tirion exporter nobody remembers having written.                          *)
LocalShape(f) == f.exporter # "foreign" /\ f.endpoint = "ours"

(* Every event of es carries the one managed handler, with this authorization. *)
HooksExact(f, es, auth) == \A e \in es : f[e] = auth

ConflictShape(f) == f.exporter = "foreign" \/ f.endpoint = "foreign"

Drifted(f, b, token) ==
  \/ f.cadence # "ours"
  \/ ConflictShape(f)
  \/ f.headers # token
  \/ ~Enabled(f)
  \/ ~HooksExact(f, b.owned, token)
  \/ f.gate # b.capture

ClaimsAuthority(f) ==
  \E k \in {"exporter", "endpoint", "headers"} : f[k] # "absent"

(* claudeCodeStatus, for a file without a remembered baseline ...              *)
UnmanagedState(f, token) ==
  IF LocalShape(f)
  THEN "adoptable_local"
  ELSE IF f.cadence # "invalid"
          /\ (ConflictShape(f) \/ (f.headers # token /\ ClaimsAuthority(f)))
       THEN "foreign_managed"
       ELSE "unmanaged"

(* ... and for one with a baseline.                                            *)
ManagedState(f, b, token) ==
  IF f.cadence = "invalid" \/ (~Footprint(f) /\ ~Enabled(f))
  THEN "managed_drifted"
  ELSE IF f.endpoint # "foreign" /\ f.headers # token /\ Enabled(f)
  THEN "managed_stale_authority"
  ELSE IF f.blocked \/ Drifted(f, b, token) THEN "managed_drifted"
  ELSE "managed_current"

-------------------------------------------------------------------------------
(* configureClaudeCode.                                                        *)

(* A header or a hook that was there before Tirion may not change authority:   *)
(* its old secret could not be put back.                                       *)
AuthorityFixed(f, b, token) ==
  /\ "headers" \in b.present => f.headers = token
  /\ HooksExact(f, b.preserved, token)

Recoverable(state) == state \in {"managed_stale_authority", "adoptable_local"}

(* Not what Tirion would write, and not recognisably Tirion's.                 *)
Conflicting(f, token) ==
  \/ f.endpoint = "foreign"
  \/ f.headers \notin {"absent", token}
  \/ f.exporter = "foreign"
  \/ Reaches(f) /\ f.endpoint # "ours"

RefusedFirst(f, token) ==
  \/ LocalShape(f) /\ f.headers # token
  \/ \E e \in Events : f[e] \notin {"absent", token}
  \/ Conflicting(f, token) /\ ~Recoverable(UnmanagedState(f, token))

RefusedAgain(f, b, token) ==
  \/ ~AuthorityFixed(f, b, token)
  \/ Conflicting(f, token) /\ ~Recoverable(ManagedState(f, b, token))

NeverConfigurable(f) == f.cadence = "invalid" \/ f.blocked

(* The exporter list with otlp added, which is also what a restore expects to  *)
(* find for a remembered list (claudeConfiguredExporterValue).                 *)
WithOtlp(exporter) ==
  CASE exporter = "console"        -> "console,otlp"
    [] exporter \in {"absent", "otlp"} -> "otlp"
    [] OTHER                       -> exporter

DesiredEvents(tools) == IF tools THEN Events ELSE {"lifecycle"}

(* claudePreservedHookEvents: the managed-looking hooks Tirion found there.    *)
Preserved(f, owned, preserved) ==
  preserved \cup {e \in Events \ owned : f[e] # "absent"}

Written(f, preserved, token, capture, tools) ==
  [k \in DOMAIN f |->
     CASE k = "cadence"   -> "ours"
       [] k = "enabled"   -> "1"
       [] k = "gate"      -> capture
       [] k = "exporter"  -> WithOtlp(f.exporter)
       [] k = "endpoint"  -> "ours"
       [] k = "headers"   -> token
       [] k \in Events    -> IF k \in DesiredEvents(tools) THEN token
                             ELSE IF k \in preserved THEN f[k] ELSE "absent"
       [] k = "there"     -> TRUE
       [] OTHER           -> f[k]]

(* What is remembered of the file: which keys it had and the values of those   *)
(* whose values can be put back (a foreign exporter list cannot).              *)
Baseline(f, preserved, capture, tools) ==
  [there     |-> f.there,
   present   |-> {k \in Keys : f[k] # "absent"},
   previous  |-> [k \in {"cadence", "enabled", "gate", "exporter"} |->
                    IF f[k] = "foreign" THEN "absent" ELSE f[k]],
   capture   |-> capture,
   owned     |-> DesiredEvents(tools),
   preserved |-> preserved]

(* The entries parseRestoreState accepts; it refuses the file for any other.   *)
Baselines ==
  [there     : BOOLEAN,
   present   : SUBSET Keys,
   previous  : [cadence : {"absent", "user", "ours"}, enabled : {"absent", "0", "1"},
                gate : {"absent", "0", "1"},
                exporter : {"absent", "console", "otlp", "console,otlp"}],
   capture   : {"0", "1"},
   owned     : SUBSET Events,
   preserved : SUBSET Events]

SlipRerecorded(b, new) == [new EXCEPT !.there = b.there]

(* recordRestoreState over a baseline that exists: the first one wins.         *)
Rerecorded(b, new) ==
  [b EXCEPT !.capture   = new.capture,
            !.owned     = new.owned,
            !.preserved = b.preserved \cup new.preserved]

-------------------------------------------------------------------------------
(* restoreClaudeCode.                                                          *)

Desired(b, token) ==
  [cadence  |-> "ours",
   enabled  |-> "1",
   gate     |-> b.capture,
   exporter |-> WithOtlp(b.previous.exporter),
   endpoint |-> "ours",
   headers  |-> token]

(* The keys a restore puts back.                                               *)
Changed(b, token) ==
  {k \in Keys :
     \/ k \notin b.present
     \/ /\ k \in DOMAIN b.previous
        /\ ~(k = "exporter" /\ b.previous[k] = "absent")
        /\ b.previous[k] # Desired(b, token)[k]}

Moved(f, b, token, stale) ==
  \E k \in Changed(b, token) :
    IF k = "headers" /\ stale THEN f[k] = "absent"
    ELSE f[k] # Desired(b, token)[k]

RestoreRefused(f, b, token) ==
  LET stale == ManagedState(f, b, token) = "managed_stale_authority"
      auth  == IF stale THEN f.headers ELSE token
  IN  \/ Moved(f, b, token, stale)
      \/ ~HooksExact(f, b.owned, auth)
      \/ stale /\ auth \notin Tokens

PutBack(b, k) ==
  IF k \in DOMAIN b.previous THEN b.previous[k] ELSE "absent"

RestoredValue(f, b, token, k) ==
  CASE k \in Changed(b, token)        -> PutBack(b, k)
    [] k \in b.owned \ b.preserved    -> "absent"
    [] OTHER                          -> f[k]

Restored(f, b, token) ==
  LET values == [k \in DOMAIN f |-> RestoredValue(f, b, token, k)]
      empty  == /\ \A k \in Keys \cup Events : values[k] = "absent"
                /\ ~f.other /\ ~f.blocked
  IN  [values EXCEPT !.there = b.there \/ ~empty]
===============================================================================
