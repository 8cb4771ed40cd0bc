----------------------- MODULE SourceConfigurationProofs -----------------------
(* Proofs about what happens to a tool's configuration file over time: every  *)
(* authority the agent writes is remembered, a hook finds its relay, and a    *)
(* restore gives back what the user had and touches nothing else, for any     *)
(* tokens, initial files and numbers of requests, edits, crashes and restarts.*)
EXTENDS SourceConfiguration, TLAPS

Settings == {"there", "other", "blocked"}

(* The values only Tirion gives a key.                                        *)
Ours(k) ==
  CASE k \in {"headers", "logs", "traces"} -> Tokens
    [] k \in {"cadence", "endpoint"}       -> {"ours"}
    [] k = "exporter"                      -> {"otlp", "console,otlp"}
    [] OTHER                               -> {}

IsFile(f) ==
  /\ f = [k \in Keys \cup Events \cup Settings |-> f[k]]
  /\ \A k \in Keys : f[k] \in UserValues(k) \cup Ours(k)
  /\ \A e \in Events : f[e] \in Tokens \cup {"absent"}
  /\ \A s \in Settings : f[s] \in BOOLEAN

(* A file with values of the user only, and one without hooks.                *)
Clean(f)    == \A k \in Keys : f[k] \in UserValues(k)
Unhooked(f) == \A e \in Events : f[e] = "absent"

BaselinesOf == CASE provider = "claude-code" -> Claude!Baselines
                 [] provider = "codex"       -> Codex!Baselines
                 [] provider = "cursor"      -> Cursor!Baselines

(* Baseline b remembers what file p, which had only the user's values, held.  *)
Faithful(b, p) ==
  /\ Clean(p)
  /\ provider = "claude-code" =>
       /\ p["endpoint"] = "absent" /\ p["headers"] = "absent" /\ p["exporter"] # "foreign"
       /\ b.present = {k \in Keys : p[k] # "absent"}
       /\ \A k \in {"cadence", "enabled", "gate", "exporter"} : b.previous[k] = p[k]
  /\ provider = "codex" =>
       /\ p["logs"] = "absent" /\ p["traces"] = "absent" /\ b.present = {} /\ ~b.adopted
       /\ b.prompt = p["prompt"] /\ b.feature = p["feature"]
  /\ provider = "cursor" => b.version = p["version"]

(* A file that shows Tirion's authority has the other values Tirion wrote.    *)
Coherent(f) ==
  /\ provider = "claude-code" => (f["endpoint"] = "ours" => f["enabled"] = "1")
  /\ provider = "codex"       => (f["logs"] \in Tokens => f["feature"] = "1")
  /\ provider = "cursor"      => (~Unhooked(f) => f["version"] = "1")

(* What a file holds that was configured with baseline b.                     *)
AsConfigured(g, b) ==
  /\ IsFile(g) /\ Coherent(g)
  /\ provider = "claude-code" => g["enabled"] = "1" /\ g["gate"] = b.capture
  /\ provider = "cursor"      => g["version"] = "1"

(* Of the keys a restore may leave alone, those that Tirion writes are as it  *)
(* wrote them unless the user's own.                                          *)
LeftAlone ==
  /\ provider = "claude-code" =>
       /\ file["enabled"] \in {prior["enabled"], own["enabled"], "1"}
       /\ file["gate"] \in {prior["gate"], own["gate"], baseline.capture}
  /\ provider = "cursor" => file["version"] \in {prior["version"], own["version"], "1"}

OnlyOurs(g) ==
  \A k \in Keys \cup Events :
    g[k] # file[k] =>
      \/ file[k] = wrote[k]
      \/ k \in {"gate", "prompt"} /\ file[k] = baseline.capture

GivesBack(g) == \A k \in Keys : g[k] \in {prior[k], own[k]}

AsRestored(g) ==
  /\ IsFile(g)
  /\ UsesRelay => Unhooked(g)
  /\ ~purged => /\ Clean(g) /\ Coherent(g) /\ OnlyOurs(g)
                /\ (provider = "claude-code" => crashes = 0) => GivesBack(g)

Recordable(b) ==
  /\ b \in BaselinesOf
  /\ ~purged => Faithful(b, IF Managed THEN prior ELSE file)

(* The writes that a request still has to do.                                 *)
Configuring ==
  \/ /\ Len(todo) = 1
     /\ todo = <<Write("baseline", todo[1].value)>>
     /\ Recordable(todo[1].value) /\ ~Managed
  \/ /\ Len(todo) = 2 /\ ~UsesRelay
     /\ todo = <<Write("baseline", todo[1].value), Write("file", todo[2].value)>>
     /\ Recordable(todo[1].value) /\ AsConfigured(todo[2].value, todo[1].value)
  \/ /\ Len(todo) = 3 /\ UsesRelay
     /\ todo = <<Write("baseline", todo[1].value), Write("relay", TRUE),
                 Write("file", todo[3].value)>>
     /\ Recordable(todo[1].value) /\ AsConfigured(todo[3].value, todo[1].value)
  \/ /\ Len(todo) = 2 /\ UsesRelay /\ Managed
     /\ todo = <<Write("relay", TRUE), Write("file", todo[2].value)>>
     /\ AsConfigured(todo[2].value, baseline)
  \/ /\ Len(todo) = 1 /\ Managed /\ (UsesRelay => relay)
     /\ todo = <<Write("file", todo[1].value)>>
     /\ AsConfigured(todo[1].value, baseline)

Restoring ==
  /\ Managed
  /\ \/ /\ Len(todo) = 2 /\ ~UsesRelay
        /\ todo = <<Write("file", todo[1].value), Write("baseline", None)>>
        /\ AsRestored(todo[1].value)
     \/ /\ Len(todo) = 3 /\ UsesRelay
        /\ todo = <<Write("file", todo[1].value), Write("relay", FALSE),
                    Write("baseline", None)>>
        /\ AsRestored(todo[1].value)
     \/ /\ Len(todo) = 2 /\ UsesRelay
        /\ todo = <<Write("relay", FALSE), Write("baseline", None)>>
        /\ Unhooked(file) /\ (~purged => Clean(file))
     \/ /\ Len(todo) = 1
        /\ todo = <<Write("baseline", None)>>
        /\ ~purged => Clean(file)

Types ==
  /\ provider \in {"claude-code", "codex", "cursor"}
  /\ token \in Tokens /\ relay \in BOOLEAN /\ purged \in BOOLEAN /\ crashes \in Nat
  /\ IsFile(file) /\ IsFile(wrote) /\ IsFile(prior)
  /\ own = [k \in Keys |-> own[k]]
  /\ Managed => baseline \in BaselinesOf

Remembered ==
  /\ ~purged /\ ~Managed => Clean(file)
  /\ ~purged /\ Managed => Faithful(baseline, prior)
  /\ UsesRelay /\ ~Unhooked(file) => relay
  /\ \A k \in Keys : file[k] = wrote[k] \/ file[k] \in UserValues(k)
  /\ \A e \in Events : file[e] = wrote[e] \/ file[e] = "absent"
  /\ ~purged => Coherent(wrote)
  /\ ~purged /\ Managed
       /\ (provider = "claude-code" => crashes = 0 /\ ~(op = "configure" /\ ~Idle))
     => LeftAlone

Underway ==
  \/ Idle
  \/ op = "configure" /\ Configuring
  \/ op = "restore" /\ Restoring

SourceInv == Types /\ Remembered /\ Underway

-------------------------------------------------------------------------------
(* The three tools' files, spelt out.                                         *)

LEMMA ClaudeFile ==
  ASSUME provider = "claude-code"
  PROVE  /\ Keys = {"cadence", "enabled", "gate", "exporter", "endpoint", "headers"}
         /\ ~UsesRelay /\ BaselinesOf = Claude!Baselines
         /\ UserValues("cadence") = {"absent", "user", "invalid"}
         /\ UserValues("enabled") = {"absent", "0", "1"}
         /\ UserValues("gate") = {"absent", "0", "1"}
         /\ UserValues("exporter") = {"absent", "console", "foreign"}
         /\ UserValues("endpoint") = {"absent", "foreign"}
         /\ UserValues("headers") = {"absent", "foreign"}
  BY DEF Keys, Claude!Keys, UsesRelay, BaselinesOf, UserValues, Claude!UserValues

LEMMA CodexFile ==
  ASSUME provider = "codex"
  PROVE  /\ Keys = {"logs", "traces", "prompt", "feature"}
         /\ UsesRelay /\ BaselinesOf = Codex!Baselines
         /\ UserValues("logs") = {"absent", "foreign"}
         /\ UserValues("traces") = {"absent", "foreign"}
         /\ UserValues("prompt") = {"absent", "0", "1"}
         /\ UserValues("feature") = {"absent", "0", "1"}
  BY DEF Keys, Codex!Keys, UsesRelay, BaselinesOf, UserValues, Codex!UserValues

LEMMA CursorFile ==
  ASSUME provider = "cursor"
  PROVE  /\ Keys = {"version"}
         /\ UsesRelay /\ BaselinesOf = Cursor!Baselines
         /\ UserValues("version") = {"absent", "1"}
  BY DEF Keys, Cursor!Keys, UsesRelay, BaselinesOf, UserValues, Cursor!UserValues

LEMMA OursAre ==
  /\ Ours("headers") = Tokens /\ Ours("logs") = Tokens /\ Ours("traces") = Tokens
  /\ Ours("cadence") = {"ours"} /\ Ours("endpoint") = {"ours"}
  /\ Ours("exporter") = {"otlp", "console,otlp"}
  /\ Ours("enabled") = {} /\ Ours("gate") = {} /\ Ours("prompt") = {}
  /\ Ours("feature") = {} /\ Ours("version") = {}
  BY DEF Ours

(* The user's values carry no authority, and no baseline is None.             *)
LEMMA NoAuthority ==
  ASSUME provider \in {"claude-code", "codex", "cursor"}
  PROVE  /\ \A k \in Keys : \A v \in UserValues(k) : v \notin Tokens
         /\ \A b \in BaselinesOf : b # None
         /\ "absent" \notin Tokens
<1>1. \A v \in Literals : v \notin Tokens
  BY SourceAssumption
<1>2. "absent" \notin Tokens
  BY <1>1 DEF Literals
<1>3. \A b \in BaselinesOf : b # None
  BY SourceAssumption, ClaudeFile, CodexFile, CursorFile
<1>4. \A k \in Keys : UserValues(k) \subseteq Literals
  BY ClaudeFile, CodexFile, CursorFile DEF Literals
<1> QED BY <1>1, <1>2, <1>3, <1>4
-------------------------------------------------------------------------------
(* Claude Code.                                                               *)

(* A configure that finds only the user's values finds no authority at all.   *)
LEMMA ClaudeFirst ==
  ASSUME provider = "claude-code", Types, ~Managed, Clean(file), ~ConfigureRefused
  PROVE  file["endpoint"] = "absent" /\ file["headers"] = "absent" /\ file["exporter"] # "foreign"
<1>1. /\ file["endpoint"] \in {"absent", "foreign"}
      /\ file["headers"] \in {"absent", "foreign"}
      /\ file["exporter"] \in {"absent", "console", "foreign"}
  BY ClaudeFile DEF Clean
<1>2. ~Claude!LocalShape(file) /\ Claude!UnmanagedState(file, token) # "adoptable_local"
  BY <1>1 DEF Claude!LocalShape, Claude!UnmanagedState
<1>3. Claude!UnmanagedState(file, token) # "managed_stale_authority"
  BY DEF Claude!UnmanagedState
<1>4. ~Claude!Conflicting(file, token)
  BY <1>2, <1>3 DEF ConfigureRefused, Claude!RefusedFirst, Claude!Recoverable
<1>5. token # "foreign"
  BY SourceAssumption DEF Types, Literals
<1> QED BY <1>1, <1>4, <1>5 DEF Claude!Conflicting

LEMMA ClaudeRecorded ==
  ASSUME provider = "claude-code", Types, ~ConfigureRefused,
         NEW capture \in Captures, NEW tools \in BOOLEAN,
         NEW b, b = Recorded(capture, tools)
  PROVE  /\ b \in BaselinesOf /\ b.capture = capture
         /\ Managed => b.present = baseline.present /\ b.previous = baseline.previous
         /\ ~Managed => /\ b.present = {k \in Keys : file[k] # "absent"}
                        /\ \A k \in {"cadence", "enabled", "gate", "exporter"} :
                              b.previous[k] = IF file[k] = "foreign" THEN "absent" ELSE file[k]
<1>1. PICK new : new = Observed(capture, tools)
  OBVIOUS
<1>2. PICK kept : kept = ClaudePreserved
  OBVIOUS
<1>3. kept \subseteq Events
  BY <1>2 DEF ClaudePreserved, Claude!Preserved, Claude!Events, Events, Types, BaselinesOf, Claude!Baselines
<1>4. new = Claude!Baseline(file, kept, capture, tools)
  BY <1>1, <1>2 DEF Observed
<1>5. /\ file["cadence"] \in {"absent", "user", "ours"}
      /\ file["enabled"] \in {"absent", "0", "1"} /\ file["gate"] \in {"absent", "0", "1"}
      /\ file["exporter"] \in {"absent", "console", "foreign", "otlp", "console,otlp"}
      /\ file["there"] \in BOOLEAN
  BY ClaudeFile, OursAre DEF Types, IsFile, Settings, ConfigureRefused, Claude!NeverConfigurable
<1>6. /\ new \in Claude!Baselines /\ new.capture = capture
      /\ new.present = {k \in Keys : file[k] # "absent"}
      /\ \A k \in {"cadence", "enabled", "gate", "exporter"} :
            new.previous[k] = IF file[k] = "foreign" THEN "absent" ELSE file[k]
  <2>1. Keys = Claude!Keys /\ Events = Claude!Events
    BY ClaudeFile DEF Claude!Keys, Events, Claude!Events
  <2>2. new = [there     |-> file["there"],
               present   |-> {k \in Keys : file[k] # "absent"},
               previous  |-> [k \in {"cadence", "enabled", "gate", "exporter"} |->
                                IF file[k] = "foreign" THEN "absent" ELSE file[k]],
               capture   |-> capture,
               owned     |-> Claude!DesiredEvents(tools),
               preserved |-> kept]
    BY <1>4, <2>1 DEF Claude!Baseline
  <2>3. PICK past : past = [k \in {"cadence", "enabled", "gate", "exporter"} |->
                              IF file[k] = "foreign" THEN "absent" ELSE file[k]]
    OBVIOUS
  <2>4. past \in [cadence : {"absent", "user", "ours"}, enabled : {"absent", "0", "1"},
                  gate : {"absent", "0", "1"},
                  exporter : {"absent", "console", "otlp", "console,otlp"}]
    BY <1>5, <2>3
  <2>5. Claude!DesiredEvents(tools) \in SUBSET Claude!Events
    BY DEF Claude!DesiredEvents, Claude!Events
  <2>6. /\ {k \in Keys : file[k] # "absent"} \in SUBSET Claude!Keys
        /\ kept \in SUBSET Claude!Events
    BY <1>3, <2>1
  <2>7. new \in Claude!Baselines
    BY <1>5, <2>2, <2>3, <2>4, <2>5, <2>6 DEF Claude!Baselines, Captures
  <2> QED BY <2>2, <2>7
<1>7. CASE ~Managed
  BY <1>1, <1>6, <1>7, ClaudeFile DEF Recorded
<1>8. CASE Managed
  <2>1. b = Claude!Rerecorded(baseline, new) /\ baseline \in Claude!Baselines
    BY <1>1, <1>8, ClaudeFile DEF Recorded, Types
  <2>2. /\ b \in Claude!Baselines /\ b.capture = capture
        /\ b.present = baseline.present /\ b.previous = baseline.previous
    BY <1>6, <2>1 DEF Claude!Rerecorded, Claude!Baselines
  <2> QED BY <1>8, <2>2, ClaudeFile
<1> QED BY <1>7, <1>8

LEMMA ClaudeConfigured ==
  ASSUME provider = "claude-code", Types,
         NEW capture \in Captures, NEW tools \in BOOLEAN, NEW b, b.capture = capture,
         NEW g, g = Configured(capture, tools)
  PROVE  AsConfigured(g, b)
<1>1. PICK kept : g = Claude!Written(file, kept, token, capture, tools)
  BY DEF Configured
<1>2. /\ file = [k \in Keys \cup Events \cup Settings |-> file[k]]
      /\ file["exporter"] \in {"absent", "console", "foreign", "otlp", "console,otlp"}
      /\ \A e \in Events : file[e] \in Tokens \cup {"absent"}
      /\ \A s \in Settings : file[s] \in BOOLEAN
  BY ClaudeFile, OursAre DEF Types, IsFile
<1>3. DOMAIN file = Keys \cup Events \cup Settings
  BY <1>2
<1>4. g = [k \in Keys \cup Events \cup Settings |-> g[k]]
  BY <1>1, <1>3 DEF Claude!Written
<1>5. /\ g["cadence"] = "ours" /\ g["enabled"] = "1" /\ g["gate"] = capture
      /\ g["endpoint"] = "ours" /\ g["headers"] = token /\ g["there"] = TRUE
      /\ g["other"] = file["other"] /\ g["blocked"] = file["blocked"]
      /\ g["exporter"] = Claude!WithOtlp(file["exporter"])
  BY <1>1, <1>3, ClaudeFile DEF Claude!Written, Events, Claude!Events, Settings
<1>6. g["exporter"] \in {"foreign", "otlp", "console,otlp"}
  BY <1>2, <1>5 DEF Claude!WithOtlp
<1>7. \A e \in Events : g[e] \in Tokens \cup {"absent"}
  BY <1>1, <1>2, <1>3 DEF Claude!Written, Events, Claude!Events, Types
<1>8. IsFile(g)
  <2>1. /\ g["cadence"] \in UserValues("cadence") \cup Ours("cadence")
        /\ g["enabled"] \in UserValues("enabled") \cup Ours("enabled")
        /\ g["gate"] \in UserValues("gate") \cup Ours("gate")
    BY <1>5, ClaudeFile, OursAre DEF Captures
  <2>2. /\ g["exporter"] \in UserValues("exporter") \cup Ours("exporter")
        /\ g["endpoint"] \in UserValues("endpoint") \cup Ours("endpoint")
        /\ g["headers"] \in UserValues("headers") \cup Ours("headers")
    BY <1>5, <1>6, ClaudeFile, OursAre DEF Types
  <2>3. \A k \in Keys : g[k] \in UserValues(k) \cup Ours(k)
    BY <2>1, <2>2, ClaudeFile
  <2>4. \A s \in Settings : g[s] \in BOOLEAN
    BY <1>2, <1>5 DEF Settings
  <2> QED BY <1>4, <1>7, <2>3, <2>4 DEF IsFile
<1> QED BY <1>5, <1>8 DEF AsConfigured, Coherent
LEMMA ClaudeRestored ==
  ASSUME provider = "claude-code", Types, Remembered, Managed, Idle, ~RestoreRefused,
         NEW g, g = Restored
  PROVE  AsRestored(g)
<1> DEFINE Value(k) == Claude!RestoredValue(file, baseline, token, k)
           Put      == Claude!Changed(baseline, token)
<1>1. /\ baseline \in Claude!Baselines /\ file = [k \in Keys \cup Events \cup Settings |-> file[k]]
      /\ DOMAIN file = Keys \cup Events \cup Settings
  BY ClaudeFile DEF Types, IsFile
<1>2. Keys = Claude!Keys /\ Events = Claude!Events
  BY ClaudeFile DEF Claude!Keys, Events, Claude!Events
<1>3. /\ g = [k \in Keys \cup Events \cup Settings |-> g[k]]
      /\ \A k \in Keys \cup Events \cup {"other", "blocked"} : g[k] = Value(k)
      /\ g["there"] \in BOOLEAN
  <2>1. PICK values : values = [k \in DOMAIN file |-> Claude!RestoredValue(file, baseline, token, k)]
    OBVIOUS
  <2>2. PICK there \in BOOLEAN : g = [values EXCEPT !.there = there]
    <3>1. PICK there : there = (baseline.there \/ ~(/\ \A k \in Claude!Keys \cup Claude!Events : values[k] = "absent"
                                                   /\ ~file.other /\ ~file.blocked))
      OBVIOUS
    <3>2. there \in BOOLEAN
      BY <3>1
    <3>3. g = [values EXCEPT !.there = there]
      BY <2>1, <3>1 DEF Restored, Claude!Restored
    <3> QED BY <3>2, <3>3
  <2>3. "there" \notin Keys \cup Events \cup {"other", "blocked"}
    BY ClaudeFile DEF Events
  <2> QED BY <1>1, <2>1, <2>2, <2>3 DEF Settings
<1>4. Put \subseteq Keys /\ Keys \cap Events = {} /\ Keys \cap Settings = {} /\ Events \cap Settings = {}
  BY <1>2, ClaudeFile DEF Claude!Changed, Events, Settings
<1>15. /\ \A k \in Put : Value(k) = IF k \in {"cadence", "enabled", "gate", "exporter"}
                                    THEN baseline.previous[k] ELSE "absent"
       /\ \A k \in Keys \ Put : Value(k) = file[k]
       /\ \A e \in Events : Value(e) \in {"absent", file[e]}
       /\ \A s \in Settings : Value(s) = file[s]
  <2>1. DOMAIN baseline.previous = {"cadence", "enabled", "gate", "exporter"}
    BY <1>1 DEF Claude!Baselines
  <2>2. baseline.owned \subseteq Events
    BY <1>1, <1>2 DEF Claude!Baselines
  <2> QED BY <1>4, <2>1, <2>2 DEF Claude!RestoredValue, Claude!PutBack
<1> HIDE DEF Value, Put
<1>5. /\ \A k \in Put : g[k] = IF k \in {"cadence", "enabled", "gate", "exporter"}
                                THEN baseline.previous[k] ELSE "absent"
      /\ \A k \in Keys : k \notin Put => g[k] = file[k]
      /\ \A e \in Events : g[e] \in {"absent", file[e]}
      /\ g["other"] = file["other"] /\ g["blocked"] = file["blocked"]
  <2>1. \A k \in Put : k \in Keys
    BY <1>4
  <2>2. \A k \in Keys \cup Events \cup {"other", "blocked"} : g[k] = Value(k)
    BY <1>3
  <2>3. \A k \in Put : g[k] = IF k \in {"cadence", "enabled", "gate", "exporter"}
                                THEN baseline.previous[k] ELSE "absent"
    BY <1>15, <2>1, <2>2
  <2>4. \A k \in Keys : k \notin Put => g[k] = file[k]
    BY <1>15, <2>2
  <2>5. \A e \in Events : g[e] \in {"absent", file[e]}
    <3> SUFFICES ASSUME NEW e \in Events PROVE g[e] = "absent" \/ g[e] = file[e]
      OBVIOUS
    <3>1. Value(e) \in {"absent", file[e]}
      BY <1>15
    <3>2. g[e] = Value(e)
      BY <2>2
    <3> QED BY <3>1, <3>2
  <2>6. g["other"] = file["other"] /\ g["blocked"] = file["blocked"]
    <3>1. g["other"] = Value("other") /\ g["blocked"] = Value("blocked")
      BY <2>2
    <3>2. "other" \in Settings /\ "blocked" \in Settings
      BY DEF Settings
    <3>3. Value("other") = file["other"] /\ Value("blocked") = file["blocked"]
      BY <1>15, <3>2
    <3> QED BY <3>1, <3>3
  <2> QED BY <2>3, <2>4, <2>5, <2>6
<1>6. IsFile(g)
  <2>1. \A k \in Keys : g[k] \in UserValues(k) \cup Ours(k)
    <3>1. /\ baseline.previous["cadence"] \in {"absent", "user", "ours"}
          /\ baseline.previous["enabled"] \in {"absent", "0", "1"}
          /\ baseline.previous["gate"] \in {"absent", "0", "1"}
          /\ baseline.previous["exporter"] \in {"absent", "console", "otlp", "console,otlp"}
      BY <1>1 DEF Claude!Baselines
    <3>2. \A k \in {"cadence", "enabled", "gate", "exporter"} :
              baseline.previous[k] \in UserValues(k) \cup Ours(k)
      BY <3>1, ClaudeFile, OursAre
    <3>3. \A k \in Keys : "absent" \in UserValues(k)
      BY ClaudeFile
    <3>4. \A k \in Keys : file[k] \in UserValues(k) \cup Ours(k)
      BY DEF Types, IsFile
    <3>5. \A k \in Put : k \in Keys
      BY <1>4
    <3> QED BY <1>5, <3>2, <3>3, <3>4, <3>5
  <2>2. \A e \in Events : g[e] \in Tokens \cup {"absent"}
    <3>1. \A e \in Events : file[e] \in Tokens \cup {"absent"}
      BY DEF Types, IsFile
    <3> QED BY <1>5, <3>1
  <2>3. \A s \in Settings : g[s] \in BOOLEAN
    BY <1>3, <1>5 DEF Types, IsFile, Settings
  <2> QED BY <1>3, <2>1, <2>2, <2>3 DEF IsFile
<1>7. ASSUME ~purged
      PROVE  Clean(g) /\ Coherent(g) /\ OnlyOurs(g) /\ (crashes = 0 => GivesBack(g))
  <2>1. /\ \A k \in Keys : prior[k] \in UserValues(k)
        /\ prior["endpoint"] = "absent" /\ prior["headers"] = "absent" /\ prior["exporter"] # "foreign"
        /\ baseline.present = {k \in Keys : prior[k] # "absent"}
        /\ \A k \in {"cadence", "enabled", "gate", "exporter"} : baseline.previous[k] = prior[k]
    BY <1>7 DEF Remembered, Faithful, Clean
  <2>2. DOMAIN baseline.previous = {"cadence", "enabled", "gate", "exporter"}
    BY <1>1 DEF Claude!Baselines
  <2>3. {"cadence", "exporter", "endpoint", "headers"} \subseteq Put
    <3>1. "endpoint" \in Put /\ "headers" \in Put
      BY <2>1, ClaudeFile DEF Put, Claude!Changed, Claude!Keys
    <3>2. "cadence" \in Put
      BY <2>1, <2>2, ClaudeFile DEF Put, Claude!Changed, Claude!Keys, Claude!Desired
    <3>3. "exporter" \in Put
      BY <2>1, <2>2, ClaudeFile DEF Put, Claude!Changed, Claude!Keys, Claude!Desired, Claude!WithOtlp
    <3> QED BY <3>1, <3>2, <3>3
  <2>4. /\ g["cadence"] = prior["cadence"] /\ g["exporter"] = prior["exporter"]
        /\ g["endpoint"] = "absent" /\ g["headers"] = "absent"
    BY <1>5, <2>1, <2>3
  <2>5. /\ "enabled" \in Put => g["enabled"] = prior["enabled"]
        /\ "enabled" \notin Put => g["enabled"] = file["enabled"] /\ prior["enabled"] = "1"
    <3>1. "enabled" \notin Put => baseline.previous["enabled"] = "1"
      BY <2>2 DEF Put, Claude!Changed, Claude!Keys, Claude!Desired
    <3> QED BY <1>5, <2>1, <3>1, ClaudeFile
  <2>6. /\ "gate" \in Put => g["gate"] = prior["gate"]
        /\ "gate" \notin Put => g["gate"] = file["gate"] /\ prior["gate"] = baseline.capture
    <3>1. "gate" \notin Put => baseline.previous["gate"] = baseline.capture
      BY <2>2 DEF Put, Claude!Changed, Claude!Keys, Claude!Desired
    <3> QED BY <1>5, <2>1, <3>1, ClaudeFile
  <2>7. Clean(g)
    <3>1. g["enabled"] \in UserValues("enabled") /\ g["gate"] \in UserValues("gate")
      BY <1>6, ClaudeFile, OursAre DEF IsFile
    <3> QED BY <2>1, <2>4, <3>1, ClaudeFile DEF Clean
  <2>8. Coherent(g)
    BY <2>4 DEF Coherent
  <2>9. ASSUME crashes = 0 PROVE GivesBack(g)
    <3>1. LeftAlone
      BY <1>7, <2>9 DEF Remembered
    <3> QED BY <2>1, <2>4, <2>5, <2>6, <3>1, ClaudeFile DEF LeftAlone, GivesBack
  <2>10. OnlyOurs(g)
    <3>1. \A e \in Events : g[e] # file[e] => file[e] = wrote[e]
      BY <1>3, <1>5 DEF Remembered
    <3>2. \A k \in Put \ {"headers"} : file[k] = Claude!Desired(baseline, token)[k]
      BY DEF RestoreRefused, Claude!RestoreRefused, Claude!Moved, Put
    <3>3. \A k \in Keys : g[k] # file[k] => k \in Put
      BY <1>3, <1>5
    <3>4. file["cadence"] = wrote["cadence"]
      BY <2>3, <3>2, ClaudeFile DEF Claude!Desired, Remembered
    <3>5. file["endpoint"] = "ours" /\ file["endpoint"] = wrote["endpoint"]
      BY <2>3, <3>2, ClaudeFile DEF Claude!Desired, Remembered
    <3>6. file["exporter"] = wrote["exporter"]
      <4>1. file["exporter"] = Claude!WithOtlp(prior["exporter"])
        BY <2>1, <2>3, <3>2 DEF Claude!Desired
      <4>2. file["exporter"] \in {"otlp", "console,otlp"}
        BY <2>1, <4>1, ClaudeFile DEF Claude!WithOtlp
      <4> QED BY <4>2, ClaudeFile DEF Remembered
    <3>7. file["headers"] = wrote["headers"]
      <4>1. CASE Claude!ManagedState(file, baseline, token) = "managed_stale_authority"
        <5>1. file["headers"] \in Tokens
          BY <4>1 DEF RestoreRefused, Claude!RestoreRefused
        <5> QED BY <5>1, NoAuthority, ClaudeFile DEF Remembered, Types
      <4>2. CASE Claude!ManagedState(file, baseline, token) # "managed_stale_authority"
        <5>1. file["headers"] = token
          BY <2>3, <4>2 DEF RestoreRefused, Claude!RestoreRefused, Claude!Moved, Put, Claude!Desired
        <5> QED BY <5>1, NoAuthority, ClaudeFile DEF Remembered, Types
      <4> QED BY <4>1, <4>2
    <3>8. "enabled" \in Put => file["enabled"] = wrote["enabled"]
      <4>1. wrote["enabled"] = "1"
        BY <1>7, <3>5 DEF Remembered, Coherent
      <4> QED BY <3>2, <4>1 DEF Claude!Desired
    <3>9. "gate" \in Put => file["gate"] = baseline.capture
      BY <3>2 DEF Claude!Desired
    <3> QED BY <3>1, <3>3, <3>4, <3>5, <3>6, <3>7, <3>8, <3>9, ClaudeFile DEF OnlyOurs
  <2> QED BY <2>7, <2>8, <2>9, <2>10
<1> QED BY <1>6, <1>7, ClaudeFile DEF AsRestored
-------------------------------------------------------------------------------
(* Codex.                                                                     *)

LEMMA CodexFirst ==
  ASSUME provider = "codex", Types, ~Managed, Clean(file), ~ConfigureRefused
  PROVE  file["logs"] = "absent" /\ file["traces"] = "absent" /\ ~Adopting
<1>1. file["logs"] \in {"absent", "foreign"} /\ file["traces"] \in {"absent", "foreign"}
  BY CodexFile DEF Clean
<1>2. file["logs"] \notin Tokens /\ "foreign" \notin Tokens
  BY <1>1, SourceAssumption DEF Literals
<1>3. Ownership = Codex!UnmanagedState(file, token)
  BY DEF Ownership
<1>4. Ownership \notin {"adoptable_local", "managed_stale_authority"}
  BY <1>2, <1>3 DEF Codex!UnmanagedState, Codex!Exporters
<1>5. {file["logs"], file["traces"]} \ {"absent", token} = {}
  BY <1>4 DEF ConfigureRefused, Codex!Refused, Codex!Exporters
<1>6. token # "foreign"
  BY <1>2 DEF Types
<1> QED BY <1>1, <1>4, <1>5, <1>6 DEF Adopting

LEMMA CodexRecorded ==
  ASSUME provider = "codex", Types,
         NEW capture \in Captures, NEW tools \in BOOLEAN, NEW b, b = Recorded(capture, tools)
  PROVE  /\ b \in BaselinesOf
         /\ Managed => /\ b.present = baseline.present /\ b.adopted = baseline.adopted
                       /\ b.prompt = baseline.prompt /\ b.feature = baseline.feature
         /\ ~Managed /\ ~Adopting =>
              /\ b.present = {k \in {"logs", "traces"} : file[k] # "absent"} /\ b.adopted = FALSE
              /\ b.prompt = file["prompt"] /\ b.feature = file["feature"]
<1>1. PICK new : new = Observed(capture, tools)
  OBVIOUS
<1>2. PICK adopted \in BOOLEAN : adopted = Adopting
  BY DEF Adopting
<1>3. new = Codex!Baseline(file, adopted, capture, tools)
  BY <1>1, <1>2 DEF Observed
<1>4. /\ file["prompt"] \in {"absent", "0", "1"} /\ file["feature"] \in {"absent", "0", "1"}
      /\ file["there"] \in BOOLEAN
  BY CodexFile, OursAre DEF Types, IsFile, Settings
<1>5. new \in Codex!Baselines
  BY <1>3, <1>4 DEF Codex!Baseline, Codex!Baselines, Captures
<1>6. ~adopted => /\ new.present = {k \in {"logs", "traces"} : file[k] # "absent"} /\ new.adopted = FALSE
                  /\ new.prompt = file["prompt"] /\ new.feature = file["feature"]
  BY <1>3 DEF Codex!Baseline
<1>7. CASE ~Managed
  BY <1>1, <1>2, <1>5, <1>6, <1>7, CodexFile DEF Recorded
<1>8. CASE Managed
  <2>1. b = Codex!Rerecorded(baseline, new) /\ baseline \in Codex!Baselines
    BY <1>1, <1>8, CodexFile DEF Recorded, Types
  <2>2. /\ b \in Codex!Baselines
        /\ b.present = baseline.present /\ b.adopted = baseline.adopted
        /\ b.prompt = baseline.prompt /\ b.feature = baseline.feature
    BY <1>5, <2>1 DEF Codex!Rerecorded, Codex!Baselines
  <2> QED BY <1>8, <2>2, CodexFile
<1> QED BY <1>7, <1>8

LEMMA CodexConfigured ==
  ASSUME provider = "codex", Types,
         NEW capture \in Captures, NEW tools \in BOOLEAN, NEW b,
         NEW g, g = Configured(capture, tools)
  PROVE  AsConfigured(g, b)
<1>1. g = Codex!Written(file, token, capture, tools)
  BY DEF Configured
<1>2. /\ file = [k \in Keys \cup Events \cup Settings |-> file[k]]
      /\ \A s \in Settings : file[s] \in BOOLEAN
  BY DEF Types, IsFile
<1>3. /\ {"there", "feature", "prompt", "logs", "traces", "lifecycle", "tool"}
            \subseteq Keys \cup Events \cup Settings
      /\ g = [k \in Keys \cup Events \cup Settings |-> g[k]]
  BY <1>1, <1>2, CodexFile DEF Codex!Written, Events, Settings
<1>4. /\ g["there"] = TRUE /\ g["feature"] = "1" /\ g["prompt"] = capture
      /\ g["logs"] = token /\ g["traces"] = token /\ g["lifecycle"] = token
      /\ g["tool"] \in {token, "absent"}
      /\ g["other"] = file["other"] /\ g["blocked"] = file["blocked"]
  BY <1>1, <1>2, <1>3 DEF Codex!Written, Settings
<1>5. \A k \in Keys : g[k] \in UserValues(k) \cup Ours(k)
  <2>1. /\ g["logs"] \in UserValues("logs") \cup Ours("logs")
        /\ g["traces"] \in UserValues("traces") \cup Ours("traces")
    BY <1>4, OursAre DEF Types
  <2>2. /\ g["prompt"] \in UserValues("prompt") \cup Ours("prompt")
        /\ g["feature"] \in UserValues("feature") \cup Ours("feature")
    BY <1>4, CodexFile DEF Captures
  <2> QED BY <2>1, <2>2, CodexFile
<1>6. (\A e \in Events : g[e] \in Tokens \cup {"absent"}) /\ \A s \in Settings : g[s] \in BOOLEAN
  BY <1>2, <1>4 DEF Events, Settings, Types
<1>7. IsFile(g)
  BY <1>3, <1>5, <1>6 DEF IsFile
<1> QED BY <1>4, <1>7 DEF AsConfigured, Coherent

LEMMA CodexRestored ==
  ASSUME provider = "codex", Types, Remembered, Managed, ~RestoreRefused, NEW g, g = Restored
  PROVE  AsRestored(g)
<1> DEFINE Value(k) == Codex!RestoredValue(file, baseline, k)
<1>1. /\ baseline \in Codex!Baselines /\ file = [k \in Keys \cup Events \cup Settings |-> file[k]]
      /\ DOMAIN file = Keys \cup Events \cup Settings
  BY CodexFile DEF Types, IsFile
<1>2. /\ g = [k \in Keys \cup Events \cup Settings |-> g[k]]
      /\ \A k \in Keys \cup Events \cup {"other", "blocked"} : g[k] = Value(k)
      /\ g["there"] \in BOOLEAN
  <2>1. PICK values : values = [k \in DOMAIN file |-> Codex!RestoredValue(file, baseline, k)]
    OBVIOUS
  <2>2. PICK there \in BOOLEAN : g = [values EXCEPT !.there = there]
    <3>1. PICK there : there = (baseline.there \/ ~(~file.other /\ \A k \in Codex!Keys : values[k] = "absent"))
      OBVIOUS
    <3>2. there \in BOOLEAN
      BY <3>1
    <3>3. g = [values EXCEPT !.there = there]
      BY <2>1, <3>1 DEF Restored, Codex!Restored
    <3> QED BY <3>2, <3>3
  <2>3. "there" \notin Keys \cup Events \cup {"other", "blocked"}
    BY CodexFile DEF Events
  <2> QED BY <1>1, <2>1, <2>2, <2>3 DEF Settings
<1>3. /\ \A k \in {"logs", "traces"} : g[k] = IF k \in baseline.present THEN file[k] ELSE "absent"
      /\ g["prompt"] = baseline.prompt
      /\ g["feature"] = IF baseline.adopted THEN "absent" ELSE baseline.feature
      /\ g["lifecycle"] = "absent" /\ g["tool"] = "absent"
      /\ g["other"] = file["other"] /\ g["blocked"] = file["blocked"]
  BY <1>2, CodexFile DEF Codex!RestoredValue, Events, Codex!Events
<1>4. /\ baseline.prompt \in {"absent", "0", "1"} /\ baseline.feature \in {"absent", "0", "1"}
      /\ baseline.adopted \in BOOLEAN
  BY <1>1 DEF Codex!Baselines
<1> HIDE DEF Value
<1>5. Unhooked(g)
  BY <1>3 DEF Unhooked, Events
<1>6. IsFile(g)
  <2>1. file["logs"] \in UserValues("logs") \cup Ours("logs") /\ file["traces"] \in UserValues("traces") \cup Ours("traces")
    BY CodexFile DEF Types, IsFile
  <2>2. /\ g["logs"] \in UserValues("logs") \cup Ours("logs")
        /\ g["traces"] \in UserValues("traces") \cup Ours("traces")
        /\ g["prompt"] \in UserValues("prompt") \cup Ours("prompt")
        /\ g["feature"] \in UserValues("feature") \cup Ours("feature")
    BY <1>3, <1>4, <2>1, CodexFile
  <2>3. \A k \in Keys : g[k] \in UserValues(k) \cup Ours(k)
    BY <2>2, CodexFile
  <2>4. \A e \in Events : g[e] \in Tokens \cup {"absent"}
    BY <1>5 DEF Unhooked
  <2>5. \A s \in Settings : g[s] \in BOOLEAN
    BY <1>2, <1>3 DEF Types, IsFile, Settings
  <2> QED BY <1>2, <2>3, <2>4, <2>5 DEF IsFile
<1>7. ASSUME ~purged PROVE Clean(g) /\ Coherent(g) /\ OnlyOurs(g) /\ GivesBack(g)
  <2>1. /\ Clean(prior) /\ prior["logs"] = "absent" /\ prior["traces"] = "absent"
        /\ baseline.present = {} /\ ~baseline.adopted
        /\ baseline.prompt = prior["prompt"] /\ baseline.feature = prior["feature"]
    BY <1>7 DEF Remembered, Faithful
  <2>2. /\ g["logs"] = "absent" /\ g["traces"] = "absent"
        /\ g["prompt"] = prior["prompt"] /\ g["feature"] = prior["feature"]
    BY <1>3, <2>1
  <2>3. GivesBack(g)
    BY <2>1, <2>2, CodexFile DEF GivesBack
  <2>4. Clean(g)
    BY <2>1, <2>2, CodexFile DEF Clean
  <2>5. Coherent(g)
    BY <2>2, NoAuthority DEF Coherent
  <2>6. Codex!RestoreReady(file, baseline, token, relay)
    BY <2>1 DEF RestoreRefused, Codex!RestoreRefused
  <2>7. /\ file["feature"] = "1" /\ file["prompt"] = baseline.capture
        /\ file["logs"] \in Tokens /\ file["traces"] \in Tokens
    BY <2>6 DEF Codex!RestoreReady, Codex!Exporters, Types
  <2>8. file["logs"] = wrote["logs"] /\ file["traces"] = wrote["traces"]
    BY <2>7, NoAuthority, CodexFile DEF Remembered
  <2>9. file["feature"] = wrote["feature"]
    BY <1>7, <2>7, <2>8 DEF Remembered, Coherent
  <2>10. \A e \in Events : g[e] # file[e] => file[e] = wrote[e]
    BY <1>5 DEF Remembered, Unhooked
  <2>11. OnlyOurs(g)
    BY <2>7, <2>8, <2>9, <2>10, CodexFile DEF OnlyOurs
  <2> QED BY <2>3, <2>4, <2>5, <2>11
<1> QED BY <1>5, <1>6, <1>7 DEF AsRestored
-------------------------------------------------------------------------------
(* Cursor.                                                                    *)

LEMMA CursorRecorded ==
  ASSUME provider = "cursor", Types,
         NEW capture \in Captures, NEW tools \in BOOLEAN, NEW b, b = Recorded(capture, tools)
  PROVE  /\ b \in BaselinesOf
         /\ b.version = IF Managed THEN baseline.version ELSE file["version"]
<1>1. PICK new : new = Observed(capture, tools)
  OBVIOUS
<1>2. PICK adopted \in BOOLEAN : adopted = Adopting
  BY DEF Adopting
<1>3. new = Cursor!Baseline(file, adopted, tools)
  BY <1>1, <1>2 DEF Observed
<1>4. file["version"] \in {"absent", "1"} /\ file["there"] \in BOOLEAN
  BY CursorFile, OursAre DEF Types, IsFile, Settings
<1>5. new \in Cursor!Baselines /\ new.version = file["version"]
  BY <1>3, <1>4 DEF Cursor!Baseline, Cursor!Baselines
<1>6. CASE ~Managed
  BY <1>1, <1>5, <1>6, CursorFile DEF Recorded
<1>7. CASE Managed
  <2>1. b = Cursor!Rerecorded(baseline, new) /\ baseline \in Cursor!Baselines
    BY <1>1, <1>7, CursorFile DEF Recorded, Types
  <2>2. b \in Cursor!Baselines /\ b.version = baseline.version
    BY <1>5, <2>1 DEF Cursor!Rerecorded, Cursor!Baselines
  <2> QED BY <1>7, <2>2, CursorFile
<1> QED BY <1>6, <1>7

LEMMA CursorConfigured ==
  ASSUME provider = "cursor", Types,
         NEW capture \in Captures, NEW tools \in BOOLEAN, NEW b,
         NEW g, g = Configured(capture, tools)
  PROVE  AsConfigured(g, b)
<1>1. g = Cursor!Written(file, token, tools)
  BY DEF Configured
<1>2. /\ file = [k \in Keys \cup Events \cup Settings |-> file[k]]
      /\ \A s \in Settings : file[s] \in BOOLEAN
  BY DEF Types, IsFile
<1>3. /\ {"there", "version", "lifecycle", "tool"} \subseteq Keys \cup Events \cup Settings
      /\ g = [k \in Keys \cup Events \cup Settings |-> g[k]]
  BY <1>1, <1>2, CursorFile DEF Cursor!Written, Events, Settings
<1>4. /\ g["there"] = TRUE /\ g["version"] = "1" /\ g["lifecycle"] = token
      /\ g["tool"] \in {token, "absent"}
      /\ g["other"] = file["other"] /\ g["blocked"] = file["blocked"]
  BY <1>1, <1>2, <1>3 DEF Cursor!Written, Settings
<1>5. \A k \in Keys : g[k] \in UserValues(k) \cup Ours(k)
  BY <1>4, CursorFile
<1>6. (\A e \in Events : g[e] \in Tokens \cup {"absent"}) /\ \A s \in Settings : g[s] \in BOOLEAN
  BY <1>2, <1>4 DEF Events, Settings, Types
<1>7. IsFile(g)
  BY <1>3, <1>5, <1>6 DEF IsFile
<1> QED BY <1>4, <1>7 DEF AsConfigured, Coherent

LEMMA CursorRestored ==
  ASSUME provider = "cursor", Types, Remembered, Managed, Idle, ~RestoreRefused,
         NEW g, g = Restored
  PROVE  AsRestored(g)
<1>1. /\ baseline \in Cursor!Baselines /\ file = [k \in Keys \cup Events \cup Settings |-> file[k]]
      /\ {"there", "version", "lifecycle", "tool", "other", "blocked"} \subseteq Keys \cup Events \cup Settings
  BY CursorFile DEF Types, IsFile, Events, Settings
<1>2. PICK version : version = IF baseline.version = "absent" THEN "absent" ELSE file["version"]
  OBVIOUS
<1>3. PICK there \in BOOLEAN : there = (baseline.there \/ file["other"] \/ version # "absent")
  OBVIOUS
<1>4. g = [file EXCEPT !.lifecycle = "absent", !.tool = "absent", !.version = version, !.there = there]
  BY <1>2, <1>3 DEF Restored, Cursor!Restored
<1>5. /\ g = [k \in Keys \cup Events \cup Settings |-> g[k]]
      /\ g["lifecycle"] = "absent" /\ g["tool"] = "absent" /\ g["version"] = version
      /\ g["there"] \in BOOLEAN /\ g["other"] = file["other"] /\ g["blocked"] = file["blocked"]
  BY <1>1, <1>4
<1>6. file["version"] \in {"absent", "1"}
  BY CursorFile, OursAre DEF Types, IsFile
<1>7. Unhooked(g)
  BY <1>5 DEF Unhooked, Events
<1>8. IsFile(g)
  <2>1. \A k \in Keys : g[k] \in UserValues(k) \cup Ours(k)
    BY <1>2, <1>5, <1>6, CursorFile
  <2>2. \A e \in Events : g[e] \in Tokens \cup {"absent"}
    BY <1>7 DEF Unhooked
  <2>3. \A s \in Settings : g[s] \in BOOLEAN
    BY <1>5 DEF Types, IsFile, Settings
  <2> QED BY <1>5, <2>1, <2>2, <2>3 DEF IsFile
<1>9. ASSUME ~purged PROVE Clean(g) /\ Coherent(g) /\ OnlyOurs(g) /\ GivesBack(g)
  <2>1. baseline.version = prior["version"] /\ prior["version"] \in {"absent", "1"}
    BY <1>9, CursorFile DEF Remembered, Faithful, Clean
  <2>2. LeftAlone
    BY <1>9 DEF Remembered
  <2>3. GivesBack(g)
    BY <1>2, <1>5, <2>1, <2>2, CursorFile DEF LeftAlone, GivesBack
  <2>4. Clean(g)
    BY <1>2, <1>5, <1>6, CursorFile DEF Clean
  <2>5. Coherent(g)
    BY <1>7 DEF Coherent
  <2>6. \E e \in Events : file[e] \in Tokens
    BY DEF RestoreRefused, Cursor!RestoreRefused, Cursor!ManagedState, Cursor!HooksManaged,
           Cursor!Events, Events
  <2>7. \A e \in Events : g[e] # file[e] => file[e] = wrote[e]
    BY <1>7 DEF Remembered, Unhooked
  <2>8. wrote["version"] = "1"
    <3>1. PICK e \in Events : file[e] \in Tokens
      BY <2>6
    <3>2. wrote[e] # "absent"
      BY <3>1, NoAuthority DEF Remembered
    <3> QED BY <1>9, <3>2 DEF Remembered, Coherent, Unhooked
  <2>9. g["version"] # file["version"] => file["version"] = wrote["version"]
    BY <1>2, <1>5, <1>6, <2>8
  <2>10. OnlyOurs(g)
    BY <2>7, <2>9, CursorFile DEF OnlyOurs
  <2> QED BY <2>3, <2>4, <2>5, <2>10
<1> QED BY <1>7, <1>8, <1>9 DEF AsRestored

-------------------------------------------------------------------------------
(* Whichever the tool.                                                        *)

LEMMA RecordedIsRecordable ==
  ASSUME Types, Remembered, ~ConfigureRefused,
         NEW capture \in Captures, NEW tools \in BOOLEAN, NEW b, b = Recorded(capture, tools)
  PROVE  Recordable(b)
<1>1. CASE provider = "claude-code"
  <2>1. b \in BaselinesOf
    BY <1>1, ClaudeRecorded
  <2>2. ASSUME ~purged, Managed PROVE Faithful(b, prior)
    <3>1. Faithful(baseline, prior) /\ b.present = baseline.present /\ b.previous = baseline.previous
      BY <1>1, <2>2, ClaudeRecorded DEF Remembered
    <3> QED BY <1>1, <3>1 DEF Faithful
  <2>3. ASSUME ~purged, ~Managed PROVE Faithful(b, file)
    <3>1. /\ b.present = {k \in Keys : file[k] # "absent"}
          /\ \A k \in {"cadence", "enabled", "gate", "exporter"} :
                b.previous[k] = IF file[k] = "foreign" THEN "absent" ELSE file[k]
      BY <1>1, <2>3, ClaudeRecorded
    <3>2. Clean(file)
      BY <2>3 DEF Remembered
    <3>3. file["endpoint"] = "absent" /\ file["headers"] = "absent" /\ file["exporter"] # "foreign"
      BY <1>1, <2>3, <3>2, ClaudeFirst
    <3>4. file["cadence"] # "foreign" /\ file["enabled"] # "foreign" /\ file["gate"] # "foreign"
      BY <1>1, <3>2, ClaudeFile DEF Clean
    <3>5. \A k \in {"cadence", "enabled", "gate", "exporter"} : b.previous[k] = file[k]
      BY <3>1, <3>3, <3>4
    <3> QED BY <1>1, <3>1, <3>2, <3>3, <3>5 DEF Faithful
  <2> QED BY <2>1, <2>2, <2>3 DEF Recordable
<1>2. CASE provider = "codex"
  <2>1. b \in BaselinesOf
    BY <1>2, CodexRecorded
  <2>2. ASSUME ~purged, Managed PROVE Faithful(b, prior)
    <3>1. /\ Faithful(baseline, prior)
          /\ b.present = baseline.present /\ b.adopted = baseline.adopted
          /\ b.prompt = baseline.prompt /\ b.feature = baseline.feature
      BY <1>2, <2>2, CodexRecorded DEF Remembered
    <3> QED BY <1>2, <3>1 DEF Faithful
  <2>3. ASSUME ~purged, ~Managed PROVE Faithful(b, file)
    <3>1. Clean(file)
      BY <2>3 DEF Remembered
    <3>2. file["logs"] = "absent" /\ file["traces"] = "absent" /\ ~Adopting
      BY <1>2, <2>3, <3>1, CodexFirst
    <3>3. /\ b.present = {k \in {"logs", "traces"} : file[k] # "absent"} /\ b.adopted = FALSE
          /\ b.prompt = file["prompt"] /\ b.feature = file["feature"]
      BY <1>2, <2>3, <3>2, CodexRecorded
    <3>4. b.present = {}
      BY <3>2, <3>3
    <3> QED BY <1>2, <3>1, <3>2, <3>3, <3>4 DEF Faithful
  <2> QED BY <2>1, <2>2, <2>3 DEF Recordable
<1>3. CASE provider = "cursor"
  <2>1. b \in BaselinesOf /\ b.version = IF Managed THEN baseline.version ELSE file["version"]
    BY <1>3, CursorRecorded
  <2>2. ~purged => Faithful(b, IF Managed THEN prior ELSE file)
    BY <1>3, <2>1 DEF Remembered, Faithful
  <2> QED BY <2>1, <2>2 DEF Recordable
<1> QED BY <1>1, <1>2, <1>3 DEF Types

LEMMA ConfiguredIsConfigured ==
  ASSUME Types, ~ConfigureRefused,
         NEW capture \in Captures, NEW tools \in BOOLEAN,
         NEW b, b = Recorded(capture, tools), NEW g, g = Configured(capture, tools)
  PROVE  AsConfigured(g, b)
<1>1. CASE provider = "claude-code"
  <2>1. b.capture = capture
    BY <1>1, ClaudeRecorded
  <2> QED BY <1>1, <2>1, ClaudeConfigured
<1>2. CASE provider = "codex"
  BY <1>2, CodexConfigured
<1>3. CASE provider = "cursor"
  BY <1>3, CursorConfigured
<1> QED BY <1>1, <1>2, <1>3 DEF Types

LEMMA RestoredIsRestored ==
  ASSUME Types, Remembered, Managed, Idle, ~RestoreRefused, NEW g, g = Restored
  PROVE  AsRestored(g)
  BY ClaudeRestored, CodexRestored, CursorRestored DEF Types
-------------------------------------------------------------------------------
(* The steps.                                                                 *)

LEMMA SameTool ==
  ASSUME UNCHANGED provider
  PROVE  /\ Keys' = Keys /\ UsesRelay' = UsesRelay /\ BaselinesOf' = BaselinesOf
         /\ \A k : UserValues(k)' = UserValues(k)
         /\ \A f : IsFile(f)' <=> IsFile(f)
         /\ \A f : Clean(f)' <=> Clean(f)
         /\ \A f : Coherent(f)' <=> Coherent(f)
         /\ \A b, f : Faithful(b, f)' <=> Faithful(b, f)
         /\ \A g, b : AsConfigured(g, b)' <=> AsConfigured(g, b)
<1>1. Keys' = Keys /\ UsesRelay' = UsesRelay /\ BaselinesOf' = BaselinesOf
  BY DEF Keys, UsesRelay, BaselinesOf
<1>2. \A k : UserValues(k)' = UserValues(k)
  BY DEF UserValues
<1>3. \A f : IsFile(f)' <=> IsFile(f)
  BY <1>1, <1>2 DEF IsFile
<1>4. \A f : Clean(f)' <=> Clean(f)
  BY <1>1, <1>2 DEF Clean
<1>5. \A f : Coherent(f)' <=> Coherent(f)
  BY DEF Coherent
<1>6. \A b, f : Faithful(b, f)' <=> Faithful(b, f)
  BY <1>1, <1>4 DEF Faithful
<1>7. \A g, b : AsConfigured(g, b)' <=> AsConfigured(g, b)
  BY <1>3, <1>5 DEF AsConfigured
<1> QED BY <1>1, <1>2, <1>3, <1>4, <1>5, <1>6, <1>7

LEMMA SourceInit == Init => SourceInv
<1> SUFFICES ASSUME Init PROVE SourceInv
  OBVIOUS
<1>1. provider \in {"claude-code", "codex", "cursor"} /\ token \in Tokens
  BY SourceAssumption DEF Init
<1>2. Keys = AllKeys(provider) /\ \A k : UserValues(k) = UserValuesOf(provider, k)
  BY DEF Keys, AllKeys, UserValues, UserValuesOf
<1>3. PICK values \in [Keys -> Initial], there \in BOOLEAN :
         /\ \A k \in Keys : values[k] \in UserValues(k)
         /\ file = UserFile(values, there)
         /\ own = values
  BY <1>2 DEF Init
<1>4. Keys \cap Events = {} /\ Keys \cap Settings = {}
  BY <1>1, ClaudeFile, CodexFile, CursorFile DEF Events, Settings
<1>5. /\ file = [k \in Keys \cup Events \cup Settings |-> file[k]]
      /\ \A k \in Keys : file[k] = values[k]
      /\ \A e \in Events : file[e] = "absent"
      /\ \A s \in Settings : file[s] \in BOOLEAN
  BY <1>3, <1>4 DEF UserFile, Events, Settings
<1>6. IsFile(file) /\ Clean(file) /\ Unhooked(file)
  BY <1>3, <1>5 DEF IsFile, Clean, Unhooked
<1>7. Types
  BY <1>1, <1>3, <1>6 DEF Init, Types, Managed
<1>8. Coherent(file)
  <2>1. provider = "claude-code" => file["endpoint"] # "ours"
    BY <1>6, ClaudeFile DEF Clean
  <2>2. provider = "codex" => file["logs"] \notin Tokens
    BY <1>6, CodexFile, NoAuthority DEF Clean
  <2> QED BY <1>6, <2>1, <2>2 DEF Coherent
<1>9. Remembered
  BY <1>6, <1>8 DEF Init, Remembered, Managed
<1> QED BY <1>7, <1>9 DEF Init, SourceInv, Underway, Idle

(* A request changes nothing before its first write.                          *)
LEMMA RequestKeeps ==
  ASSUME SourceInv, Idle,
         UNCHANGED <<provider, file, baseline, relay, token, prior, own, wrote, purged, crashes>>,
         Underway'
  PROVE  SourceInv'
<1> USE SameTool DEF SourceInv
<1>1. Types'
  BY DEF Types, Managed
<1>2. Remembered'
  <2>1. UNCHANGED <<Managed, LeftAlone>> /\ \A f : Unhooked(f)' <=> Unhooked(f)
    BY DEF Managed, LeftAlone, Unhooked
  <2> QED BY <2>1 DEF Remembered
<1> QED BY <1>1, <1>2

(* The sequences of writes that concatenation builds, spelt out.              *)
LEMMA Joined ==
  ASSUME NEW a, NEW b, NEW c
  PROVE  <<a>> \o << >> \o <<c>> = <<a, c>> /\ <<a>> \o <<b>> \o <<c>> = <<a, b, c>>
<1>1. PICK S : S = {a, b, c}
  OBVIOUS
<1>2. /\ <<a>> \in Seq(S) /\ <<b>> \in Seq(S) /\ <<c>> \in Seq(S) /\ <<a, b>> \in Seq(S)
      /\ Len(<<a>>) = 1 /\ Len(<<b>>) = 1 /\ Len(<<c>>) = 1 /\ Len(<<a, b>>) = 2
  BY <1>1
<1>3. \A s : s \in Seq(S) /\ Len(s) = 2 => s = <<s[1], s[2]>>
  <2> SUFFICES ASSUME NEW s, s \in Seq(S), Len(s) = 2 PROVE s = <<s[1], s[2]>>
    OBVIOUS
  <2>1. s = [i \in 1 .. 2 |-> s[i]]
    OBVIOUS
  <2>2. <<s[1], s[2]>> = [i \in 1 .. 2 |-> IF i = 1 THEN s[1] ELSE s[2]]
    OBVIOUS
  <2> QED BY <2>1, <2>2
<1>4. <<a>> \o << >> = <<a>>
  BY <1>2
<1>5. \A x \in {b, c} : <<a>> \o <<x>> = <<a, x>>
  <2> SUFFICES ASSUME NEW x \in {b, c} PROVE <<a>> \o <<x>> = <<a, x>>
    OBVIOUS
  <2>1. PICK s : s = <<a>> \o <<x>>
    OBVIOUS
  <2>2. s \in Seq(S) /\ Len(s) = 2 /\ s[1] = a /\ s[2] = x
    BY <1>2, <2>1
  <2> QED BY <1>3, <2>1, <2>2
<1>6. <<a, b>> \o <<c>> = <<a, b, c>>
  <2>1. PICK s : s = <<a, b>> \o <<c>>
    OBVIOUS
  <2>2. s \in Seq(S) /\ Len(s) = 3 /\ s[1] = a /\ s[2] = b /\ s[3] = c
    BY <1>2, <2>1
  <2>3. s = [i \in 1 .. 3 |-> IF i = 1 THEN a ELSE IF i = 2 THEN b ELSE c]
    BY <2>2
  <2>4. <<a, b, c>> = [i \in 1 .. 3 |-> IF i = 1 THEN a ELSE IF i = 2 THEN b ELSE c]
    OBVIOUS
  <2> QED BY <2>1, <2>3, <2>4
<1> QED BY <1>4, <1>5, <1>6

LEMMA ConfigureStep ==
  ASSUME SourceInv, NEW capture \in Captures, NEW tools \in BOOLEAN, Configure(capture, tools)
  PROVE  SourceInv'
<1>1. /\ Idle /\ ~ConfigureRefused /\ Types /\ Remembered /\ op' = "configure"
      /\ UNCHANGED <<provider, file, baseline, relay, token, prior, own, wrote, purged, crashes>>
  BY DEF Configure, Request, SourceInv
<1>2. PICK b, g : b = Recorded(capture, tools) /\ g = Configured(capture, tools)
  OBVIOUS
<1>3. Recordable(b) /\ AsConfigured(g, b)
  BY <1>1, <1>2, RecordedIsRecordable, ConfiguredIsConfigured
<1>4. \/ todo' = <<>>
      \/ todo' = <<Write("baseline", b)>> /\ ~Managed
      \/ todo' = <<Write("baseline", b), Write("file", g)>> /\ ~UsesRelay
      \/ todo' = <<Write("baseline", b), Write("relay", TRUE), Write("file", g)>> /\ UsesRelay
  <2>1. CASE UpToDate(capture, tools)
    <3>1. Adopting => ~Managed
      BY DEF Adopting, Ownership, Claude!ManagedState, Codex!ManagedState, Cursor!ManagedState, Types,
             SourceInv
    <3> QED BY <1>2, <2>1, <3>1 DEF Configure, ClaimWrites
  <2>2. CASE ~UpToDate(capture, tools)
    <3>1. todo' = <<Write("baseline", b)>> \o RelayWrites(TRUE) \o <<Write("file", g)>>
      BY <1>2, <2>2 DEF Configure, ConfigureWrites
    <3>2. CASE UsesRelay
      <4>1. RelayWrites(TRUE) = <<Write("relay", TRUE)>>
        BY <3>2 DEF RelayWrites
      <4> QED BY <3>1, <3>2, <4>1, Joined
    <3>3. CASE ~UsesRelay
      <4>1. RelayWrites(TRUE) = << >>
        BY <3>3 DEF RelayWrites
      <4> QED BY <3>1, <3>3, <4>1, Joined
    <3> QED BY <3>2, <3>3
  <2> QED BY <2>1, <2>2
<1>5. Recordable(b)' /\ AsConfigured(g, b)' /\ Managed' = Managed /\ UsesRelay' = UsesRelay
  BY <1>1, <1>3, SameTool DEF Recordable, Managed
<1>6. \A what, value : Write(what, value) = [what |-> what, value |-> value]
  BY DEF Write
<1>7. Underway'
  <2>1. CASE todo' = <<>>
    BY <2>1 DEF Underway, Idle
  <2>2. CASE todo' = <<Write("baseline", b)>> /\ ~Managed
    BY <1>1, <1>5, <1>6, <2>2 DEF Underway, Configuring, Write
  <2>3. CASE todo' = <<Write("baseline", b), Write("file", g)>> /\ ~UsesRelay
    BY <1>1, <1>5, <1>6, <2>3 DEF Underway, Configuring, Write
  <2>4. CASE todo' = <<Write("baseline", b), Write("relay", TRUE), Write("file", g)>> /\ UsesRelay
    BY <1>1, <1>5, <1>6, <2>4 DEF Underway, Configuring, Write
  <2> QED BY <1>4, <2>1, <2>2, <2>3, <2>4
<1> QED BY <1>1, <1>7, RequestKeeps

LEMMA RestoreStep ==
  ASSUME SourceInv, Restore \/ ClearAgentData
  PROVE  SourceInv'
<1>1. /\ Idle /\ Types /\ Remembered /\ op' = "restore"
      /\ UNCHANGED <<provider, file, baseline, relay, token, prior, own, wrote, purged, crashes>>
      /\ \/ todo' = <<>>
         \/ Managed /\ ~RestoreRefused /\ todo' = RestoreWrites
  BY DEF Restore, ClearAgentData, Request, SourceInv
<1>2. CASE todo' = <<>>
  BY <1>1, <1>2, RequestKeeps DEF Underway, Idle
<1>3. CASE Managed /\ ~RestoreRefused /\ todo' = RestoreWrites
  <2>1. PICK g : g = Restored
    OBVIOUS
  <2>2. AsRestored(g)
    BY <1>1, <1>3, <2>1, RestoredIsRestored
  <2>3. \/ todo' = <<Write("file", g), Write("baseline", None)>> /\ ~UsesRelay
        \/ todo' = <<Write("file", g), Write("relay", FALSE), Write("baseline", None)>> /\ UsesRelay
    <3>1. todo' = <<Write("file", g)>> \o RelayWrites(FALSE) \o <<Write("baseline", None)>>
      BY <1>3, <2>1 DEF RestoreWrites
    <3>2. CASE UsesRelay
      <4>1. RelayWrites(FALSE) = <<Write("relay", FALSE)>>
        BY <3>2 DEF RelayWrites
      <4> QED BY <3>1, <3>2, <4>1, Joined
    <3>3. CASE ~UsesRelay
      <4>1. RelayWrites(FALSE) = << >>
        BY <3>3 DEF RelayWrites
      <4> QED BY <3>1, <3>3, <4>1, Joined
    <3> QED BY <3>2, <3>3
  <2>4. AsRestored(g)' /\ Managed' /\ UsesRelay' = UsesRelay
    BY <1>1, <1>3, <2>2, SameTool DEF AsRestored, Managed, Unhooked, OnlyOurs, GivesBack
  <2>5. Restoring'
    BY <2>3, <2>4 DEF Restoring, Write
  <2> QED BY <1>1, <2>5, RequestKeeps DEF Underway
<1> QED BY <1>1, <1>2, <1>3
(* A first recording remembers the file as it is; a later one the same file.  *)
LEMMA RecordStep ==
  ASSUME Types, Remembered, WriteFile, NEW b, Recordable(b),
         Head(todo) = Write("baseline", b), op = "configure", ~Managed \/ todo' # <<>>
  PROVE  /\ Types' /\ Remembered' /\ Managed' /\ baseline' = b
         /\ UNCHANGED <<provider, op, relay>>
<1>1. /\ baseline' = b /\ prior' = IF ~Managed /\ b # None THEN file ELSE prior
      /\ UNCHANGED <<provider, file, relay, token, op, own, wrote, purged, crashes>>
  BY DEF WriteFile, Write
<1>2. b \in BaselinesOf /\ b # None
  BY NoAuthority DEF Recordable, Types
<1>3. Managed' /\ prior' = IF Managed THEN prior ELSE file
  BY <1>1, <1>2 DEF Managed
<1>4. Types'
  BY <1>1, <1>2, <1>3, SameTool DEF Types
<1>5. ~purged => Faithful(b, prior')
  BY <1>3 DEF Recordable
<1>6. ASSUME ~purged, provider = "claude-code" => ~(op = "configure" /\ todo' # <<>>)
      PROVE  LeftAlone'
  <2>1. CASE Managed
    <3>1. provider # "claude-code"
      BY <1>6, <2>1
    <3>2. LeftAlone
      BY <1>6, <2>1, <3>1 DEF Remembered
    <3>3. prior' = prior
      BY <1>3, <2>1
    <3> QED BY <1>1, <3>1, <3>2, <3>3 DEF LeftAlone
  <2>2. CASE ~Managed
    <3>1. prior' = file
      BY <1>3, <2>2
    <3> QED BY <1>1, <3>1 DEF LeftAlone
  <2> QED BY <2>1, <2>2
<1>7. \A f : Unhooked(f)' <=> Unhooked(f)
  BY DEF Unhooked
<1>8. Remembered'
  BY <1>1, <1>3, <1>5, <1>6, <1>7, SameTool DEF Remembered, Idle
<1> QED BY <1>1, <1>3, <1>4, <1>8

LEMMA RelayStep ==
  ASSUME Types, Remembered, WriteFile, NEW present \in BOOLEAN, UsesRelay,
         Head(todo) = Write("relay", present), ~present => Unhooked(file)
  PROVE  /\ Types' /\ Remembered' /\ relay' = present
         /\ UNCHANGED <<provider, op, baseline, file, purged>>
<1>1. /\ relay' = present
      /\ UNCHANGED <<provider, file, baseline, token, op, prior, own, wrote, purged, crashes>>
  BY DEF WriteFile, Write
<1>2. provider # "claude-code"
  BY DEF UsesRelay
<1>3. Types'
  BY <1>1, SameTool DEF Types, Managed
<1>4. UNCHANGED <<Managed, LeftAlone>> /\ \A f : Unhooked(f)' <=> Unhooked(f)
  BY <1>1 DEF Managed, LeftAlone, Unhooked
<1>5. Remembered'
  BY <1>1, <1>2, <1>4, SameTool DEF Remembered
<1> QED BY <1>1, <1>3, <1>5

LEMMA ConfiguredFileStep ==
  ASSUME Types, Remembered, WriteFile, Managed, UsesRelay => relay,
         NEW g, AsConfigured(g, baseline), Head(todo) = Write("file", g)
  PROVE  Types' /\ Remembered'
<1>1. /\ file' = g /\ wrote' = g
      /\ UNCHANGED <<provider, baseline, relay, token, op, prior, own, purged, crashes>>
  BY DEF WriteFile, Write
<1>2. IsFile(g) /\ Coherent(g)
  BY DEF AsConfigured
<1>3. Managed'
  BY <1>1 DEF Managed
<1>4. Types'
  BY <1>1, <1>2, <1>3, SameTool DEF Types
<1>5. LeftAlone'
  BY <1>1 DEF LeftAlone, AsConfigured
<1>6. Remembered'
  BY <1>1, <1>2, <1>3, <1>5, SameTool DEF Remembered
<1> QED BY <1>4, <1>6

LEMMA RestoredFileStep ==
  ASSUME Types, Remembered, WriteFile, Managed,
         NEW g, AsRestored(g), Head(todo) = Write("file", g)
  PROVE  /\ Types' /\ Remembered' /\ Managed' /\ file' = g
         /\ UNCHANGED <<provider, op, baseline, purged>>
<1>1. /\ file' = g /\ wrote' = g
      /\ UNCHANGED <<provider, baseline, relay, token, op, prior, own, purged, crashes>>
  BY DEF WriteFile, Write
<1>2. IsFile(g) /\ (UsesRelay => Unhooked(g)) /\ (~purged => Coherent(g))
  BY DEF AsRestored
<1>3. Managed'
  BY <1>1 DEF Managed
<1>4. Types'
  BY <1>1, <1>2, <1>3, SameTool DEF Types
<1>5. ASSUME ~purged, provider = "claude-code" => crashes = 0 PROVE LeftAlone'
  <2>1. GivesBack(g)
    BY <1>5 DEF AsRestored
  <2> QED BY <1>1, <2>1, ClaudeFile, CursorFile DEF LeftAlone, GivesBack
<1>6. Unhooked(g)' <=> Unhooked(g)
  BY DEF Unhooked
<1>7. Remembered'
  BY <1>1, <1>2, <1>3, <1>5, <1>6, SameTool DEF Remembered
<1> QED BY <1>1, <1>3, <1>4, <1>7

LEMMA ForgetStep ==
  ASSUME Types, Remembered, WriteFile, Managed, ~purged => Clean(file),
         Head(todo) = Write("baseline", None)
  PROVE  Types' /\ Remembered'
<1>1. /\ baseline' = None
      /\ UNCHANGED <<provider, file, relay, token, op, prior, own, wrote, purged, crashes>>
  BY DEF WriteFile, Write
<1>2. ~Managed'
  BY <1>1 DEF Managed
<1>3. Types'
  BY <1>1, <1>2, SameTool DEF Types
<1>4. \A f : Unhooked(f)' <=> Unhooked(f)
  BY DEF Unhooked
<1>5. Remembered'
  BY <1>1, <1>2, <1>4, SameTool DEF Remembered
<1> QED BY <1>3, <1>5
LEMMA Popped ==
  ASSUME NEW a, NEW b, NEW c
  PROVE  /\ Head(<<a>>) = a /\ Tail(<<a>>) = << >>
         /\ Head(<<a, b>>) = a /\ Tail(<<a, b>>) = <<b>>
         /\ Head(<<a, b, c>>) = a /\ Tail(<<a, b, c>>) = <<b, c>>
<1>1. Head(<<a>>) = a /\ Head(<<a, b>>) = a /\ Head(<<a, b, c>>) = a
  OBVIOUS
<1>2. Tail(<<a>>) = << >>
  OBVIOUS
<1>3. Tail(<<a, b>>) = <<b>>
  OBVIOUS
<1>4. Tail(<<a, b, c>>) = <<b, c>>
  OBVIOUS
<1> QED BY <1>1, <1>2, <1>3, <1>4

LEMMA ConfigureWriteStep ==
  ASSUME SourceInv, WriteFile, op = "configure", Configuring
  PROVE  SourceInv'
<1>1. Types /\ Remembered /\ todo' = Tail(todo) /\ op' = "configure" /\ UNCHANGED provider
  BY DEF SourceInv, WriteFile
<1>2. PICK x, y, z, b, g, h, i, known :
         /\ x = todo[1].value /\ y = todo[2].value /\ z = todo[3].value
         /\ b = Write("baseline", x) /\ g = Write("file", x)
         /\ h = Write("file", y) /\ i = Write("file", z) /\ known = baseline
  OBVIOUS
<1>3. PICK r : r = Write("relay", TRUE)
  OBVIOUS
<1>4. CASE todo = <<b>> /\ Recordable(x) /\ ~Managed
  <2>1. todo' = << >> /\ Head(todo) = b
    BY <1>1, <1>4, Popped
  <2>2. Types' /\ Remembered'
    BY <1>1, <1>2, <1>4, <2>1, RecordStep
  <2> QED BY <2>1, <2>2 DEF SourceInv, Underway, Idle
<1>5. CASE /\ todo = <<b, h>> /\ ~UsesRelay
           /\ Recordable(x) /\ AsConfigured(y, x)
  <2>1. todo' = <<h>> /\ Head(todo) = b
    BY <1>1, <1>5, Popped
  <2>2. /\ Types' /\ Remembered' /\ Managed' /\ baseline' = x
    BY <1>1, <1>2, <1>5, <2>1, RecordStep
  <2>3. ~UsesRelay' /\ AsConfigured(y, x)'
    BY <1>1, <1>5, <2>2, SameTool
  <2>4. Configuring'
    BY <1>2, <2>1, <2>2, <2>3 DEF Configuring, Write
  <2> QED BY <1>1, <2>2, <2>4 DEF SourceInv, Underway
<1>6. CASE /\ todo = <<b, r, i>> /\ UsesRelay
           /\ Recordable(x) /\ AsConfigured(z, x)
  <2>1. todo' = <<r, i>> /\ Head(todo) = b
    BY <1>1, <1>6, Popped
  <2>2. /\ Types' /\ Remembered' /\ Managed' /\ baseline' = x
    BY <1>1, <1>2, <1>6, <2>1, RecordStep
  <2>3. UsesRelay' /\ AsConfigured(z, x)'
    BY <1>1, <1>6, <2>2, SameTool
  <2>4. Configuring'
    BY <1>2, <1>3, <2>1, <2>2, <2>3 DEF Configuring, Write
  <2> QED BY <1>1, <2>2, <2>4 DEF SourceInv, Underway
<1>7. CASE todo = <<r, h>> /\ UsesRelay /\ Managed /\ AsConfigured(y, baseline)
  <2>1. todo' = <<h>> /\ Head(todo) = r
    BY <1>1, <1>7, Popped
  <2>2. Types' /\ Remembered' /\ relay' /\ UNCHANGED baseline
    BY <1>1, <1>3, <1>7, <2>1, RelayStep
  <2>3. Managed' /\ AsConfigured(y, known)' /\ baseline' = known
    BY <1>1, <1>2, <1>7, <2>2, SameTool DEF Managed
  <2>4. Configuring'
    BY <1>2, <2>1, <2>2, <2>3 DEF Configuring, Write
  <2> QED BY <1>1, <2>2, <2>4 DEF SourceInv, Underway
<1>8. CASE /\ todo = <<g>> /\ Managed /\ (UsesRelay => relay)
           /\ AsConfigured(x, baseline)
  <2>1. todo' = << >> /\ Head(todo) = g
    BY <1>1, <1>8, Popped
  <2>2. Types' /\ Remembered'
    BY <1>1, <1>2, <1>8, <2>1, ConfiguredFileStep
  <2> QED BY <2>1, <2>2 DEF SourceInv, Underway, Idle
<1> QED BY <1>2, <1>3, <1>4, <1>5, <1>6, <1>7, <1>8 DEF Configuring

LEMMA RestoreWriteStep ==
  ASSUME SourceInv, WriteFile, op = "restore", Restoring
  PROVE  SourceInv'
<1>1. /\ Types /\ Remembered /\ Managed /\ todo' = Tail(todo) /\ op' = "restore"
      /\ UNCHANGED provider
  BY DEF SourceInv, WriteFile, Restoring
<1>2. PICK x, f, g, r, b : /\ x = todo[1].value /\ g = Write("file", x)
                           /\ f = file /\ r = Write("relay", FALSE) /\ b = Write("baseline", None)
  OBVIOUS
<1>3. UsesRelay' = UsesRelay /\ (\A c : Clean(c)' <=> Clean(c)) /\ (\A c : Unhooked(c)' <=> Unhooked(c))
  BY <1>1, SameTool DEF Unhooked
<1>4. CASE todo = <<g, b>> /\ ~UsesRelay /\ AsRestored(x)
  <2>1. todo' = <<b>> /\ Head(todo) = g
    BY <1>1, <1>4, Popped
  <2>2. Types' /\ Remembered' /\ Managed' /\ file' = x /\ UNCHANGED purged
    BY <1>1, <1>2, <1>4, <2>1, RestoredFileStep
  <2>3. ~purged' => Clean(x)'
    BY <1>3, <1>4, <2>2 DEF AsRestored
  <2>4. Restoring'
    BY <1>2, <2>1, <2>2, <2>3 DEF Restoring, Write
  <2> QED BY <1>1, <2>2, <2>4 DEF SourceInv, Underway
<1>5. CASE todo = <<g, r, b>> /\ UsesRelay /\ AsRestored(x)
  <2>1. todo' = <<r, b>> /\ Head(todo) = g
    BY <1>1, <1>5, Popped
  <2>2. Types' /\ Remembered' /\ Managed' /\ file' = x /\ UNCHANGED purged
    BY <1>1, <1>2, <1>5, <2>1, RestoredFileStep
  <2>3. Unhooked(x)' /\ (~purged' => Clean(x)')
    BY <1>3, <1>5, <2>2 DEF AsRestored
  <2>4. Restoring'
    BY <1>2, <1>3, <1>5, <2>1, <2>2, <2>3 DEF Restoring, Write
  <2> QED BY <1>1, <2>2, <2>4 DEF SourceInv, Underway
<1>6. CASE todo = <<r, b>> /\ UsesRelay /\ Unhooked(file) /\ (~purged => Clean(file))
  <2>1. todo' = <<b>> /\ Head(todo) = r
    BY <1>1, <1>6, Popped
  <2>2. Types' /\ Remembered' /\ UNCHANGED <<baseline, file, purged>>
    BY <1>1, <1>2, <1>6, <2>1, RelayStep
  <2>3. Managed' /\ file' = f /\ (~purged' => Clean(f)')
    BY <1>1, <1>2, <1>3, <1>6, <2>2 DEF Managed
  <2>4. Restoring'
    BY <1>2, <2>1, <2>2, <2>3 DEF Restoring, Write
  <2> QED BY <1>1, <2>2, <2>4 DEF SourceInv, Underway
<1>7. CASE todo = <<b>> /\ (~purged => Clean(file))
  <2>1. todo' = << >> /\ Head(todo) = b
    BY <1>1, <1>7, Popped
  <2>2. Types' /\ Remembered'
    BY <1>1, <1>2, <1>7, <2>1, ForgetStep
  <2> QED BY <2>1, <2>2 DEF SourceInv, Underway, Idle
<1> QED BY <1>2, <1>4, <1>5, <1>6, <1>7 DEF Restoring
-------------------------------------------------------------------------------
(* The user, the purge, the crash and the restart.                            *)

(* An edit of the user changes nothing but the file and their own values.     *)
LEMMA EditKeeps ==
  ASSUME SourceInv, Idle, IsFile(file'),
         ~purged /\ ~Managed => Clean(file'),
         UsesRelay /\ ~Unhooked(file') => relay,
         \A k \in Keys : file'[k] = wrote[k] \/ file'[k] \in UserValues(k),
         \A e \in Events : file'[e] = wrote[e] \/ file'[e] = "absent",
         own' = [k \in Keys |-> own'[k]],
         LeftAlone => LeftAlone',
         UNCHANGED <<provider, baseline, relay, token, todo, op, prior, wrote, purged, crashes>>
  PROVE  SourceInv'
<1>1. Types'
  BY SameTool DEF SourceInv, Types, Managed
<1>2. Managed' = Managed /\ \A f : Unhooked(f)' <=> Unhooked(f)
  BY DEF Managed, Unhooked
<1>3. Remembered'
  BY <1>2, SameTool DEF SourceInv, Remembered, Idle
<1>4. Idle'
  BY DEF Idle
<1> QED BY <1>1, <1>3, <1>4 DEF SourceInv, Underway

(* The names a file is indexed by are of three kinds.                         *)
LEMMA Names ==
  ASSUME provider \in {"claude-code", "codex", "cursor"}
  PROVE  Keys \cap Events = {} /\ Keys \cap Settings = {} /\ Events \cap Settings = {}
  BY ClaudeFile, CodexFile, CursorFile DEF Events, Settings

LEMMA UserSetsStep ==
  ASSUME SourceInv, NEW k \in Keys, NEW v \in UserValues(k), UserSets(k, v)
  PROVE  SourceInv'
<1>1. /\ Idle /\ Types /\ Remembered
      /\ file' = [file EXCEPT ![k] = v, !.there = TRUE] /\ own' = [own EXCEPT ![k] = v]
      /\ UNCHANGED <<provider, baseline, relay, token, todo, op, prior, wrote, purged, crashes>>
  BY DEF UserSets, Edit, SourceInv
<1>2. /\ file = [j \in Keys \cup Events \cup Settings |-> file[j]]
      /\ own = [j \in Keys |-> own[j]] /\ "there" \in Settings
      /\ Keys \cap Events = {} /\ Keys \cap Settings = {} /\ Events \cap Settings = {}
  BY <1>1, Names DEF Types, IsFile, Settings
<1>3. /\ file' = [j \in Keys \cup Events \cup Settings |-> file'[j]]
      /\ file'[k] = v /\ \A j \in Keys : j # k => file'[j] = file[j]
      /\ \A e \in Events : file'[e] = file[e]
      /\ \A s \in Settings : file'[s] = file[s] \/ file'[s] = TRUE
  BY <1>1, <1>2
<1>4. own' = [j \in Keys |-> own'[j]] /\ own'[k] = v /\ \A j \in Keys : j # k => own'[j] = own[j]
  BY <1>1, <1>2
<1>5. IsFile(file')
  BY <1>1, <1>3 DEF Types, IsFile
<1>6. Clean(file) => Clean(file')
  BY <1>3 DEF Clean
<1>7. Unhooked(file') <=> Unhooked(file)
  BY <1>3 DEF Unhooked
<1>8. LeftAlone => LeftAlone'
  BY <1>1, <1>3, <1>4, ClaudeFile, CursorFile DEF LeftAlone
<1>9. \A j \in Keys : file'[j] = wrote[j] \/ file'[j] \in UserValues(j)
  BY <1>1, <1>3 DEF Remembered
<1>10. /\ ~purged /\ ~Managed => Clean(file')
       /\ UsesRelay /\ ~Unhooked(file') => relay
       /\ \A e \in Events : file'[e] = wrote[e] \/ file'[e] = "absent"
  BY <1>1, <1>3, <1>6, <1>7 DEF Remembered
<1> QED BY <1>1, <1>4, <1>5, <1>8, <1>9, <1>10, EditKeeps

LEMMA UserUnhooksStep ==
  ASSUME SourceInv, NEW e \in Events, UserUnhooks(e)
  PROVE  SourceInv'
<1>1. /\ Idle /\ Types /\ Remembered
      /\ file' = [file EXCEPT ![e] = "absent"]
      /\ UNCHANGED <<provider, baseline, relay, token, todo, op, prior, own, wrote, purged, crashes>>
  BY DEF UserUnhooks, Edit, SourceInv
<1>2. /\ file = [j \in Keys \cup Events \cup Settings |-> file[j]]
      /\ own = [j \in Keys |-> own[j]]
      /\ Keys \cap Events = {} /\ Events \cap Settings = {}
  BY <1>1, Names DEF Types, IsFile
<1>3. /\ file' = [j \in Keys \cup Events \cup Settings |-> file'[j]]
      /\ \A j \in Keys : file'[j] = file[j]
      /\ \A j \in Events : file'[j] \in {file[j], "absent"}
      /\ \A s \in Settings : file'[s] = file[s]
  BY <1>1, <1>2
<1>4. IsFile(file')
  BY <1>1, <1>3 DEF Types, IsFile
<1>5. Clean(file) => Clean(file')
  BY <1>3 DEF Clean
<1>6. Unhooked(file) => Unhooked(file')
  BY <1>3 DEF Unhooked
<1>7. LeftAlone => LeftAlone'
  BY <1>1, <1>3, ClaudeFile, CursorFile DEF LeftAlone
<1>8. /\ ~purged /\ ~Managed => Clean(file')
      /\ UsesRelay /\ ~Unhooked(file') => relay
      /\ \A j \in Keys : file'[j] = wrote[j] \/ file'[j] \in UserValues(j)
      /\ \A j \in Events : file'[j] = wrote[j] \/ file'[j] = "absent"
  BY <1>1, <1>3, <1>5, <1>6 DEF Remembered
<1> QED BY <1>1, <1>2, <1>4, <1>7, <1>8, EditKeeps

LEMMA UserAddsStep ==
  ASSUME SourceInv, NEW s \in {"other", "blocked"}, UserAdds(s)
  PROVE  SourceInv'
<1>1. /\ Idle /\ Types /\ Remembered
      /\ file' = [file EXCEPT ![s] = ~file[s], !.there = TRUE]
      /\ UNCHANGED <<provider, baseline, relay, token, todo, op, prior, own, wrote, purged, crashes>>
  BY DEF UserAdds, Edit, SourceInv
<1>2. /\ file = [j \in Keys \cup Events \cup Settings |-> file[j]]
      /\ own = [j \in Keys |-> own[j]] /\ "there" \in Settings /\ s \in Settings
      /\ Keys \cap Settings = {} /\ Events \cap Settings = {}
  BY <1>1, Names DEF Types, IsFile, Settings
<1>3. /\ file' = [j \in Keys \cup Events \cup Settings |-> file'[j]]
      /\ \A j \in Keys \cup Events : file'[j] = file[j]
      /\ \A j \in Settings : file'[j] \in {file[j], ~file[s], TRUE}
  BY <1>1, <1>2
<1>4. IsFile(file')
  BY <1>1, <1>3 DEF Types, IsFile
<1>5. Clean(file) => Clean(file')
  BY <1>3 DEF Clean
<1>6. Unhooked(file) => Unhooked(file')
  BY <1>3 DEF Unhooked
<1>7. LeftAlone => LeftAlone'
  BY <1>1, <1>3, ClaudeFile, CursorFile DEF LeftAlone
<1>8. /\ ~purged /\ ~Managed => Clean(file')
      /\ UsesRelay /\ ~Unhooked(file') => relay
      /\ \A j \in Keys : file'[j] = wrote[j] \/ file'[j] \in UserValues(j)
      /\ \A j \in Events : file'[j] = wrote[j] \/ file'[j] = "absent"
  BY <1>1, <1>3, <1>5, <1>6 DEF Remembered
<1> QED BY <1>1, <1>2, <1>4, <1>7, <1>8, EditKeeps

LEMMA PurgeStep ==
  ASSUME SourceInv, Purge
  PROVE  SourceInv'
<1>1. /\ Idle /\ Types /\ Remembered /\ purged' = (purged \/ Managed) /\ baseline' = None
      /\ UNCHANGED <<provider, file, relay, token, todo, op, prior, own, wrote, crashes>>
  BY DEF Purge, SourceInv
<1>2. ~Managed' /\ \A f : Unhooked(f)' <=> Unhooked(f)
  BY <1>1 DEF Managed, Unhooked
<1>3. Types'
  BY <1>1, <1>2, SameTool DEF Types, Managed
<1>4. ~purged' => ~purged /\ ~Managed
  BY <1>1
<1>5. Remembered'
  <2>1. ~purged' => Clean(file)' /\ Coherent(wrote)'
    BY <1>1, <1>4, SameTool DEF Remembered
  <2>2. UsesRelay' /\ ~Unhooked(file)' => relay'
    BY <1>1, <1>2, SameTool DEF Remembered
  <2>3. /\ \A k \in Keys' : file'[k] = wrote'[k] \/ file'[k] \in UserValues(k)'
        /\ \A e \in Events : file'[e] = wrote'[e] \/ file'[e] = "absent"
    BY <1>1, SameTool DEF Remembered
  <2> QED BY <1>2, <2>1, <2>2, <2>3 DEF Remembered
<1> QED BY <1>1, <1>3, <1>5 DEF SourceInv, Underway, Idle

(* After a crash only what a crash cannot have left half done is claimed.     *)
LEMMA CrashStep ==
  ASSUME SourceInv, Crash
  PROVE  SourceInv'
<1>1. /\ Types /\ Remembered /\ todo' = <<>> /\ crashes' = crashes + 1
      /\ UNCHANGED <<provider, file, baseline, relay, token, prior, own, wrote, purged>>
  BY DEF Crash, SourceInv
<1>2. crashes' \in Nat /\ crashes' # 0
  BY <1>1 DEF Types
<1>3. Managed' = Managed /\ LeftAlone' = LeftAlone /\ \A f : Unhooked(f)' <=> Unhooked(f)
  BY <1>1 DEF Managed, LeftAlone, Unhooked
<1>4. Types'
  BY <1>1, <1>2, <1>3, SameTool DEF Types
<1>5. Remembered'
  BY <1>1, <1>2, <1>3, SameTool DEF Remembered
<1> QED BY <1>1, <1>4, <1>5 DEF SourceInv, Underway, Idle

LEMMA RotateTokenStep ==
  ASSUME SourceInv, NEW t \in Tokens, RotateToken(t)
  PROVE  SourceInv'
<1>1. /\ Idle /\ Types /\ Remembered /\ token' = t
      /\ UNCHANGED <<provider, file, baseline, relay, todo, op, prior, own, wrote, purged, crashes>>
  BY DEF RotateToken, SourceInv
<1>2. Managed' = Managed /\ LeftAlone' = LeftAlone /\ \A f : Unhooked(f)' <=> Unhooked(f)
  BY <1>1 DEF Managed, LeftAlone, Unhooked
<1>3. Types' /\ Remembered'
  BY <1>1, <1>2, SameTool DEF Types, Remembered, Idle
<1> QED BY <1>1, <1>3 DEF SourceInv, Underway, Idle
LEMMA RestingStep ==
  ASSUME SourceInv, UNCHANGED vars
  PROVE  SourceInv'
<1>1. /\ UNCHANGED <<Managed, LeftAlone>>
      /\ \A f : Unhooked(f)' <=> Unhooked(f)
  BY DEF vars, Managed, LeftAlone, Unhooked
<1>2. Types' /\ Remembered'
  BY <1>1, SameTool DEF SourceInv, vars, Types, Remembered, Idle
<1>3. (\A b : Recordable(b)' <=> Recordable(b)) /\ (\A g : AsRestored(g)' <=> AsRestored(g))
  BY <1>1, SameTool DEF vars, Recordable, AsRestored, OnlyOurs, GivesBack
<1>4. PICK x, y, z, known, f : /\ x = todo[1].value /\ y = todo[2].value /\ z = todo[3].value
                             /\ known = baseline /\ f = file
  OBVIOUS
<1>5. /\ x = todo'[1].value /\ y = todo'[2].value /\ z = todo'[3].value
      /\ known = baseline' /\ f = file' /\ todo' = todo /\ purged' = purged /\ relay' = relay
      /\ UsesRelay' = UsesRelay
  BY <1>4, SameTool DEF vars
<1>6. /\ Recordable(x)' <=> Recordable(x)
      /\ AsConfigured(y, x)' <=> AsConfigured(y, x)
      /\ AsConfigured(z, x)' <=> AsConfigured(z, x)
      /\ AsConfigured(y, known)' <=> AsConfigured(y, known)
      /\ AsConfigured(x, known)' <=> AsConfigured(x, known)
      /\ AsRestored(x)' <=> AsRestored(x)
      /\ Clean(f)' <=> Clean(f)
      /\ Unhooked(f)' <=> Unhooked(f)
  BY <1>1, <1>3, SameTool DEF vars
<1>7. Configuring' <=> Configuring
  BY <1>1, <1>4, <1>5, <1>6 DEF Configuring
<1>8. Restoring' <=> Restoring
  BY <1>1, <1>4, <1>5, <1>6 DEF Restoring
<1> QED BY <1>2, <1>7, <1>8 DEF SourceInv, vars, Underway, Idle

LEMMA SourceStep == SourceInv /\ [Next]_vars => SourceInv'
<1> SUFFICES ASSUME SourceInv, [Next]_vars PROVE SourceInv'
  OBVIOUS
<1>1. ASSUME NEW capture \in Captures, NEW tools \in BOOLEAN, Configure(capture, tools)
      PROVE  SourceInv'
  BY <1>1, ConfigureStep
<1>2. CASE Restore \/ ClearAgentData
  BY <1>2, RestoreStep
<1>3. CASE Purge
  BY <1>3, PurgeStep
<1>4. CASE WriteFile
  <2>1. ~Idle
    BY <1>4 DEF WriteFile, Idle
  <2> QED BY <1>4, <2>1, ConfigureWriteStep, RestoreWriteStep DEF SourceInv, Underway
<1>5. ASSUME NEW k \in Keys, NEW v \in UserValues(k), UserSets(k, v) PROVE SourceInv'
  BY <1>5, UserSetsStep
<1>6. ASSUME NEW e \in Events, UserUnhooks(e) PROVE SourceInv'
  BY <1>6, UserUnhooksStep
<1>7. ASSUME NEW s \in {"other", "blocked"}, UserAdds(s) PROVE SourceInv'
  BY <1>7, UserAddsStep
<1>8. CASE Crash
  BY <1>8, CrashStep
<1>9. ASSUME NEW t \in Tokens, RotateToken(t) PROVE SourceInv'
  BY <1>9, RotateTokenStep
<1>10. CASE UNCHANGED vars
  BY <1>10, RestingStep
<1> QED BY <1>1, <1>2, <1>3, <1>4, <1>5, <1>6, <1>7, <1>8, <1>9, <1>10 DEF Next

LEMMA SourceAlways == Spec => []SourceInv
  BY SourceInit, SourceStep, PTL DEF Spec
-------------------------------------------------------------------------------
(* What the project promises of a tool's file.                                *)

(* A baseline that is kept is one the restore-state file is read back as.     *)
THEOREM BaselineAlwaysReadable == Spec => [](Managed => baseline \in BaselinesOf)
<1>1. SourceInv => (Managed => baseline \in BaselinesOf)
  BY DEF SourceInv, Types
<1> QED BY <1>1, SourceAlways, PTL

(* Whatever the agent dies in the middle of, a file that carries its authority*)
(* has a baseline to undo it with, unless that baseline was purged: without   *)
(* one the file holds the user's values alone (recordRestoreState before the  *)
(* write, forgetRestoreState after it).                                       *)
THEOREM AuthorityAlwaysRemembered == Spec => []AuthorityIsRemembered
<1>1. SourceInv => AuthorityIsRemembered
  <2> SUFFICES ASSUME SourceInv, ~Managed, ~purged, NEW k \in Keys PROVE file[k] \notin Tokens
    BY DEF AuthorityIsRemembered
  <2>1. file[k] \in UserValues(k)
    BY DEF SourceInv, Remembered, Clean
  <2> QED BY <2>1, NoAuthority DEF SourceInv, Types
<1> QED BY <1>1, SourceAlways, PTL

(* A hook in the file of Codex or Cursor finds the script it runs.            *)
THEOREM HooksAlwaysFindTheirRelay == Spec => []HooksFindTheirRelay
<1>1. SourceInv => HooksFindTheirRelay
  <2> SUFFICES ASSUME SourceInv, UsesRelay, NEW e \in Events, file[e] \in Tokens PROVE relay
    BY DEF HooksFindTheirRelay
  <2>1. file[e] # "absent"
    BY NoAuthority DEF SourceInv, Types
  <2> QED BY <2>1 DEF SourceInv, Remembered, Unhooked
<1> QED BY <1>1, SourceAlways, PTL

(* The file a restore writes is the one it was found to be right to write.    *)
LEMMA RestoringWrites ==
  ASSUME SourceInv, [Next]_vars, RestoringFile
  PROVE  AsRestored(file') /\ UNCHANGED Keys
<1>1. Restoring
  BY DEF SourceInv, Underway, Idle, RestoringFile
<1>2. PICK g, w : g = todo[1].value /\ w = Write("file", g)
  OBVIOUS
<1>3. AsRestored(g) /\ Head(todo) = w /\ Len(todo) \in {2, 3} /\ Len(todo') # 0
  <2>1. PICK r, b : r = Write("relay", FALSE) /\ b = Write("baseline", None)
    OBVIOUS
  <2>2. w.what = "file" /\ r.what = "relay" /\ b.what = "baseline"
    BY <1>2, <2>1 DEF Write
  <2>3. \/ todo = <<w, b>> /\ AsRestored(g)
        \/ todo = <<w, r, b>> /\ AsRestored(g)
        \/ todo = <<r, b>>
        \/ todo = <<b>>
    BY <1>1, <1>2, <2>1 DEF Restoring
  <2>4. \/ todo = <<w, b>> /\ AsRestored(g)
        \/ todo = <<w, r, b>> /\ AsRestored(g)
    BY <2>2, <2>3, Popped DEF RestoringFile
  <2>5. todo' = Tail(todo)
    BY DEF RestoringFile
  <2>6. CASE todo = <<w, b>> /\ AsRestored(g)
    <3>1. todo' = <<b>> /\ Head(todo) = w
      BY <2>5, <2>6, Popped
    <3> QED BY <2>6, <3>1
  <2>7. CASE todo = <<w, r, b>> /\ AsRestored(g)
    <3>1. todo' = <<r, b>> /\ Head(todo) = w
      BY <2>5, <2>7, Popped
    <3> QED BY <2>7, <3>1
  <2> QED BY <2>4, <2>6, <2>7
<1>4. WriteFile
  <2>1. todo' # todo
    BY <1>3 DEF RestoringFile
  <2>2. todo # << >> /\ todo' # << >>
    BY <1>3
  <2> QED BY <2>1, <2>2 DEF Next, vars, Configure, Restore, ClearAgentData, Request, Purge, Idle,
                            UserSets, UserUnhooks, UserAdds, Edit, Crash, RotateToken
<1>5. file' = g /\ UNCHANGED provider
  BY <1>2, <1>3, <1>4 DEF WriteFile, Write
<1> QED BY <1>3, <1>5, SameTool

(* A restore gives every managed key the value it had before Tirion, or the   *)
(* one the user has given it since, whatever reconfigurations, repairs and    *)
(* token rotations came between (restoreClaude, restoreCodex, restoreCursor). *)
THEOREM RestoreAlwaysGivesBack == Spec => RestoreGivesBack
<1>1. SourceInv /\ [Next]_vars =>
        (RestoringFile /\ ~purged /\ (provider = "claude-code" => crashes = 0) =>
           \A k \in Keys : file'[k] \in {prior[k], own[k]})
  BY RestoringWrites DEF AsRestored, GivesBack
<1> QED BY <1>1, SourceAlways, PTL DEF Spec, RestoreGivesBack

(* It changes no value but those Tirion wrote last, or the capture setting it *)
(* was asked for: a file the user has changed since is left as it is.         *)
THEOREM RestoreAlwaysTouchesOnlyOurs == Spec => RestoreTouchesOnlyOurs
<1>1. SourceInv /\ [Next]_vars =>
        (RestoringFile /\ ~purged =>
           \A k \in Keys \cup Events :
             file'[k] # file[k] =>
               \/ file[k] = wrote[k]
               \/ k \in {"gate", "prompt"} /\ file[k] = baseline.capture)
  BY RestoringWrites DEF AsRestored, OnlyOurs
<1> QED BY <1>1, SourceAlways, PTL DEF Spec, RestoreTouchesOnlyOurs
===============================================================================
