--------------------------- MODULE SourceConfiguration ---------------------------
(* TelemetrySourceConfiguration: the agent takes over the telemetry settings of  *)
(* an AI tool's own configuration file, remembers in a file of its own what it   *)
(* found there (the baseline), and gives it back on request                      *)
(* (packages/agent/src/sourceConfiguration.ts, its callers in index.ts).         *)
(* A behaviour is about one tool: the tools share nothing but the file their     *)
(* baselines are kept in, one entry each. The decisions about a tool's file are  *)
(* in ClaudeSource, CodexSource and CursorSource; this module is what happens    *)
(* over time. A request runs to its end in one turn of the event loop, so only a *)
(* crash comes between two of its writes; the user edits the file and the agent  *)
(* restarts, with the same token or another one, between requests.               *)
EXTENDS Sequences, Naturals, FiniteSets, SequencesExt

CONSTANTS
  Providers,      \* the tools explored
  Tokens,         \* OTLP tokens the agent may hold
  Initial,        \* values of managed keys an untouched file may have
  None,           \* no baseline
  MaxEdits,       \* edits of the user                             (bound)
  MaxRequests,    \* requests to configure, restore or clear       (bound)
  MaxCrashes,     \* crashes between two writes                    (bound)
  MaxRotations    \* restarts with another token                   (bound)

VARIABLES
  provider,  \* the tool
  file,      \* its configuration file: whether it is there, managed keys, hooks
  baseline,  \* its entry of the restore-state file
  relay,     \* the relay script is on disk
  token,     \* otlpAuthToken
  op,        \* the request under way
  todo,      \* the writes it still has to do
  clearing,  \* a clear-agent-data request has tried its restores but not purged
  prior,     \* history: the file when its baseline was first recorded
  own,       \* history: the user's own latest value of every key
  wrote,     \* history: the file as Tirion last wrote it
  purged,    \* history: a baseline was purged without a restore
  edits, requests, crashes, rotations

vars == <<provider, file, baseline, relay, token, op, todo, clearing,
          prior, own, wrote, purged, edits, requests, crashes, rotations>>

Claude == INSTANCE ClaudeSource
Codex  == INSTANCE CodexSource
Cursor == INSTANCE CursorSource

Captures == {"0", "1"}

(* The values of managed keys that carry no authority.                         *)
Literals == {"absent", "user", "invalid", "ours", "0", "1", "console", "otlp",
             "console,otlp", "foreign"}

ASSUME SourceAssumption ==
  /\ Providers \subseteq {"claude-code", "codex", "cursor"}
  /\ Tokens \cap Literals = {}
  /\ None \notin Claude!Baselines \cup Codex!Baselines \cup Cursor!Baselines

Managed == baseline # None

Keys == CASE provider = "claude-code" -> Claude!Keys
          [] provider = "codex"       -> Codex!Keys
          [] provider = "cursor"      -> Cursor!Keys

Events == {"lifecycle", "tool"}

-------------------------------------------------------------------------------
(* The decisions of the tool at hand.                                          *)

(* ownershipState of status().                                                 *)
Ownership ==
  CASE provider = "claude-code" ->
         IF Managed THEN Claude!ManagedState(file, baseline, token)
         ELSE Claude!UnmanagedState(file, token)
    [] provider = "codex" ->
         IF Managed THEN Codex!ManagedState(file, baseline, token, relay)
         ELSE Codex!UnmanagedState(file, token)
    [] provider = "cursor" ->
         IF Managed THEN Cursor!ManagedState(file, baseline, token, relay)
         ELSE Cursor!UnmanagedState(file)

Adopting == Ownership = "adoptable_local"

ConfigureRefused ==
  CASE provider = "claude-code" ->
         \/ Claude!NeverConfigurable(file)
         \/ IF Managed THEN Claude!RefusedAgain(file, baseline, token)
            ELSE Claude!RefusedFirst(file, token)
    [] provider = "codex"  -> Codex!Refused(file, Ownership, token)
    [] provider = "cursor" -> FALSE

ClaudePreserved ==
  IF Managed THEN Claude!Preserved(file, baseline.owned, baseline.preserved)
  ELSE Claude!Preserved(file, {}, {})

Configured(capture, tools) ==
  CASE provider = "claude-code" ->
         Claude!Written(file, ClaudePreserved, token, capture, tools)
    [] provider = "codex"  -> Codex!Written(file, token, capture, tools)
    [] provider = "cursor" -> Cursor!Written(file, token, tools)

Observed(capture, tools) ==
  CASE provider = "claude-code" ->
         Claude!Baseline(file, ClaudePreserved, capture, tools)
    [] provider = "codex"  -> Codex!Baseline(file, Adopting, capture, tools)
    [] provider = "cursor" -> Cursor!Baseline(file, Adopting, tools)

(* recordRestoreState: a baseline that exists keeps what it remembers.         *)
Recorded(capture, tools) ==
  LET new == Observed(capture, tools)
  IN  IF ~Managed THEN new
      ELSE CASE provider = "claude-code" -> Claude!Rerecorded(baseline, new)
             [] provider = "codex"       -> Codex!Rerecorded(baseline, new)
             [] provider = "cursor"      -> Cursor!Rerecorded(baseline, new)

RestoreRefused ==
  CASE provider = "claude-code" -> Claude!RestoreRefused(file, baseline, token)
    [] provider = "codex"  -> Codex!RestoreRefused(file, baseline, token, relay)
    [] provider = "cursor" -> Cursor!RestoreRefused(file, baseline, token, relay)

Restored ==
  CASE provider = "claude-code" -> Claude!Restored(file, baseline, token)
    [] provider = "codex"       -> Codex!Restored(file, baseline)
    [] provider = "cursor"      -> Cursor!Restored(file, baseline)

-------------------------------------------------------------------------------
(* The writes of a request, in order.                                          *)

Write(what, value) == [what |-> what, value |-> value]

UsesRelay == provider \in {"codex", "cursor"}

RelayWrites(present) == IF UsesRelay THEN <<Write("relay", present)>> ELSE <<>>

SlipConfigureWrites(capture, tools) ==
  RelayWrites(TRUE) \o <<Write("file", Configured(capture, tools)),
                         Write("baseline", Recorded(capture, tools))>>

ConfigureWrites(capture, tools) ==
  <<Write("baseline", Recorded(capture, tools))>> \o RelayWrites(TRUE)
    \o <<Write("file", Configured(capture, tools))>>

(* A file that needs no change is left alone, and claimed if it was not.       *)
ClaimWrites(capture, tools) ==
  IF Adopting THEN <<Write("baseline", Recorded(capture, tools))>> ELSE <<>>

SlipRestoreWrites ==
  RelayWrites(FALSE) \o <<Write("file", Restored), Write("baseline", None)>>

RestoreWrites ==
  <<Write("file", Restored)>> \o RelayWrites(FALSE) \o <<Write("baseline", None)>>

UpToDate(capture, tools) ==
  Configured(capture, tools) = file /\ (UsesRelay => relay)

-------------------------------------------------------------------------------
Idle == todo = <<>>

Request == Idle /\ requests < MaxRequests /\ requests' = requests + 1

(* POST /v1/configure/<provider>. A refused request changes nothing.           *)
Configure(capture, tools) ==
  /\ Request
  /\ ~ConfigureRefused
  /\ op' = "configure"
  /\ todo' = IF UpToDate(capture, tools) THEN ClaimWrites(capture, tools)
             ELSE ConfigureWrites(capture, tools)
  /\ UNCHANGED <<provider, file, baseline, relay, token, clearing, prior, own,
                 wrote, purged, edits, crashes, rotations>>

(* POST /v1/configure/<provider>/restore.                                      *)
Restore ==
  /\ Request
  /\ Managed /\ ~RestoreRefused
  /\ op' = "restore"
  /\ todo' = RestoreWrites
  /\ UNCHANGED <<provider, file, baseline, relay, token, clearing, prior, own,
                 wrote, purged, edits, crashes, rotations>>

(* clearLocalAgentData: every tool is restored if it can be; the baselines are *)
(* purged afterwards, awaits later, whatever came of it.                       *)
ClearAgentData ==
  /\ Request
  /\ ~clearing
  /\ clearing' = TRUE
  /\ op' = "restore"
  /\ todo' = IF Managed /\ ~RestoreRefused THEN RestoreWrites ELSE <<>>
  /\ UNCHANGED <<provider, file, baseline, relay, token, prior, own, wrote,
                 purged, edits, crashes, rotations>>

Purge ==
  /\ Idle /\ clearing
  /\ clearing' = FALSE
  /\ purged' = (purged \/ Managed)
  /\ baseline' = None
  /\ UNCHANGED <<provider, file, relay, token, op, todo, prior, own, wrote,
                 edits, requests, crashes, rotations>>

(* One file write, or the removal of a file.                                   *)
WriteFile ==
  /\ todo # <<>>
  /\ todo' = Tail(todo)
  /\ LET w == Head(todo) IN
     \/ /\ w.what = "baseline"
        /\ baseline' = w.value
        /\ prior' = IF ~Managed /\ w.value # None THEN file ELSE prior
        /\ UNCHANGED <<file, relay, wrote>>
     \/ /\ w.what = "relay"
        /\ relay' = w.value
        /\ UNCHANGED <<file, baseline, prior, wrote>>
     \/ /\ w.what = "file"
        /\ file' = w.value
        /\ wrote' = w.value
        /\ UNCHANGED <<baseline, relay, prior>>
  /\ UNCHANGED <<provider, token, op, clearing, own, purged, edits, requests,
                 crashes, rotations>>

UserValues(k) ==
  CASE provider = "claude-code" -> Claude!UserValues[k]
    [] provider = "codex"       -> Codex!UserValues[k]
    [] provider = "cursor"      -> Cursor!UserValues[k]

Edit == Idle /\ edits < MaxEdits /\ edits' = edits + 1

(* The user gives a managed key a value of their own, or removes it.           *)
UserSets(k, v) ==
  /\ Edit
  /\ v \in UserValues(k) /\ v # file[k]
  /\ file' = [file EXCEPT ![k] = v, !.there = TRUE]
  /\ own' = [own EXCEPT ![k] = v]
  /\ UNCHANGED <<provider, baseline, relay, token, op, todo, clearing, prior,
                 wrote, purged, requests, crashes, rotations>>

(* ... or removes one of Tirion's hooks.                                       *)
UserUnhooks(e) ==
  /\ Edit
  /\ file[e] # "absent"
  /\ file' = [file EXCEPT ![e] = "absent"]
  /\ UNCHANGED <<provider, baseline, relay, token, op, todo, clearing, prior, own,
                 wrote, purged, requests, crashes, rotations>>

(* ... or adds a setting Tirion does not manage, or a policy against hooks.    *)
UserAdds(s) ==
  /\ Edit
  /\ s = "blocked" => provider = "claude-code"
  /\ file' = [file EXCEPT ![s] = ~file[s], !.there = TRUE]
  /\ UNCHANGED <<provider, baseline, relay, token, op, todo, clearing, prior, own,
                 wrote, purged, requests, crashes, rotations>>

(* The agent dies between two writes of a request, or during a clear ...       *)
Crash ==
  /\ todo # <<>> \/ clearing
  /\ crashes < MaxCrashes /\ crashes' = crashes + 1
  /\ todo' = <<>> /\ op' = "none" /\ clearing' = FALSE
  /\ UNCHANGED <<provider, file, baseline, relay, token, prior, own, wrote,
                 purged, edits, requests, rotations>>

(* ... or restarts, the token file gone, with a new token.                     *)
RotateToken(t) ==
  /\ Idle /\ ~clearing /\ t # token
  /\ rotations < MaxRotations /\ rotations' = rotations + 1
  /\ token' = t
  /\ UNCHANGED <<provider, file, baseline, relay, op, todo, clearing, prior, own,
                 wrote, purged, edits, requests, crashes>>

-------------------------------------------------------------------------------
AllKeys(p) == CASE p = "claude-code" -> Claude!Keys
                [] p = "codex"       -> Codex!Keys
                [] p = "cursor"      -> Cursor!Keys

UserValuesOf(p, k) == CASE p = "claude-code" -> Claude!UserValues[k]
                        [] p = "codex"       -> Codex!UserValues[k]
                        [] p = "cursor"      -> Cursor!UserValues[k]

(* A file the user made, or none.                                              *)
UserFile(values, there) ==
  [k \in DOMAIN values \cup Events \cup {"there", "other", "blocked"} |->
     CASE k \in DOMAIN values -> values[k]
       [] k \in Events        -> "absent"
       [] k = "there"         -> there
       [] OTHER               -> FALSE]

Init ==
  /\ provider \in Providers
  /\ token \in Tokens
  /\ \E values \in [AllKeys(provider) -> Initial] :
       /\ \A k \in AllKeys(provider) : values[k] \in UserValuesOf(provider, k)
       /\ \E there \in BOOLEAN :
            /\ (\E k \in AllKeys(provider) : values[k] # "absent") => there
            /\ file = UserFile(values, there)
       /\ own = values
  /\ baseline = None
  /\ relay = FALSE
  /\ op = "none" /\ todo = <<>> /\ clearing = FALSE
  /\ prior = file /\ wrote = file /\ purged = FALSE
  /\ edits = 0 /\ requests = 0 /\ crashes = 0 /\ rotations = 0

Next ==
  \/ \E capture \in Captures, tools \in BOOLEAN : Configure(capture, tools)
  \/ Restore
  \/ ClearAgentData
  \/ Purge
  \/ WriteFile
  \/ \E k \in Keys : \E v \in UserValues(k) : UserSets(k, v)
  \/ \E e \in Events : UserUnhooks(e)
  \/ \E s \in {"other", "blocked"} : UserAdds(s)
  \/ Crash
  \/ \E t \in Tokens : RotateToken(t)

Spec == Init /\ [][Next]_vars
-------------------------------------------------------------------------------
(* Managed keys hold what a user or Tirion can give them, and a file is only   *)
(* gone when it had nothing left in it.                                        *)
TypeOK ==
  /\ provider \in Providers /\ token \in Tokens
  /\ \A k \in Keys : /\ own[k] \in UserValues(k)
                     /\ file[k] \in UserValues(k) \cup Tokens
                                    \cup {"ours", "otlp", "console,otlp", "1", "0"}
  /\ \A e \in Events : file[e] \in Tokens \cup {"absent"}
  /\ \/ file.there
     \/ /\ \A k \in Keys \cup Events : file[k] = "absent"
        /\ ~file.other /\ ~file.blocked
  /\ relay \in BOOLEAN /\ clearing \in BOOLEAN /\ purged \in BOOLEAN
  /\ op \in {"none", "configure", "restore"}
  /\ Managed => baseline \in CASE provider = "claude-code" -> Claude!Baselines
                               [] provider = "codex"       -> Codex!Baselines
                               [] provider = "cursor"      -> Cursor!Baselines
  /\ \A i \in DOMAIN todo : todo[i].what \in {"baseline", "relay", "file"}
  /\ edits <= MaxEdits /\ requests <= MaxRequests
  /\ crashes <= MaxCrashes /\ rotations <= MaxRotations

(* A file that carries Tirion's authority has a baseline to undo it with, at   *)
(* every point a request may die at: the baseline is recorded before the file  *)
(* is written and forgotten after it is restored. Only a purge that could not  *)
(* restore leaves an authority nobody remembers.                               *)
AuthorityIsRemembered ==
  (\E k \in Keys : file[k] \in Tokens) => Managed \/ purged

(* A hook that runs the relay script finds it: the script is there before the  *)
(* hooks are written and goes after they are gone, whatever crash comes        *)
(* between.                                                                    *)
HooksFindTheirRelay ==
  UsesRelay /\ (\E e \in Events : file[e] \in Tokens) => relay

RestoringFile ==
  op = "restore" /\ todo # <<>> /\ Head(todo).what = "file" /\ todo' = Tail(todo)

(* A restore gives every managed key the value it had before Tirion, or the    *)
(* one the user has given it since: not after the number of reconfigurations,  *)
(* repairs, token rotations and crashes in between.                            *)
RestoreGivesBack ==
  [][RestoringFile /\ ~purged /\ (provider = "claude-code" => crashes = 0) =>
       \A k \in Keys : file'[k] \in {prior[k], own[k]}]_vars

(* A restore fails closed: it changes no value but one Tirion wrote last, or   *)
(* the capture setting it was asked for and died before writing. The exception *)
(* is a file whose baseline was purged without a restore: it is claimed again  *)
(* without remembering what the user had.                                      *)
RestoreTouchesOnlyOurs ==
  [][RestoringFile /\ ~purged =>
       \A k \in Keys \cup Events :
         file'[k] # file[k] =>
           \/ file[k] = wrote[k]
           \/ k \in {"gate", "prompt"} /\ file[k] = baseline.capture]_vars

===============================================================================
