---------------------------- MODULE AgentRuntime ----------------------------
(***************************************************************************)
(* What the agent does with an observation once it is durable: the live    *)
(* projections, the two usage projections of a run (one query at a time,   *)
(* and all of them), the lifecycle and commit projections they feed, and   *)
(* the barrier that quiesces all of it before a stop                       *)
(* (packages/agent/src/index.ts).                                          *)
(*                                                                         *)
(* A step goes from one `await` to the next that another step can tell     *)
(* from the last; a storage answer and the code that waits for it are one  *)
(* step.  A lane is one key of RuntimeWorkScheduler:     *)
(* work asked for while a turn runs gives the lane another turn, with the  *)
(* latest work.  Evidence of a run is the set of its observations; a run   *)
(* is complete once an observation closes it.  A row of the run ledger,    *)
(* and what was last handed to the webhook dispatch for a run, are such    *)
(* sets.                                                                   *)
(***************************************************************************)
EXTENDS Integers, FiniteSets

CONSTANTS
    Observations, Runs, Commits,
    RunOf,        \* the run an observation is evidence of
    Closing,      \* observations that carry an explicit terminal occurrence
    Immediate,    \* those whose usage is projected without a quiet period
    Urgent,       \* observations with immediate evidence of a terminal
    Hints,        \* observations with workspace evidence
    Identified,   \* runs with a workspace identity
    Bindable,     \* runs whose workspace evidence may be bound late
    Scenes,       \* what the surroundings do, one scene per behaviour:
                  \*   owner: the first owner, "full" or "usage"
                  \*   warm:  begin after the warmup of an agent without data
                  \*   sent:  the observations that are sent
                  \*   calls: of "quiesce", "test", "upkeep", "attribution"
                  \*   faults: of "crash", "ledger", "dispatch"
    MaxPasses     \* bound: RUNTIME_QUIESCE_MAX_PASSES

NoItem == "none"
Projections == {"live_terminal", "live", "workspace"}
Lifecycles == {"priority", "history"}
NamedLanes == Projections \cup Lifecycles \cup {"usage", "commit", "commit_change", "evidence"}
Lanes == Runs \cup NamedLanes

ASSUME RuntimeAssumption ==
    /\ RunOf \in [Observations -> Runs]
    /\ Runs \cap NamedLanes = {}   \* the key of a run's lane carries a prefix
    /\ Immediate \subseteq Closing /\ Closing \subseteq Observations
    /\ Immediate \subseteq Urgent /\ Urgent \subseteq Observations
    /\ Hints \subseteq Observations
    /\ Identified \subseteq Runs /\ Bindable \subseteq Runs
    /\ \A s \in Scenes : s.sent \subseteq Observations /\ s.owner \in {"full", "usage"}
    /\ MaxPasses \in Nat \ {0}

VARIABLES
    scene,      \* the scene of this behaviour
    journal,    \* the durable observations
    durable,    \* the run ledger: [Runs -> evidence], empty for no row
    published,  \* the evidence last handed to the dispatch for a run
    attributed, \* runs the attribution has processed
    change,     \* a commit's attribution: none, unreported or reported
    binding,    \* late workspace evidence of a run: none, unreported, reported
    queued,     \* undelivered rows in the outbox
    owner,      \* the ownership state
    request,    \* an observation at the ingress: none, open, appended, done or lost
    seal,       \* ingress: [shut, late (a request came since), moved]
    lane,       \* the scheduler's lanes: [at, again, full, item]
    moved,      \* lanes were asked for since the barrier noted the generation
    work,       \* what the latest work of a lane captured: commit, run
    pending,    \* observations queued for the live projections
    projected,  \* observations the live projections have taken to their end
    timers,     \* usage timers: lanes they will ask for
    recent,     \* runs whose explicit terminal was seen lately
    rebuild,    \* the usage rebuild: [at, requested, full, before, after]
    life,       \* lifecycle projections: [priority, history, commits]
    replayed,   \* the first rebuild has scheduled its completed runs
    ready,      \* the attribution has started
    starting,   \* the dispatch is reconciling commit events after its start
    upkeep,     \* periodic maintenance: none, rebuild or retention
    call,       \* webhook test request, ownership transition and its rows
    barrier,    \* quiesce: [at, pass, was]
    preStop,    \* a quiesce has succeeded: sealed until a stop
    up

durables == <<journal, durable, attributed, change, binding, queued, owner>>
ingress == <<request, seal>>
scheduler == <<lane, moved>>
lives == <<work, pending, projected>>
usage == <<timers, recent, rebuild, replayed, upkeep>>
control == <<scene, ready, starting, call, barrier, preStop, up>>
vars == <<durables, published, ingress, scheduler, lives, usage, life, control>>

Quiescing == barrier.at # "none"

(* The attribution and the dispatcher exist from the end of the transition   *)
(* to full ownership.                                                      *)
Dispatching == owner = "full" /\ call.transition \notin {"rebuilding", "storing"}

Completed(evidence) == evidence \cap Closing # {}
EvidenceOf(r) == {o \in journal : RunOf[o] = r}

(*--------------------------------- lanes --------------------------------*)

(* `full`: the work of a run's lane was captured from a full owner. *)
Idle == [at |-> "idle", again |-> FALSE, full |-> FALSE, item |-> NoItem]

Asked(lanes, asks) ==
    [l \in Lanes |->
        IF l \notin asks THEN lanes[l]
        ELSE [lanes[l] EXCEPT !.again = lanes[l].at # "idle",
                              !.at = IF @ = "idle" THEN "start" ELSE @,
                              !.full = l \in Runs /\ owner = "full"]]

Ended(lanes, l) ==
    [lanes EXCEPT ![l] = IF lanes[l].again
                         THEN [Idle EXCEPT !.at = "start", !.full = lanes[l].full]
                         ELSE Idle]

(* The generations matter once the barrier has noted them.                  *)
Noted == barrier.at \in {"webhook", "final"}

Enqueue(asks) ==
    /\ lane' = Asked(lane, asks)
    /\ moved' = (moved \/ (Noted /\ asks # {}))

(* A turn of l ends, or goes on at its next await, having asked for work.   *)
EndTurn(l, asks) ==
    /\ lane' = Ended(Asked(lane, asks), l)
    /\ moved' = (moved \/ (Noted /\ asks # {}))

Turn(l, at, item) ==
    /\ lane' = [lane EXCEPT ![l].at = at, ![l].item = item]
    /\ UNCHANGED moved

InTurn(l, at) == up /\ lane[l].at = at

(*------------------------- live ingest processing -----------------------*)

(* scheduleLiveIngestProcessing with an observation: the lanes to ask for,  *)
(* `late` being the recently ended run that the observation may correct.   *)
LiveLane(o) == IF o \in Urgent THEN "live_terminal" ELSE "live"

(* A plausible slip: workspace evidence takes its lane instead of, not        *)
(* besides, the live one.                                                  *)
SlipLiveLanes(o) ==
    IF owner # "full" THEN {} ELSE IF o \in Hints THEN {"workspace"} ELSE {LiveLane(o)}

LiveLanes(o) ==
    IF owner # "full" THEN {}
    ELSE {LiveLane(o)} \cup (IF o \in Hints THEN {"workspace"} ELSE {})

ScheduleLiveIngest(o, late) ==
    LET r == RunOf[o]
        closes == o \in Closing
    IN  /\ recent' = IF closes THEN recent \cup {r} ELSE recent
        /\ timers' = timers \cup {"usage"} \cup (IF closes THEN {r} ELSE {})
        /\ pending' = [p \in Projections |->
                          IF p \in LiveLanes(o) THEN pending[p] \cup {o} ELSE pending[p]]
        /\ Enqueue(LiveLanes(o) \cup late \cup (IF o \in Immediate THEN {r} ELSE {}))

(* An explicit terminal, or evidence of a run whose terminal is remembered:  *)
(* the run's session, query and times decide whether it is a correction.    *)
Corrects(o) == IF o \in Closing THEN {{}} ELSE SUBSET (recent \cap {RunOf[o]})

Submit(o) ==
    /\ up /\ ~seal.shut /\ o \in scene.sent /\ request[o] = "none"
    /\ request' = [request EXCEPT ![o] = "open"]
    /\ UNCHANGED <<durables, published, seal, scheduler, lives, usage, life, control>>

SubmitSealed(o) ==
    /\ up /\ seal.shut /\ o \in scene.sent /\ request[o] = "none"
    /\ seal' = [seal EXCEPT !.late = TRUE]
    /\ UNCHANGED <<durables, published, request, scheduler, lives, usage, life, control>>

Append(o) ==
    /\ up /\ request[o] = "open"
    /\ journal' = journal \cup {o}
    /\ request' = [request EXCEPT ![o] = "appended"]
    /\ UNCHANGED <<durable, attributed, change, binding, queued, owner, published, seal,
                   scheduler, lives, usage, life, control>>

DispatchAccepted(o) ==
    /\ up /\ request[o] = "appended"
    /\ request' = [request EXCEPT ![o] = "done"]
    /\ seal' = [seal EXCEPT !.moved = @ \/ Noted]
    /\ IF preStop THEN UNCHANGED <<recent, timers, pending, scheduler>>
       ELSE \E late \in Corrects(o) : ScheduleLiveIngest(o, late)
    /\ UNCHANGED <<durables, published, work, projected, rebuild, replayed, upkeep,
                   life, control>>

(* A plausible slip: what is durable counts as done before it is dispatched.  *)
SlipIngressIdle == \A o \in Observations : request[o] # "open"

IngressIdle == \A o \in Observations : request[o] \in {"none", "done", "lost"}

(* A usage timer is one lane's; its callback asks for that lane.             *)
TimerFires(t) ==
    /\ up /\ t \in timers
    /\ timers' = timers \ {t}
    /\ IF preStop THEN UNCHANGED scheduler ELSE Enqueue({t})
    /\ UNCHANGED <<durables, published, ingress, lives, recent, rebuild, replayed, upkeep,
                   life, control>>

(*---------------------------- live projections --------------------------*)

(* drainLiveWebhookProjection, drainTerminalLiveWebhookProjection: one       *)
(* observation after another until the queue is empty.                     *)
DrainLive(p) ==
    /\ p \in {"live_terminal", "live"} /\ InTurn(p, "start")
    /\ IF pending[p] = {} \/ ~Dispatching
       THEN /\ pending' = [pending EXCEPT ![p] = {}]
            /\ EndTurn(p, {})
            /\ UNCHANGED <<projected, queued>>
       ELSE \E o \in pending[p] :
                /\ pending' = [pending EXCEPT ![p] = @ \ {o}]
                /\ projected' = [projected EXCEPT ![p] = @ \cup {o}]
                /\ queued' = TRUE
                /\ IF pending[p] = {o} THEN EndTurn(p, {}) ELSE UNCHANGED scheduler
    /\ UNCHANGED <<journal, durable, attributed, change, binding, owner, published, ingress,
                   work, usage, life, control>>

(* drainLiveWorkspaceEvidenceProjection: the whole queue at once.            *)
DrainWorkspace ==
    /\ InTurn("workspace", "start")
    /\ pending' = [pending EXCEPT !["workspace"] = {}]
    /\ IF Dispatching
       THEN projected' = [projected EXCEPT !["workspace"] = @ \cup pending["workspace"]]
       ELSE UNCHANGED projected
    /\ EndTurn("workspace", {})
    /\ UNCHANGED <<durables, published, ingress, work, usage, life, control>>

(*------------------------- lifecycle projections ------------------------*)

(* scheduleWebhookLifecycleProjection of the rows `runs` (empty: no row): a  *)
(* priority request takes the run out of the history, a historical one     *)
(* leaves a priority request of the run alone.                             *)
Scheduled(runs, priority) ==
    [priority |-> [r \in Runs |-> IF priority /\ runs[r] # {} THEN runs[r]
                                  ELSE life.priority[r]],
     history  |-> [r \in Runs |-> IF runs[r] = {} THEN life.history[r]
                                  ELSE IF priority THEN {}
                                  ELSE IF life.priority[r] # {} THEN life.history[r]
                                  ELSE runs[r]],
     commits  |-> TRUE]

(* A plausible slip: one lane for both queues.                               *)
SlipLifecycleLane(priority) == "history"

LifecycleLane(priority) == IF priority THEN "priority" ELSE "history"

CompletedRows(rows) == [r \in Runs |-> IF Completed(rows[r]) THEN rows[r] ELSE {}]
Only(r, evidence) == [s \in Runs |-> IF s = r THEN evidence ELSE {}]
NoRows == [r \in Runs |-> {}]

(* drainWebhookLifecycleProjection: one run per turn.  What follows the      *)
(* projection decides on the commit reconciliation and another turn.       *)
InFlight(q) == lane[q].at = "observe"

AfterProjection(q, next) ==
    LET reconcile == /\ next.commits
                     /\ next.priority = NoRows /\ next.history = NoRows
                     /\ \A other \in Lifecycles \ {q} : ~InFlight(other)
    IN  /\ life' = [next EXCEPT !.commits = @ /\ ~reconcile]
        /\ EndTurn(q, (IF reconcile THEN {"commit"} ELSE {})
                      \cup (IF next[q] # NoRows THEN {q} ELSE {}))

TakeLifecycle(q) ==
    /\ InTurn(q, "start")
    /\ IF ~Dispatching
       THEN /\ life' = [priority |-> NoRows, history |-> NoRows, commits |-> FALSE]
            /\ EndTurn(q, {})
       ELSE IF life[q] = NoRows THEN AfterProjection(q, life)
       ELSE \E r \in Runs :
                /\ life[q][r] # {}
                /\ life' = [life EXCEPT ![q][r] = {}]
                /\ Turn(q, "observe", <<r, life[q][r]>>)
    /\ UNCHANGED <<durables, published, ingress, lives, usage, control>>

(* observeCompletedRuns: the terminal is admitted with the run's row and the *)
(* workspace evidence bound so far; a failure is recorded, never retried.  *)
ObserveCompletedRun(q) ==
    /\ InTurn(q, "observe")
    /\ LET r == lane[q].item[1]
       IN  \/ /\ published' = [published EXCEPT ![r] = lane[q].item[2]]
              /\ binding' = [binding EXCEPT ![r] = IF @ = "unreported" THEN "reported" ELSE @]
              /\ queued' = TRUE
           \/ /\ "dispatch" \in scene.faults
              /\ UNCHANGED <<published, binding, queued>>
    /\ AfterProjection(q, life)
    /\ UNCHANGED <<journal, durable, attributed, change, owner, ingress, lives, usage, control>>

(* scheduleWebhookCommitReconciliation: every commit; and, for a verified    *)
(* change, the one commit the lane's latest work names.                    *)
Unreported == {c \in Commits : change[c] = "unreported"}

Reported(commits) ==
    [c \in Commits |-> IF c \in commits THEN "reported" ELSE change[c]]

ReconcileCommitEvents(l) ==
    /\ l \in {"commit", "commit_change"} /\ InTurn(l, "start")
    /\ LET commits == IF l = "commit" THEN Unreported ELSE {work.commit}
       IN  IF Dispatching
           THEN change' = Reported(commits) /\ queued' = (queued \/ commits # {})
           ELSE UNCHANGED <<change, queued>>
    /\ EndTurn(l, {})
    /\ UNCHANGED <<journal, durable, attributed, binding, owner, published, ingress, lives,
                   usage, life, control>>

(* What the attribution asks for while the agent is not sealed. *)
(* A plausible slip: nothing looks at the seal.                              *)
SlipAttributionAsks(l, captured) == work' = captured /\ Enqueue({l})

AttributionAsks(l, captured) ==
    IF preStop THEN UNCHANGED <<work, scheduler>> ELSE work' = captured /\ Enqueue({l})

(* handleVerifiedAttributionChange                                           *)
CommitChanges(c) ==
    /\ "attribution" \in scene.calls /\ up /\ ready /\ change[c] = "none"
    /\ change' = [change EXCEPT ![c] = "unreported"]
    /\ AttributionAsks("commit_change", [work EXCEPT !.commit = c])
    /\ UNCHANGED <<journal, durable, attributed, binding, queued, owner, published, ingress,
                   pending, projected, usage, life, control>>

(* handleWorkspaceEvidenceBound, and the lane that schedules the runs of the *)
(* queries its latest work names.                                          *)
EvidenceBound(r) ==
    /\ "attribution" \in scene.calls /\ up /\ ready
    /\ r \in Bindable /\ durable[r] # {} /\ binding[r] = "none"
    /\ binding' = [binding EXCEPT ![r] = "unreported"]
    /\ AttributionAsks("evidence", [work EXCEPT !.run = r])
    /\ UNCHANGED <<journal, durable, attributed, change, queued, owner, published, ingress,
                   pending, projected, usage, life, control>>

ScheduleBoundRuns ==
    /\ InTurn("evidence", "start")
    /\ IF owner = "full" /\ ~preStop
       THEN /\ life' = Scheduled(Only(work.run, durable[work.run]), TRUE)
            /\ EndTurn("evidence", {"priority"})
       ELSE EndTurn("evidence", {}) /\ UNCHANGED life
    /\ UNCHANGED <<durables, published, ingress, lives, usage, control>>

(*----------------------------- usage projections ------------------------*)

(* enqueueTerminalUsageProjection's turn: projectCompletedQuery reads the    *)
(* evidence of one query and upserts its run; then its lifecycle follows.  *)
ReadQuery(r) ==
    /\ InTurn(r, "start")
    /\ Turn(r, "upsert", <<EvidenceOf(r), lane[r].full>>)
    /\ UNCHANGED <<durables, published, ingress, lives, usage, life, control>>

UpsertQuery(r) ==
    /\ InTurn(r, "upsert")
    /\ LET row == lane[r].item[1]
           publish == Completed(row) /\ lane[r].item[2] /\ ~preStop
       IN  /\ durable' = [durable EXCEPT ![r] = IF Completed(row) THEN row ELSE @]
           /\ life' = IF publish THEN Scheduled(Only(r, row), TRUE) ELSE life
           /\ EndTurn(r, IF publish THEN {"priority"} ELSE {})
    /\ UNCHANGED <<journal, attributed, change, binding, queued, owner, published, ingress,
                   lives, usage, control>>

(* queueUsageRebuild: one rebuild at a time; a request made meanwhile has it *)
(* run again.                                                              *)
QueueRebuild ==
    rebuild' = IF rebuild.at = "idle"
               THEN [rebuild EXCEPT !.at = "previous", !.requested = FALSE]
               ELSE [rebuild EXCEPT !.requested = TRUE]

UsageTurn ==
    /\ InTurn("usage", "start")
    /\ QueueRebuild
    /\ Turn("usage", "wait", NoItem)
    /\ UNCHANGED <<durables, published, ingress, lives, timers, recent, replayed, upkeep,
                   life, control>>

InRebuild(at) == up /\ rebuild.at = at

(* rebuildUsageProducts: the ledger, the evidence, the upsert and the new     *)
(* ledger, the budget warnings.                                            *)
RebuildReads ==
    /\ \/ /\ InRebuild("previous")
          /\ rebuild' = [rebuild EXCEPT !.at = "read", !.full = owner = "full",
                                           !.before = durable]
       \/ /\ InRebuild("read")
          /\ rebuild' = [rebuild EXCEPT !.at = "upsert",
                           !.after = CompletedRows([r \in Runs |-> EvidenceOf(r)])]
    /\ UNCHANGED <<durables, published, ingress, scheduler, lives, timers, recent, replayed,
                   upkeep, life, control>>

RebuildUpserts ==
    /\ InRebuild("upsert")
    /\ durable' = [r \in Runs |-> IF rebuild.after[r] # {} THEN rebuild.after[r]
                                                          ELSE durable[r]]
    /\ rebuild' = [rebuild EXCEPT !.at = "warnings", !.after = durable']
    /\ UNCHANGED <<journal, attributed, change, binding, queued, owner, published, ingress,
                   scheduler, lives, timers, recent, replayed, upkeep, life, control>>

(* The rebuild ends: another one if it was asked for meanwhile, or its        *)
(* callers go on, the usage lane to the end of its turn and maintenance to *)
(* its retention.                                                          *)
Resting == [at |-> "idle", requested |-> FALSE, full |-> FALSE,
            before |-> NoRows, after |-> NoRows]

RebuildEnds(lanes) ==
    IF rebuild.requested
    THEN /\ rebuild' = [Resting EXCEPT !.at = "previous"]
         /\ lane' = lanes
         /\ UNCHANGED upkeep
    ELSE /\ rebuild' = Resting
         /\ lane' = IF lane["usage"].at = "wait" THEN Ended(lanes, "usage") ELSE lanes
         /\ upkeep' = IF upkeep = "rebuild" THEN "retention" ELSE upkeep

(* After the budget warnings: the completed runs that changed, the first     *)
(* time all of them (those of the recovery window).                        *)
(* A plausible slip: a start replays nothing.                                *)
SlipChanged == [r \in Runs |-> IF rebuild.before[r] = rebuild.after[r] THEN {}
                               ELSE rebuild.after[r]]

Changed == [r \in Runs |-> IF replayed /\ rebuild.before[r] = rebuild.after[r] THEN {}
                           ELSE rebuild.after[r]]

RebuildSchedules ==
    /\ InRebuild("warnings")
    /\ LET asks == IF rebuild.full /\ Changed # NoRows /\ ~preStop
                   THEN {LifecycleLane(replayed)} ELSE {}
       IN  /\ life' = IF asks = {} THEN life ELSE Scheduled(Changed, replayed)
           /\ moved' = (moved \/ (Noted /\ asks # {}))
           /\ IF rebuild.full /\ ready
              THEN /\ rebuild' = [rebuild EXCEPT !.at = "attribute", !.before = NoRows]
                   /\ lane' = Asked(lane, asks)
                   /\ UNCHANGED upkeep
              ELSE RebuildEnds(Asked(lane, asks))
    /\ replayed' = (replayed \/ rebuild.full)
    /\ UNCHANGED <<durables, published, ingress, lives, timers, recent, control>>

(* observeCompletedRunsIncrementally: the completed runs not processed yet.  *)
RebuildAttributes ==
    /\ InRebuild("attribute")
    /\ LET rows == [r \in Runs |-> IF r \in Identified \ attributed THEN rebuild.after[r]
                                                                    ELSE {}]
           asks == IF rows = NoRows \/ preStop THEN {} ELSE {"priority"}
       IN  /\ attributed' = attributed \cup {r \in Runs : rows[r] # {}}
           /\ life' = IF asks = {} THEN life ELSE Scheduled(rows, TRUE)
           /\ moved' = (moved \/ (Noted /\ asks # {}))
           /\ RebuildEnds(Asked(lane, asks))
    /\ UNCHANGED <<journal, durable, change, binding, queued, owner, published, ingress,
                   lives, timers, recent, replayed, control>>

(* A storage failure after the upsert: the budget warnings throw, and a       *)
(* request made meanwhile is forgotten.                                    *)
RebuildFails ==
    /\ "ledger" \in scene.faults /\ InRebuild("warnings")
    /\ rebuild' = [Resting EXCEPT !.requested = rebuild.requested]
    /\ lane' = IF lane["usage"].at = "wait" THEN Ended(lane, "usage") ELSE lane
    /\ upkeep' = IF upkeep = "rebuild" THEN "retention" ELSE upkeep
    /\ UNCHANGED <<durables, published, ingress, moved, lives, timers, recent, replayed, life,
                   control>>

(* runPeriodicUsageMaintenance: while measurements are fresh it only arms    *)
(* the usage timer.                                                        *)
Maintain ==
    /\ "upkeep" \in scene.calls /\ up /\ ~Quiescing /\ ~preStop /\ upkeep = "none"
    /\ \/ /\ "usage" \in timers
          /\ UNCHANGED <<rebuild, upkeep>>
       \/ /\ upkeep' = "rebuild" /\ QueueRebuild
    /\ UNCHANGED <<durables, published, ingress, scheduler, lives, timers, recent, replayed,
                   life, control>>

MaintenanceEnds ==
    /\ up /\ upkeep = "retention" /\ upkeep' = "none"
    /\ UNCHANGED <<durables, published, ingress, scheduler, lives, timers, recent, rebuild,
                   replayed, life, control>>

(*----------------------------- control routes ---------------------------*)

(* POST /v1/webhook/test: counted from its arrival; requireWebhookDispatch   *)
(* refuses it during and after a quiesce.                                  *)
WebhookTest ==
    /\ "test" \in scene.calls /\ up
    /\ \/ call.test = "none" /\ call' = [call EXCEPT !.test = "arrived"] /\ UNCHANGED queued
       \/ /\ call.test = "arrived"
          /\ call' = [call EXCEPT !.test =
                         IF Quiescing \/ preStop \/ ~Dispatching THEN "none" ELSE "storing"]
          /\ UNCHANGED queued
       \/ call.test = "storing" /\ call' = [call EXCEPT !.test = "none"] /\ queued' = TRUE
    /\ UNCHANGED <<journal, durable, attributed, change, binding, owner, published, ingress,
                   scheduler, lives, usage, life, scene, ready, starting, barrier, preStop, up>>

(* POST /v1/ownership/transition to full ownership: checked once, then the   *)
(* body is read, the owner stored, the evidence read, the ledger rebuilt   *)
(* from it, and the services started, whose dispatch reconciles every      *)
(* commit event.                                                           *)
Transition ==
    /\ up /\ call.transition = "none" /\ owner = "usage" /\ ~Quiescing /\ ~preStop
    /\ call' = [call EXCEPT !.transition = "reading"]
    /\ UNCHANGED <<durables, published, ingress, scheduler, lives, usage, life, scene, ready,
                   starting, barrier, preStop, up>>

TransitionGoesOn ==
    /\ up
    /\ \/ /\ call.transition = "reading"
          /\ call' = [call EXCEPT !.transition = "rebuilding"]
          /\ owner' = "full"
          /\ UNCHANGED <<durable, starting>>
       \/ /\ call.transition = "rebuilding"
          /\ call' = [call EXCEPT !.transition = "storing",
                          !.rows = CompletedRows([r \in Runs |-> EvidenceOf(r)])]
          /\ UNCHANGED <<durable, owner, starting>>
       \/ /\ call.transition = "storing"
          /\ call' = [call EXCEPT !.transition = "none", !.rows = NoRows]
          /\ durable' = [r \in Runs |-> IF call.rows[r] # {} THEN call.rows[r] ELSE durable[r]]
          /\ starting' = TRUE
          /\ UNCHANGED owner
    /\ UNCHANGED <<journal, attributed, change, binding, queued, published, ingress, scheduler,
                   lives, usage, life, scene, ready, barrier, preStop, up>>

(* The start of the dispatch reconciles commit events in the background.     *)
DispatchStarted ==
    /\ up /\ starting /\ starting' = FALSE
    /\ change' = Reported(Unreported)
    /\ queued' = (queued \/ Unreported # {})
    /\ UNCHANGED <<journal, durable, attributed, binding, owner, published, ingress, scheduler,
                   lives, usage, life, scene, ready, call, barrier, preStop, up>>

(* Once started, the attribution asks for a usage projection.                *)
AttributionStarts ==
    /\ up /\ Dispatching /\ ~ready /\ ready' = TRUE
    /\ IF preStop THEN UNCHANGED scheduler ELSE Enqueue({"usage"})
    /\ UNCHANGED <<durables, published, ingress, lives, usage, life, scene, starting, call, barrier,
                   preStop, up>>

(* The dispatch delivers what is queued.                                     *)
Deliver ==
    /\ up /\ Dispatching /\ queued /\ queued' = FALSE
    /\ UNCHANGED <<journal, durable, attributed, change, binding, owner, published, ingress,
                   scheduler, lives, usage, life, control>>

(*-------------------------------- quiesce -------------------------------*)

Open == [at |-> "none", pass |-> 0, was |-> FALSE]
OpenSeal == [shut |-> FALSE, late |-> FALSE, moved |-> FALSE]

PipelineQuiescent ==
    /\ \A l \in Lanes : lane[l].at = "idle"
    /\ timers = {}
    /\ \A p \in Projections : pending[p] = {}
    /\ life = [priority |-> NoRows, history |-> NoRows, commits |-> FALSE]
    /\ upkeep = "none"
    /\ rebuild.at = "idle" /\ ~rebuild.requested

BarrierOnly == UNCHANGED <<durables, published, request, lives, usage, life, lane,
                           scene, ready, starting, call, up>>

(* A second call while one runs answers timed_out and changes nothing.       *)
Quiesce ==
    /\ "quiesce" \in scene.calls /\ up /\ ~Quiescing
    /\ barrier' = [at |-> "ingress", pass |-> 1, was |-> preStop]
    /\ seal' = [seal EXCEPT !.shut = TRUE]
    /\ BarrierOnly /\ UNCHANGED <<moved, preStop>>

(* The ingress drains, then the requests and the maintenance under way end:  *)
(* none of the three begins again meanwhile, so one step waits for them.   *)
BarrierWaits ==
    /\ up /\ barrier.at = "ingress"
    /\ IngressIdle /\ call.test = "none" /\ upkeep = "none"
    /\ barrier' = [barrier EXCEPT !.at = "drain"]
    /\ BarrierOnly /\ UNCHANGED <<seal, moved, preStop>>

(* forceQueuedProjectionWorkForQuiesce                                       *)
Forced ==
    (IF preStop THEN {} ELSE {"usage"} \cup timers)
    \cup {p \in Projections : pending[p] # {}}
    \cup (IF life.priority # NoRows \/ life.commits THEN {"priority"} ELSE {})
    \cup (IF life.history # NoRows THEN {"history"} ELSE {})

BarrierForces ==
    /\ up /\ barrier.at = "drain" /\ IngressIdle
    /\ barrier' = [barrier EXCEPT !.at = "runtime"]
    /\ timers' = {}
    /\ Enqueue(Forced)
    /\ UNCHANGED <<durables, published, ingress, lives, recent, rebuild, replayed, upkeep,
                   life, scene, ready, starting, call, preStop, up>>

(* drainToFixedPoint has found every lane idle; the generations are noted.   *)
BarrierNotes ==
    /\ up /\ barrier.at = "runtime" /\ PipelineQuiescent
    /\ barrier' = [barrier EXCEPT !.at = "webhook"]
    /\ BarrierOnly /\ UNCHANGED <<seal, moved, preStop>>

(* drainForQuiesce: nothing in the background, nothing queued or blocked.    *)
WebhookDrained == ~Dispatching \/ (~starting /\ ~queued)

BarrierDelivers ==
    /\ up /\ barrier.at = "webhook" /\ WebhookDrained
    /\ barrier' = [barrier EXCEPT !.at = "final"]
    /\ BarrierOnly /\ UNCHANGED <<seal, moved, preStop>>

Stable == ~seal.moved /\ ~moved /\ seal.shut /\ ~seal.late /\ PipelineQuiescent

BarrierCompletes ==
    /\ up /\ barrier.at = "final" /\ IngressIdle /\ Stable
    /\ barrier' = Open /\ preStop' = TRUE
    /\ BarrierOnly /\ UNCHANGED <<seal, moved>>

BarrierRepeats ==
    /\ up /\ barrier.at = "final" /\ IngressIdle /\ ~Stable /\ barrier.pass < MaxPasses
    /\ barrier' = [barrier EXCEPT !.at = "drain", !.pass = @ + 1]
    /\ seal' = [seal EXCEPT !.moved = FALSE] /\ moved' = FALSE
    /\ BarrierOnly /\ UNCHANGED preStop

(* A deadline, a pipeline that is not quiescent, rows that stay queued, or    *)
(* the last pass: the ingress opens again unless it was sealed before.     *)
BarrierTimesOut ==
    /\ up /\ Quiescing
    /\ barrier' = Open
    /\ seal' = IF barrier.was THEN [seal EXCEPT !.moved = FALSE] ELSE OpenSeal
    /\ moved' = FALSE
    /\ BarrierOnly /\ UNCHANGED preStop

(*--------------------------- crash and restart --------------------------*)

NoWork == [commit |-> NoItem, run |-> NoItem]
NoProjection == [p \in Projections |-> {}]
NoCall == [test |-> "none", transition |-> "none", rows |-> NoRows]
NoLife == [priority |-> NoRows, history |-> NoRows, commits |-> FALSE]

Volatile ==
    /\ seal' = OpenSeal
    /\ lane' = [l \in Lanes |-> Idle] /\ moved' = FALSE
    /\ work' = NoWork /\ pending' = NoProjection /\ projected' = NoProjection
    /\ timers' = {} /\ recent' = {} /\ rebuild' = Resting
    /\ replayed' = FALSE /\ upkeep' = "none"
    /\ life' = NoLife
    /\ ready' = FALSE /\ starting' = FALSE /\ call' = NoCall /\ barrier' = Open
    /\ preStop' = FALSE

(* The provider sends again what got no answer; what was appended is a        *)
(* duplicate then and goes no further.                                     *)
Crash ==
    /\ "crash" \in scene.faults /\ up /\ up' = FALSE
    /\ request' = [o \in Observations |-> IF o \in journal THEN "lost" ELSE "none"]
    /\ Volatile
    /\ UNCHANGED <<scene, durables, published>>

(* The dispatch starts with the services of a full owner; the warmup asks for *)
(* a usage rebuild.                                                        *)
Restart ==
    /\ ~up /\ up' = TRUE
    /\ starting' = (owner = "full")
    /\ rebuild' = [Resting EXCEPT !.at = "previous"]
    /\ UNCHANGED <<durables, published, ingress, scheduler, lives, timers, recent, replayed,
                   upkeep, life, scene, ready, call, barrier, preStop>>

(*----------------------------- specification ----------------------------*)

Init ==
    /\ scene \in Scenes
    /\ journal = {} /\ durable = NoRows /\ published = NoRows /\ attributed = {}
    /\ change = [c \in Commits |-> "none"]
    /\ binding = [r \in Runs |-> "none"]
    /\ queued = FALSE /\ owner = scene.owner
    /\ request = [o \in Observations |-> "none"]
    /\ seal = OpenSeal
    /\ lane = [l \in Lanes |-> Idle] /\ moved = FALSE
    /\ work = NoWork /\ pending = NoProjection /\ projected = NoProjection
    /\ timers = {} /\ recent = {}
    /\ rebuild = IF scene.warm THEN Resting ELSE [Resting EXCEPT !.at = "previous"]
    /\ replayed = (scene.warm /\ owner = "full") /\ upkeep = "none"
    /\ life = NoLife
    /\ ready = (scene.warm /\ owner = "full")
    /\ starting = (~scene.warm /\ owner = "full") /\ call = NoCall /\ barrier = Open
    /\ preStop = FALSE /\ up = TRUE

Ingest ==
    \/ \E o \in Observations : Append(o) \/ DispatchAccepted(o)
    \/ \E t \in Runs \cup {"usage"} : TimerFires(t)

Project ==
    \/ DrainWorkspace \/ \E p \in Projections : DrainLive(p)
    \/ \E q \in Lifecycles : TakeLifecycle(q) \/ ObserveCompletedRun(q)
    \/ \E l \in {"commit", "commit_change"} : ReconcileCommitEvents(l)
    \/ ScheduleBoundRuns
    \/ \E r \in Runs : ReadQuery(r) \/ UpsertQuery(r)

Rebuild ==
    \/ UsageTurn \/ RebuildReads \/ RebuildUpserts \/ RebuildSchedules
    \/ RebuildAttributes \/ RebuildFails
    \/ MaintenanceEnds

Services == TransitionGoesOn \/ DispatchStarted \/ AttributionStarts \/ Deliver

Barrier ==
    \/ BarrierWaits \/ BarrierForces \/ BarrierNotes \/ BarrierDelivers
    \/ BarrierCompletes \/ BarrierRepeats

Next ==
    \/ \E o \in Observations : Submit(o) \/ SubmitSealed(o)
    \/ Ingest \/ Project \/ Rebuild \/ Maintain \/ Services
    \/ \E c \in Commits : CommitChanges(c)
    \/ \E r \in Runs : EvidenceBound(r)
    \/ WebhookTest \/ Transition
    \/ Quiesce \/ Barrier \/ BarrierTimesOut
    \/ Crash \/ Restart

Spec == Init /\ [][Next]_vars

(* The event loop runs every continuation in the end: of requests and timers, *)
(* of the lanes, of the rebuild, of the services; and a stopped agent is   *)
(* started again.  No order is assumed within these, and nobody owes a     *)
(* request, a quiesce, maintenance or a change of attribution.             *)
Fairness ==
    /\ WF_vars(Ingest) /\ WF_vars(Project) /\ WF_vars(Rebuild)
    /\ WF_vars(Services) /\ WF_vars(Restart)

FairSpec == Spec /\ Fairness

(*------------------------------ properties ------------------------------*)

Evidence == SUBSET Observations

TypeOK ==
    /\ journal \subseteq Observations
    /\ durable \in [Runs -> Evidence] /\ published \in [Runs -> Evidence]
    /\ attributed \subseteq Runs
    /\ change \in [Commits -> {"none", "unreported", "reported"}]
    /\ binding \in [Runs -> {"none", "unreported", "reported"}]
    /\ request \in [Observations -> {"none", "open", "appended", "done", "lost"}]
    /\ \A l \in Lanes : lane[l].at = "idle" => ~lane[l].again
    /\ pending \in [Projections -> Evidence] /\ projected \in [Projections -> Evidence]
    /\ timers \subseteq Runs \cup {"usage"} /\ recent \subseteq Runs
    /\ life.priority \in [Runs -> Evidence] /\ life.history \in [Runs -> Evidence]
    /\ barrier.pass \in 0 .. MaxPasses
    /\ owner \in {"usage", "full"}

(* Work that waits in a queue has a turn coming: a queued observation, a run  *)
(* to project or a commit reconciliation is never left with its lane idle. *)
WaitingWorkHasATurn ==
    /\ \A p \in Projections : pending[p] # {} => lane[p].at # "idle"
    /\ \A q \in Lifecycles : life[q] # NoRows => lane[q].at # "idle"
    /\ life.commits => \E q \in Lifecycles : lane[q].at # "idle"

(* A quiesce that answered drained has carried everything accepted to its    *)
(* end: each observation dispatched since the start went through its live  *)
(* projections, each completed run has its row and was handed to the       *)
(* dispatch.                                                               *)
DrainedIsComplete ==
    preStop =>
        /\ \A o \in Observations : request[o] = "done" =>
              /\ o \in projected[LiveLane(o)]
              /\ o \in Hints => o \in projected["workspace"]
        /\ \A r \in Runs : Completed(EvidenceOf(r)) => durable[r] # {} /\ published[r] # {}

(* After it nothing starts again before a stop: no lane, no timer, no row.    *)
SealedStaysQuiet ==
    preStop => /\ \A l \in Lanes : lane[l].at = "idle"
               /\ timers = {}
               /\ ~queued

(* Every observation a full owner accepted is projected, ...                 *)
AcceptedIsProjected ==
    \A o \in Observations :
        (request[o] = "done" /\ scene.owner = "full") ~>
            (o \in projected[LiveLane(o)] \/ request[o] = "lost")

(* ... and every completed run is handed to the dispatch, unless storage or   *)
(* dispatch fail: after the last crash and the transition to full ownership,*)
(* whatever they interrupted, quiesces included.                           *)
CompletedIsPublished ==
    \A r \in Runs :
        (Completed(EvidenceOf(r)) /\ scene.faults \subseteq {"crash"}) ~>
            (published[r] # {} \/ ~up \/ owner = "usage")

=============================================================================
