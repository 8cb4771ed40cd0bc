# Verification of the Tirion agent

TLA+ models, model-checking runs and machine-checked proofs for the local agent
that turns coding-harness telemetry into runs, commit attributions and webhook
events. The modules follow the code under `src/packages/` and `src/src/`;
`PROJECT.json` maps each definition to the lines it stands for.

## The system

The agent is one Node process with a storage worker thread. Telemetry enters
through OTLP, provider hooks and a span database, is classified into safe
observations, journaled, projected into runs, attributed to commits and published
to the one webhook receiver the user configured. All its concurrency is promises on
one event loop, plus the worker, the receiver, the user's git repository, the
user's editor on the configuration files, timers, and the process's own stops and
crashes.

| Component | State it keeps | Operations | What makes it correct | Status |
|---|---|---|---|---|
| RuntimeWorkScheduler | per lane: running, requested, the latest work, resolvers; a generation | enqueue, run, drain, drainToFixedPoint | one turn of a lane at a time; the last work is never dropped; a drain that answers true found nothing to do | modelled, proved |
| ExternalWebhookDispatch | outbox rows, subjects, configuration (durable); claims, locks, timer, rerun flags (in memory) | queue start/update/terminal, deliver, reserved lane, retry, configure, start, stop | wire order per run; one attempt per run; snapshots climb; versions have one meaning; corrections arrive | lifecycle half modelled |
| AgentStorage | SQLite tables behind a worker | requests in order, due queries, merges | requests are served in posting order; the better evidence is kept | order, due rows, usage merges |
| AgentRuntimeControl, TelemetryIngress | pending projections, lanes, timers, accepted receipts, seals | accept, project, rebuild, transfer of ownership, test, upkeep, quiesceForStop | nothing accepted is lost; a drained answer means that nothing is left | modelled in part, proved in part |
| UsageProjection | token atoms, activities, occurrences, runs, epoch | append, rebuild, targeted passes, retention, reset | nothing counted twice or lost, whatever the order of arrival | modelled in part, one invariant proved |
| RepositoryObservation | cursor, branches, candidates | poll, scan, persist, tell, reload | no commit is passed over; subscribers find what they are told of | modelled in part, proved |
| AgenticWorkEpisode, GitAttribution | episodes, claims, commit states, publications | evidence, candidates, claims, rewrites, repricing, publication | one live claim per query; costs conserved; ledgers in step; claims published | modelled in part, proved in part |
| TelemetrySourceConfiguration | provider files, restore state, relay script | configure, inspect, restore, purge | restore gives back what was there and touches nothing else | modelled in part, proved |
| TelemetryClassification | correlation ledger | classify | correlation is stable across orders of arrival | not modelled |
| WorkspaceChangeTracker | per-query workspace evidence, queues | observe, settle | evidence goes to the query that was active | not modelled |
| PrivacyGuard, CostEstimation, billing, scopes, budgets, diagnostics, clients, distribution, contract, run ledger, legacy ingestion | little or none | pure functions, formatting, I/O | - | not modelled: parsing, tables, I/O and retained code without callers |

How they interact: `index.ts` journals an observation and enqueues work on
scheduler lanes; the lanes project it through `productionUsageService` and call the
dispatch's queue operations, which write the outbox and return before any HTTP; the
dispatch's own loop, its reserved lane and its timer deliver. The repository
observer stores candidates and tells the attribution, which reads the workspace's
evidence and the runs' costs and publishes commits. A stop drains ingress, then
scheduler, then dispatch.

Hard behaviours, listed line by line under `hazards` in `PROJECT.json`: state
read before an await and used after it; two delivery lanes choosing from
snapshots; terminals admitted while updates are delivered; answers that come
after a correction; lost answers, crashes and restarts between two writes;
deadlines that pass while nobody holds a timer; a repository that moves between
two git commands; evidence of one turn told on several surfaces in any order;
a user who edits the file that Tirion is about to restore.

## Modules

| Module | Models |
|---|---|
| `RuntimeWorkScheduler` | `runtimeWorkScheduler.ts`, every method |
| `WebhookOutbox` | event ids, rows, when a row is due, which row goes first, reconciliation of updates: operators only |
| `ExternalWebhookDispatch` | admission and delivery of lifecycle events, with storage answers in any order |
| `OrderedDispatch` | the same actions on a storage worker that answers in posting order |
| `RunEndedLedger` | abstract: what the dispatch promises of the terminals of a run |
| `AgentRuntime` | what follows an observation that was accepted, and the barrier before a stop (`index.ts`) |
| `RepositoryObservation` | polls and scans of one repository beside its user (`repositoryObservation.ts`) |
| `AttributionTypes`, `AgenticWorkEpisode`, `CommitAttributionPolicy`, `CommitAttributionLedger` | episodes, the policy's verdicts, the ledger's merge rules: operators |
| `GitAttribution` | the jobs that reconcile candidates, episodes, costs and claims (`gitAttribution.ts`) |
| `FirstClaim` | abstract: what attribution promises of the claim on a query |
| `ClaudeSource`, `CodexSource`, `CursorSource` | what configure, inspect and restore decide of each tool's file: operators |
| `SourceConfiguration` | requests, user edits, crashes and restarts on one tool's file (`sourceConfiguration.ts`) |
| `ObservationMerge` | what the worker keeps when it is told again (`worker.ts`): operators |
| `UsagePipeline` | how atoms, activities and occurrences become runs (`shadowUsage.ts`): operators |
| `ProductionUsage` | journal, passes, retention, reset and crash over that pipeline |
| `MC...` | instances for TLC |
| `...Proofs` | theorems, one module per component |

### RuntimeWorkScheduler

`running`, `requested`, `work` and `waiting` are the fields of
`RuntimeWorkState`; a drainer waits for the set of lanes whose resolvers it has
joined. `stale` stands for the generation comparison: it becomes true when
anything is enqueued during the round. `inFlight` and `owed` are history: the
works that have not settled and the latest work that has not been started.
`Settle` is a work function's end and what follows it up to the next await:
another turn, or the `finally` block with its resolvers.

### WebhookOutbox and ExternalWebhookDispatch

One action is one stretch of JavaScript between two awaits together with the
storage operation posted in it. The operation takes effect at that step; its
result is used by the caller's *next* action, when it may be out of date. A
caller of `queueEvent`/`queueRunEndedEvent` is an *admitter* and goes through

    idle -> lifecycle -> terminal -> stateEntry -> existing -> upsert -> subject -> kick
                      -> update   -> reconcile  -> existing -> upsert -> retire  -> kick

skipping `lifecycle` when it bypasses an update in flight. A *lane* is
`processDueEntries` (`Main`) or `processDueLifecycleAnchor` (`Anchor`):

    fetch -> fetched -> locked -> [update -> retire | replace] -> gate -> attempted
          -> post -> received -> [record -> write] -> release

`lifecycle`, `updates` and `terminals` are the three promise chains per run
(`withRunEndedSubjectLock`, `withRunUpdateQueueLock`,
`withRunEndedTerminalQueueLock`), kept as the queues of those in them.
`inFlightDeliveryKeys`, `inFlightLifecycleSubjects` and
`inFlightRunEndedSubjectDeliveryTypes` are set and cleared together with a
lane's claim and are read off it. `rerun` packs `deliveryRerunRequested`,
`deliveryRerunForce`, `currentForce` and the more-rows-than-taken test. `timer`
says that `retryTimer` is armed, `byTimer` that the pass is awaited by code that
will rearm it. `received` is the receiver's memory.

What is abstracted, and why the properties still see what they must:

- An event's content is one number. `mergeRunUpdatedWebhookEvents`,
  `preferredUnpublishedRunUpdate` and `monotonicRunEndedRevision` are the maximum
  of these numbers. A correction may move a token count down; in the model it
  still *says more*: the number counts the corrections a terminal carries. How
  the merges treat each field is not modelled here.
- Times are Booleans: a row `waits` or not, a terminal's deadline (`grace`) is
  ahead or not; clock actions end them. The timer's exact time is not kept, so
  the timer may fire early, which finds nothing due and rearms.
- The correction window after a delivered terminal and the settling deadline may
  or may not lie ahead: both are tried.
- Rows of different runs have no order: any may go first. Rows of one run are
  ordered as in `lifecycleSortKey`.
- A start is queued in one step, the subject read of `deliverUnlocked` is one
  step with the write that follows, and so are the read and the write that
  supersede one update: nobody else writes those rows in between, or the stale
  outcome is reached another way.
- The outbox's own mutation queue (`SqliteWebhookOutbox.enqueue`) delays a write
  behind other writes; writes take effect when called here.
- Reads that nobody can come between are one step: at the delivery boundary the
  due test, the published high-water and the current rows are several awaited reads
  (`externalWebhookDispatch.ts:3728-3782`), but whoever writes those rows holds the
  run's lock for updates or finds the row claimed. In `queueRunEndedEventUnlocked` the
  caller keeps the `deliveredAt` it read (2223); where the model looks at the subject as
  of a later step, nobody but the holder of the terminal lock writes it meanwhile.
- Not modelled: storage operations that fail, privacy rejections, a change of a
  run's repository, retention and reset, commit events, live subjects, building
  events out of runs, `drainForQuiesce` as a step of its own (it is part of the
  barrier of `AgentRuntime`). Of an admitted update or terminal: the early return for a
  settling update that was already delivered with another payload (2237-2239; the model
  has one payload per level, so one settling slot), the block that lets a late
  `filesChanged` through after a read-only ending (2243-2252), and at the boundary
  the event queued anew in place of a replaced one (3762-3767), whose row is there
  already with the same content.

`ExternalWebhookDispatch` lets callers' continuations run in any order.
`OrderedDispatch` restricts that to what one first-in first-out worker allows
(`calls` is its queue), so a safety property that holds in the former holds in
the latter (`OrderedImplementsDispatch`). Where a terminal may bypass an
update in flight, `NothingAfterTerminal` holds only on the worker: without it a caller
may be overtaken many times between two of its reads.

`RunEndedLedger` is the promise about terminals: per run a sequence of versions,
each with a meaning. `Correct` opens the next version when the last is delivered,
`Revise` raises the meaning of an undelivered one, `Publish` delivers it. The
mapping reads the rows `Ended(r, 1..)` as that sequence; `KeepsLedger` checks that
every step of the dispatch is a ledger step or leaves it alone.

### AgentRuntime

An observation is sent to the ingress, appended, and dispatched to the live
projections (`pending`, `projected`), to the timers and lanes of the usage
projections, and through the rebuild and the lifecycle projections to the outbox.
A step goes from one await to the next that somebody else can tell from the last. A
lane here is the scheduler's, reduced to what `RuntimeWorkScheduler` shows of it:
work asked for during a turn gives another turn with the latest work. Evidence of a
run is the set of its observations, and a row of the run ledger or an event handed
to the dispatch is such a set. `barrier` is `quiesceForStop` with its passes, `seal`
the ingress's; `preStop` is the state after a quiesce has answered drained. A
`scene` fixes what the surroundings may do in one behaviour; the union of all
scenes at once cannot be explored, and the proofs do not restrict it. `Urgent` are
the observations for which `hasImmediateLiveTerminalEvidence` answers true, which take
the terminal lane; a run may also be closed by one that does not (`Closing`). A
transition goes on in the steps of its own rebuild: it reads, projects and upserts
(`index.ts:527`) while requests and other rebuilds come between.

Not modelled: the other HTTP routes, diagnostics, leases, bootstrap, decoding of
payloads; and the refresh of the watched repositories (`index.ts:1899-1912`,
`scheduleRepositoryObservationRefresh`), during which the agent has no attribution, so
that workspace evidence drained in that moment is dropped (`index.ts:2927`, a hazard
listed without a property).

### RepositoryObservation

The repository is the environment: its user commits, amends, switches, detaches and
deletes branches between any two git commands of a scan. The scan goes from one
answer of git, the store or a subscriber to the next; commits never change, so a
question about the commit graph alone belongs to the step that asks it. `epoch` is
the observer's copy, which moves a step before `disk`, the stored one. A start reads
the head, then its branch, then the branches, and stores an epoch unless there is one
(`Begin`, `BeginEpoch`, `Watch`); the last read and the write are one step, as nobody
else reads the epoch before.

Not modelled: remotes, worktrees, several repositories, git commands that fail (the
code reads a failure as an answer, see `hazards`).

### GitAttribution

Jobs run one at a time: a job reads candidates and episodes once (`job.candidates`,
`job.episodes`), then writes the ledger of claims, the episodes and the candidates,
one transaction per step, while the scanner, the tracker and the run ledger go on
(at most `MaxOverlap` steps of theirs while a job is under way when TLC explores
it; the proofs have no such limit). `CommitAttributionLedger` has the ledger's
merge rules and the assertion it makes of every row it writes (`Writable`),
`CommitAttributionPolicy` the verdict on evidence, `AgenticWorkEpisode` how
episodes are assembled and what a claim makes of them.

What a job changes it *tells*, and that is not yet a publication: the runtime answers
each change by asking the lane `webhook_commit_attribution_projection` to compare that
commit with what was queued of it (`index.ts:1874`), and the lane keeps only the latest
work beside the one whose turn it is. `news` is that lane: of three changes told in one
go the first and the last are compared (`news.replaced` remembers the others). A change
that names no commit (`observeRunCompleted`), a restart, and whatever completes or binds
a run (`index.ts:3052-3075`) have all commits compared (`ReconcileCommitEvents`), which
also queues anew a commit that lost its claim. A comparison is one step although it
awaits storage: before it is sent a commit event is read once more
(`externalWebhookDispatch.ts:3712-3717`), so what was read too early does not go out.
A crash empties the lane. `published` is what a commit was last queued with.

Not modelled: the quarantine of legacy rows and a change of epoch, reset and
retention, several repositories and refs, expiry of evidence,
reason codes, summaries and export. A repricing below what is allocated ends the
job by the ledger's assertion, as in the code; that `start()` then fails each time
is a hazard listed without a property.

### SourceConfiguration

A behaviour is about one tool; tools share only the file their baselines are kept
in. A request computes its writes first (`todo`) and does them one by one, and only
a crash comes between: the code does them in one turn of the event loop.
`prior`, `own` and `wrote` are history: the file when its baseline was recorded, the
user's latest value of each key, the file as Tirion last wrote it. Managed keys are
grouped by how the code treats them, and the three Codex exporters are folded to
two. Not modelled: restore profiles of earlier versions of Claude Code, the port,
disabled authentication, a file that cannot be parsed, the hook readiness probe.

### ObservationMerge, UsagePipeline and ProductionUsage

The operators of `UsagePipeline` take evidence as sets and give runs with their
breakdown. Token dimensions are folded to two: `base`, always reported, and
`cache`, reported on some surfaces only. `ProductionUsage` is the machine around
them: a *feed* is what one provider will tell of a few turns, with the tokens each
turn really used; its observations arrive in any order, from their time on; passes
read the journal, atoms, activities and occurrences in the awaited steps of the
code and upsert runs, while retention, a reset or a crash cut in between. A unit of
time is far longer than a pass, so time moves when passes rest. Feeds are sets and
a batch tells of a turn once: the worker merges the occurrences of one batch one
after another in one transaction.

A sweep of product retention (`ReadRetained`, `ReplaceRetained`) reads the rows and
replaces them by those it keeps in a second call, whatever their age and whatever passes
are under way, so a row upserted in between is lost. The journal loses what is older than
the look-back and what exceeds its number of rows (`Prune`, `Overflow`), and a targeted
pass widens its family by one awaited read of activities at a time (`ExpandFamily`).

Not modelled: more token dimensions, context footprints, models, warnings,
durations, rates. A terminal session that the code remembers may or may not ask
again. A targeted pass reads the epoch and then the occurrences (`StartScoped`); the
model reads both at once, since a reset or a retention that came between the two would
find the same pass a moment later with both read before it.

## Runs

Passing:

| Run | Instance | Properties | Shows |
|---|---|---|---|
| `scheduler` | 2 lanes, 2 works, 2 drainers, 3 rounds; fairness | `OneRunPerLane`, `LastWorkIsNeverDropped`, `NextTurnRunsTheLatest`, `NoStrandedDrain`, `StableMeansQuiescent`, `OwedWorkStarts`, `DrainAnswersOnceQuiet` | requests that arrive during a turn, drains that overlap, answers of `drainToFixedPoint` |
| `terminals` | 1 run, 2 callers, 2 meanings, 2 versions; refusals, forced retries; storage in any order | `SubjectMatchesRow`, `VersionsClimb`, `KeepsLedger` | corrections before, during and after delivery |
| `recovery` | as above, 1 caller; refusals, stops; fairness | `CorrectionArrives`, `StopComes` | no accepted correction is forgotten, no stop hangs |
| `updates` | 1 run from its start, 1 caller, 2 levels, the upper settling; switches, final errors, crashes; storage in any order | `UpdatesClimb`, `OneAttemptPerRun` | the receiver's snapshots never regress, the two lanes never send for one run at once |
| `boundary` | 1 run, 2 levels, 1 terminal; switches, final errors; storage in order | `NothingAfterTerminal` | updates and terminal share locks, lanes and the delivery boundary |
| `runtime` | 2 observations of a run, one of them closing, 1 commit, 2 passes of the barrier, 7 scenes; fairness | `WaitingWorkHasATurn`, `DrainedIsComplete`, `SealedStaysQuiet`, `AcceptedIsProjected`, `CompletedIsPublished` | quiesce, crash, transfer of ownership and failures at any point of the projections |
| `observation` | 4 commits, 2 branches, 3 moves of any kind, 1 failure or crash; fairness | `TypeOK`, `StoredCursorIsCovered`, `ToldIsStored`, `RestingHeadIsCandidate` | a repository that moves between two git commands |
| `attribution` | 1 query, 2 commits, one the other amended, 2 writes of which one is rejected later, prices that rise and fall, 1 crash; fairness | `StoredIsWritable`, `StatusAgrees`, `ReportableIsClaimed`, `ClaimsArePublished`, `ClaimsSettle`, `RejectedIsRevoked` | claims, native verdicts, rewrites and crashes between the writes of a job, changes told faster than the dispatcher compares |
| `sources` | 3 tools, 2 tokens, 4 initial values, 3 requests, 1 edit, 1 crash, 1 rotation | `AuthorityIsRemembered`, `HooksFindTheirRelay`, `RestoreGivesBack`, `RestoreTouchesOnlyOurs` | every order of configure, restore, edit, crash and restart |
| `usage` | 3 providers' feeds of 4 batches, 1 reset, crash or retention sweep, 3 journal rows, look-back 2, retention 3, time to 4 | `NothingIsCountedTwice`, `BreakdownConserves`, `BestEndingIsKept`, `ClearedStaysCleared`, `EvidenceIsCounted` | evidence in any order, passes interrupted at any await; once evidence is gathered every rebuild leaves the run whole, and only a sweep of retention may lose a row that was stored meanwhile, until the next rebuild |

Violations, each a disagreement of code and documentation (`findings`):

| Run | Property | Disagreement |
|---|---|---|
| `usage_window` | `HistoryIsPreserved` | once a run's earlier observations fall out of the look-back, the periodic rebuild replaces its complete row by a partial one, against `constructs.md`'s "must preserve ledger history" |
| `replacement` | `ReplacementSerialized` | a terminal that bypasses an update in flight is still on its way to its row when the update's delivery ends and the older terminal is claimed and posted (`externalWebhookDispatch.ts:2012`), against the comment above it, "terminal delivery and terminal-to-terminal replacement remain serialized" |

Each property of a passing run has a mutant, a plausible slip in one definition
(`Slip...` in the modules), under which TLC finds it violated.

Known disagreements that no run keeps, met while modelling and found with the
same modules under other constants:

- of three changes told in one go the commit of the middle one is not compared with what
  was queued of it until the next comparison of all commits (`index.ts:1874`), although
  the runtime's test "reconciles commit webhooks when verified attribution changes after
  durable writes" (`index.test.ts:532`) has each change reconciled: `ClaimsArePublished`
  excepts those commits (`news.replaced`);
- after a lost answer a correction reuses an event id the receiver has already
  seen, and after a crash between the two writes of a delivered terminal
  (`externalWebhookDispatch.ts:3869`) an update may follow it;
- when a reconfiguration drops tool hooks and the agent dies between the record and
  the file (`sourceConfiguration.ts:439`, `441`), the hook that stays in the file is
  no longer told of by the record;
- after a purge without a restore, a file is claimed again with Tirion's values as
  the baseline; a restore interrupted by a crash may then overwrite a user's edit (5
  requests, 2 edits). `RestoreTouchesOnlyOurs` excepts purged baselines for it;
- a transfer of ownership that goes on while a quiesce seals the agent starts its
  services after the seal; a change of attribution they find queues a row, and the
  sealed agent is quiet no more. `SealHolds` names this exception (`LateOwner`);
- a repricing that finds one query dearer and the next cheaper is refused at the second
  (`gitAttribution.ts:593`) after it has stored the first; the job ends there, and the
  commit of the first is not published again with its new cost until something else
  touches it. It takes two queries, the run `attribution` has one; the proof of
  `ClaimsArePublished` found it and names it (`RefusedFirst`);
- after a crash between a native rejection and the writes that follow it a candidate may
  stay reportable without a claim (`commitAttributionLedger.ts:131`): `ReportableIsClaimed`
  speaks of behaviours before the first crash;
- a rebuild that was between its reads and its upsert when the history was cleared puts
  cleared rows back (`index.ts:993`): `ClearedStaysCleared` is about passes that began
  after the clear.

### Bounds and why they are enough

*Dispatch.* `MaxMeaning` 2 with `MaxVersion` 2 has a correction before and after
each delivery; a third adds no new relation between a subject and the row it points
at. `MaxLevel` 2 has one update superseding another while a third party delivers it.
Two callers are what it takes for one to hold a lock the other waits for and for
both to race a lane; the lanes themselves are two in the code. Each run enables only
the faults its question is about, as all together exceed what can be explored; the
runs other than `terminals` use one caller beside the two lanes, which share every
lock with it. `forced`, `stop` and `crash` are not bounded: they are steps between
a finite number of states. A crash under the worker's order is not explored.

*Runtime.* One observation that closes the run and one that does not give both
kinds of projection; two passes of the barrier are one that finds work and one that
may not. *Observation.* Four commits give a fork and a chain of three, so a scan has
a fast-forward, a rewrite and a branch it has not seen. *Attribution.* Two commits
claim one query; `MaxObserved` 2 lets the amended commit be observed after the first.
Nobody else steps while a job runs (`MaxOverlap` 0) and the next job begins when the
lane has taken its turns (`KeepsUp`); both keep the run small, and the theorems hold for
any overlap and for a dispatcher that falls behind. *Sources.* Three requests are
configure, reconfigure and restore; with an edit and a crash in every place.
*Usage.* Each feed has a late surface, a revision, an end before its last evidence
or a subagent told of after it ended; the look-back is shorter than the time bound,
so that evidence falls out of it, and retention shorter than that, so that rows do.

### Fairness

`scheduler`: work functions settle and resolved promises continue. `recovery`:
continuations run (weak fairness of every caller's and lane's step), timers fire,
deadlines pass, a stopped agent is started again, and a receiver asked again and
again takes an event and answers at last (strong fairness of `Receive` and
`Answered`). Nothing is assumed of admissions, of stops, of forced retries or of
switches; `CorrectionArrives` supposes that the agent is some day left running.
`runtime`: the event loop runs every continuation of requests, timers, lanes,
rebuild and services in the end, in no particular order, and a stopped agent is
started again; nobody owes a request, a quiesce or maintenance. `observation`: the
timer polls for ever and git and the store answer. `attribution`: a job that runs goes
on, and the retry timer's reconciliation gets its turn among the jobs that queue for it
(strong fairness, since other jobs come between); the dispatcher's lane takes its turns
and a restarted agent makes its comparison (weak fairness of `Turn` and of the restart's
`ReconcileCommitEvents`), as the scheduler's lanes do; no other comparison is owed.

## Proofs

Every theorem is about all values of the constants its module's `ASSUME` allows; the
invariant behind it was checked by TLC on an instance before it was proved. Liveness
is out of the prover's reach (`ENABLED`, fairness), and so is what a recursive or
folded computation yields over arbitrary data; those stay with the runs.

**`RuntimeWorkSchedulerProofs`**, for every set of lanes, works and drainers and every
round limit. `OneRunPerLane`, `LastWorkIsNeverDropped`, `NextTurnRunsTheLatest` and
`NoStrandedDrain` are not inductive one by one: that an ending turn may leave the lane
idle rests on there being no other call in flight, and that it owes nothing rests on
`requested` being set for every running lane that owes. `IInv` joins them with the
types; `EnqueuePreserves`, `SettlePreserves` and `DrainerPreserves` show it kept action
by action, and the theorems read the properties off it. `StableIsQuiescent` is an
action property: the step in which a drainer turns `stable` is a `CheckFixedPoint` that
saw every lane idle, and an idle lane owes nothing by the invariant; that nothing was
enqueued since the round began is the generation test, and a drain without it, the
mutant, answers true after work that came and ended during its round.

**`ExternalWebhookDispatchProofs`**, for every set of runs and callers, every choice of
faults and every bound, with storage answers in any order, crashes included.

- `AttemptsAreSerial`. `OneAttemptPerRun` speaks of lanes that wait for an answer; a
  lane may reach that state long after it chose its row, so `ClaimInv` speaks of claims:
  a lane holds a claim exactly in the `Claimed` states (`ClaimHeld`), and two claims are
  of different runs (`ClaimsApart`). Taking a claim keeps that because `deliverClaimed`
  tests and takes in one stretch without an await.
- `UpdatesAlwaysClimb`. What `UpdatesClimb` says of a posted update was decided at the
  delivery boundary, from rows that others supersede meanwhile and about a receiver that
  may have taken an event whose row never learnt of it. `ClimbInv` therefore relates the
  receiver to the outbox through `HighWater`: every level of a run that was ever queued
  is at most one that is active or published, and what the receiver took was queued
  (`KnownIsQueued`). `HighWater` survives a supersession because whoever is about to
  supersede levels of a run has a higher one standing (`Covered`) and holds the run's
  lock for updates until it is done (`Holds`), so that nobody else of that run can
  supersede the higher one first (`Keeps`). At the boundary the reconciled level is the
  highest active one; if it is the claimed one and no published level reaches it, it
  bounds all the receiver took (`BoundaryIsTop`). A claimed level that is itself to be
  superseded may pass through `retire`, hence the disjunction in `LaneClimbs`. Callers and
  the other lane are framed by `CallerFrame` and `LaneFrame`; the steps then need one
  lemma each. `HighestIs` is the only fact that needs well-foundedness
  (`WellFoundedInduction`). The proof also showed that the invariant needs callers to be
  no lanes, which `DispatchAssumption` now says.

**`WebhookTerminalProofs`**, for every set of runs and callers and every bound, in
behaviours where terminals *take turns* with updates: none is submitted while its run
delivers an update (`Orderly`). The code does not enforce that: such a terminal goes
past the lifecycle lock, and what then happens is the run `replacement`. The theorems
here are about behaviours without the bypass; a dispatch that submits no update has no
other (`TerminalsAloneAreSafe`, the instance of `terminals`).

- `TurnsAreTaken`, with every fault, crashes included: whoever replaces or delivers a
  terminal of a run, and whoever has yet to write its subject, holds the run's lifecycle
  lock (`TurnInv`). It is what the bypass breaks, and what the theorems below stand on.
- `SubjectAlwaysMatches`, while nothing crashes, from `LedgerInv` on top of `TurnInv`: per
  run there is a `t` such that the versions up to `t` are queued, all but the last are
  delivered, their meanings climb, and the subject points at `t`, unless a caller is about
  to write it (`StandsAt`). What a caller or lane holding the lock has read of the subject
  and of the row is still so (`CallerReads`, `LaneReads`), which is what makes the version
  and the revision chosen from stale reads right (`Corrects`, `NextIsOpen`,
  `UpsertWrites`). `MaxMeaning <= MaxVersion` keeps `MaxVersion`, a bound of the model and
  not of the code, out of the way: every version says more than the one before.
- `DispatchKeepsLedger`, the refinement of `RunEndedLedger`, from `LedgerInv`: an upsert of
  a terminal is `Revise` or `Correct`, an answer is `Publish`, and every other step leaves
  the mapped ledger as it was (`CallerRows`, `LaneRows`, `LedgerStays`).
- `VersionsAlwaysClimb` and `NothingFollowsATerminal`, while no answer is lost and nothing
  crashes, from `TakenInv`: what the receiver took of a terminal is what its row says, and
  that row is delivered or its lane is about to say so; past the gate no start or update
  of a run whose terminal was taken is under way. A lost answer breaks both (see the
  disagreements).
- The worker's queue only removes behaviours (`OrderedImplementsDispatch`), so what is
  proved of answers in any order holds on the storage worker too
  (`OrderedAttemptsAreSerial`, `OrderedUpdatesClimb`, `OrderedNothingFollows`).

**`RepositoryObservationProofs`**, for every repository, history of moves and number of
failures. `CursorIsAlwaysCovered` rests on `CursorInv`: the epoch in memory moves one
step before the one on disk, so coverage is stated of the stored candidates together
with those the scan is about to store. `ToldIsAlwaysStored` rests on `ToldInv`.
`CandidatesKeepTheirNumbers` is `TypeOK`, whose substance is that sequence numbers of
stored candidates are unique and below the next one to be given out. The numbers are
given from memory, before the transaction that may fail; `NumberInv` therefore places
the stored ones below the next number on disk (`StoredNumbers`) and the found ones
between that and the next in memory (`FoundNumbers`). That one scan gives each commit a
number of its own is a fact about `Ancestry`: two commits of a history have different
numbers of predecessors in any finite set (`PlacesDiffer`), which needs that parents
lead to no cycle, `HistoryAssumption`.

**`AgentRuntimeProofs`**, for every set of observations, runs and commits and every
scene. `WorkNeverStalls`: the property with a table of what each lane may be doing and
the shapes of its queues (`WaitInv`). `SealHolds`: after a quiesce that has succeeded
nothing runs and nothing is left, in every behaviour but those of `LateOwner`, an agent
that becomes the full owner after the seal and whose attribution then reports a change.
`QuietInv` says what the seal stands on: which controls are closed while a quiesce
lasts, that a generation moves with everything that could undo a drain
(`MovesAreSeen`), and that services which start after the seal find no work.
`DrainCompletes` is `DrainedIsComplete` in every behaviour in which the agent is the full
owner and neither the ledger nor the dispatch fails (`Undisturbed`; with such failures
the code gives a run up and answers drained all the same). `DrainInv` follows each run
to be handed over: it has its row, or waits in exactly one place, the dispatch of a
closing observation, a timer, its lane, the rebuild or the lifecycle; and each accepted
observation is queued or projected. At `preStop` `QuietInv` says every place is empty.

**`GitAttributionProofs`**, for every query, commit, evidence, price and crash.
`LedgerStaysWritable` and `StatusesAlwaysAgree` rest on `Ledger`: every stored
attribution is `Sound`, and a claim that a job has read still `Stand`s or has moved to
another commit meanwhile. `ClaimsAlwaysSettle` is the refinement of `FirstClaim`: each
step leaves every attribution where it was, or moves it as the abstract claim may. The
oldest candidate exists by well-foundedness of observation times. `ReportableStaysClaimed`
(before any crash) follows each change of a claim through the job that made it to the
episodes it has yet to write: a reportable commit is `Backed` by a claim, or some job is
about to say otherwise (`ReportInv`, `EpisodeInv`). `ClaimsStayPublished` follows each
cost that is not published to the job that has yet to tell of it, the lane that has yet
to compare it, or the change that replaced it there (`PublishInv`, `Owed`). It holds while no
job whose repricing is refused had repriced another query before (`RefusedFirst`); without
that it is false, as said among the disagreements. `RisingPricesArePublished` shows the
condition met where prices do not fall (`~MayFall`).

**`SourceConfigurationProofs`**, for every token, initial file and number of requests,
edits, crashes and restarts. One invariant, `SourceInv`: the baseline undoes what is in
the file (`Remembered`), and each write still to do of a request under way leads there
(`Underway`). `AuthorityAlwaysRemembered`, `HooksAlwaysFindTheirRelay`,
`RestoreAlwaysGivesBack`, `RestoreAlwaysTouchesOnlyOurs` and `BaselineAlwaysReadable`
follow.

**`ProductionUsageProofs`**, for every feed of well-formed evidence.
`BestEndingIsAlwaysKept`: endings are totally preordered by what the merge prefers, the
merge keeps the greater, and a stored ending is forgotten only once the epoch has moved.
`BreakdownAlwaysConserves` goes through the whole of `UsagePipeline`, from the bottom up:
reconciling revisions, joining traces with logs and enriching a run span leave finitely
many atoms that add up (`SelectedIs`, `AllocatableIs`); copies of an activity are joined
to classes that share no copy, so merged activities keep names of their own
(`ActivitiesAre`); groups take their share within the totals, each in a row of its own
place, and the rest completes them (`BreakdownIsBalanced`); a child's rows move below the
activity that started it and what the child left unallocated into that activity's row,
which keeps places apart because no two links are of one activity (`MergedRowsAre`,
`AggregatedRunsAre`); and retention, resets and passes only store runs made this way
(`BreakdownInv`). Sums and folds are recursive functions over subsets: that each has
a value, and what it is, is proved from the well-foundedness of strict inclusion on
finite sets (`SmallerFirst`), without the library's induction theorems.
`ClearedAlwaysStaysCleared` is about feeds whose endings are explicit
(`EndingsAreExplicit`): an ending that is told has one of the four explicit kinds of
evidence, and `telemetryClassification.ts` writes no other; and it is no earlier than its
start, else the projection would not take it for one. A pass holds from its epoch on only
what is of it: the ending of each turn it has usage of or, where the turn has none, the
usage itself (`TimelyEvidence`, `PassIsTimely`), though it reads occurrences and atoms in
two steps; no step of the projection makes an ending earlier (`CompletionIsLate`), and a
linked run ends when the last of its children does (`AggregatedRunsAreLate`). Without the
condition it is false of the pipeline: an `inactivity` completion after the epoch lets in
atoms that ended before it, and the run takes its end from them.
From `UsageAssumption`, which the feeds in the code satisfy: no ending is the marker for
"none", a batch is finite, names a query, an atom and an activity once, tokens and
identities are numbers, and no activity is of the kind of the unallocated row.

### Only model-checked

- All liveness: `OwedWorkStarts`, `DrainAnswersOnceQuiet`, `CorrectionArrives`,
  `StopComes`, `AcceptedIsProjected`, `CompletedIsPublished`, `RestingHeadIsCandidate`,
  `RejectedIsRevoked`.
- Terminals of a run that also submits updates: what the runs check there, they check
  only on their instance (`NothingAfterTerminal` in `boundary`, with its bypass).
- What the conditions of theorems leave out: `DrainedIsComplete` when the ledger or the
  dispatch fails or ownership changes, `ClaimsArePublished` after a refused repricing,
  `ClearedStaysCleared` when an ending is by quiet.
- `NothingIsCountedTwice` and `EvidenceIsCounted`: they compare the totals with what the
  feed of the instance truly was, which no condition on arbitrary feeds states.

### Not modelled

Commit events and their versions, live subjects and the exact row comparator of the
dispatch; parsers and formats of telemetry, prices, the privacy guard and the
configuration formats, which are data; the workspace change tracker; the clients, the
command line, packaging and the legacy ingestion. `PROJECT.json` lists each with its
reason.

### Next

Terminals of runs that also submit updates, with the bypass as an exception of its own.
