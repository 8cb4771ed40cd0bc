----------------------- MODULE ExternalWebhookDispatch -----------------------
(***************************************************************************)
(* Admission and delivery of the run lifecycle events of one agent:        *)
(* callers that queue start, update and terminal events, the ordinary      *)
(* delivery loop, the reserved lane beside it, the per-run locks they      *)
(* share, the retry timer, the receiver, and stop, crash and restart.      *)
(*                                                                         *)
(* One action is one stretch of JavaScript between two awaits, with the    *)
(* storage operation it posts: the storage worker serves operations in the *)
(* order they are posted, so the operation takes effect there and its      *)
(* result is used, possibly stale, by the caller's next action.  Sets of   *)
(* in-flight keys and subjects and the delivery-type map are the claims of *)
(* the two lanes and are derived from them.                                *)
(***************************************************************************)
EXTENDS WebhookOutbox, Sequences

CONSTANTS Admitters,  \* concurrent callers of queueEvent and queueRunEndedEvent
          Started,    \* runs whose start an earlier process delivered
          Faults,     \* what the environment may do, out of FaultKinds
          NoKey       \* no claimed row

FaultKinds == {"refused",  \* 408, 425, 429, 5xx or a network error
               "lost",     \* the receiver took the event, its answer is lost
               "rejected", \* any other status
               "forced",   \* retryNow
               "stop",     \* stop and start in one process
               "crash",    \* the process dies and the agent starts again
               "toggle"}   \* url and runEndedEnabled change

ASSUME DispatchAssumption ==
    /\ Faults \subseteq FaultKinds
    /\ Started \subseteq Runs
    /\ NoKey \notin EventIds \cup Runs
    /\ Admitters \cap {"main", "anchor"} = {}   \* callers are not lanes

Main   == "main"    \* the loop guarded by deliveryRunning
Anchor == "anchor"  \* the lane guarded by lifecycleBypassRunning
Lanes  == {Main, Anchor}

VARIABLES
    outbox,      \* durable: webhook_outbox
    subject,     \* durable: webhook_delivery_state, run.ended:<run>
    config,      \* durable: url set, run events enabled
    grace,       \* the terminal deadline of a run is still ahead
    received,    \* the receiver: the events it has taken, with their meaning
    up,          \* running and not stopping
    timer,       \* retryTimer is armed
    rerun,       \* deliveryRerunRequested, deliveryRerunForce, currentForce, more
    lane,        \* where each lane is
    claim,       \* the row each lane has claimed
    entry,       \* the copy of that row it works on
    seen,        \* the subject it has read and is about to write back
    batch,       \* the rows each lane still means to deliver
    retiring,    \* the rows each lane or admission has yet to supersede
    byTimer,     \* the lane's pass is awaited by a caller that rearms the timer
    lifecycle, updates, terminals,  \* per-run lock queues
    admission    \* per caller: where it is and what it has read

durable  == <<outbox, subject, config, grace>>
laneVars == <<lane, claim, entry, seen, batch, byTimer, rerun>>
lockVars == <<lifecycle, updates, terminals>>

vars == <<durable, received, up, timer, laneVars, retiring, lockVars, admission>>

LaneStates == {"idle", "fetch", "fetched", "next", "locked", "update", "retire",
               "replace", "gate", "attempted", "post", "received", "record",
               "write", "release"}

Posting == {"post", "received"}  \* the request is on its way or answered

AdmissionStates == {"idle", "lifecycle", "update", "reconcile", "terminal",
                    "stateEntry", "existing", "upsert", "subject", "retire", "kick"}

Subjects == [meaning : 0..MaxMeaning, version : 0..MaxVersion,
             deliveredAt : BOOLEAN]

NoSubject == [meaning |-> 0, version |-> 0, deliveredAt |-> FALSE]

(* A caller at rest.  n is its event's level or meaning, k the event id it  *)
(* settles on (NoKey: nothing queued), url what it read of config.url, and *)
(* read, row what it has read of the subject and of a row.                 *)
AtRest == [pc |-> "idle", type |-> "run.start", run |-> NoKey, n |-> 0,
           k |-> NoKey, url |-> FALSE, read |-> NoSubject, row |-> NoRow]

Admissions == [pc : AdmissionStates, type : {"run.start", "run.update", "run.ended"},
               run : Runs \cup {NoKey}, n : 0..(MaxLevel + MaxMeaning),
               k : EventIds \cup {NoKey}, url : BOOLEAN, read : Subjects, row : Rows]

TypeOK ==
    /\ outbox \in [EventIds -> Rows]
    /\ subject \in [Runs -> Subjects]
    /\ config \in [url : BOOLEAN, enabled : BOOLEAN]
    /\ grace \in [Runs -> BOOLEAN]
    /\ received \subseteq (EventIds \X (0..MaxMeaning))
    /\ up \in BOOLEAN
    /\ timer \in BOOLEAN
    /\ rerun \in [asked : BOOLEAN, force : BOOLEAN, forced : BOOLEAN, more : BOOLEAN]
    /\ lane \in [Lanes -> LaneStates]
    /\ claim \in [Lanes -> EventIds \cup {NoKey}]
    /\ entry \in [Lanes -> Rows]
    /\ seen \in [Lanes -> Subjects]
    /\ batch \in [Lanes -> SUBSET (EventIds \X Rows)]
    /\ retiring \in [Lanes \cup Admitters -> SUBSET EventIds]
    /\ byTimer \in [Lanes -> BOOLEAN]
    /\ lifecycle \in [Runs -> Seq(Lanes \cup Admitters)]
    /\ updates \in [Runs -> Seq(Lanes \cup Admitters)]
    /\ terminals \in [Runs -> Seq(Lanes \cup Admitters)]
    /\ admission \in [Admitters -> Admissions]

NoRerun == [asked |-> FALSE, force |-> FALSE, forced |-> FALSE, more |-> FALSE]

Init ==
    /\ outbox = [k \in EventIds |->
                   IF k \in {Start(r) : r \in Started}
                   THEN [NoRow EXCEPT !.state = "delivered", !.deliveredAt = TRUE]
                   ELSE NoRow]
    /\ subject = [r \in Runs |-> NoSubject]
    /\ config = [url |-> "toggle" \notin Faults, enabled |-> TRUE]
    /\ grace = [r \in Runs |-> TRUE]
    /\ received = {}
    /\ up = FALSE
    /\ timer = FALSE
    /\ rerun = NoRerun
    /\ lane = [l \in Lanes |-> "idle"]
    /\ claim = [l \in Lanes |-> NoKey]
    /\ entry = [l \in Lanes |-> NoRow]
    /\ seen = [l \in Lanes |-> NoSubject]
    /\ batch = [l \in Lanes |-> {}]
    /\ retiring = [p \in Lanes \cup Admitters |-> {}]
    /\ byTimer = [l \in Lanes |-> FALSE]
    /\ lifecycle = [r \in Runs |-> <<>>]
    /\ updates = [r \in Runs |-> <<>>]
    /\ terminals = [r \in Runs |-> <<>>]
    /\ admission = [a \in Admitters |-> AtRest]

-----------------------------------------------------------------------------
(* Locks: a promise chain per run, in the order it was joined.  Whoever     *)
(* leaves is the holder, or has not joined.                                *)
Holds(queue, p) == queue # <<>> /\ Head(queue) = p

Join(queues, r, p) == [queues EXCEPT ![r] = Append(@, p)]

SlipLeave(queues, p) == queues
Leave(queues, p) ==
    [r \in Runs |-> IF Holds(queues[r], p) THEN Tail(queues[r]) ELSE queues[r]]

LeaveAll(p) ==
    /\ lifecycle' = Leave(lifecycle, p)
    /\ updates' = Leave(updates, p)
    /\ terminals' = Leave(terminals, p)

(* inFlightDeliveryKeys, inFlightLifecycleSubjects and                      *)
(* inFlightRunEndedSubjectDeliveryTypes, as the claims of the lanes.       *)
InFlight(k) == \E l \in Lanes : claim[l] = k

SlipAvailable(k) == ~InFlight(k)
DeliveryClaimAvailable(k) ==
    \A l \in Lanes : claim[l] # NoKey => claim[l].run # k.run

DeliveringUpdate(r) ==
    \E l \in Lanes : claim[l] # NoKey /\ claim[l].run = r /\ claim[l].type = "run.update"

-----------------------------------------------------------------------------
(* processDueEntries: an idle main loop starts; with a busy one the call     *)
(* asks for a rerun and, unless forced, starts the reserved lane.          *)
Begun(force) ==
    {l \in Lanes : /\ up
                   /\ lane[l] = "idle"
                   /\ l = Main \/ (lane[Main] # "idle" /\ ~force)}

ProcessDueEntries(force) ==
    /\ lane' = [l \in Lanes |-> IF l \in Begun(force) THEN "fetch" ELSE lane[l]]
    /\ rerun' = IF ~up THEN rerun
                ELSE IF lane[Main] = "idle" THEN [NoRerun EXCEPT !.forced = force]
                ELSE [rerun EXCEPT !.asked = TRUE, !.force = @ \/ force]
    /\ UNCHANGED <<claim, entry, seen, batch>>

-----------------------------------------------------------------------------
(* Admission.  A step of a caller.                                         *)
At(a, pc) == admission[a].pc = pc

Becomes(a, adm) == admission' = [admission EXCEPT ![a] = adm]

Goes(a, pc) == Becomes(a, [admission[a] EXCEPT !.pc = pc])

(* The caller is done: it leaves its locks and, if a row was queued, goes   *)
(* on to processDueEntries.                                                *)
Finish(a, queued) ==
    /\ Becomes(a, IF queued THEN [AtRest EXCEPT !.pc = "kick"] ELSE AtRest)
    /\ LeaveAll(a)

Elsewhere == UNCHANGED <<config, grace, received, up, laneVars>>

(* queueEvent of a run.start.  All its operations are one step: only one    *)
(* content is offered for a key, and nobody else writes it before it is    *)
(* queued.                                                                 *)
QueueStart(a, r) ==
    /\ At(a, "idle") /\ up
    /\ config.enabled
    /\ ~Queued(outbox[Start(r)])
    /\ ~subject[r].deliveredAt
    /\ outbox' = [outbox EXCEPT ![Start(r)] =
                     [NoRow EXCEPT !.state = IF config.url THEN "pending" ELSE "blocked"]]
    /\ Becomes(a, [AtRest EXCEPT !.pc = "kick"])
    /\ timer' = TRUE
    /\ UNCHANGED <<subject, retiring, lockVars>> /\ Elsewhere

(* A terminal, or a running update, whose run is delivering an update does  *)
(* not wait for the lifecycle lock.                                        *)
Bypasses(type, n) == type = "run.ended" \/ n # SettlingLevel

Submit(a, r, type, n) ==
    LET bypass == Bypasses(type, n) /\ DeliveringUpdate(r)
        inner  == IF type = "run.ended" THEN "terminal" ELSE "update"
    IN  /\ At(a, "idle") /\ up
        /\ Queued(outbox[Start(r)])  \* publicLiveStartedAt
        /\ Becomes(a, [AtRest EXCEPT !.pc = IF bypass THEN inner ELSE "lifecycle",
                                     !.type = type, !.run = r, !.n = n])
        /\ lifecycle' = IF bypass THEN lifecycle ELSE Join(lifecycle, r, a)
        /\ updates' = IF bypass /\ inner = "update" THEN Join(updates, r, a) ELSE updates
        /\ terminals' = IF bypass /\ inner = "terminal" THEN Join(terminals, r, a) ELSE terminals
        /\ UNCHANGED <<outbox, subject, timer, retiring>> /\ Elsewhere

SubmitUpdate(a) == \E r \in Runs, n \in 1..MaxLevel : Submit(a, r, "run.update", n)

SubmitTerminal(a) == \E r \in Runs, m \in 1..MaxMeaning : Submit(a, r, "run.ended", m)

(* Inside the lifecycle lock the caller joins the lock of its event type.  *)
EnterLifecycle(a) ==
    LET r == admission[a].run IN
    /\ At(a, "lifecycle") /\ Holds(lifecycle[r], a)
    /\ \/ /\ admission[a].type = "run.ended"
          /\ Goes(a, "terminal")
          /\ terminals' = Join(terminals, r, a)
          /\ UNCHANGED updates
       \/ /\ admission[a].type = "run.update"
          /\ Goes(a, "update")
          /\ updates' = Join(updates, r, a)
          /\ UNCHANGED terminals
    /\ UNCHANGED <<outbox, subject, timer, retiring, lifecycle>> /\ Elsewhere

(* queueRunEndedEventUnlocked, under the lock for terminals of the run.    *)
ReadSubject(a) ==
    /\ At(a, "terminal") /\ Holds(terminals[admission[a].run], a)
    /\ Becomes(a, [admission[a] EXCEPT !.pc = "stateEntry",
                                       !.read = subject[admission[a].run]])
    /\ UNCHANGED <<outbox, subject, timer, retiring, lockVars>> /\ Elsewhere

(* The row the subject points at.                                          *)
StateEntry(r, read) == IF read.version = 0 THEN NoRow ELSE outbox[Ended(r, read.version)]

Undelivered(row) == row.state \notin {"absent", "delivered"} /\ ~row.deliveredAt

SlipNextVersion(read, row) ==
    IF read.version > 0 THEN read.version + 1 ELSE 1
NextVersion(read, row) ==
    CASE read.version = 0                          -> 1
      [] read.version > 0 /\ Undelivered(row)      -> read.version
      [] read.version > 0 /\ ~Undelivered(row)     ->
             IF read.deliveredAt THEN read.version + 1 ELSE read.version

(* monotonicRunEndedRevision over the row the subject points at.           *)
SlipRevision(n, row) == n
Revision(n, row) == Highest({n, row.meaning})

ReadStateEntry(a) ==
    LET adm == admission[a]
        row == StateEntry(adm.run, adm.read)
        n   == Revision(adm.n, row)
        new == n # adm.read.meaning
    IN  /\ At(a, "stateEntry")
        /\ \/ /\ ~(new /\ config.enabled)
              /\ Finish(a, FALSE)
           \/ /\ new /\ config.enabled
              /\ Becomes(a, [adm EXCEPT !.pc = "existing", !.n = n, !.url = config.url,
                                        !.k = Ended(adm.run, NextVersion(adm.read, row))])
              /\ UNCHANGED lockVars
        /\ UNCHANGED <<outbox, subject, timer, retiring>> /\ Elsewhere

(* queueEventUnlocked: the row already stored under the event id.  The same *)
(* payload is not queued again; the rows an update supersedes still go.    *)
(* The payload of an update is its level, so the one settling slot of a    *)
(* run never meets a second payload, nor the return of a delivered one.    *)
SamePayload(row, adm) ==
    /\ Queued(row)
    /\ adm.type = "run.ended" => row.meaning = adm.n

ReadExisting(a) ==
    LET adm == admission[a]
        row == outbox[adm.k]
    IN  /\ At(a, "existing")
        /\ \/ /\ ~SamePayload(row, adm)
              /\ Becomes(a, [adm EXCEPT !.pc = "upsert", !.row = row])
              /\ UNCHANGED lockVars
           \/ /\ SamePayload(row, adm) /\ adm.type = "run.ended"
              /\ Finish(a, FALSE)
           \/ /\ SamePayload(row, adm) /\ adm.type = "run.update"
              /\ Becomes(a, [adm EXCEPT !.pc = "retire", !.k = NoKey])
              /\ UNCHANGED lockVars
        /\ UNCHANGED <<outbox, subject, timer, retiring>> /\ Elsewhere

(* When the new row may go out.  A preserved retry time, the terminal       *)
(* deadline, the correction window after a delivered version, or the       *)
(* settling deadline may lie ahead.  The subject's deliveredAt, read with  *)
(* the existing row, only rises while the caller has the terminals' lock:  *)
(* what it is at the upsert allows all that the value read does.           *)
Waits(adm) ==
    IF ~adm.url THEN {adm.row.waits}
    ELSE IF adm.type = "run.ended"
         THEN {grace[adm.run] \/ (adm.row.state = "retry" /\ adm.row.waits)}
                  \cup (IF subject[adm.run].deliveredAt THEN {TRUE} ELSE {})
         ELSE IF IsSettling(adm.k) THEN BOOLEAN ELSE {FALSE}

Upsert(a) ==
    LET adm == admission[a] IN
    /\ At(a, "upsert")
    /\ \E waits \in Waits(adm) :
          outbox' = [outbox EXCEPT ![adm.k] =
              [state |-> IF adm.url THEN "pending" ELSE "blocked",
               meaning |-> IF adm.type = "run.ended" THEN adm.n ELSE 0,
               waits |-> waits, deliveredAt |-> adm.row.deliveredAt,
               superseded |-> FALSE]]
    /\ Goes(a, IF adm.type = "run.ended" THEN "subject" ELSE "retire")
    /\ timer' = (timer \/ up)
    /\ UNCHANGED <<subject, retiring, lockVars>> /\ Elsewhere

(* subjects.write, with the deliveredAt read before the row was queued.    *)
WriteSubject(a) ==
    LET adm == admission[a] IN
    /\ At(a, "subject")
    /\ subject' = [subject EXCEPT ![adm.run] =
                      [meaning |-> adm.n, version |-> adm.k.n,
                       deliveredAt |-> adm.read.deliveredAt]]
    /\ Finish(a, TRUE)
    /\ UNCHANGED <<outbox, timer, retiring>> /\ Elsewhere

(* queueEventUnlocked of an update, under the lock for updates of the run:  *)
(* nothing after a delivered terminal, then reconciliation.                *)
BeginUpdate(a) ==
    LET adm == admission[a] IN
    /\ At(a, "update") /\ Holds(updates[adm.run], a)
    /\ \/ /\ subject[adm.run].deliveredAt \/ ~config.enabled
          /\ Finish(a, FALSE)
       \/ /\ ~subject[adm.run].deliveredAt /\ config.enabled
          /\ Becomes(a, [adm EXCEPT !.pc = "reconcile", !.url = config.url])
          /\ UNCHANGED lockVars
    /\ UNCHANGED <<outbox, subject, timer, retiring>> /\ Elsewhere

Reconcile(a) ==
    LET adm == admission[a]
        r   == adm.run
    IN  /\ At(a, "reconcile")
        /\ retiring' = [retiring EXCEPT ![a] = Superseded(outbox, r, adm.n)]
        /\ \/ /\ Dominated(outbox, r, adm.n)
              /\ Goes(a, "retire")
           \/ /\ ~Dominated(outbox, r, adm.n)
              /\ Becomes(a, [adm EXCEPT !.pc = "existing",
                                        !.k = Update(r, Reconciled(outbox, r, adm.n))])
        /\ UNCHANGED <<outbox, subject, timer, lockVars>> /\ Elsewhere

(* suppressSupersededRunUpdates, one row; a claimed row is left alone.      *)
Retire(a) ==
    /\ At(a, "retire")
    /\ \E k \in retiring[a] :
          /\ outbox' = [outbox EXCEPT ![k] = IF InFlight(k) THEN @ ELSE Suppress(@)]
          /\ retiring' = [retiring EXCEPT ![a] = @ \ {k}]
    /\ UNCHANGED <<subject, timer, lockVars, admission>> /\ Elsewhere

Retired(a) ==
    /\ At(a, "retire") /\ retiring[a] = {}
    /\ Finish(a, admission[a].k # NoKey)
    /\ UNCHANGED <<outbox, subject, timer, retiring>> /\ Elsewhere

Kick(a) ==
    /\ At(a, "kick")
    /\ ProcessDueEntries(FALSE)
    /\ Becomes(a, AtRest)
    /\ UNCHANGED <<durable, received, up, timer, byTimer, retiring, lockVars>>

Admit(a) ==
    \/ \E r \in Runs : QueueStart(a, r)
    \/ SubmitUpdate(a) \/ SubmitTerminal(a)

Advance(a) ==
    \/ EnterLifecycle(a) \/ ReadSubject(a) \/ ReadStateEntry(a) \/ ReadExisting(a)
    \/ Upsert(a) \/ WriteSubject(a) \/ BeginUpdate(a) \/ Reconcile(a)
    \/ Retire(a) \/ Retired(a) \/ Kick(a)

-----------------------------------------------------------------------------
(* Delivery.  A step of a lane.                                            *)
LaneAt(l, pc) == lane[l] = pc

Moves(l, pc) == lane' = [lane EXCEPT ![l] = pc]

Here == UNCHANGED <<config, grace, up, admission>>

(* outbox.due.  The main loop consumes the force of the rerun it serves.    *)
(* Of the rows read only a start's is used: the others are read again.     *)
Fetch(l) ==
    LET forced  == l = Main /\ (rerun.forced \/ rerun.force)
        copy(k) == IF k.type = "run.start" THEN outbox[k] ELSE NoRow
    IN
    /\ LaneAt(l, "fetch")
    /\ batch' = [batch EXCEPT ![l] =
                   {<<k, copy(k)>> : k \in {j \in EventIds : Due(outbox[j], forced)}}]
    /\ rerun' = IF l = Main THEN [NoRerun EXCEPT !.forced = forced] ELSE rerun
    /\ Moves(l, "fetched")
    /\ UNCHANGED <<outbox, subject, received, timer, claim, entry, seen, byTimer, retiring, lockVars>>
    /\ Here

Claimable(l) ==
    {p \in batch[l] : DeliveryClaimAvailable(p[1]) /\ (l = Anchor => IsAnchor(p[1]))}

FirstOf(rows) == {p \in rows : p[1] \in FirstAmong({q[1] : q \in rows})}

(* deliverClaimed claims a row.  A start goes out as it was read; an update *)
(* or a terminal joins the lifecycle lock.                                 *)
DeliverClaimed(l, p) ==
    /\ claim' = [claim EXCEPT ![l] = p[1]]
    /\ \/ /\ p[1].type = "run.start"
          /\ entry' = [entry EXCEPT ![l] = p[2]]
          /\ Moves(l, "gate")
          /\ UNCHANGED lifecycle
       \/ /\ p[1].type # "run.start"
          /\ lifecycle' = Join(lifecycle, p[1].run, l)
          /\ Moves(l, "locked")
          /\ UNCHANGED entry

Forced(l) == l = Main /\ rerun.forced

(* scheduleNextPendingDelivery, by the caller that awaited the pass.        *)
SlipRearmed(l) == timer
Rearmed(l) == timer \/ (byTimer[l] /\ up)

(* The end of a pass.  The main loop fetches again when asked to, or when   *)
(* more rows were due than it took.                                        *)
Again == rerun.asked \/ rerun.more

EndPass(l) ==
    \/ /\ l = Main /\ up /\ Again
       /\ Moves(l, "fetch")
       /\ rerun' = [rerun EXCEPT !.forced = FALSE]
       /\ UNCHANGED <<timer, byTimer>>
    \/ /\ l = Main /\ ~(up /\ Again)
       /\ Moves(l, "idle")
       /\ rerun' = NoRerun
       /\ timer' = Rearmed(l)
       /\ byTimer' = [byTimer EXCEPT ![l] = FALSE]
    \/ /\ l = Anchor
       /\ Moves(l, "idle")
       /\ timer' = Rearmed(l)
       /\ byTimer' = [byTimer EXCEPT ![l] = FALSE]
       /\ UNCHANGED rerun

(* An ordinary pass claims the first claimable row, the reserved lane the   *)
(* first it may deliver; a forced pass keeps them all.                     *)
TakeFirst(l) ==
    /\ LaneAt(l, "fetched") /\ ~Forced(l) /\ up
    /\ \E p \in FirstOf(Claimable(l)) : DeliverClaimed(l, p)
    /\ batch' = [batch EXCEPT ![l] = {}]
    /\ rerun' = IF l = Main THEN [rerun EXCEPT !.more = Cardinality(batch[l]) > 1] ELSE rerun
    /\ UNCHANGED <<outbox, subject, received, timer, seen, byTimer, retiring, updates, terminals>>
    /\ Here

TakeAll(l) ==
    /\ LaneAt(l, "fetched") /\ Forced(l) /\ up
    /\ batch' = [batch EXCEPT ![l] = Claimable(l)]
    /\ Moves(l, "next")
    /\ UNCHANGED <<outbox, subject, received, timer, claim, entry, seen, rerun, byTimer,
                   retiring, lockVars>>
    /\ Here

TakeNone(l) ==
    /\ LaneAt(l, "fetched")
    /\ ~up \/ (~Forced(l) /\ Claimable(l) = {})
    /\ batch' = [batch EXCEPT ![l] = {}]
    /\ EndPass(l)
    /\ UNCHANGED <<outbox, subject, received, claim, entry, seen, retiring, lockVars>>
    /\ Here

(* The next row of a forced pass; one that came to be in flight meanwhile   *)
(* is passed over.                                                         *)
TakeNext(l) ==
    /\ LaneAt(l, "next") /\ up
    /\ \E p \in FirstOf(batch[l]) :
          /\ batch' = [batch EXCEPT ![l] = @ \ {p}]
          /\ \/ DeliveryClaimAvailable(p[1]) /\ DeliverClaimed(l, p)
             \/ ~DeliveryClaimAvailable(p[1]) /\ UNCHANGED <<lane, claim, entry, lifecycle>>
    /\ UNCHANGED <<outbox, subject, received, timer, seen, rerun, byTimer, retiring,
                   updates, terminals>>
    /\ Here

EndBatch(l) ==
    /\ LaneAt(l, "next")
    /\ ~up \/ batch[l] = {}
    /\ batch' = [batch EXCEPT ![l] = {}]
    /\ EndPass(l)
    /\ UNCHANGED <<outbox, subject, received, claim, entry, seen, retiring, lockVars>>
    /\ Here

(* deliver, under the lifecycle lock: the row as it is now.                 *)
StillDue(l) == Due(outbox[claim[l]], Forced(l))

Reread(l) ==
    LET k == claim[l] IN
    /\ LaneAt(l, "locked") /\ Holds(lifecycle[k.run], l)
    /\ \/ /\ ~StillDue(l)
          /\ Moves(l, "release")
          /\ UNCHANGED <<entry, updates>>
       \/ /\ StillDue(l) /\ k.type = "run.ended"
          /\ Moves(l, "gate")
          /\ entry' = [entry EXCEPT ![l] = outbox[k]]
          /\ UNCHANGED updates
       \/ /\ StillDue(l) /\ k.type = "run.update"
          /\ Moves(l, "update")
          /\ updates' = Join(updates, k.run, l)
          /\ UNCHANGED entry
    /\ UNCHANGED <<outbox, subject, received, timer, claim, seen, batch, rerun, byTimer,
                   retiring, lifecycle, terminals>>
    /\ Here

(* reconcileRunUpdateAtDeliveryBoundary: a higher queued snapshot replaces  *)
(* the claimed one, which then goes unpublished like the rest.  Its row is *)
(* there with that payload, so to queue it again writes nothing.  The two  *)
(* reads are one step: who writes an update of the run needs the lock or   *)
(* the claim that the lane has.                                            *)
ReconcileAtBoundary(l) ==
    LET k == claim[l]
        r == k.run
    IN  /\ LaneAt(l, "update") /\ Holds(updates[r], l)
        /\ \/ /\ ~StillDue(l)
              /\ Moves(l, "release")
              /\ updates' = Leave(updates, l)
              /\ UNCHANGED retiring
           \/ /\ StillDue(l)
              /\ retiring' = [retiring EXCEPT ![l] = Superseded(outbox, r, k.n)]
              /\ Moves(l, IF Dominated(outbox, r, k.n) \/ Reconciled(outbox, r, k.n) = k.n
                          THEN "retire" ELSE "replace")
              /\ UNCHANGED updates
        /\ UNCHANGED <<outbox, subject, received, timer, claim, entry, seen, batch, rerun,
                       byTimer, lifecycle, terminals>>
        /\ Here

(* preDeliveryClaimKey: its own claim it may retire.                        *)
RetireAtBoundary(l) ==
    /\ lane[l] \in {"retire", "replace"}
    /\ \E k \in retiring[l] :
          /\ outbox' = [outbox EXCEPT ![k] =
                           IF InFlight(k) /\ claim[l] # k THEN @ ELSE Suppress(@)]
          /\ retiring' = [retiring EXCEPT ![l] = @ \ {k}]
    /\ UNCHANGED <<subject, received, timer, laneVars, lockVars>>
    /\ Here

LeaveBoundary(l) ==
    /\ retiring[l] = {}
    /\ \/ /\ LaneAt(l, "replace")
          /\ Moves(l, "release")
          /\ rerun' = [rerun EXCEPT !.asked = TRUE]
          /\ UNCHANGED entry
       \/ /\ LaneAt(l, "retire") /\ StillDue(l)
          /\ Moves(l, "gate")
          /\ entry' = [entry EXCEPT ![l] = outbox[claim[l]]]
          /\ UNCHANGED rerun
       \/ /\ LaneAt(l, "retire") /\ ~StillDue(l)
          /\ Moves(l, "release")
          /\ UNCHANGED <<entry, rerun>>
    /\ updates' = Leave(updates, l)
    /\ UNCHANGED <<outbox, subject, received, timer, claim, seen, batch, byTimer, retiring,
                   lifecycle, terminals>>
    /\ Here

-----------------------------------------------------------------------------
(* deliverUnlocked, on the copy the lane holds: nothing of a run goes out   *)
(* once its delivered terminal is recorded, save a terminal.               *)
SlipClosed(k) == FALSE
Closed(k) == k.type \in {"run.start", "run.update"} /\ subject[k.run].deliveredAt

DeadlineAhead(k) == k.type = "run.ended" /\ grace[k.run]

Attempting == UNCHANGED <<subject, received, claim, entry, seen, batch, rerun, byTimer,
                          retiring, lockVars>>

Puts(l, row) == outbox' = [outbox EXCEPT ![claim[l]] = row]

Give(l, row) == Puts(l, row) /\ Moves(l, "release")

Gate(l) ==
    LET k == claim[l] IN
    /\ LaneAt(l, "gate")
    /\ \/ ~up /\ Moves(l, "release") /\ UNCHANGED <<outbox, timer>>
       \/ /\ up /\ Closed(k)
          /\ Give(l, [entry[l] EXCEPT !.state = "delivered", !.waits = FALSE,
                                     !.deliveredAt = TRUE, !.superseded = FALSE])
          /\ UNCHANGED timer
       \/ /\ up /\ ~Closed(k) /\ ~(config.url /\ config.enabled)
          /\ Give(l, [entry[l] EXCEPT !.state = "blocked", !.waits = FALSE])
          /\ UNCHANGED timer
       \/ /\ up /\ config.url /\ config.enabled /\ DeadlineAhead(k)
          /\ Give(l, [entry[l] EXCEPT !.state = "pending", !.waits = TRUE])
          /\ timer' = TRUE
       \/ /\ up /\ ~Closed(k) /\ config.url /\ config.enabled /\ ~DeadlineAhead(k)
          /\ Puts(l, entry[l])
          /\ Moves(l, "attempted")
          /\ UNCHANGED timer
    /\ Attempting /\ Here

(* The attempt is on disk; the request goes out unless the agent stops.     *)
Post(l) ==
    /\ LaneAt(l, "attempted")
    /\ Moves(l, IF up THEN "post" ELSE "release")
    /\ UNCHANGED <<outbox, timer>> /\ Attempting /\ Here

(* The receiver takes the event.                                           *)
Receive(l) ==
    /\ LaneAt(l, "post")
    /\ received' = received \cup {<<claim[l], entry[l].meaning>>}
    /\ Moves(l, "received")
    /\ UNCHANGED <<outbox, subject, timer, claim, entry, seen, batch, rerun, byTimer,
                   retiring, lockVars>>
    /\ Here

Answered(l) ==
    /\ LaneAt(l, "received")
    /\ Puts(l, [entry[l] EXCEPT !.state = "delivered", !.waits = FALSE,
                               !.deliveredAt = TRUE, !.superseded = FALSE])
    /\ Moves(l, IF claim[l].type = "run.ended" THEN "record" ELSE "release")
    /\ UNCHANGED timer /\ Attempting /\ Here

(* A retryable failure, of the request or of its answer, or a final one.    *)
Refused(l) ==
    /\ \/ "refused" \in Faults /\ LaneAt(l, "post")
       \/ "lost" \in Faults /\ LaneAt(l, "received")
    /\ Give(l, [entry[l] EXCEPT !.state = "retry", !.waits = TRUE])
    /\ timer' = (timer \/ up)
    /\ Attempting /\ Here

Rejected(l) ==
    /\ "rejected" \in Faults /\ LaneAt(l, "post")
    /\ Give(l, [entry[l] EXCEPT !.state = "blocked", !.waits = FALSE])
    /\ timer' = (timer \/ up)
    /\ Attempting /\ Here

(* recordRunEndedSubject: a subject already at a later version keeps it.    *)
ReadRecord(l) ==
    /\ LaneAt(l, "record")
    /\ seen' = [seen EXCEPT ![l] = subject[claim[l].run]]
    /\ Moves(l, "write")
    /\ UNCHANGED <<outbox, subject, received, timer, claim, entry, batch, rerun, byTimer,
                   retiring, lockVars>>
    /\ Here

SlipRecorded(read, k, row) == [read EXCEPT !.deliveredAt = read.version > k.n]
Recorded(read, k, row) ==
    IF read.version > k.n
    THEN [read EXCEPT !.deliveredAt = TRUE]
    ELSE [meaning |-> row.meaning, version |-> k.n, deliveredAt |-> TRUE]

WriteRecord(l) ==
    LET k == claim[l] IN
    /\ LaneAt(l, "write")
    /\ subject' = [subject EXCEPT ![k.run] = Recorded(seen[l], k, entry[l])]
    /\ seen' = [seen EXCEPT ![l] = NoSubject]
    /\ Moves(l, "release")
    /\ UNCHANGED <<outbox, received, timer, claim, entry, batch, rerun, byTimer,
                   retiring, lockVars>>
    /\ Here

(* The end of deliverClaimed.  A forced pass goes on to its next row; an    *)
(* ordinary one is over, and so is the reserved lane, which wakes the main *)
(* loop.                                                                   *)
Release(l) ==
    /\ LaneAt(l, "release")
    /\ claim' = [claim EXCEPT ![l] = NoKey]
    /\ entry' = [entry EXCEPT ![l] = NoRow]
    /\ LeaveAll(l)
    /\ \/ /\ Forced(l)
          /\ Moves(l, "next")
          /\ UNCHANGED <<rerun, timer, byTimer>>
       \/ l = Main /\ ~Forced(l) /\ EndPass(l)
       \/ /\ l = Anchor
          /\ lane' = [lane EXCEPT ![Anchor] = "idle",
                                  ![Main] = IF up /\ @ = "idle" THEN "fetch" ELSE @]
          /\ rerun' = IF ~up THEN rerun
                      ELSE IF lane[Main] = "idle" THEN NoRerun
                      ELSE [rerun EXCEPT !.asked = TRUE]
          /\ timer' = Rearmed(l)
          /\ byTimer' = [byTimer EXCEPT ![l] = FALSE]
    /\ UNCHANGED <<outbox, subject, received, seen, batch, retiring>>
    /\ Here

Deliver(l) ==
    \/ Fetch(l) \/ TakeFirst(l) \/ TakeAll(l) \/ TakeNone(l) \/ TakeNext(l) \/ EndBatch(l)
    \/ Reread(l)
    \/ ReconcileAtBoundary(l) \/ RetireAtBoundary(l) \/ LeaveBoundary(l)
    \/ Gate(l) \/ Post(l) \/ Answered(l) \/ ReadRecord(l) \/ WriteRecord(l) \/ Release(l)

-----------------------------------------------------------------------------
(* Timers, the clock, the operator and the process.                        *)
Rest == UNCHANGED <<received, retiring, lockVars, admission>>

TimerFires ==
    /\ timer /\ up
    /\ timer' = (Begun(FALSE) = {})
    /\ byTimer' = [l \in Lanes |-> byTimer[l] \/ l \in Begun(FALSE)]
    /\ ProcessDueEntries(FALSE)
    /\ UNCHANGED <<durable, up>> /\ Rest

GraceOver(r) ==
    /\ grace[r]
    /\ grace' = [grace EXCEPT ![r] = FALSE]
    /\ UNCHANGED <<outbox, subject, config, up, timer, laneVars>> /\ Rest

WaitOver(k) ==
    /\ outbox[k].waits
    /\ ~(k.type = "run.ended" /\ grace[k.run])
    /\ outbox' = [outbox EXCEPT ![k].waits = FALSE]
    /\ UNCHANGED <<subject, config, grace, up, timer, laneVars>> /\ Rest

Clock == (\E r \in Runs : GraceOver(r)) \/ (\E k \in EventIds : WaitOver(k))

RetryNow ==
    /\ "forced" \in Faults
    /\ ProcessDueEntries(TRUE)
    /\ UNCHANGED <<durable, up, timer, byTimer>> /\ Rest

ConfigureUrl ==
    /\ "toggle" \in Faults
    /\ config' = [config EXCEPT !.url = TRUE]
    /\ UNCHANGED <<outbox, subject, grace, up, timer, laneVars>> /\ Rest

SetRunEndedEnabled ==
    /\ "toggle" \in Faults
    /\ config' = [config EXCEPT !.enabled = ~@]
    /\ UNCHANGED <<outbox, subject, grace, up, timer, laneVars>> /\ Rest

(* start, once the lanes of the previous stop are idle.                     *)
StartDispatch ==
    /\ ~up /\ \A l \in Lanes : lane[l] = "idle"
    /\ up' = TRUE
    /\ timer' = TRUE
    /\ lane' = [lane EXCEPT ![Main] = "fetch"]
    /\ byTimer' = [byTimer EXCEPT ![Main] = TRUE]
    /\ rerun' = NoRerun
    /\ UNCHANGED <<durable, claim, entry, seen, batch>> /\ Rest

StopDispatch ==
    /\ "stop" \in Faults /\ up
    /\ up' = FALSE
    /\ timer' = FALSE
    /\ rerun' = [rerun EXCEPT !.asked = FALSE, !.force = FALSE]
    /\ UNCHANGED <<durable, lane, claim, entry, seen, batch, byTimer>> /\ Rest

Crash ==
    /\ "crash" \in Faults /\ up
    /\ up' = FALSE
    /\ timer' = FALSE
    /\ rerun' = NoRerun
    /\ lane' = [l \in Lanes |-> "idle"]
    /\ claim' = [l \in Lanes |-> NoKey]
    /\ entry' = [l \in Lanes |-> NoRow]
    /\ seen' = [l \in Lanes |-> NoSubject]
    /\ batch' = [l \in Lanes |-> {}]
    /\ retiring' = [p \in Lanes \cup Admitters |-> {}]
    /\ byTimer' = [l \in Lanes |-> FALSE]
    /\ lifecycle' = [r \in Runs |-> <<>>]
    /\ updates' = [r \in Runs |-> <<>>]
    /\ terminals' = [r \in Runs |-> <<>>]
    /\ admission' = [a \in Admitters |-> AtRest]
    /\ UNCHANGED <<durable, received>>

Operator == RetryNow \/ ConfigureUrl \/ SetRunEndedEnabled \/ StopDispatch \/ Crash

Next ==
    \/ \E a \in Admitters : Admit(a) \/ Advance(a)
    \/ \E l \in Lanes : Deliver(l) \/ Receive(l) \/ Refused(l) \/ Rejected(l)
    \/ TimerFires \/ Clock \/ StartDispatch \/ Operator

Spec == Init /\ [][Next]_vars

-----------------------------------------------------------------------------
(* The process keeps running its callbacks, timers fire, deadlines pass,    *)
(* and a receiver that is asked again and again answers at last.           *)
Fairness ==
    /\ \A a \in Admitters : WF_vars(Advance(a))
    /\ \A l \in Lanes : /\ WF_vars(Deliver(l))
                        /\ SF_vars(Receive(l))
                        /\ SF_vars(Answered(l))
    /\ \A r \in Runs : WF_vars(GraceOver(r))
    /\ \A k \in EventIds : WF_vars(WaitOver(k))
    /\ WF_vars(TimerFires)
    /\ WF_vars(StartDispatch)

FairSpec == Spec /\ Fairness

-----------------------------------------------------------------------------
(* One HTTP attempt per run at a time, whichever lane makes it              *)
(* (deliverClaimed, inFlightLifecycleSubjects).                            *)
OneAttemptPerRun ==
    \A l, m \in Lanes :
        (l # m /\ lane[l] \in Posting /\ lane[m] \in Posting)
            => claim[l].run # claim[m].run

(* The snapshots a receiver sees never regress: an update on its way says   *)
(* at least what the receiver took of that run, and more than any row that *)
(* was published (reconcileRunUpdateForQueue, at admission and at the      *)
(* delivery boundary).                                                     *)
UpdatesClimb ==
    \A l \in Lanes :
        (lane[l] = "post" /\ claim[l].type = "run.update") =>
            LET r == claim[l].run IN
            /\ \A m \in Published(outbox, r) : m < claim[l].n
            /\ \A p \in received :
                  (p[1].type = "run.update" /\ p[1].run = r) => p[1].n <= claim[l].n

(* A receiver that took a terminal of a run is not sent a start or an       *)
(* update of that run any more (runEndedDeliveredForLifecycleSubject).     *)
NothingAfterTerminal ==
    \A l \in Lanes :
        (lane[l] = "post" /\ claim[l].type # "run.ended") =>
            ~\E p \in received : p[1].type = "run.ended" /\ p[1].run = claim[l].run

(* A terminal of a run is posted only when no admission is about to replace *)
(* that very row: what queueRunEndedEventAdmission says of its bypass,     *)
(* that terminal delivery and terminal-to-terminal replacement remain      *)
(* serialized.                                                             *)
ReplacementSerialized ==
    \A l \in Lanes, a \in Admitters :
        (lane[l] \in Posting /\ claim[l].type = "run.ended" /\ At(a, "upsert"))
            => admission[a].k # claim[l]

(* The subject describes the row it points at, whenever no admission and no *)
(* lane is between its write of the row and its write of the subject       *)
(* (queueRunEndedEventUnlocked, recordRunEndedSubject).                    *)
Settled(r) ==
    /\ \A a \in Admitters : At(a, "subject") => admission[a].run # r
    /\ \A l \in Lanes : lane[l] \in {"record", "write"} => claim[l].run # r

SubjectMatchesRow ==
    \A r \in Runs :
        (Settled(r) /\ subject[r].version > 0) =>
            LET row == outbox[Ended(r, subject[r].version)] IN
            /\ Queued(row)
            /\ row.meaning = subject[r].meaning
            /\ row.deliveredAt => subject[r].deliveredAt

(* Each version of a terminal has one meaning at the receiver, and a later  *)
(* version says more than an earlier one (eventIdFor of subject and        *)
(* version, monotonicRunEndedRevision).                                    *)
VersionsClimb ==
    \A p, q \in received :
        (/\ p[1].type = "run.ended" /\ q[1].type = "run.ended"
         /\ p[1].run = q[1].run /\ p[1].n <= q[1].n)
            => IF p[1] = q[1] THEN p[2] = q[2] ELSE p[2] < q[2]

(* stop ends: with the process running, both lanes come to rest.           *)
StopComes == ~up ~> \A l \in Lanes : lane[l] = "idle"

(* Every accepted correction of a terminal reaches the receiver, in its own *)
(* version or in a later meaning of it, once the agent is left running     *)
(* (scheduleRetry, scheduleNextPendingDelivery, deliveryRerunRequested).   *)
Arrived(r, m) ==
    \E p \in received : p[1].type = "run.ended" /\ p[1].run = r /\ p[2] >= m

CorrectionArrives ==
    <>[]up =>
        \A r \in Runs, m \in 1..MaxMeaning : (subject[r].meaning = m) ~> Arrived(r, m)

-----------------------------------------------------------------------------
(* The rows of the terminals of a run, read as a ledger of versions.        *)
VersionsOf(r) == {v \in 1..MaxVersion : Queued(outbox[Ended(r, v)])}

LedgerOf ==
    [r \in Runs |->
        [v \in 1..Cardinality(VersionsOf(r)) |->
            [meaning |-> outbox[Ended(r, v)].meaning,
             delivered |-> outbox[Ended(r, v)].deliveredAt]]]

Ledger == INSTANCE RunEndedLedger WITH ledger <- LedgerOf

(* Versions of a terminal are published one by one, each with a meaning     *)
(* that is fixed from then on and says more than the one before            *)
(* (queueRunEndedEventUnlocked, deliverUnlocked, recordRunEndedSubject).   *)
KeepsLedger == Ledger!LedgerSpec
=============================================================================
