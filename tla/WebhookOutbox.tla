--------------------------- MODULE WebhookOutbox ---------------------------
(***************************************************************************)
(* Rows of the durable webhook outbox and the pure decisions taken on      *)
(* them: when a row is due, which due row goes first, and how a run.update *)
(* candidate is reconciled with the updates already queued or published.   *)
(*                                                                         *)
(* What an event says is abstracted to one number: the position of a       *)
(* snapshot in the order its merges climb.  A run.update at level n says   *)
(* more than any lower level; a run.ended with meaning m carries every     *)
(* correction up to m.  mergeRunUpdatedWebhookEvents and                   *)
(* monotonicRunEndedRevision are then the maximum.                         *)
(***************************************************************************)
EXTENDS Naturals, FiniteSets

CONSTANTS Runs,           \* public run ids
          MaxLevel,       \* bound: levels of run.update snapshots
          SettlingLevel,  \* the level of the settling snapshot, 0 for none
          MaxMeaning,     \* bound: successive terminal meanings
          MaxVersion,     \* bound: versions of run.ended
          ClosedRoots     \* runs that end with a Claude closed-root terminal

ASSUME OutboxAssumption ==
    /\ MaxLevel \in Nat
    /\ SettlingLevel \in {0, MaxLevel}
    /\ MaxMeaning \in Nat
    /\ MaxVersion \in Nat
    /\ ClosedRoots \subseteq Runs

-----------------------------------------------------------------------------
(* Event ids.  A start has one per run, a running update one per content,   *)
(* the settling update one replaceable slot, a terminal one per version.    *)
EventId(type, r, n) == [type |-> type, run |-> r, n |-> n]

Start(r)     == EventId("run.start", r, 0)
Update(r, n) == EventId("run.update", r, n)
Ended(r, v)  == EventId("run.ended", r, v)

EventIds ==
    {Start(r) : r \in Runs}
        \cup {Update(r, n) : r \in Runs, n \in 1..MaxLevel}
        \cup {Ended(r, v) : r \in Runs, v \in 1..MaxVersion}

IsSettling(k) == k.type = "run.update" /\ k.n = SettlingLevel

(* WebhookOutboxEntry.  waits: nextAttemptAt is in the future.  deliveredAt *)
(* survives a re-queue, deliveryState does not.  superseded: closed with   *)
(* RUN_UPDATE_SUPERSEDED_CODE, so never published.                         *)
DeliveryStates == {"absent", "pending", "retry", "blocked", "delivered"}

Rows == [state : DeliveryStates, meaning : 0..MaxMeaning, waits : BOOLEAN,
         deliveredAt : BOOLEAN, superseded : BOOLEAN]

NoRow == [state |-> "absent", meaning |-> 0, waits |-> FALSE,
          deliveredAt |-> FALSE, superseded |-> FALSE]

Queued(row) == row.state # "absent"

(* outboxEntryDue and the two due-row queries.                             *)
Due(row, force) ==
    \/ row.state = "pending" /\ ~row.waits
    \/ row.state = "retry" /\ (force \/ ~row.waits)
    \/ row.state = "blocked" /\ force

-----------------------------------------------------------------------------
(* lifecycleSortKey and sameRunTerminalPreemptionOrder: start, settling     *)
(* update, terminal, running updates; a closed-root terminal goes before   *)
(* its settling update.                                                    *)
SameRunOrder(k) ==
    CASE k.type = "run.start"                            -> 1
      [] IsSettling(k)                                   -> 3
      [] k.type = "run.ended" /\ k.run \in ClosedRoots   -> 2
      [] k.type = "run.ended" /\ k.run \notin ClosedRoots -> 4
      [] OTHER                                           -> 5

Precedes(j, k) ==
    \/ SameRunOrder(j) < SameRunOrder(k)
    \/ SameRunOrder(j) = SameRunOrder(k) /\ j.n < k.n

(* The rows that may come first after sorting keys.  Rows of one run are    *)
(* totally ordered; between runs the order depends on attempts, states and *)
(* times that are not modelled, so any row of a mixed set may come first.  *)
FirstAmong(keys) ==
    {k \in keys : \/ Cardinality({j.run : j \in keys}) > 1
                  \/ \A j \in keys \ {k} : Precedes(k, j)}

(* isLifecycleAnchorDelivery: what the reserved lane may deliver.          *)
IsAnchor(k) == k.type \in {"run.start", "run.ended"} \/ IsSettling(k)

-----------------------------------------------------------------------------
(* reconcileRunUpdateForQueue over the update rows of one run.             *)
Highest(levels) ==
    IF levels = {} THEN 0 ELSE CHOOSE n \in levels : \A m \in levels : m <= n

Active(box, r) ==
    {n \in 1..MaxLevel : box[Update(r, n)].state \notin {"absent", "delivered"}}

Published(box, r) ==
    {n \in 1..MaxLevel : /\ box[Update(r, n)].state = "delivered"
                         /\ ~box[Update(r, n)].superseded}

SlipReconciled(box, r, n) == n
Reconciled(box, r, n) == Highest(Active(box, r) \cup {n})

(* reconciliation.event is undefined: the published high-water says it all. *)
Dominated(box, r, n) == Reconciled(box, r, n) <= Highest(Published(box, r))

Superseded(box, r, n) ==
    {Update(r, m) : m \in IF Dominated(box, r, n)
                          THEN Active(box, r)
                          ELSE Active(box, r) \ {Reconciled(box, r, n)}}

(* suppressSupersededRunUpdates closes one row without publishing it.      *)
Suppress(row) ==
    IF row.state \in {"absent", "delivered"}
    THEN row
    ELSE [row EXCEPT !.state = "delivered", !.waits = FALSE,
                     !.deliveredAt = TRUE, !.superseded = TRUE]
=============================================================================
