------------------- MODULE ExternalWebhookDispatchProofs -------------------
(***************************************************************************)
(* Never two attempts of one run, and never a snapshot behind an earlier   *)
(* one, for any runs, callers, faults and bounds.                          *)
(*                                                                         *)
(* The first rests on deliverClaimed testing and taking its claim in one   *)
(* step, and on no path that leaves the claimed states without giving it   *)
(* up.  The second rests on the lock for updates of a run: inside it a     *)
(* caller or a lane that means to supersede levels keeps a higher one      *)
(* active or published, so the highest of those bounds all that was sent.  *)
(***************************************************************************)
EXTENDS ExternalWebhookDispatch, WellFoundedInduction, TLAPS

(* The stretch of deliverClaimed between taking a claim and giving it up.  *)
Claimed == {"locked", "update", "retire", "replace", "gate", "attempted",
            "post", "received", "record", "write", "release"}

LanesTyped ==
    /\ lane \in [Lanes -> LaneStates]
    /\ claim \in [Lanes -> EventIds \cup {NoKey}]
    /\ DOMAIN batch = Lanes
    /\ \A l \in Lanes : \A p \in batch[l] : p[1] \in EventIds

ClaimHeld == \A l \in Lanes : claim[l] # NoKey <=> lane[l] \in Claimed

ClaimsApart ==
    \A l, m \in Lanes :
        (l # m /\ claim[l] # NoKey /\ claim[m] # NoKey) => claim[l].run # claim[m].run

ClaimInv == LanesTyped /\ ClaimHeld /\ ClaimsApart

-----------------------------------------------------------------------------
LEMMA ClaimInit == Init => ClaimInv
  BY DispatchAssumption
     DEF Init, ClaimInv, LanesTyped, ClaimHeld, ClaimsApart, Lanes, Main, Anchor,
         LaneStates, Claimed

(* Steps of callers, of the clock and of the operator touch no lane.       *)
LEMMA ElsewherePreserves ==
    ASSUME ClaimInv, UNCHANGED <<lane, claim, batch>>
    PROVE  ClaimInv'
  BY DEF ClaimInv, LanesTyped, ClaimHeld, ClaimsApart

(* A lane moves on with its claim, or without one before and after.        *)
LEMMA MovePreserves ==
    ASSUME ClaimInv, NEW l \in Lanes, NEW pc \in LaneStates,
           lane' = [lane EXCEPT ![l] = pc], claim' = claim,
           batch' = batch \/ batch' = [batch EXCEPT ![l] = {}],
           lane[l] \in Claimed <=> pc \in Claimed
    PROVE  ClaimInv'
  <1>1. LanesTyped'
    BY DEF ClaimInv, LanesTyped
  <1>2. ClaimHeld'
    BY DEF ClaimInv, LanesTyped, ClaimHeld
  <1>3. ClaimsApart'
    BY DEF ClaimInv, ClaimsApart
  <1>4. QED BY <1>1, <1>2, <1>3 DEF ClaimInv

(* deliverClaimed takes a claim only of a run no lane has claimed.         *)
LEMMA TakePreserves ==
    ASSUME ClaimInv, NEW l \in Lanes, NEW p \in batch[l],
           lane[l] \notin Claimed, DeliveryClaimAvailable(p[1]),
           DeliverClaimed(l, p), DOMAIN batch' = Lanes,
           \A m \in Lanes : batch'[m] \subseteq batch[m]
    PROVE  ClaimInv'
  <1>1. p[1] \in EventIds /\ p[1] # NoKey
    BY DispatchAssumption DEF ClaimInv, LanesTyped
  <1>2. PICK pc \in {"gate", "locked"} : lane' = [lane EXCEPT ![l] = pc]
    BY DEF DeliverClaimed, Moves
  <1>3. claim' = [claim EXCEPT ![l] = p[1]]
    BY DEF DeliverClaimed
  <1>4. LanesTyped'
    BY <1>1, <1>2, <1>3 DEF ClaimInv, LanesTyped, LaneStates
  <1>5. ClaimHeld'
    BY <1>1, <1>2, <1>3 DEF ClaimInv, LanesTyped, ClaimHeld, Claimed
  <1>6. ClaimsApart'
    BY <1>1, <1>3 DEF ClaimInv, LanesTyped, ClaimsApart, DeliveryClaimAvailable
  <1>7. QED BY <1>4, <1>5, <1>6 DEF ClaimInv

(* A call of processDueEntries starts idle lanes.                          *)
LEMMA BeginPreserves ==
    ASSUME ClaimInv, NEW force \in BOOLEAN, ProcessDueEntries(force)
    PROVE  ClaimInv'
  <1>1. LanesTyped'
    BY DEF ClaimInv, LanesTyped, ProcessDueEntries, LaneStates
  <1>2. \A l \in Lanes : lane'[l] = lane[l] \/ (lane[l] = "idle" /\ lane'[l] = "fetch")
    BY DEF ProcessDueEntries, Begun
  <1>3. ClaimHeld'
    BY <1>2 DEF ClaimInv, ClaimHeld, Claimed, ProcessDueEntries
  <1>4. ClaimsApart'
    BY DEF ClaimInv, ClaimsApart, ProcessDueEntries
  <1>5. QED BY <1>1, <1>3, <1>4 DEF ClaimInv

-----------------------------------------------------------------------------
(* The steps of a lane that go from one state of a delivery to the next, or*)
(* end without having begun one.                                           *)
LEMMA PassEndPreserves ==
    ASSUME ClaimInv, NEW l \in Lanes, lane[l] \notin Claimed, EndPass(l),
           claim' = claim, batch' = [batch EXCEPT ![l] = {}]
    PROVE  ClaimInv'
  <1>1. PICK pc \in {"fetch", "idle"} : lane' = [lane EXCEPT ![l] = pc]
    BY DEF EndPass, Moves
  <1>2. QED BY <1>1, MovePreserves DEF LaneStates, Claimed

LEMMA FetchPreserves ==
    ASSUME ClaimInv, NEW l \in Lanes, Fetch(l)
    PROVE  ClaimInv'
  <1>1. lane[l] = "fetch" /\ lane' = [lane EXCEPT ![l] = "fetched"] /\ claim' = claim
    BY DEF Fetch, LaneAt, Moves
  <1> DEFINE forced  == l = Main /\ (rerun.forced \/ rerun.force)
             copy(k) == IF k.type = "run.start" THEN outbox[k] ELSE NoRow
             fresh   == {<<k, copy(k)>> : k \in {j \in EventIds : Due(outbox[j], forced)}}
  <1>2. /\ batch' = [batch EXCEPT ![l] = fresh]
        /\ \A p \in fresh : p[1] \in EventIds
    <2>1. batch' = [batch EXCEPT ![l] = fresh]
      BY DEF Fetch
    <2>2. \A p \in fresh : p[1] \in EventIds
      <3>1. TAKE p \in fresh
      <3>2. PICK k \in EventIds : p = <<k, copy(k)>>
        OBVIOUS
      <3>3. p[1] = k
        BY <3>2
      <3>4. QED BY <3>2, <3>3
    <2>3. QED BY <2>1, <2>2
  <1> HIDE DEF fresh
  <1>3. LanesTyped'
    BY <1>1, <1>2 DEF ClaimInv, LanesTyped, LaneStates
  <1>4. ClaimHeld' /\ ClaimsApart'
    BY <1>1 DEF ClaimInv, LanesTyped, ClaimHeld, ClaimsApart, Claimed
  <1>5. QED BY <1>3, <1>4 DEF ClaimInv

LEMMA TakePassPreserves ==
    ASSUME ClaimInv, NEW l \in Lanes,
           TakeFirst(l) \/ TakeAll(l) \/ TakeNone(l) \/ TakeNext(l) \/ EndBatch(l)
    PROVE  ClaimInv'
  <1>1. CASE TakeFirst(l)
    <2>1. PICK p \in FirstOf(Claimable(l)) : DeliverClaimed(l, p)
      BY <1>1 DEF TakeFirst
    <2>2. p \in batch[l] /\ DeliveryClaimAvailable(p[1])
      BY DEF FirstOf, Claimable
    <2>3. lane[l] \notin Claimed
      BY <1>1 DEF TakeFirst, LaneAt, Claimed
    <2>4. DOMAIN batch' = Lanes /\ \A m \in Lanes : batch'[m] \subseteq batch[m]
      BY <1>1 DEF TakeFirst, ClaimInv, LanesTyped
    <2>5. QED BY <2>1, <2>2, <2>3, <2>4, TakePreserves
  <1>2. CASE TakeAll(l)
    <2>1. /\ lane[l] = "fetched" /\ lane' = [lane EXCEPT ![l] = "next"]
          /\ claim' = claim /\ batch' = [batch EXCEPT ![l] = Claimable(l)]
      BY <1>2 DEF TakeAll, LaneAt, Moves
    <2>2. Claimable(l) \subseteq batch[l]
      BY DEF Claimable
    <2>3. LanesTyped'
      BY <2>1, <2>2 DEF ClaimInv, LanesTyped, LaneStates
    <2>4. ClaimHeld' /\ ClaimsApart'
      BY <2>1 DEF ClaimInv, LanesTyped, ClaimHeld, ClaimsApart, Claimed
    <2>5. QED BY <2>3, <2>4 DEF ClaimInv
  <1>3. CASE TakeNone(l)
    BY <1>3, PassEndPreserves DEF TakeNone, LaneAt, Claimed
  <1>4. CASE TakeNext(l)
    <2>1. PICK p \in FirstOf(batch[l]) :
             /\ batch' = [batch EXCEPT ![l] = @ \ {p}]
             /\ \/ DeliveryClaimAvailable(p[1]) /\ DeliverClaimed(l, p)
                \/ ~DeliveryClaimAvailable(p[1]) /\ UNCHANGED <<lane, claim, entry, lifecycle>>
      BY <1>4 DEF TakeNext
    <2>2. p \in batch[l] /\ lane[l] \notin Claimed
      BY <1>4 DEF FirstOf, TakeNext, LaneAt, Claimed
    <2>3. DOMAIN batch' = Lanes /\ \A m \in Lanes : batch'[m] \subseteq batch[m]
      BY <2>1 DEF ClaimInv, LanesTyped
    <2>4. CASE DeliveryClaimAvailable(p[1])
      BY <2>1, <2>2, <2>3, <2>4, TakePreserves
    <2>5. CASE ~DeliveryClaimAvailable(p[1])
      BY <2>1, <2>3, <2>5 DEF ClaimInv, LanesTyped, ClaimHeld, ClaimsApart
    <2>6. QED BY <2>4, <2>5
  <1>5. CASE EndBatch(l)
    BY <1>5, PassEndPreserves DEF EndBatch, LaneAt, Claimed
  <1>6. QED BY <1>1, <1>2, <1>3, <1>4, <1>5

(* Between taking a claim and giving it up a lane stays in Claimed.        *)
LEMMA DeliveryPreserves ==
    ASSUME ClaimInv, NEW l \in Lanes,
           \/ Reread(l) \/ ReconcileAtBoundary(l) \/ RetireAtBoundary(l) \/ LeaveBoundary(l)
           \/ Gate(l) \/ Post(l) \/ Receive(l) \/ Answered(l) \/ Refused(l) \/ Rejected(l)
           \/ ReadRecord(l) \/ WriteRecord(l)
    PROVE  ClaimInv'
  <1>1. CASE RetireAtBoundary(l)
    BY <1>1, ElsewherePreserves DEF RetireAtBoundary, laneVars
  <1>2. CASE ~RetireAtBoundary(l)
    <2>1. claim' = claim /\ batch' = batch
      BY <1>2 DEF Reread, ReconcileAtBoundary, LeaveBoundary, Gate, Post, Receive, Answered,
                  Refused, Rejected, ReadRecord, WriteRecord, Attempting
    <2>2. lane[l] \in Claimed
      BY <1>2 DEF Reread, ReconcileAtBoundary, LeaveBoundary, Gate, Post, Receive, Answered,
                  Refused, Rejected, ReadRecord, WriteRecord, LaneAt, Claimed
    <2>3. PICK pc \in Claimed : lane' = [lane EXCEPT ![l] = pc]
      BY <1>2 DEF Reread, ReconcileAtBoundary, LeaveBoundary, Gate, Post, Receive, Answered,
                  Refused, Rejected, ReadRecord, WriteRecord, Give, Moves, Claimed
    <2>4. pc \in LaneStates
      BY DEF LaneStates, Claimed
    <2>5. QED BY <2>1, <2>2, <2>3, <2>4, MovePreserves
  <1>3. QED BY <1>1, <1>2

(* A claim is given up together with the state that held it.               *)
LEMMA ReleasePreserves ==
    ASSUME ClaimInv, NEW l \in Lanes, Release(l)
    PROVE  ClaimInv'
  <1>1. claim' = [claim EXCEPT ![l] = NoKey] /\ batch' = batch
    BY DEF Release
  <1>2. /\ lane' \in [Lanes -> LaneStates]
        /\ lane'[l] \notin Claimed
        /\ \A m \in Lanes \ {l} : lane'[m] \in Claimed <=> lane[m] \in Claimed
    <2>1. CASE Forced(l)
      <3>1. lane' = [lane EXCEPT ![l] = "next"]
        BY <2>1 DEF Release, Forced, EndPass, Moves, Main, Anchor
      <3>2. QED BY <3>1 DEF ClaimInv, LanesTyped, LaneStates, Claimed
    <2>2. CASE l = Main /\ ~Forced(l)
      <3>1. PICK pc \in {"fetch", "idle"} : lane' = [lane EXCEPT ![l] = pc]
        BY <2>2 DEF Release, EndPass, Moves, Main, Anchor
      <3>2. QED BY <3>1 DEF ClaimInv, LanesTyped, LaneStates, Claimed
    <2>3. CASE l = Anchor /\ ~Forced(l)
      <3>1. lane' = [lane EXCEPT ![Anchor] = "idle",
                                 ![Main] = IF up /\ @ = "idle" THEN "fetch" ELSE @]
        BY <2>3 DEF Release, Main, Anchor
      <3>2. QED
        BY <2>3, <3>1 DEF ClaimInv, LanesTyped, LaneStates, Claimed, Lanes, Main, Anchor
    <2>4. QED BY <2>1, <2>2, <2>3 DEF Lanes
  <1>3. LanesTyped'
    BY <1>1, <1>2 DEF ClaimInv, LanesTyped
  <1>4. ClaimHeld'
    BY <1>1, <1>2 DEF ClaimInv, LanesTyped, ClaimHeld
  <1>5. ClaimsApart'
    BY <1>1 DEF ClaimInv, LanesTyped, ClaimsApart
  <1>6. QED BY <1>3, <1>4, <1>5 DEF ClaimInv

(* A start finds both lanes idle, a crash forgets claims and places.       *)
LEMMA ProcessPreserves ==
    ASSUME ClaimInv, StartDispatch \/ Crash
    PROVE  ClaimInv'
  <1>1. CASE StartDispatch
    <2>1. /\ lane[Main] = "idle" /\ lane' = [lane EXCEPT ![Main] = "fetch"]
          /\ claim' = claim /\ batch' = batch
      BY <1>1 DEF StartDispatch, Lanes
    <2>2. QED BY <2>1, MovePreserves DEF Lanes, LaneStates, Claimed
  <1>2. CASE Crash
    BY <1>2 DEF Crash, ClaimInv, LanesTyped, ClaimHeld, ClaimsApart, LaneStates, Claimed
  <1>3. QED BY <1>1, <1>2

LEMMA CallerPreserves ==
    ASSUME ClaimInv, NEW a \in Admitters, Admit(a) \/ Advance(a)
    PROVE  ClaimInv'
  <1>1. CASE Kick(a)
    BY <1>1, BeginPreserves DEF Kick
  <1>2. CASE ~Kick(a)
    <2>1. UNCHANGED <<lane, claim, batch>>
      BY <1>2 DEF Admit, Advance, QueueStart, SubmitUpdate, SubmitTerminal, Submit,
                  EnterLifecycle, ReadSubject, ReadStateEntry, ReadExisting, Upsert,
                  WriteSubject, BeginUpdate, Reconcile, Retire, Retired, Elsewhere, laneVars
    <2>2. QED BY <2>1, ElsewherePreserves
  <1>3. QED BY <1>1, <1>2

LEMMA ClaimNext == ClaimInv /\ [Next]_vars => ClaimInv'
  <1> SUFFICES ASSUME ClaimInv, [Next]_vars PROVE ClaimInv'
    OBVIOUS
  <1>1. CASE UNCHANGED vars
    BY <1>1, ElsewherePreserves DEF vars, laneVars
  <1>2. CASE \E a \in Admitters : Admit(a) \/ Advance(a)
    BY <1>2, CallerPreserves
  <1>3. CASE \E l \in Lanes : Deliver(l) \/ Receive(l) \/ Refused(l) \/ Rejected(l)
    BY <1>3, FetchPreserves, TakePassPreserves, DeliveryPreserves, ReleasePreserves DEF Deliver
  <1>4. CASE TimerFires \/ RetryNow
    BY <1>4, BeginPreserves DEF TimerFires, RetryNow
  <1>5. CASE Clock \/ ConfigureUrl \/ SetRunEndedEnabled \/ StopDispatch
    <2>1. UNCHANGED <<lane, claim, batch>>
      BY <1>5 DEF Clock, GraceOver, WaitOver, ConfigureUrl, SetRunEndedEnabled, StopDispatch,
                  laneVars
    <2>2. QED BY <2>1, ElsewherePreserves
  <1>6. CASE StartDispatch \/ Crash
    BY <1>6, ProcessPreserves
  <1>7. QED BY <1>1, <1>2, <1>3, <1>4, <1>5, <1>6 DEF Next, Operator

(* Lanes claim only what no lane works on (deliverClaimed).                *)
THEOREM ClaimsStayApart == Spec => []ClaimInv
  BY ClaimInit, ClaimNext, PTL DEF Spec

(* inFlightLifecycleSubjects keeps the two lanes off each other's run: no  *)
(* run has two requests under way.                                         *)
THEOREM AttemptsAreSerial == Spec => []OneAttemptPerRun
  <1>1. ClaimInv => OneAttemptPerRun
    BY DEF ClaimInv, ClaimHeld, ClaimsApart, OneAttemptPerRun, Posting, Claimed
  <1>2. QED BY <1>1, ClaimsStayApart, PTL

-----------------------------------------------------------------------------
(* Updates climb.  A level that was queued is kept from falling silent: a  *)
(* level at least as high is active or published.  So the highest of those *)
(* bounds what the receiver has taken, and an update that leaves the       *)
(* delivery boundary is that highest.                                      *)
Levels == 1..MaxLevel

Standing(box, r) == Active(box, r) \cup Published(box, r)

IsRow(row) ==
    row = [state |-> row.state, meaning |-> row.meaning, waits |-> row.waits,
           deliveredAt |-> row.deliveredAt, superseded |-> row.superseded]

IsAdmission(adm) ==
    adm = [pc |-> adm.pc, type |-> adm.type, run |-> adm.run, n |-> adm.n, k |-> adm.k,
           url |-> adm.url, read |-> adm.read, row |-> adm.row]

ClimbShapes ==
    /\ outbox = [k \in EventIds |-> outbox[k]]
    /\ \A r \in Runs, n \in Levels : IsRow(outbox[Update(r, n)])
    /\ entry = [l \in Lanes |-> entry[l]]
    /\ retiring = [p \in Lanes \cup Admitters |-> retiring[p]]
    /\ updates \in [Runs -> Seq(Lanes \cup Admitters)]
    /\ admission = [a \in Admitters |-> admission[a]]
    /\ \A a \in Admitters : IsAdmission(admission[a])

QueuedUpdate(k) == k.type = "run.update" => Queued(outbox[k])

(* What lanes know of and what the receiver took has been queued, ...      *)
KnownIsQueued ==
    /\ \A p \in received : p[1] \in EventIds /\ QueuedUpdate(p[1])
    /\ \A l \in Lanes : \A p \in batch[l] : QueuedUpdate(p[1])
    /\ \A l \in Lanes : claim[l] # NoKey => QueuedUpdate(claim[l])

(* ... and what has been queued is still said, by itself or by more.       *)
HighWater ==
    \A r \in Runs, n \in Levels :
        Queued(outbox[Update(r, n)]) => \E m \in Standing(outbox, r) : n <= m

(* The rows p has yet to supersede say less than level c of the run.       *)
Below(p, r, c) == \A k \in retiring[p] : \E n \in Levels : n < c /\ k = Update(r, n)

Covered(p, r) == \E c \in Standing(outbox, r) : Below(p, r, c)

CallerClimbs(a) ==
    LET adm == admission[a] IN
    /\ adm.pc \notin {"idle", "kick"} => adm.type \in {"run.update", "run.ended"}
    /\ adm.pc \in {"update", "reconcile", "retire"} => adm.type = "run.update"
    /\ adm.pc \in {"terminal", "stateEntry"} => adm.type = "run.ended"
    /\ adm.type = "run.ended" /\ adm.pc \in {"existing", "upsert"} => adm.k.type = "run.ended"
    /\ adm.type = "run.update" =>
          /\ adm.run \in Runs /\ adm.n \in Levels
          /\ adm.pc \in {"reconcile", "existing", "upsert", "retire"} =>
                Holds(updates[adm.run], a)
          /\ adm.pc \in {"existing", "upsert"} =>
                \E c \in Levels :
                    /\ adm.k = Update(adm.run, c) /\ Below(a, adm.run, c)
                    /\ Queued(outbox[adm.k]) =>
                          adm.pc = "existing" /\ c \in Standing(outbox, adm.run)
          /\ adm.pc = "retire" => Covered(a, adm.run)

(* No level of the run is published that the claimed one does not exceed,  *)
(* and none that the receiver took exceeds it.                             *)
OnTop(k) ==
    /\ \A m \in Published(outbox, k.run) : m < k.n
    /\ \A p \in received : p[1].type = "run.update" /\ p[1].run = k.run => p[1].n <= k.n

DueStates == {"pending", "retry", "blocked"}

LaneClimbs(l) ==
    LET k == claim[l] IN
    /\ lane[l] \in {"update", "retire", "replace"} => k.type = "run.update"
    /\ lane[l] \in {"retire", "replace"} => Holds(updates[k.run], l) /\ Covered(l, k.run)
    /\ lane[l] = "retire" => OnTop(k) \/ k \in retiring[l] \/ outbox[k].state = "delivered"
    /\ k.type = "run.update" /\ lane[l] \in {"gate", "attempted", "post"} => OnTop(k)
    /\ k.type = "run.update" /\ lane[l] \in {"gate", "attempted", "post", "received"} =>
          IsRow(entry[l]) /\ entry[l].state \in DueStates

ClimbInv ==
    /\ ClaimInv /\ ClimbShapes /\ KnownIsQueued /\ HighWater
    /\ \A a \in Admitters : CallerClimbs(a)
    /\ \A l \in Lanes : LaneClimbs(l)

-----------------------------------------------------------------------------
(* Event ids of updates, the highest level of a set, and standing levels,  *)
(* spelt out.                                                              *)
LEMMA UpdateIds ==
    /\ MaxLevel \in Nat
    /\ \A r \in Runs, n \in Levels :
          /\ Update(r, n) \in EventIds /\ Update(r, n).type = "run.update"
          /\ Update(r, n).run = r /\ Update(r, n).n = n
    /\ \A k \in EventIds : k.type = "run.update" =>
          k.run \in Runs /\ k.n \in Levels /\ k = Update(k.run, k.n)
    /\ \A k \in EventIds : k.type \in {"run.start", "run.update", "run.ended"}
  <1>1. /\ MaxLevel \in Nat
        /\ \A r \in Runs, n \in Levels :
              /\ Update(r, n) \in EventIds /\ Update(r, n).type = "run.update"
              /\ Update(r, n).run = r /\ Update(r, n).n = n
    BY OutboxAssumption DEF EventIds, Update, EventId, Levels
  <1>2. ASSUME NEW k \in EventIds
        PROVE  /\ k.type = "run.update" =>
                     k.run \in Runs /\ k.n \in Levels /\ k = Update(k.run, k.n)
               /\ k.type \in {"run.start", "run.update", "run.ended"}
    <2>1. CASE \E r \in Runs : k = Start(r)
      BY <2>1 DEF Start, EventId
    <2>2. CASE \E r \in Runs, n \in Levels : k = Update(r, n)
      BY <2>2 DEF Update, EventId
    <2>3. CASE \E r \in Runs, v \in 1..MaxVersion : k = Ended(r, v)
      BY <2>3 DEF Ended, EventId
    <2>4. QED BY <2>1, <2>2, <2>3 DEF EventIds, Levels
  <1>3. QED BY <1>1, <1>2

LEMMA HighestIs ==
    ASSUME NEW S, S \subseteq Levels
    PROVE  /\ S = {} => Highest(S) = 0
           /\ S # {} => Highest(S) \in S /\ \A m \in S : m <= Highest(S)
  <1>1. CASE S = {}
    BY <1>1 DEF Highest
  <1>2. CASE S # {}
    <2> DEFINE T == {MaxLevel - m : m \in S}
    <2>1. T \subseteq Nat /\ T # {}
      <3>1. \A m \in S : MaxLevel - m \in Nat
        BY UpdateIds DEF Levels
      <3>2. QED BY <1>2, <3>1
    <2>2. PICK t \in T : \A u \in T : ~(<<u, t>> \in OpToRel(<, Nat))
      <3> HIDE DEF T
      <3>1. \E t \in T : \A u \in T : ~(<<u, t>> \in OpToRel(<, Nat))
        BY <2>1, NatLessThanWellFounded, WFMin
      <3>2. QED BY <3>1
    <2>3. \A u \in T : ~(u < t)
      BY <2>1, <2>2 DEF OpToRel
    <2>4. PICK n \in S : t = MaxLevel - n
      OBVIOUS
    <2>5. \A m \in S : m <= n
      <3>1. TAKE m \in S
      <3>2. MaxLevel - m \in T
        OBVIOUS
      <3>3. ~(MaxLevel - m < MaxLevel - n)
        BY <2>3, <2>4, <3>2
      <3>4. m \in Nat /\ n \in Nat /\ MaxLevel \in Nat
        BY UpdateIds DEF Levels
      <3>5. QED BY <3>3, <3>4
    <2>6. QED BY <1>2, <2>5 DEF Highest
  <1>3. QED BY <1>1, <1>2

LEMMA StandingIs ==
    ASSUME NEW box, NEW r
    PROVE  /\ Active(box, r) \subseteq Levels /\ Published(box, r) \subseteq Levels
           /\ \A n \in Levels :
                 /\ n \in Active(box, r) <=>
                       box[Update(r, n)].state \notin {"absent", "delivered"}
                 /\ n \in Published(box, r) <=>
                       box[Update(r, n)].state = "delivered" /\ ~box[Update(r, n)].superseded
                 /\ n \in Standing(box, r) <=>
                       /\ Queued(box[Update(r, n)])
                       /\ box[Update(r, n)].state = "delivered" => ~box[Update(r, n)].superseded
  BY DEF Active, Published, Standing, Levels, Queued

(* What reconciliation finds: the highest level that is active or offered, *)
(* dominated if one at least as high was published.                        *)
LEMMA ReconciledIs ==
    ASSUME NEW box, NEW r, NEW n \in Levels
    PROVE  /\ Reconciled(box, r, n) \in Active(box, r) \cup {n}
           /\ Reconciled(box, r, n) \in Levels
           /\ \A m \in Active(box, r) \cup {n} : m <= Reconciled(box, r, n)
           /\ Dominated(box, r, n) =>
                 \E h \in Published(box, r) : Reconciled(box, r, n) <= h
           /\ ~Dominated(box, r, n) =>
                 \A h \in Published(box, r) : h < Reconciled(box, r, n)
  <1> DEFINE S == Active(box, r) \cup {n}
             P == Published(box, r)
  <1>1. S \subseteq Levels /\ S # {} /\ P \subseteq Levels
    BY StandingIs
  <1> HIDE DEF S, P
  <1>2. Highest(S) \in S /\ \A m \in S : m <= Highest(S)
    BY <1>1, HighestIs
  <1>3. /\ P = {} => Highest(P) = 0
        /\ P # {} => Highest(P) \in P /\ \A m \in P : m <= Highest(P)
    BY <1>1, HighestIs
  <1>4. Reconciled(box, r, n) = Highest(S) /\ (Dominated(box, r, n) <=> Highest(S) <= Highest(P))
    BY DEF Reconciled, Dominated, S, P
  <1>5. \A m \in Levels : m \in Nat /\ m > 0
    BY UpdateIds DEF Levels
  <1>6. Highest(S) \in Nat /\ Highest(S) > 0 /\ Highest(P) \in Nat
    BY <1>1, <1>2, <1>3, <1>5
  <1>7. Dominated(box, r, n) => \E h \in P : Reconciled(box, r, n) <= h
    BY <1>3, <1>4, <1>6
  <1>8. ~Dominated(box, r, n) => \A h \in P : h < Reconciled(box, r, n)
    BY <1>1, <1>3, <1>4, <1>5, <1>6
  <1>9. QED BY <1>1, <1>2, <1>4, <1>7, <1>8 DEF S, P

(* What p is to supersede after reconciliation says less than the highest. *)
LEMMA SupersededIsBelow ==
    ASSUME NEW r, NEW n \in Levels, NEW p, retiring'[p] = Superseded(outbox, r, n)
    PROVE  /\ ~Dominated(outbox, r, n) =>
                 \E c \in Levels : c = Reconciled(outbox, r, n) /\ Below(p, r, c)'
           /\ Dominated(outbox, r, n) => \E h \in Published(outbox, r) : Below(p, r, h)'
  <1> DEFINE c == Reconciled(outbox, r, n)
  <1>1. /\ c \in Levels /\ \A m \in Active(outbox, r) : m <= c
        /\ Dominated(outbox, r, n) => \E h \in Published(outbox, r) : c <= h
    BY ReconciledIs
  <1>2. \A m \in Active(outbox, r) : m \in Levels /\ m \notin Published(outbox, r)
    BY StandingIs
  <1>3. \A m \in Levels : m \in Nat
    BY UpdateIds DEF Levels
  <1>4. ASSUME ~Dominated(outbox, r, n)
        PROVE  \E d \in Levels : d = c /\ Below(p, r, d)'
    <2>0. PICK d \in Levels : d = c
      BY <1>1
    <2>1. retiring'[p] = {Update(r, m) : m \in Active(outbox, r) \ {c}}
      BY <1>4 DEF Superseded
    <2>2. \A m \in Active(outbox, r) \ {c} : m \in Levels /\ m < d
      BY <1>1, <1>2, <1>3, <2>0
    <2>3. Below(p, r, d)'
      BY <2>1, <2>2 DEF Below
    <2>4. QED BY <2>0, <2>3
  <1>5. ASSUME Dominated(outbox, r, n) PROVE \E h \in Published(outbox, r) : Below(p, r, h)'
    <2>1. retiring'[p] = {Update(r, m) : m \in Active(outbox, r)}
      BY <1>5 DEF Superseded
    <2>2. PICK h \in Published(outbox, r) : c <= h
      BY <1>1, <1>5
    <2>3. h \in Levels
      BY StandingIs
    <2>4. \A m \in Active(outbox, r) : m \in Levels /\ m < h
      <3>1. \A m \in Active(outbox, r) : m \in Nat /\ m <= c /\ m # h
        BY <1>1, <1>2, <1>3, <2>2
      <3>2. c \in Nat /\ h \in Nat /\ c <= h
        BY <1>1, <1>3, <2>2, <2>3
      <3> HIDE DEF c
      <3>3. QED BY <1>2, <3>1, <3>2
    <2>5. Below(p, r, h)'
      BY <2>1, <2>4 DEF Below
    <2>6. QED BY <2>2, <2>5
  <1>6. QED BY <1>4, <1>5

-----------------------------------------------------------------------------
(* What a step leaves of a run's levels: none falls silent, none comes up. *)
Keeps(r) ==
    \A n \in Levels :
        /\ Queued(outbox'[Update(r, n)]) <=> Queued(outbox[Update(r, n)])
        /\ n \in Standing(outbox, r) => n \in Standing(outbox', r)

SameRows == \A r \in Runs, n \in Levels : outbox'[Update(r, n)] = outbox[Update(r, n)]

(* A caller that others pass by: its lock keeps its run's levels.          *)
LEMMA CallerFrame ==
    ASSUME NEW a \in Admitters, CallerClimbs(a),
           admission'[a] = admission[a], retiring'[a] = retiring[a],
           \A r \in Runs : Holds(updates[r], a) => Holds(updates'[r], a) /\ Keeps(r)
    PROVE  CallerClimbs(a)'
  <1>1. PICK adm : adm = admission[a]
    OBVIOUS
  <1>2. \A r, c : Below(a, r, c)' <=> Below(a, r, c)
    BY DEF Below
  <1>3. ASSUME adm.type = "run.update", adm.pc \in {"reconcile", "existing", "upsert", "retire"}
        PROVE  /\ adm.run \in Runs /\ Holds(updates'[adm.run], a) /\ Keeps(adm.run)
               /\ adm.pc = "retire" => Covered(a, adm.run)'
    <2>1. adm.run \in Runs /\ Holds(updates'[adm.run], a) /\ Keeps(adm.run)
      BY <1>1, <1>3 DEF CallerClimbs
    <2>2. ASSUME adm.pc = "retire" PROVE Covered(a, adm.run)'
      <3>1. PICK c \in Standing(outbox, adm.run) : Below(a, adm.run, c)
        BY <1>1, <1>3, <2>2 DEF CallerClimbs, Covered
      <3>2. c \in Standing(outbox', adm.run)
        BY <2>1, <3>1, StandingIs DEF Keeps, Standing
      <3>3. QED BY <1>2, <3>1, <3>2 DEF Covered
    <2>3. QED BY <2>1, <2>2
  <1>4. ASSUME adm.type = "run.update", adm.pc \in {"existing", "upsert"}
        PROVE  \E c \in Levels :
                  /\ adm.k = Update(adm.run, c) /\ Below(a, adm.run, c)'
                  /\ Queued(outbox'[adm.k]) =>
                        adm.pc = "existing" /\ c \in Standing(outbox', adm.run)
    <2>1. PICK c \in Levels :
                  /\ adm.k = Update(adm.run, c) /\ Below(a, adm.run, c)
                  /\ Queued(outbox[adm.k]) =>
                        adm.pc = "existing" /\ c \in Standing(outbox, adm.run)
      BY <1>1, <1>4 DEF CallerClimbs
    <2>2. QED BY <1>2, <1>3, <1>4, <2>1 DEF Keeps
  <1>5. admission'[a] = adm
    BY <1>1
  <1>6. CallerClimbs(a)' <=>
          /\ adm.pc \notin {"idle", "kick"} => adm.type \in {"run.update", "run.ended"}
          /\ adm.pc \in {"update", "reconcile", "retire"} => adm.type = "run.update"
          /\ adm.pc \in {"terminal", "stateEntry"} => adm.type = "run.ended"
          /\ adm.type = "run.ended" /\ adm.pc \in {"existing", "upsert"} => adm.k.type = "run.ended"
          /\ adm.type = "run.update" =>
                /\ adm.run \in Runs /\ adm.n \in Levels
                /\ adm.pc \in {"reconcile", "existing", "upsert", "retire"} =>
                      Holds(updates'[adm.run], a)
                /\ adm.pc \in {"existing", "upsert"} =>
                      \E c \in Levels :
                          /\ adm.k = Update(adm.run, c) /\ Below(a, adm.run, c)'
                          /\ Queued(outbox'[adm.k]) =>
                                adm.pc = "existing" /\ c \in Standing(outbox', adm.run)
                /\ adm.pc = "retire" => Covered(a, adm.run)'
    BY <1>5 DEF CallerClimbs
  <1>7. /\ adm.pc \notin {"idle", "kick"} => adm.type \in {"run.update", "run.ended"}
        /\ adm.pc \in {"update", "reconcile", "retire"} => adm.type = "run.update"
        /\ adm.pc \in {"terminal", "stateEntry"} => adm.type = "run.ended"
        /\ adm.type = "run.ended" /\ adm.pc \in {"existing", "upsert"} => adm.k.type = "run.ended"
        /\ adm.type = "run.update" => adm.run \in Runs /\ adm.n \in Levels
    BY <1>1 DEF CallerClimbs
  <1>8. QED BY <1>3, <1>4, <1>6, <1>7

(* A lane that others pass by: they publish nothing of the run it has      *)
(* claimed and send nothing of it.                                         *)
LEMMA LaneFrame ==
    ASSUME NEW l \in Lanes, LaneClimbs(l), ClaimInv,
           lane'[l] = lane[l], claim'[l] = claim[l], entry'[l] = entry[l],
           retiring'[l] = retiring[l],
           \A r \in Runs : Holds(updates[r], l) => Holds(updates'[r], l) /\ Keeps(r),
           claim[l] # NoKey =>
              /\ Published(outbox', claim[l].run) \subseteq Published(outbox, claim[l].run)
              /\ \A p \in received' : p[1].run = claim[l].run => p \in received
              /\ claim[l].type = "run.update" /\ outbox[claim[l]].state = "delivered"
                    => outbox'[claim[l]].state = "delivered"
    PROVE  LaneClimbs(l)'
  <1>1. PICK k : k = claim[l]
    OBVIOUS
  <1>2. PICK at : at = lane[l]
    OBVIOUS
  <1>3. ASSUME at \in Claimed
        PROVE  k \in EventIds /\ k # NoKey
    BY <1>1, <1>2, <1>3 DEF ClaimInv, ClaimHeld, LanesTyped
  <1>4. ASSUME k # NoKey, OnTop(k) PROVE OnTop(k)'
    BY <1>1, <1>4 DEF OnTop
  <1>5. \A c : Below(l, k.run, c)' <=> Below(l, k.run, c)
    BY DEF Below
  <1>6. ASSUME at \in {"retire", "replace"}
        PROVE  Holds(updates'[k.run], l) /\ Covered(l, k.run)'
    <2>1. k.run \in Runs
      BY <1>1, <1>2, <1>3, <1>6, UpdateIds DEF LaneClimbs, Claimed
    <2>2. Holds(updates[k.run], l) /\ Covered(l, k.run)
      BY <1>1, <1>2, <1>6 DEF LaneClimbs
    <2>3. Holds(updates'[k.run], l) /\ Keeps(k.run)
      BY <2>1, <2>2
    <2>4. PICK c \in Standing(outbox, k.run) : Below(l, k.run, c)
      BY <2>2 DEF Covered
    <2>5. c \in Standing(outbox', k.run)
      BY <2>3, <2>4, StandingIs DEF Keeps, Standing
    <2>6. QED BY <1>5, <2>3, <2>4, <2>5 DEF Covered
  <1>7. /\ at \in {"update", "retire", "replace"} => k.type = "run.update"
        /\ at = "retire" => OnTop(k) \/ k \in retiring[l] \/ outbox[k].state = "delivered"
        /\ k.type = "run.update" /\ at \in {"gate", "attempted", "post"} => OnTop(k)
        /\ k.type = "run.update" /\ at \in {"gate", "attempted", "post", "received"} =>
              IsRow(entry[l]) /\ entry[l].state \in DueStates
    BY <1>1, <1>2 DEF LaneClimbs
  <1>8. claim'[l] = k /\ lane'[l] = at
    BY <1>1, <1>2
  <1>9. LaneClimbs(l)' <=>
        /\ at \in {"update", "retire", "replace"} => k.type = "run.update"
        /\ at \in {"retire", "replace"} => Holds(updates'[k.run], l) /\ Covered(l, k.run)'
        /\ at = "retire" => OnTop(k)' \/ k \in retiring'[l] \/ outbox'[k].state = "delivered"
        /\ k.type = "run.update" /\ at \in {"gate", "attempted", "post"} => OnTop(k)'
        /\ k.type = "run.update" /\ at \in {"gate", "attempted", "post", "received"} =>
              IsRow(entry'[l]) /\ entry'[l].state \in DueStates
    BY <1>8 DEF LaneClimbs, Covered, Below, OnTop, IsRow
  <1>10. at = "retire" => OnTop(k)' \/ k \in retiring'[l] \/ outbox'[k].state = "delivered"
    BY <1>1, <1>3, <1>4, <1>7 DEF Claimed
  <1>11. k.type = "run.update" /\ at \in {"gate", "attempted", "post"} => OnTop(k)'
    BY <1>3, <1>4, <1>7 DEF Claimed
  <1>12. QED BY <1>6, <1>7, <1>9, <1>10, <1>11 DEF IsRow

LEMMA SameRowsKeep ==
    ASSUME SameRows
    PROVE  /\ \A r \in Runs : Keeps(r) /\ Published(outbox', r) = Published(outbox, r)
                                       /\ Standing(outbox', r) = Standing(outbox, r)
           /\ \A k \in EventIds : k.type = "run.update" => outbox'[k] = outbox[k]
  <1>1. ASSUME NEW r \in Runs
        PROVE  Active(outbox', r) = Active(outbox, r) /\ Published(outbox', r) = Published(outbox, r)
    BY <1>1 DEF SameRows, Active, Published, Levels
  <1>2. QED BY <1>1, UpdateIds DEF SameRows, Keeps, Standing

(* Joining and leaving the lock of a run.                                  *)
LEMMA JoinKeeps ==
    ASSUME updates \in [Runs -> Seq(Lanes \cup Admitters)], NEW r, NEW p \in Lanes \cup Admitters,
           updates' = Join(updates, r, p)
    PROVE  /\ updates' \in [Runs -> Seq(Lanes \cup Admitters)]
           /\ \A s \in Runs : \A q : Holds(updates[s], q) => Holds(updates'[s], q)
  <1>1. ASSUME NEW s \in Runs
        PROVE  /\ updates'[s] \in {updates[s], Append(updates[s], p)}
               /\ updates[s] \in Seq(Lanes \cup Admitters)
    BY <1>1 DEF Join
  <1>2. ASSUME NEW s \in Runs, NEW q, Holds(updates[s], q)
        PROVE  Holds(updates'[s], q)
    <2>1. PICK queue : queue = updates[s] /\ queue \in Seq(Lanes \cup Admitters)
      BY <1>1
    <2>2. queue # <<>> /\ Head(queue) = q
      BY <1>2, <2>1 DEF Holds
    <2>3. Append(queue, p) # <<>> /\ Head(Append(queue, p)) = q
      BY <2>1, <2>2
    <2>4. QED BY <1>1, <2>1, <2>2, <2>3 DEF Holds
  <1>3. updates' \in [Runs -> Seq(Lanes \cup Admitters)]
    <2>1. updates' = [s \in Runs |-> updates'[s]]
      BY DEF Join
    <2>2. ASSUME NEW s \in Runs PROVE updates'[s] \in Seq(Lanes \cup Admitters)
      <3>1. PICK queue \in Seq(Lanes \cup Admitters) : queue = updates[s]
        BY <1>1, <2>2
      <3>2. Append(queue, p) \in Seq(Lanes \cup Admitters)
        OBVIOUS
      <3>3. PICK joined : joined = updates'[s]
        OBVIOUS
      <3>4. joined = queue \/ joined = Append(queue, p)
        BY <1>1, <2>2, <3>1, <3>3
      <3> QED BY <3>2, <3>3, <3>4
    <2> QED BY <2>1, <2>2
  <1>4. QED BY <1>2, <1>3

LEMMA LeaveKeeps ==
    ASSUME updates \in [Runs -> Seq(Lanes \cup Admitters)], NEW p, updates' = Leave(updates, p)
    PROVE  /\ updates' \in [Runs -> Seq(Lanes \cup Admitters)]
           /\ \A s \in Runs : \A q : q # p /\ Holds(updates[s], q) => Holds(updates'[s], q)
  BY DEF Leave, Holds

StaysQueued ==
    \A r \in Runs, n \in Levels :
        Queued(outbox[Update(r, n)]) => Queued(outbox'[Update(r, n)])

LEMMA WaterKept ==
    ASSUME HighWater, \A r \in Runs : Keeps(r)
    PROVE  HighWater'
  <1>1. ASSUME NEW r \in Runs, NEW n \in Levels, Queued(outbox'[Update(r, n)])
        PROVE  \E m \in Standing(outbox', r) : n <= m
    <2>1. PICK m \in Standing(outbox, r) : n <= m
      BY <1>1 DEF HighWater, Keeps
    <2>2. m \in Standing(outbox', r)
      BY <2>1, StandingIs DEF Keeps, Standing
    <2>3. QED BY <2>1, <2>2
  <1>2. QED BY <1>1 DEF HighWater

LEMMA KnownKept ==
    ASSUME KnownIsQueued, ClaimInv, StaysQueued,
           \A p \in received' :
               p \in received \/ \E l \in Lanes : claim[l] # NoKey /\ p[1] = claim[l],
           \A l \in Lanes : \A p \in batch'[l] :
               p \in batch[l] \/ (p[1] \in EventIds /\ Queued(outbox[p[1]])),
           \A l \in Lanes : \/ claim'[l] \in {NoKey, claim[l]}
                            \/ \E p \in batch[l] : claim'[l] = p[1]
    PROVE  KnownIsQueued'
  <1>1. ASSUME NEW k \in EventIds, QueuedUpdate(k) PROVE QueuedUpdate(k)'
    BY <1>1, UpdateIds DEF QueuedUpdate, StaysQueued
  <1>2. \A l \in Lanes : claim[l] # NoKey => claim[l] \in EventIds /\ QueuedUpdate(claim[l])
    BY DEF KnownIsQueued, ClaimInv, LanesTyped
  <1>3. \A l \in Lanes : \A p \in batch[l] : p[1] \in EventIds /\ QueuedUpdate(p[1])
    BY DEF KnownIsQueued, ClaimInv, LanesTyped
  <1>4. ASSUME NEW p \in received' PROVE p[1] \in EventIds /\ QueuedUpdate(p[1])'
    BY <1>1, <1>2, <1>4 DEF KnownIsQueued
  <1>5. ASSUME NEW l \in Lanes, NEW p \in batch'[l] PROVE QueuedUpdate(p[1])'
    BY <1>1, <1>3, <1>5 DEF QueuedUpdate
  <1>6. ASSUME NEW l \in Lanes, claim'[l] # NoKey PROVE QueuedUpdate(claim[l])'
    <2>1. PICK k \in EventIds : k = claim'[l] /\ QueuedUpdate(k)
      BY <1>2, <1>3, <1>6
    <2>2. QueuedUpdate(k)'
      BY <1>1, <2>1
    <2>3. QED BY <2>1, <2>2 DEF QueuedUpdate
  <1>7. QED BY <1>4, <1>5, <1>6 DEF KnownIsQueued

-----------------------------------------------------------------------------
(* Steps of callers.                                                       *)

(* A caller's step that changes no row of an update.                       *)
LEMMA CallerStep ==
    ASSUME ClimbInv, ClaimInv', NEW a \in Admitters, NEW adm, IsAdmission(adm),
           admission' = [admission EXCEPT ![a] = adm],
           outbox' = [k \in EventIds |-> outbox'[k]], SameRows,
           UNCHANGED <<lane, claim, entry, batch, received>>,
           retiring' = [p \in Lanes \cup Admitters |-> retiring'[p]],
           \A p \in Lanes \cup Admitters : p # a => retiring'[p] = retiring[p],
           updates' \in [Runs -> Seq(Lanes \cup Admitters)],
           \A s \in Runs : \A q : q # a /\ Holds(updates[s], q) => Holds(updates'[s], q),
           CallerClimbs(a)'
    PROVE  ClimbInv'
  <1>1. ClimbShapes'
    <2>1. \A b \in Admitters : IsAdmission(admission'[b])
      BY DEF ClimbInv, ClimbShapes
    <2>2. \A r \in Runs, n \in Levels : IsRow(outbox'[Update(r, n)])
      BY DEF ClimbInv, ClimbShapes, SameRows
    <2>3. admission' = [b \in Admitters |-> admission'[b]]
      BY DEF ClimbInv, ClimbShapes
    <2>4. QED BY <2>1, <2>2, <2>3 DEF ClimbInv, ClimbShapes, IsAdmission, IsRow
  <1>2. HighWater'
    BY WaterKept, SameRowsKeep DEF ClimbInv
  <1>3. KnownIsQueued'
    <2>1. StaysQueued
      BY DEF SameRows, StaysQueued
    <2>2. KnownIsQueued /\ ClaimInv
      BY DEF ClimbInv
    <2>3. received' = received /\ batch' = batch /\ claim' = claim
      OBVIOUS
    <2>4. ASSUME NEW p \in received'
          PROVE  p \in received \/ \E l \in Lanes : claim[l] # NoKey /\ p[1] = claim[l]
      BY <2>3
    <2>5. ASSUME NEW l \in Lanes, NEW p \in batch'[l]
          PROVE  p \in batch[l] \/ (p[1] \in EventIds /\ Queued(outbox[p[1]]))
      <3>1. batch'[l] = batch[l]
        BY <2>3
      <3>2. QED BY <3>1, <2>5
    <2>6. ASSUME NEW l \in Lanes
          PROVE  \/ claim'[l] \in {NoKey, claim[l]}
                 \/ \E p \in batch[l] : claim'[l] = p[1]
      BY <2>3
    <2>7. QED BY <2>1, <2>2, <2>4, <2>5, <2>6, KnownKept
  <1>4. ASSUME NEW b \in Admitters PROVE CallerClimbs(b)'
    <2>1. CASE b = a
      BY <2>1
    <2>2. CASE b # a
      <3>1. admission'[b] = admission[b] /\ retiring'[b] = retiring[b]
        BY <2>2 DEF ClimbInv, ClimbShapes
      <3>2. QED BY <2>2, <3>1, CallerFrame, SameRowsKeep DEF ClimbInv
    <2>3. QED BY <2>1, <2>2
  <1>5. ASSUME NEW l \in Lanes PROVE LaneClimbs(l)'
    <2>1. l # a
      BY DispatchAssumption DEF Lanes, Main, Anchor
    <2>2. claim[l] # NoKey => claim[l] \in EventIds
      BY DEF ClimbInv, ClaimInv, LanesTyped
    <2>3. claim[l] # NoKey => claim[l].run \in Runs
      BY <2>2 DEF EventIds, EventId, Start, Update, Ended
    <2>4. claim[l] # NoKey =>
              /\ Published(outbox', claim[l].run) = Published(outbox, claim[l].run)
              /\ claim[l].type = "run.update" => outbox'[claim[l]] = outbox[claim[l]]
      BY <2>2, <2>3, SameRowsKeep
    <2>5. \A r \in Runs : Holds(updates[r], l) => Holds(updates'[r], l) /\ Keeps(r)
      BY <2>1, SameRowsKeep
    <2>6. QED BY <2>1, <2>4, <2>5, LaneFrame DEF ClimbInv
  <1>6. QED BY <1>1, <1>2, <1>3, <1>4, <1>5 DEF ClimbInv

(* Where a caller is before and after its updates are reconciled.          *)
LEMMA CallerPlain ==
    ASSUME NEW a \in Admitters, NEW adm, admission'[a] = adm,
           adm.pc # "retire",
           adm.pc \in {"update", "reconcile"} => adm.type = "run.update",
           adm.pc \in {"terminal", "stateEntry"} => adm.type = "run.ended",
           adm.pc \in {"existing", "upsert"} => adm.type = "run.ended" /\ adm.k.type = "run.ended",
           adm.pc \notin {"idle", "kick"} => adm.type \in {"run.update", "run.ended"},
           adm.type = "run.update" => adm.run \in Runs /\ adm.n \in Levels,
           adm.pc = "reconcile" /\ adm.type = "run.update" => Holds(updates'[adm.run], a)
    PROVE  CallerClimbs(a)'
  BY DEF CallerClimbs

(* A row of a start or of a terminal changes no row of an update.          *)
LEMMA OtherRow ==
    ASSUME ClimbShapes, NEW k, k.type # "run.update", NEW row,
           outbox' = [outbox EXCEPT ![k] = row]
    PROVE  SameRows /\ outbox' = [j \in EventIds |-> outbox'[j]]
  <1>1. outbox' = [j \in EventIds |-> outbox'[j]]
    BY DEF ClimbShapes
  <1>2. \A j \in EventIds : j # k => outbox'[j] = outbox[j]
    BY DEF ClimbShapes
  <1>3. \A r \in Runs, n \in Levels : Update(r, n) \in EventIds /\ Update(r, n) # k
    BY UpdateIds
  <1>4. QED BY <1>1, <1>2, <1>3 DEF SameRows

(* A caller's step that writes at most a row of another event, and joins or*)
(* leaves at most one lock.                                                *)
LEMMA QuietCaller ==
    ASSUME ClimbInv, ClaimInv', NEW a \in Admitters, NEW adm, IsAdmission(adm),
           admission' = [admission EXCEPT ![a] = adm],
           \/ outbox' = outbox
           \/ \E k, row : k.type # "run.update" /\ outbox' = [outbox EXCEPT ![k] = row],
           UNCHANGED <<lane, claim, entry, batch, received, retiring>>,
           \/ updates' = updates
           \/ \E r : updates' = Join(updates, r, a)
           \/ updates' = Leave(updates, a),
           CallerClimbs(a)'
    PROVE  ClimbInv'
  <1>1. SameRows /\ outbox' = [k \in EventIds |-> outbox'[k]]
    <2>1. CASE outbox' = outbox
      BY <2>1 DEF SameRows, ClimbInv, ClimbShapes
    <2>2. CASE \E k, row : k.type # "run.update" /\ outbox' = [outbox EXCEPT ![k] = row]
      BY <2>2, OtherRow DEF ClimbInv
    <2>3. QED BY <2>1, <2>2
  <1>2. /\ updates' \in [Runs -> Seq(Lanes \cup Admitters)]
        /\ \A s \in Runs : \A q : q # a /\ Holds(updates[s], q) => Holds(updates'[s], q)
    <2>1. updates \in [Runs -> Seq(Lanes \cup Admitters)]
      BY DEF ClimbInv, ClimbShapes
    <2>2. CASE updates' = updates
      BY <2>1, <2>2
    <2>3. CASE \E r : updates' = Join(updates, r, a)
      BY <2>1, <2>3, JoinKeeps
    <2>4. CASE updates' = Leave(updates, a)
      BY <2>1, <2>4, LeaveKeeps
    <2>5. QED BY <2>2, <2>3, <2>4
  <1>3. retiring' = [p \in Lanes \cup Admitters |-> retiring'[p]]
    BY DEF ClimbInv, ClimbShapes
  <1>4. QED BY <1>1, <1>2, <1>3, CallerStep

(* A caller that is done.                                                  *)
LEMMA FinishClimbs ==
    ASSUME ClimbInv, ClaimInv', NEW a \in Admitters, NEW queued \in BOOLEAN, Finish(a, queued),
           outbox' = outbox, UNCHANGED <<lane, claim, entry, batch, received, retiring>>
    PROVE  ClimbInv'
  <1>1. PICK adm : adm = IF queued THEN [AtRest EXCEPT !.pc = "kick"] ELSE AtRest
    OBVIOUS
  <1>2. IsAdmission(adm) /\ adm.pc \in {"idle", "kick"} /\ adm.type = "run.start"
    BY <1>1 DEF AtRest, IsAdmission
  <1>3. admission' = [admission EXCEPT ![a] = adm] /\ updates' = Leave(updates, a)
    BY <1>1 DEF Finish, Becomes, LeaveAll
  <1>4. admission'[a] = adm
    BY <1>3 DEF ClimbInv, ClimbShapes
  <1>5. CallerClimbs(a)'
    BY <1>2, <1>4, CallerPlain
  <1>6. QED BY <1>2, <1>3, <1>5, QuietCaller

(* Queueing a start, submitting, waiting for locks, and all of a terminal's*)
(* way but the upsert.                                                     *)
LEMMA SubmitClimbs ==
    ASSUME ClimbInv, ClaimInv', NEW a \in Admitters, Admit(a)
    PROVE  ClimbInv'
  <1>1. ASSUME NEW r \in Runs, QueueStart(a, r) PROVE ClimbInv'
    <2>1. PICK adm : adm = [AtRest EXCEPT !.pc = "kick"]
      OBVIOUS
    <2>2. IsAdmission(adm) /\ adm.pc = "kick" /\ adm.type = "run.start"
      BY <2>1 DEF AtRest, IsAdmission
    <2>3. admission' = [admission EXCEPT ![a] = adm]
      BY <1>1, <2>1 DEF QueueStart, Becomes
    <2>4. \E k, row : k.type # "run.update" /\ outbox' = [outbox EXCEPT ![k] = row]
      <3>1. Start(r).type # "run.update"
        BY DEF Start, EventId
      <3>2. QED BY <1>1, <3>1 DEF QueueStart
    <2>5. UNCHANGED <<lane, claim, entry, batch, received, retiring, updates>>
      BY <1>1 DEF QueueStart, Elsewhere, laneVars, lockVars
    <2>6. admission'[a] = adm
      BY <2>3 DEF ClimbInv, ClimbShapes
    <2>7. CallerClimbs(a)'
      BY <2>2, <2>6, CallerPlain
    <2>8. QED BY <2>2, <2>3, <2>4, <2>5, <2>7, QuietCaller
  <1>2. ASSUME NEW r \in Runs, NEW type \in {"run.update", "run.ended"}, NEW n,
               type = "run.update" => n \in Levels, Submit(a, r, type, n)
        PROVE  ClimbInv'
    <2>1. PICK pc \in {"lifecycle", "terminal", "update"} :
              /\ admission' = [admission EXCEPT ![a] =
                                 [AtRest EXCEPT !.pc = pc, !.type = type, !.run = r, !.n = n]]
              /\ pc = "terminal" => type = "run.ended"
              /\ pc = "update" => type = "run.update"
      BY <1>2 DEF Submit, Becomes
    <2>2. PICK adm : adm = [AtRest EXCEPT !.pc = pc, !.type = type, !.run = r, !.n = n]
      OBVIOUS
    <2>3. IsAdmission(adm) /\ adm.pc = pc /\ adm.type = type /\ adm.run = r /\ adm.n = n
      BY <2>2 DEF AtRest, IsAdmission
    <2>4. admission' = [admission EXCEPT ![a] = adm]
      BY <2>1, <2>2
    <2>5. updates' = updates \/ \E s : updates' = Join(updates, s, a)
      BY <1>2 DEF Submit
    <2>6. outbox' = outbox /\ UNCHANGED <<lane, claim, entry, batch, received, retiring>>
      BY <1>2 DEF Submit, Elsewhere, laneVars
    <2>7. admission'[a] = adm
      BY <2>4 DEF ClimbInv, ClimbShapes
    <2>8. CallerClimbs(a)'
      BY <1>2, <2>1, <2>3, <2>7, CallerPlain
    <2>9. QED BY <2>3, <2>4, <2>5, <2>6, <2>8, QuietCaller
  <1>3. ASSUME SubmitUpdate(a) PROVE ClimbInv'
    BY <1>2, <1>3 DEF SubmitUpdate, Levels
  <1>4. ASSUME SubmitTerminal(a) PROVE ClimbInv'
    <2>1. PICK r \in Runs, m \in 1..MaxMeaning : Submit(a, r, "run.ended", m)
      BY <1>4 DEF SubmitTerminal
    <2>2. QED BY <1>2, <2>1
  <1>5. QED BY <1>1, <1>3, <1>4 DEF Admit

LEMMA WaitClimbs ==
    ASSUME ClimbInv, ClaimInv', NEW a \in Admitters,
           EnterLifecycle(a) \/ ReadSubject(a) \/ ReadStateEntry(a) \/ BeginUpdate(a)
    PROVE  ClimbInv'
  <1>0. PICK adm : adm = admission[a]
    OBVIOUS
  <1>1. IsAdmission(adm) /\ CallerClimbs(a)
    BY <1>0 DEF ClimbInv, ClimbShapes
  <1>2. ASSUME NEW new, IsAdmission(new), admission' = [admission EXCEPT ![a] = new],
               outbox' = outbox, UNCHANGED <<lane, claim, entry, batch, received, retiring>>,
               \/ updates' = updates
               \/ \E r : updates' = Join(updates, r, a)
               \/ updates' = Leave(updates, a),
               new.pc # "retire",
               new.pc \in {"update", "reconcile"} => new.type = "run.update",
               new.pc \in {"terminal", "stateEntry"} => new.type = "run.ended",
               new.pc \in {"existing", "upsert"} => new.type = "run.ended" /\ new.k.type = "run.ended",
               new.pc \notin {"idle", "kick"} => new.type \in {"run.update", "run.ended"},
               new.type = "run.update" => new.run \in Runs /\ new.n \in Levels,
               new.pc = "reconcile" /\ new.type = "run.update" => Holds(updates'[new.run], a)
        PROVE  ClimbInv'
    <2>1. admission'[a] = new
      BY <1>2 DEF ClimbInv, ClimbShapes
    <2>2. CallerClimbs(a)'
      BY <1>2, <2>1, CallerPlain
    <2>3. QED BY <1>2, <2>2, QuietCaller
  <1>3. ASSUME EnterLifecycle(a) PROVE ClimbInv'
    <2>1. PICK pc \in {"terminal", "update"} :
              /\ admission' = [admission EXCEPT ![a] = [adm EXCEPT !.pc = pc]]
              /\ adm.type = IF pc = "terminal" THEN "run.ended" ELSE "run.update"
              /\ adm.pc = "lifecycle"
      BY <1>0, <1>3 DEF EnterLifecycle, Goes, Becomes, At
    <2>2. PICK new : new = [adm EXCEPT !.pc = pc]
      OBVIOUS
    <2>3. IsAdmission(new) /\ new.pc = pc /\ new.type = adm.type /\ new.run = adm.run /\ new.n = adm.n
      BY <1>1, <2>2 DEF IsAdmission
    <2>4. updates' = updates \/ \E s : updates' = Join(updates, s, a)
      BY <1>3 DEF EnterLifecycle
    <2>5. outbox' = outbox /\ UNCHANGED <<lane, claim, entry, batch, received, retiring>>
      BY <1>3 DEF EnterLifecycle, Elsewhere, laneVars
    <2>6. adm.type = "run.update" => adm.run \in Runs /\ adm.n \in Levels
      BY <1>0, <1>1 DEF CallerClimbs
    <2>7. QED BY <1>2, <2>1, <2>2, <2>3, <2>4, <2>5, <2>6
  <1>4. ASSUME ReadSubject(a) PROVE ClimbInv'
    <2>1. PICK new : new = [adm EXCEPT !.pc = "stateEntry", !.read = subject[adm.run]]
      OBVIOUS
    <2>2. /\ IsAdmission(new) /\ new.pc = "stateEntry"
          /\ new.type = adm.type /\ new.run = adm.run /\ new.n = adm.n
      BY <1>1, <2>1 DEF IsAdmission
    <2>3. /\ admission' = [admission EXCEPT ![a] = new] /\ adm.pc = "terminal"
          /\ updates' = updates /\ outbox' = outbox
          /\ UNCHANGED <<lane, claim, entry, batch, received, retiring>>
      BY <1>0, <1>4, <2>1 DEF ReadSubject, Becomes, At, Elsewhere, laneVars, lockVars
    <2>4. adm.type = "run.ended"
      BY <1>0, <1>1, <2>3 DEF CallerClimbs
    <2>5. QED BY <1>2, <2>2, <2>3, <2>4
  <1>5. ASSUME ReadStateEntry(a) PROVE ClimbInv'
    <2>1. /\ adm.pc = "stateEntry" /\ outbox' = outbox
          /\ UNCHANGED <<lane, claim, entry, batch, received, retiring>>
      BY <1>0, <1>5 DEF ReadStateEntry, At, Elsewhere, laneVars
    <2>2. adm.type = "run.ended"
      BY <1>0, <1>1, <2>1 DEF CallerClimbs
    <2>3. CASE Finish(a, FALSE)
      BY <2>1, <2>3, FinishClimbs
    <2>4. CASE ~Finish(a, FALSE)
      <3> DEFINE row == StateEntry(adm.run, adm.read)
      <3>0. PICK n, v : n = Revision(adm.n, row) /\ v = NextVersion(adm.read, row)
        OBVIOUS
      <3> HIDE DEF row
      <3>1. PICK url : /\ admission' = [admission EXCEPT ![a] =
                               [adm EXCEPT !.pc = "existing", !.n = n, !.url = url,
                                           !.k = Ended(adm.run, v)]]
                       /\ updates' = updates
        BY <1>0, <1>5, <2>4, <3>0 DEF ReadStateEntry, Becomes, lockVars, row
      <3>2. PICK new : new = [adm EXCEPT !.pc = "existing", !.n = n, !.url = url,
                                         !.k = Ended(adm.run, v)]
        OBVIOUS
      <3>3. /\ IsAdmission(new) /\ new.pc = "existing" /\ new.type = adm.type
            /\ new.k.type = "run.ended"
        BY <1>1, <3>2 DEF IsAdmission, Ended, EventId
      <3>4. QED BY <1>2, <2>1, <2>2, <3>1, <3>2, <3>3
    <2>5. QED BY <2>3, <2>4
  <1>6. ASSUME BeginUpdate(a) PROVE ClimbInv'
    <2>1. /\ adm.pc = "update" /\ Holds(updates[adm.run], a) /\ outbox' = outbox
          /\ UNCHANGED <<lane, claim, entry, batch, received, retiring>>
      BY <1>0, <1>6 DEF BeginUpdate, At, Elsewhere, laneVars
    <2>2. adm.type = "run.update" /\ adm.run \in Runs /\ adm.n \in Levels
      BY <1>0, <1>1, <2>1 DEF CallerClimbs
    <2>3. CASE Finish(a, FALSE)
      BY <2>1, <2>3, FinishClimbs
    <2>4. CASE ~Finish(a, FALSE)
      <3>1. PICK new : new = [adm EXCEPT !.pc = "reconcile", !.url = config.url]
        OBVIOUS
      <3>2. /\ admission' = [admission EXCEPT ![a] = new] /\ updates' = updates
        BY <1>0, <1>6, <2>4, <3>1 DEF BeginUpdate, Becomes, lockVars
      <3>3. /\ IsAdmission(new) /\ new.pc = "reconcile" /\ new.type = adm.type
            /\ new.run = adm.run /\ new.n = adm.n
        BY <1>1, <3>1 DEF IsAdmission
      <3>4. QED BY <1>2, <2>1, <2>2, <3>2, <3>3
    <2>5. QED BY <2>3, <2>4
  <1>7. QED BY <1>3, <1>4, <1>5, <1>6

(* The row under the event id is read; a row already there still stands.   *)
LEMMA ExistingClimbs ==
    ASSUME ClimbInv, ClaimInv', NEW a \in Admitters, ReadExisting(a)
    PROVE  ClimbInv'
  <1>0. PICK adm : adm = admission[a]
    OBVIOUS
  <1>1. IsAdmission(adm) /\ CallerClimbs(a)
    BY <1>0 DEF ClimbInv, ClimbShapes
  <1>2. /\ adm.pc = "existing" /\ outbox' = outbox
        /\ UNCHANGED <<lane, claim, entry, batch, received, retiring>>
    BY <1>0 DEF ReadExisting, At, Elsewhere, laneVars
  <1>3. PICK row : row = outbox[adm.k]
    OBVIOUS
  <1>4. adm.type \in {"run.update", "run.ended"}
    BY <1>0, <1>1, <1>2 DEF CallerClimbs
  <1>5. adm.type = "run.ended" => adm.k.type = "run.ended"
    BY <1>0, <1>1, <1>2 DEF CallerClimbs
  <1>6. ASSUME adm.type = "run.update"
        PROVE  /\ adm.run \in Runs /\ adm.n \in Levels /\ Holds(updates[adm.run], a)
               /\ \E c \in Levels :
                     /\ adm.k = Update(adm.run, c) /\ Below(a, adm.run, c)
                     /\ Queued(row) => c \in Standing(outbox, adm.run)
    BY <1>0, <1>1, <1>2, <1>3, <1>6 DEF CallerClimbs
  <1>7. CASE Finish(a, FALSE)
    BY <1>2, <1>7, FinishClimbs
  <1>8. CASE ~SamePayload(row, adm)
    <2>1. PICK new : new = [adm EXCEPT !.pc = "upsert", !.row = row]
      OBVIOUS
    <2>2. admission' = [admission EXCEPT ![a] = new] /\ updates' = updates
      BY <1>0, <1>3, <1>8, <2>1 DEF ReadExisting, Becomes, lockVars
    <2>3. /\ IsAdmission(new) /\ new.pc = "upsert" /\ new.type = adm.type
          /\ new.run = adm.run /\ new.n = adm.n /\ new.k = adm.k
      BY <1>1, <2>1 DEF IsAdmission
    <2>4. admission'[a] = new
      BY <2>2 DEF ClimbInv, ClimbShapes
    <2>5. adm.type = "run.update" => ~Queued(row)
      BY <1>8 DEF SamePayload
    <2>6. CallerClimbs(a)'
      BY <1>2, <1>3, <1>4, <1>5, <1>6, <2>2, <2>3, <2>4, <2>5 DEF CallerClimbs, Below
    <2>7. QED BY <1>2, <2>2, <2>3, <2>6, QuietCaller
  <1>9. CASE SamePayload(row, adm) /\ ~Finish(a, FALSE)
    <2>1. adm.type = "run.update" /\ Queued(row)
      BY <1>0, <1>3, <1>4, <1>9 DEF ReadExisting, SamePayload
    <2>2. PICK new : new = [adm EXCEPT !.pc = "retire", !.k = NoKey]
      OBVIOUS
    <2>3. admission' = [admission EXCEPT ![a] = new] /\ updates' = updates
      BY <1>0, <1>3, <1>9, <2>1, <2>2 DEF ReadExisting, Becomes, lockVars
    <2>4. /\ IsAdmission(new) /\ new.pc = "retire" /\ new.type = adm.type
          /\ new.run = adm.run /\ new.n = adm.n
      BY <1>1, <2>2 DEF IsAdmission
    <2>5. admission'[a] = new
      BY <2>3 DEF ClimbInv, ClimbShapes
    <2>6. \E c \in Standing(outbox', adm.run) : Below(a, adm.run, c)'
      BY <1>2, <1>6, <2>1 DEF Below
    <2>7. CallerClimbs(a)'
      BY <1>6, <2>1, <2>3, <2>4, <2>5, <2>6 DEF CallerClimbs, Covered
    <2>8. QED BY <1>2, <2>3, <2>4, <2>7, QuietCaller
  <1>10. QED BY <1>7, <1>8, <1>9

(* The subject is written, or the superseded rows are all retired.         *)
LEMMA DoneClimbs ==
    ASSUME ClimbInv, ClaimInv', NEW a \in Admitters, WriteSubject(a) \/ Retired(a)
    PROVE  ClimbInv'
  <1>1. PICK queued \in BOOLEAN : Finish(a, queued)
    BY DEF WriteSubject, Retired
  <1>2. outbox' = outbox /\ UNCHANGED <<lane, claim, entry, batch, received, retiring>>
    BY DEF WriteSubject, Retired, Elsewhere, laneVars
  <1>3. QED BY <1>1, <1>2, FinishClimbs

LEMMA ReconcileClimbs ==
    ASSUME ClimbInv, ClaimInv', NEW a \in Admitters, Reconcile(a)
    PROVE  ClimbInv'
  <1>0. PICK adm : adm = admission[a]
    OBVIOUS
  <1>1. IsAdmission(adm) /\ CallerClimbs(a)
    BY <1>0 DEF ClimbInv, ClimbShapes
  <1>2. PICK r, n : r = adm.run /\ n = adm.n
    OBVIOUS
  <1>3. /\ adm.pc = "reconcile" /\ outbox' = outbox /\ updates' = updates
        /\ UNCHANGED <<lane, claim, entry, batch, received>>
        /\ retiring' = [retiring EXCEPT ![a] = Superseded(outbox, r, n)]
    BY <1>0, <1>2 DEF Reconcile, At, Elsewhere, laneVars, lockVars
  <1>4. adm.type = "run.update" /\ r \in Runs /\ n \in Levels /\ Holds(updates[r], a)
    BY <1>0, <1>1, <1>2, <1>3 DEF CallerClimbs
  <1>5. retiring'[a] = Superseded(outbox, r, n)
    BY <1>3 DEF ClimbInv, ClimbShapes
  <1>6. ASSUME NEW new, IsAdmission(new), admission' = [admission EXCEPT ![a] = new],
               CallerClimbs(a)'
        PROVE  ClimbInv'
    <2>1. SameRows /\ outbox' = [k \in EventIds |-> outbox'[k]]
      BY <1>3 DEF SameRows, ClimbInv, ClimbShapes
    <2>2. /\ retiring' = [p \in Lanes \cup Admitters |-> retiring'[p]]
          /\ \A p \in Lanes \cup Admitters : p # a => retiring'[p] = retiring[p]
      BY <1>3 DEF ClimbInv, ClimbShapes
    <2>3. /\ updates' \in [Runs -> Seq(Lanes \cup Admitters)]
          /\ \A s \in Runs : \A q : q # a /\ Holds(updates[s], q) => Holds(updates'[s], q)
      BY <1>3 DEF ClimbInv, ClimbShapes
    <2>4. QED BY <1>3, <1>6, <2>1, <2>2, <2>3, CallerStep
  <1>7. CASE Dominated(outbox, r, n)
    <2>1. PICK new : new = [adm EXCEPT !.pc = "retire"]
      OBVIOUS
    <2>2. admission' = [admission EXCEPT ![a] = new]
      BY <1>0, <1>2, <1>7, <2>1 DEF Reconcile, Goes, Becomes
    <2>3. /\ IsAdmission(new) /\ new.pc = "retire" /\ new.type = adm.type
          /\ new.run = r /\ new.n = n
      BY <1>1, <1>2, <2>1 DEF IsAdmission
    <2>4. admission'[a] = new
      BY <2>2 DEF ClimbInv, ClimbShapes
    <2>5. PICK h \in Published(outbox, r) : Below(a, r, h)'
      BY <1>4, <1>5, <1>7, SupersededIsBelow
    <2>6. Covered(a, r)'
      BY <1>3, <2>5 DEF Covered, Standing
    <2>7. CallerClimbs(a)'
      BY <1>3, <1>4, <2>3, <2>4, <2>6 DEF CallerClimbs, Covered, Below
    <2>8. QED BY <1>6, <2>2, <2>3, <2>7
  <1>8. CASE ~Dominated(outbox, r, n)
    <2>1. PICK c \in Levels : c = Reconciled(outbox, r, n) /\ Below(a, r, c)'
      BY <1>4, <1>5, <1>8, SupersededIsBelow
    <2>2. PICK new : new = [adm EXCEPT !.pc = "existing", !.k = Update(r, c)]
      OBVIOUS
    <2>3. admission' = [admission EXCEPT ![a] = new]
      BY <1>0, <1>2, <1>8, <2>1, <2>2 DEF Reconcile, Goes, Becomes
    <2>4. /\ IsAdmission(new) /\ new.pc = "existing" /\ new.type = adm.type
          /\ new.run = r /\ new.n = n /\ new.k = Update(r, c)
      BY <1>1, <1>2, <2>2 DEF IsAdmission
    <2>5. admission'[a] = new
      BY <2>3 DEF ClimbInv, ClimbShapes
    <2>6. ASSUME Queued(outbox[Update(r, c)]) PROVE c \in Standing(outbox, r)
      <3>1. PICK m \in Standing(outbox, r) : c <= m
        BY <1>4, <2>6 DEF ClimbInv, HighWater
      <3>2. /\ \A h \in Published(outbox, r) : h < c
            /\ \A h \in Active(outbox, r) : h <= c
        BY <1>4, <1>8, <2>1, ReconciledIs
      <3>3. m \in Levels
        BY StandingIs DEF Standing
      <3>4. c \in Nat /\ m \in Nat
        BY <3>3, UpdateIds DEF Levels
      <3>5. m = c
        BY <3>1, <3>2, <3>4 DEF Standing
      <3>6. QED BY <3>1, <3>5
    <2>7. CallerClimbs(a)'
      BY <1>3, <1>4, <2>1, <2>4, <2>5, <2>6 DEF CallerClimbs, Below
    <2>8. QED BY <1>6, <2>3, <2>4, <2>7
  <1>9. QED BY <1>7, <1>8

(* A caller's write of an update, inside the lock for updates of the run.  *)
LEMMA CallerWrites ==
    ASSUME ClimbInv, ClaimInv', NEW a \in Admitters, NEW adm, IsAdmission(adm),
           admission' = [admission EXCEPT ![a] = adm],
           NEW r \in Runs, Holds(updates[r], a), UNCHANGED updates,
           outbox' = [k \in EventIds |-> outbox'[k]],
           \A s \in Runs, n \in Levels : IsRow(outbox'[Update(s, n)]),
           StaysQueued, HighWater', \A s \in Runs : s # r => Keeps(s),
           \A s \in Runs : Published(outbox', s) \subseteq Published(outbox, s),
           \A k \in EventIds : k.type = "run.update" /\ outbox[k].state = "delivered"
                                   => outbox'[k].state = "delivered",
           UNCHANGED <<lane, claim, entry, batch, received>>,
           retiring' = [p \in Lanes \cup Admitters |-> retiring'[p]],
           \A p \in Lanes \cup Admitters : p # a => retiring'[p] = retiring[p],
           CallerClimbs(a)'
    PROVE  ClimbInv'
  <1>1. ClimbShapes'
    <2>1. admission' = [b \in Admitters |-> admission'[b]]
      BY DEF ClimbInv, ClimbShapes
    <2>2. \A b \in Admitters : IsAdmission(admission'[b])
      BY DEF ClimbInv, ClimbShapes
    <2>3. QED BY <2>1, <2>2 DEF ClimbInv, ClimbShapes, IsAdmission, IsRow
  <1>2. KnownIsQueued'
    <2>1. KnownIsQueued /\ ClaimInv
      BY DEF ClimbInv
    <2>2. \A p \in received' :
              p \in received \/ \E l \in Lanes : claim[l] # NoKey /\ p[1] = claim[l]
      OBVIOUS
    <2>3. \A l \in Lanes : batch'[l] = batch[l]
      OBVIOUS
    <2>4. \A l \in Lanes : claim'[l] \in {NoKey, claim[l]}
      OBVIOUS
    <2>5. QED BY <2>1, <2>2, <2>3, <2>4, KnownKept
  <1>3. \A s \in Runs : \A q : q # a /\ Holds(updates[s], q) => Holds(updates'[s], q) /\ Keeps(s)
    BY DEF Holds
  <1>4. ASSUME NEW b \in Admitters PROVE CallerClimbs(b)'
    <2>1. CASE b = a
      BY <2>1
    <2>2. CASE b # a
      <3>1. admission'[b] = admission[b] /\ retiring'[b] = retiring[b]
        BY <2>2 DEF ClimbInv, ClimbShapes
      <3>2. CallerClimbs(b)
        BY DEF ClimbInv
      <3>3. QED BY <1>3, <2>2, <3>1, <3>2, CallerFrame
    <2>3. QED BY <2>1, <2>2
  <1>5. ASSUME NEW l \in Lanes PROVE LaneClimbs(l)'
    <2>1. l # a /\ retiring'[l] = retiring[l]
      BY DispatchAssumption DEF Lanes, Main, Anchor
    <2>2. claim[l] # NoKey => claim[l] \in EventIds
      BY DEF ClimbInv, ClaimInv, LanesTyped
    <2>3. claim[l] # NoKey => claim[l].run \in Runs
      BY <2>2 DEF EventIds, EventId, Start, Update, Ended
    <2>4. claim[l] # NoKey =>
              /\ Published(outbox', claim[l].run) \subseteq Published(outbox, claim[l].run)
              /\ claim[l].type = "run.update" /\ outbox[claim[l]].state = "delivered"
                    => outbox'[claim[l]].state = "delivered"
      BY <2>2, <2>3
    <2>5. \A s \in Runs : Holds(updates[s], l) => Holds(updates'[s], l) /\ Keeps(s)
      BY <1>3, <2>1
    <2>6. LaneClimbs(l) /\ ClaimInv
      BY DEF ClimbInv
    <2>7. QED BY <2>1, <2>4, <2>5, <2>6, LaneFrame
  <1>6. QED BY <1>1, <1>2, <1>4, <1>5 DEF ClimbInv

LEMMA RowsApart ==
    ASSUME NEW r \in Runs, NEW n \in Levels, NEW s \in Runs, NEW m \in Levels,
           Update(r, n) = Update(s, m)
    PROVE  r = s /\ n = m
  BY DEF Update, EventId

(* One row of an update is written.                                        *)
LEMMA OneRow ==
    ASSUME ClimbShapes, NEW r \in Runs, NEW n \in Levels, NEW row, IsRow(row),
           outbox' = [outbox EXCEPT ![Update(r, n)] = row]
    PROVE  /\ outbox' = [k \in EventIds |-> outbox'[k]]
           /\ outbox'[Update(r, n)] = row
           /\ \A s \in Runs, m \in Levels :
                 /\ IsRow(outbox'[Update(s, m)])
                 /\ s # r \/ m # n => outbox'[Update(s, m)] = outbox[Update(s, m)]
           /\ \A k \in EventIds : k # Update(r, n) => outbox'[k] = outbox[k]
           /\ \A s \in Runs : s # r =>
                 Keeps(s) /\ Published(outbox', s) = Published(outbox, s)
  <1>1. Update(r, n) \in EventIds
    BY UpdateIds
  <1>2. /\ outbox' = [k \in EventIds |-> outbox'[k]] /\ outbox'[Update(r, n)] = row
        /\ \A k \in EventIds : k # Update(r, n) => outbox'[k] = outbox[k]
    BY <1>1 DEF ClimbShapes
  <1>3. ASSUME NEW s \in Runs, NEW m \in Levels
        PROVE  /\ IsRow(outbox'[Update(s, m)])
               /\ s # r \/ m # n => outbox'[Update(s, m)] = outbox[Update(s, m)]
    <2>1. IsRow(outbox[Update(s, m)])
      BY DEF ClimbShapes
    <2>2. CASE s = r /\ m = n
      BY <1>2, <2>2
    <2>3. CASE s # r \/ m # n
      <3>1. Update(s, m) # Update(r, n)
        BY <2>3, RowsApart
      <3>2. outbox'[Update(s, m)] = outbox[Update(s, m)]
        BY <1>2, <3>1, UpdateIds
      <3>3. QED BY <2>1, <3>2
    <2>4. QED BY <2>2, <2>3
  <1>4. ASSUME NEW s \in Runs, s # r
        PROVE  Keeps(s) /\ Published(outbox', s) = Published(outbox, s)
    <2>1. \A m \in Levels : outbox'[Update(s, m)] = outbox[Update(s, m)]
      BY <1>3, <1>4
    <2>2. /\ Active(outbox', s) = Active(outbox, s)
          /\ Published(outbox', s) = Published(outbox, s)
      BY <2>1 DEF Active, Published, Levels
    <2>3. QED BY <2>1, <2>2 DEF Keeps, Standing
  <1>5. QED BY <1>2, <1>3, <1>4

LEMMA UpsertClimbs ==
    ASSUME ClimbInv, ClaimInv', NEW a \in Admitters, Upsert(a)
    PROVE  ClimbInv'
  <1>0. PICK adm : adm = admission[a]
    OBVIOUS
  <1>1. IsAdmission(adm) /\ CallerClimbs(a)
    BY <1>0 DEF ClimbInv, ClimbShapes
  <1>2. /\ adm.pc = "upsert" /\ UNCHANGED <<lane, claim, entry, batch, received, retiring, updates>>
    BY <1>0 DEF Upsert, At, Elsewhere, laneVars, lockVars
  <1>3. PICK row : /\ outbox' = [outbox EXCEPT ![adm.k] = row]
                   /\ IsRow(row) /\ row.state \in {"pending", "blocked"}
    <2>1. PICK waits \in Waits(adm) :
              outbox' = [outbox EXCEPT ![adm.k] =
                  [state |-> IF adm.url THEN "pending" ELSE "blocked",
                   meaning |-> IF adm.type = "run.ended" THEN adm.n ELSE 0,
                   waits |-> waits, deliveredAt |-> adm.row.deliveredAt,
                   superseded |-> FALSE]]
      BY <1>0 DEF Upsert
    <2>2. PICK row : row = [state |-> IF adm.url THEN "pending" ELSE "blocked",
                            meaning |-> IF adm.type = "run.ended" THEN adm.n ELSE 0,
                            waits |-> waits, deliveredAt |-> adm.row.deliveredAt,
                            superseded |-> FALSE]
      OBVIOUS
    <2>3. IsRow(row) /\ row.state \in {"pending", "blocked"}
      BY <2>2 DEF IsRow
    <2>4. QED BY <2>1, <2>2, <2>3
  <1>4. PICK new : new = [adm EXCEPT !.pc = IF adm.type = "run.ended" THEN "subject" ELSE "retire"]
    OBVIOUS
  <1>5. /\ IsAdmission(new) /\ new.type = adm.type /\ new.run = adm.run /\ new.n = adm.n
        /\ new.k = adm.k /\ new.pc = IF adm.type = "run.ended" THEN "subject" ELSE "retire"
    BY <1>1, <1>4 DEF IsAdmission
  <1>6. admission' = [admission EXCEPT ![a] = new]
    BY <1>0, <1>4 DEF Upsert, Goes, Becomes
  <1>7. admission'[a] = new
    BY <1>6 DEF ClimbInv, ClimbShapes
  <1>8. adm.type \in {"run.update", "run.ended"}
    BY <1>0, <1>1, <1>2 DEF CallerClimbs
  <1>9. CASE adm.type = "run.ended"
    <2>1. adm.k.type # "run.update"
      BY <1>0, <1>1, <1>2, <1>9 DEF CallerClimbs
    <2>2. CallerClimbs(a)'
      BY <1>5, <1>7, <1>9, CallerPlain
    <2>3. QED BY <1>2, <1>3, <1>5, <1>6, <2>1, <2>2, QuietCaller
  <1>10. CASE adm.type = "run.update"
    <2>1. PICK r : r = adm.run
      OBVIOUS
    <2>2. r \in Runs /\ adm.n \in Levels /\ Holds(updates[r], a)
      BY <1>0, <1>1, <1>2, <1>10, <2>1 DEF CallerClimbs
    <2>3. PICK c \in Levels : /\ adm.k = Update(r, c) /\ Below(a, r, c)
                              /\ ~Queued(outbox[adm.k])
      BY <1>0, <1>1, <1>2, <1>10, <2>1 DEF CallerClimbs
    <2>4. outbox' = [outbox EXCEPT ![Update(r, c)] = row]
      BY <1>3, <2>3
    <2>5. /\ outbox' = [k \in EventIds |-> outbox'[k]]
          /\ outbox'[Update(r, c)] = row
          /\ \A s \in Runs, m \in Levels :
                /\ IsRow(outbox'[Update(s, m)])
                /\ s # r \/ m # c => outbox'[Update(s, m)] = outbox[Update(s, m)]
          /\ \A k \in EventIds : k # Update(r, c) => outbox'[k] = outbox[k]
          /\ \A s \in Runs : s # r =>
                Keeps(s) /\ Published(outbox', s) = Published(outbox, s)
      BY <1>3, <2>2, <2>4, OneRow DEF ClimbInv
    <2>6. c \in Standing(outbox', r) /\ c \notin Published(outbox', r)
      BY <1>3, <2>5, StandingIs DEF Queued
    <2>7. ~Queued(outbox[Update(r, c)])
      BY <2>3
    <2>8. \A m \in Levels : m # c =>
              /\ m \in Standing(outbox', r) <=> m \in Standing(outbox, r)
              /\ m \in Published(outbox', r) <=> m \in Published(outbox, r)
              /\ Queued(outbox'[Update(r, m)]) <=> Queued(outbox[Update(r, m)])
      BY <2>2, <2>5, StandingIs
    <2>9. c \notin Standing(outbox, r)
      BY <2>7, StandingIs
    <2>10. HighWater'
      <3>1. ASSUME NEW s \in Runs, NEW n \in Levels, Queued(outbox'[Update(s, n)])
            PROVE  \E m \in Standing(outbox', s) : n <= m
        <4>1. CASE s # r
          <5>1. Keeps(s)
            BY <2>5, <4>1
          <5>2. PICK m \in Standing(outbox, s) : n <= m
            BY <3>1, <5>1 DEF ClimbInv, HighWater, Keeps
          <5>3. m \in Standing(outbox', s)
            BY <5>1, <5>2, StandingIs DEF Keeps, Standing
          <5>4. QED BY <5>2, <5>3
        <4>2. CASE s = r /\ n # c
          <5>1. PICK m \in Standing(outbox, r) : n <= m
            BY <2>2, <2>8, <3>1, <4>2 DEF ClimbInv, HighWater
          <5>2. m \in Standing(outbox', r)
            BY <2>8, <2>9, <5>1, StandingIs DEF Standing
          <5>3. QED BY <4>2, <5>1, <5>2
        <4>3. CASE s = r /\ n = c
          <5>1. c <= c
            BY UpdateIds DEF Levels
          <5>2. QED BY <2>6, <4>3, <5>1
        <4>4. QED BY <4>1, <4>2, <4>3
      <3>2. QED BY <3>1 DEF HighWater
    <2>11. StaysQueued
      BY <2>5, <2>7 DEF StaysQueued
    <2>12. \A s \in Runs : Published(outbox', s) \subseteq Published(outbox, s)
      <3>1. Published(outbox', r) \subseteq Published(outbox, r)
        BY <2>6, <2>8, StandingIs
      <3>2. QED BY <2>5, <3>1
    <2>13. \A k \in EventIds : k.type = "run.update" /\ outbox[k].state = "delivered"
                                  => outbox'[k].state = "delivered"
      BY <2>5, <2>7 DEF Queued
    <2>14. CallerClimbs(a)'
      <3>1. Below(a, r, c)'
        BY <1>2, <2>3 DEF Below
      <3>2. Covered(a, r)'
        BY <2>6, <3>1 DEF Covered, Standing
      <3>3. QED BY <1>2, <1>5, <1>7, <1>10, <2>1, <2>2, <3>2 DEF CallerClimbs, Covered, Below
    <2>15. /\ retiring' = [p \in Lanes \cup Admitters |-> retiring'[p]]
           /\ \A p \in Lanes \cup Admitters : p # a => retiring'[p] = retiring[p]
      BY <1>2 DEF ClimbInv, ClimbShapes
    <2>16. /\ \A s \in Runs, n \in Levels : IsRow(outbox'[Update(s, n)])
           /\ \A s \in Runs : s # r => Keeps(s)
           /\ outbox' = [k \in EventIds |-> outbox'[k]]
      BY <2>5
    <2>17. QED BY <1>2, <1>5, <1>6, <2>2, <2>10, <2>11, <2>12, <2>13, <2>14, <2>15, <2>16,
                  CallerWrites
  <1>11. QED BY <1>8, <1>9, <1>10

(* A level below one that stands is superseded, or left as it is.          *)
Superseding(r, n) ==
    outbox' \in {outbox, [outbox EXCEPT ![Update(r, n)] = Suppress(@)]}

LEMMA SupersedingKeeps ==
    ASSUME ClimbShapes, HighWater, NEW r \in Runs, NEW n \in Levels, Superseding(r, n),
           NEW c \in Standing(outbox, r), n < c
    PROVE  /\ outbox' = [k \in EventIds |-> outbox'[k]]
           /\ \A s \in Runs, m \in Levels : IsRow(outbox'[Update(s, m)])
           /\ StaysQueued /\ HighWater'
           /\ \A s \in Runs : s # r => Keeps(s)
           /\ \A s \in Runs : Published(outbox', s) \subseteq Published(outbox, s)
           /\ \A k \in EventIds : k.type = "run.update" /\ outbox[k].state = "delivered"
                                     => outbox'[k].state = "delivered"
           /\ c \in Standing(outbox', r)
  <1>0. c \in Levels /\ c # n
    <2>1. c \in Levels
      BY StandingIs DEF Standing
    <2>2. QED BY <2>1, UpdateIds DEF Levels
  <1>1. CASE outbox' = outbox
    BY <1>1 DEF ClimbShapes, IsRow, StaysQueued, HighWater, Keeps, Standing
  <1>2. CASE outbox' = [outbox EXCEPT ![Update(r, n)] = Suppress(@)]
    <2>1. PICK old, row : old = outbox[Update(r, n)] /\ row = Suppress(old)
      OBVIOUS
    <2>2. IsRow(old)
      BY <2>1 DEF ClimbShapes
    <2>3. /\ IsRow(row)
          /\ Queued(row) <=> Queued(old)
          /\ old.state = "delivered" => row = old
          /\ row.state = "delivered" => row = old \/ row.superseded
      BY <2>1, <2>2 DEF IsRow, Suppress, Queued
    <2>4. outbox' = [outbox EXCEPT ![Update(r, n)] = row]
      BY <1>2, <2>1
    <2>5. /\ outbox' = [k \in EventIds |-> outbox'[k]]
          /\ outbox'[Update(r, n)] = row
          /\ \A s \in Runs, m \in Levels :
                /\ IsRow(outbox'[Update(s, m)])
                /\ s # r \/ m # n => outbox'[Update(s, m)] = outbox[Update(s, m)]
          /\ \A k \in EventIds : k # Update(r, n) => outbox'[k] = outbox[k]
          /\ \A s \in Runs : s # r =>
                Keeps(s) /\ Published(outbox', s) = Published(outbox, s)
      BY <2>3, <2>4, OneRow
    <2>6. \A m \in Levels : m # n =>
              /\ m \in Standing(outbox', r) <=> m \in Standing(outbox, r)
              /\ m \in Published(outbox', r) <=> m \in Published(outbox, r)
              /\ Queued(outbox'[Update(r, m)]) <=> Queued(outbox[Update(r, m)])
      BY <2>5, StandingIs
    <2>7. c \in Standing(outbox', r)
      BY <1>0, <2>6
    <2>8. StaysQueued
      <3>1. ASSUME NEW s \in Runs, NEW m \in Levels, Queued(outbox[Update(s, m)])
            PROVE  Queued(outbox'[Update(s, m)])
        BY <2>1, <2>3, <2>5, <3>1
      <3>2. QED BY <3>1 DEF StaysQueued
    <2>9. HighWater'
      <3>1. ASSUME NEW s \in Runs, NEW m \in Levels, Queued(outbox'[Update(s, m)])
            PROVE  \E x \in Standing(outbox', s) : m <= x
        <4>1. CASE s # r
          <5>1. Keeps(s)
            BY <2>5, <4>1
          <5>2. PICK x \in Standing(outbox, s) : m <= x
            BY <3>1, <5>1 DEF HighWater, Keeps
          <5>3. x \in Standing(outbox', s)
            BY <5>1, <5>2, StandingIs DEF Keeps, Standing
          <5>4. QED BY <5>2, <5>3
        <4>2. CASE s = r
          <5>1. Queued(outbox[Update(r, m)])
            BY <2>1, <2>3, <2>5, <3>1, <4>2
          <5>2. PICK x \in Standing(outbox, r) : m <= x
            BY <5>1 DEF HighWater
          <5>3. x \in Levels
            BY StandingIs DEF Standing
          <5>4. CASE x # n
            BY <2>6, <4>2, <5>2, <5>3, <5>4
          <5>5. CASE x = n
            <6>1. m <= c
              BY <1>0, <5>2, <5>5, UpdateIds DEF Levels
            <6>2. QED BY <2>7, <4>2, <6>1
          <5>6. QED BY <5>4, <5>5
        <4>3. QED BY <4>1, <4>2
      <3>2. QED BY <3>1 DEF HighWater
    <2>10. \A s \in Runs : Published(outbox', s) \subseteq Published(outbox, s)
      <3>1. n \in Published(outbox', r) => n \in Published(outbox, r)
        BY <2>1, <2>3, <2>5, StandingIs
      <3>2. Published(outbox', r) \subseteq Published(outbox, r)
        BY <2>6, <3>1, StandingIs
      <3>3. QED BY <2>5, <3>2
    <2>11. \A k \in EventIds : k.type = "run.update" /\ outbox[k].state = "delivered"
                                  => outbox'[k].state = "delivered"
      BY <2>1, <2>3, <2>5
    <2>12. QED BY <2>5, <2>7, <2>8, <2>9, <2>10, <2>11
  <1>3. QED BY <1>1, <1>2 DEF Superseding

LEMMA RetireClimbs ==
    ASSUME ClimbInv, ClaimInv', NEW a \in Admitters, Retire(a)
    PROVE  ClimbInv'
  <1>0. PICK adm : adm = admission[a]
    OBVIOUS
  <1>1. IsAdmission(adm) /\ CallerClimbs(a)
    BY <1>0 DEF ClimbInv, ClimbShapes
  <1>2. /\ adm.pc = "retire"
        /\ UNCHANGED <<lane, claim, entry, batch, received, updates, admission>>
    BY <1>0 DEF Retire, At, Elsewhere, laneVars, lockVars
  <1>3. PICK r : r = adm.run
    OBVIOUS
  <1>4. /\ adm.type = "run.update" /\ r \in Runs /\ adm.n \in Levels
        /\ Holds(updates[r], a) /\ Covered(a, r)
    BY <1>0, <1>1, <1>2, <1>3 DEF CallerClimbs
  <1>5. PICK c \in Standing(outbox, r) : Below(a, r, c)
    BY <1>4 DEF Covered
  <1>6. PICK k \in retiring[a] :
            /\ outbox' \in {outbox, [outbox EXCEPT ![k] = Suppress(@)]}
            /\ retiring' = [retiring EXCEPT ![a] = @ \ {k}]
    <2>1. outbox = [j \in EventIds |-> outbox[j]]
      BY DEF ClimbInv, ClimbShapes
    <2>2. \A k : [outbox EXCEPT ![k] = outbox[k]] = outbox
      BY <2>1
    <2>3. QED BY <2>2 DEF Retire
  <1>7. PICK n \in Levels : n < c /\ k = Update(r, n)
    BY <1>5, <1>6 DEF Below
  <1>8. Superseding(r, n)
    BY <1>6, <1>7 DEF Superseding
  <1>9. /\ outbox' = [j \in EventIds |-> outbox'[j]]
        /\ \A s \in Runs, m \in Levels : IsRow(outbox'[Update(s, m)])
        /\ StaysQueued /\ HighWater'
        /\ \A s \in Runs : s # r => Keeps(s)
        /\ \A s \in Runs : Published(outbox', s) \subseteq Published(outbox, s)
        /\ \A j \in EventIds : j.type = "run.update" /\ outbox[j].state = "delivered"
                                  => outbox'[j].state = "delivered"
        /\ c \in Standing(outbox', r)
    BY <1>4, <1>5, <1>7, <1>8, SupersedingKeeps DEF ClimbInv
  <1>10. /\ retiring' = [p \in Lanes \cup Admitters |-> retiring'[p]]
         /\ \A p \in Lanes \cup Admitters : p # a => retiring'[p] = retiring[p]
         /\ retiring'[a] \subseteq retiring[a]
    BY <1>6 DEF ClimbInv, ClimbShapes
  <1>11. Covered(a, r)'
    BY <1>5, <1>9, <1>10 DEF Covered, Below
  <1>12. admission'[a] = adm /\ admission' = [admission EXCEPT ![a] = adm]
    BY <1>0, <1>2 DEF ClimbInv, ClimbShapes
  <1>13. CallerClimbs(a)'
    BY <1>2, <1>3, <1>4, <1>11, <1>12 DEF CallerClimbs, Covered, Below
  <1>14. QED BY <1>1, <1>2, <1>4, <1>9, <1>10, <1>12, <1>13, CallerWrites

Delivering == {"update", "retire", "replace", "gate", "attempted", "post", "received"}

LEMMA LaneAway ==
    ASSUME NEW l \in Lanes, lane'[l] \notin Delivering PROVE LaneClimbs(l)'
  BY DEF LaneClimbs, Delivering

(* Idle lanes start.                                                       *)
LEMMA WakeClimbs ==
    ASSUME ClimbInv, ClaimInv', UNCHANGED <<outbox, claim, entry, batch, received, retiring, updates>>,
           \/ UNCHANGED admission
           \/ \E a \in Admitters : admission' = [admission EXCEPT ![a] = AtRest],
           \A l \in Lanes : lane'[l] = lane[l] \/ lane'[l] \in {"idle", "fetch"}
    PROVE  ClimbInv'
  <1>1. PICK rest : rest = AtRest
    OBVIOUS
  <1>2. IsAdmission(rest) /\ rest.pc = "idle" /\ rest.type = "run.start"
    BY <1>1 DEF AtRest, IsAdmission
  <1>3. \A a \in Admitters : admission'[a] \in {admission[a], rest}
    BY <1>1 DEF ClimbInv, ClimbShapes
  <1>4. ClimbShapes'
    <2>1. admission' = [b \in Admitters |-> admission'[b]]
      BY DEF ClimbInv, ClimbShapes
    <2>2. \A b \in Admitters : IsAdmission(admission'[b])
      BY <1>2, <1>3 DEF ClimbInv, ClimbShapes
    <2>3. QED BY <2>1, <2>2 DEF ClimbInv, ClimbShapes, IsAdmission, IsRow
  <1>5. KnownIsQueued' /\ HighWater'
    BY DEF ClimbInv, KnownIsQueued, QueuedUpdate, HighWater, Standing
  <1>6. ASSUME NEW a \in Admitters PROVE CallerClimbs(a)'
    <2>1. CASE admission'[a] = admission[a]
      BY <2>1 DEF ClimbInv, CallerClimbs, Covered, Below, Standing
    <2>2. CASE admission'[a] = rest
      BY <1>2, <2>2, CallerPlain
    <2>3. QED BY <1>3, <2>1, <2>2
  <1>7. ASSUME NEW l \in Lanes PROVE LaneClimbs(l)'
    <2>1. CASE lane'[l] = lane[l]
      BY <2>1 DEF ClimbInv, LaneClimbs, Covered, Below, Standing, OnTop, IsRow
    <2>2. CASE lane'[l] \in {"idle", "fetch"}
      BY <2>2, LaneAway DEF Delivering
    <2>3. QED BY <2>1, <2>2
  <1>8. QED BY <1>4, <1>5, <1>6, <1>7 DEF ClimbInv

LEMMA KickClimbs ==
    ASSUME ClimbInv, ClaimInv', NEW a \in Admitters, Kick(a)
    PROVE  ClimbInv'
  <1>1. \A l \in Lanes : lane'[l] = lane[l] \/ lane'[l] \in {"idle", "fetch"}
    BY DEF Kick, ProcessDueEntries
  <1>2. /\ UNCHANGED <<outbox, claim, entry, batch, received, retiring, updates>>
        /\ admission' = [admission EXCEPT ![a] = AtRest]
    BY DEF Kick, ProcessDueEntries, durable, lockVars, Becomes
  <1>3. QED BY <1>1, <1>2, WakeClimbs

(* A step of a lane, seen by the callers and by the other lane.            *)
LEMMA LaneStepped ==
    ASSUME ClimbInv, ClaimInv', NEW l \in Lanes, UNCHANGED admission,
           outbox' = [k \in EventIds |-> outbox'[k]],
           \A s \in Runs, n \in Levels : IsRow(outbox'[Update(s, n)]),
           StaysQueued, HighWater',
           entry' = [m \in Lanes |-> entry'[m]],
           retiring' = [p \in Lanes \cup Admitters |-> retiring'[p]],
           \A p \in Lanes \cup Admitters : p # l => retiring'[p] = retiring[p],
           updates' \in [Runs -> Seq(Lanes \cup Admitters)],
           \A s \in Runs : \A q : q # l /\ Holds(updates[s], q) => Holds(updates'[s], q) /\ Keeps(s),
           \A m \in Lanes : m # l =>
              /\ lane'[m] = lane[m] \/ lane'[m] = "fetch"
              /\ claim'[m] = claim[m] /\ entry'[m] = entry[m] /\ batch'[m] = batch[m],
           \A m \in Lanes : m # l /\ claim[m] # NoKey =>
              /\ Published(outbox', claim[m].run) \subseteq Published(outbox, claim[m].run)
              /\ claim[m].type = "run.update" /\ outbox[claim[m]].state = "delivered"
                    => outbox'[claim[m]].state = "delivered",
           \A p \in received' : p \in received \/ (claim[l] # NoKey /\ p[1] = claim[l]),
           \A p \in batch'[l] : p \in batch[l] \/ (p[1] \in EventIds /\ Queued(outbox[p[1]])),
           \/ claim'[l] \in {NoKey, claim[l]}
           \/ \E p \in batch[l] : claim'[l] = p[1],
           LaneClimbs(l)'
    PROVE  ClimbInv'
  <1>1. ClimbShapes'
    BY DEF ClimbInv, ClimbShapes, IsAdmission, IsRow
  <1>2. KnownIsQueued'
    <2>1. KnownIsQueued /\ ClaimInv
      BY DEF ClimbInv
    <2>2. \A p \in received' :
              p \in received \/ \E m \in Lanes : claim[m] # NoKey /\ p[1] = claim[m]
      OBVIOUS
    <2>3. \A m \in Lanes : \A p \in batch'[m] :
              p \in batch[m] \/ (p[1] \in EventIds /\ Queued(outbox[p[1]]))
      <3>1. TAKE m \in Lanes
      <3>2. CASE m = l
        BY <3>2
      <3>3. CASE m # l
        BY <3>3
      <3>4. QED BY <3>2, <3>3
    <2>4. \A m \in Lanes : \/ claim'[m] \in {NoKey, claim[m]}
                           \/ \E p \in batch[m] : claim'[m] = p[1]
      <3>1. TAKE m \in Lanes
      <3>2. CASE m = l
        BY <3>2
      <3>3. CASE m # l
        BY <3>3
      <3>4. QED BY <3>2, <3>3
    <2>5. QED BY <2>1, <2>2, <2>3, <2>4, KnownKept
  <1>3. ASSUME NEW a \in Admitters PROVE CallerClimbs(a)'
    <2>1. a # l /\ retiring'[a] = retiring[a]
      BY DispatchAssumption DEF Lanes, Main, Anchor
    <2>2. \A s \in Runs : Holds(updates[s], a) => Holds(updates'[s], a) /\ Keeps(s)
      BY <2>1
    <2>3. CallerClimbs(a)
      BY DEF ClimbInv
    <2>4. QED BY <2>1, <2>2, <2>3, CallerFrame
  <1>4. ASSUME NEW m \in Lanes PROVE LaneClimbs(m)'
    <2>1. CASE m = l
      BY <2>1
    <2>2. CASE m # l /\ lane'[m] = "fetch"
      BY <2>2, LaneAway DEF Delivering
    <2>3. CASE m # l /\ lane'[m] = lane[m]
      <3>1. /\ claim'[m] = claim[m] /\ entry'[m] = entry[m] /\ retiring'[m] = retiring[m]
            /\ \A s \in Runs : Holds(updates[s], m) => Holds(updates'[s], m) /\ Keeps(s)
        BY <2>3
      <3>2. claim[m] # NoKey =>
                /\ Published(outbox', claim[m].run) \subseteq Published(outbox, claim[m].run)
                /\ \A p \in received' : p[1].run = claim[m].run => p \in received
                /\ claim[m].type = "run.update" /\ outbox[claim[m]].state = "delivered"
                      => outbox'[claim[m]].state = "delivered"
        <4>1. claim[m] # NoKey /\ claim[l] # NoKey => claim[l].run # claim[m].run
          BY <2>3 DEF ClimbInv, ClaimInv, ClaimsApart
        <4>2. ASSUME claim[m] # NoKey, NEW p \in received', p[1].run = claim[m].run
              PROVE  p \in received
          BY <4>1, <4>2
        <4>3. QED BY <2>3, <4>2
      <3>3. LaneClimbs(m) /\ ClaimInv
        BY DEF ClimbInv
      <3>4. QED BY <2>3, <3>1, <3>2, <3>3, LaneFrame
    <2>4. QED BY <2>1, <2>2, <2>3
  <1>5. QED BY <1>1, <1>2, <1>3, <1>4 DEF ClimbInv

(* A step that leaves every row of an update as it is.                     *)
LEMMA QuietLane ==
    ASSUME ClimbInv, ClaimInv', NEW l \in Lanes, UNCHANGED admission,
           outbox' = [k \in EventIds |-> outbox'[k]], SameRows,
           entry' = [m \in Lanes |-> entry'[m]],
           retiring' = [p \in Lanes \cup Admitters |-> retiring'[p]],
           \A p \in Lanes \cup Admitters : p # l => retiring'[p] = retiring[p],
           \/ updates' = updates
           \/ \E s : updates' = Join(updates, s, l)
           \/ updates' = Leave(updates, l),
           \A m \in Lanes : m # l =>
              /\ lane'[m] = lane[m] \/ lane'[m] = "fetch"
              /\ claim'[m] = claim[m] /\ entry'[m] = entry[m] /\ batch'[m] = batch[m],
           \A p \in received' : p \in received \/ (claim[l] # NoKey /\ p[1] = claim[l]),
           \A p \in batch'[l] : p \in batch[l] \/ (p[1] \in EventIds /\ Queued(outbox[p[1]])),
           \/ claim'[l] \in {NoKey, claim[l]}
           \/ \E p \in batch[l] : claim'[l] = p[1],
           LaneClimbs(l)'
    PROVE  ClimbInv'
  <1>1. /\ updates' \in [Runs -> Seq(Lanes \cup Admitters)]
        /\ \A s \in Runs : \A q : q # l /\ Holds(updates[s], q) => Holds(updates'[s], q)
    <2>1. updates \in [Runs -> Seq(Lanes \cup Admitters)]
      BY DEF ClimbInv, ClimbShapes
    <2>2. CASE updates' = updates
      BY <2>1, <2>2
    <2>3. CASE \E s : updates' = Join(updates, s, l)
      BY <2>1, <2>3, JoinKeeps
    <2>4. CASE updates' = Leave(updates, l)
      BY <2>1, <2>4, LeaveKeeps
    <2>5. QED BY <2>2, <2>3, <2>4
  <1>2. \A s \in Runs : Keeps(s)
    BY SameRowsKeep
  <1>3. HighWater'
    BY <1>2, WaterKept DEF ClimbInv
  <1>4. StaysQueued /\ \A s \in Runs, n \in Levels : IsRow(outbox'[Update(s, n)])
    BY DEF StaysQueued, SameRows, ClimbInv, ClimbShapes
  <1>5. ASSUME NEW m \in Lanes, m # l, claim[m] # NoKey
        PROVE  /\ Published(outbox', claim[m].run) \subseteq Published(outbox, claim[m].run)
               /\ claim[m].type = "run.update" /\ outbox[claim[m]].state = "delivered"
                     => outbox'[claim[m]].state = "delivered"
    <2>1. claim[m] \in EventIds
      BY <1>5 DEF ClimbInv, ClaimInv, LanesTyped
    <2>2. claim[m].run \in Runs
      BY <2>1 DEF EventIds, EventId, Start, Update, Ended
    <2>3. QED BY <2>1, <2>2, SameRowsKeep
  <1>6. \A s \in Runs : \A q : q # l /\ Holds(updates[s], q) => Holds(updates'[s], q) /\ Keeps(s)
    BY <1>1, <1>2
  <1>7. QED BY <1>1, <1>3, <1>4, <1>5, <1>6, LaneStepped

(* A step that changes only the lane's own place, claim and copies.        *)
LEMMA StillLane ==
    ASSUME ClimbInv, ClaimInv', NEW l \in Lanes,
           UNCHANGED <<outbox, received, retiring, admission>>,
           entry' = [m \in Lanes |-> entry'[m]],
           \/ updates' = updates
           \/ \E s : updates' = Join(updates, s, l)
           \/ updates' = Leave(updates, l),
           \A m \in Lanes : m # l =>
              /\ lane'[m] = lane[m] \/ lane'[m] = "fetch"
              /\ claim'[m] = claim[m] /\ entry'[m] = entry[m] /\ batch'[m] = batch[m],
           \A p \in batch'[l] : p \in batch[l] \/ (p[1] \in EventIds /\ Queued(outbox[p[1]])),
           \/ claim'[l] \in {NoKey, claim[l]}
           \/ \E p \in batch[l] : claim'[l] = p[1],
           LaneClimbs(l)'
    PROVE  ClimbInv'
  <1>1. outbox' = [k \in EventIds |-> outbox'[k]] /\ SameRows
    BY DEF SameRows, ClimbInv, ClimbShapes
  <1>2. /\ retiring' = [p \in Lanes \cup Admitters |-> retiring'[p]]
        /\ \A p \in Lanes \cup Admitters : p # l => retiring'[p] = retiring[p]
    BY DEF ClimbInv, ClimbShapes
  <1>3. \A p \in received' : p \in received \/ (claim[l] # NoKey /\ p[1] = claim[l])
    OBVIOUS
  <1>4. QED BY <1>1, <1>2, <1>3, QuietLane

LEMMA FetchClimbs ==
    ASSUME ClimbInv, ClaimInv', NEW l \in Lanes, Fetch(l)
    PROVE  ClimbInv'
  <1> DEFINE forced  == l = Main /\ (rerun.forced \/ rerun.force)
             copy(k) == IF k.type = "run.start" THEN outbox[k] ELSE NoRow
             fresh   == {<<k, copy(k)>> : k \in {j \in EventIds : Due(outbox[j], forced)}}
  <1>1. /\ batch' = [batch EXCEPT ![l] = fresh] /\ lane' = [lane EXCEPT ![l] = "fetched"]
        /\ UNCHANGED <<outbox, received, retiring, admission, updates, claim, entry>>
    BY DEF Fetch, Moves, lockVars, Here
  <1>2. \A p \in fresh : p[1] \in EventIds /\ Queued(outbox[p[1]])
    <2>1. TAKE p \in fresh
    <2>2. PICK k \in EventIds : p = <<k, copy(k)>> /\ Due(outbox[k], forced)
      OBVIOUS
    <2>3. p[1] = k
      BY <2>2
    <2>4. QED BY <2>2, <2>3 DEF Due, Queued
  <1> HIDE DEF fresh
  <1>3. /\ DOMAIN batch = Lanes /\ lane \in [Lanes -> LaneStates]
        /\ entry = [m \in Lanes |-> entry[m]]
    BY DEF ClimbInv, ClimbShapes, ClaimInv, LanesTyped
  <1>4. batch'[l] = fresh /\ lane'[l] = "fetched"
    BY <1>1, <1>3
  <1>5. \A m \in Lanes : m # l =>
            /\ lane'[m] = lane[m] \/ lane'[m] = "fetch"
            /\ claim'[m] = claim[m] /\ entry'[m] = entry[m] /\ batch'[m] = batch[m]
    BY <1>1, <1>3
  <1>6. LaneClimbs(l)'
    BY <1>4, LaneAway DEF Delivering
  <1>7. \A p \in batch'[l] : p \in batch[l] \/ (p[1] \in EventIds /\ Queued(outbox[p[1]]))
    BY <1>2, <1>4
  <1>8. QED BY <1>1, <1>3, <1>5, <1>6, <1>7, StillLane

(* A lane that takes a row, keeps rows for later, or ends its pass.        *)
LEMMA TakeClimbs ==
    ASSUME ClimbInv, ClaimInv', NEW l \in Lanes, NEW p \in batch[l], DeliverClaimed(l, p),
           UNCHANGED <<outbox, received, retiring, admission, updates>>,
           \A m \in Lanes : m # l => batch'[m] = batch[m],
           batch'[l] \subseteq batch[l]
    PROVE  ClimbInv'
  <1>1. /\ lane \in [Lanes -> LaneStates] /\ claim \in [Lanes -> EventIds \cup {NoKey}]
        /\ entry = [m \in Lanes |-> entry[m]] /\ p[1] \in EventIds
    BY DEF ClimbInv, ClimbShapes, ClaimInv, LanesTyped
  <1>2. claim' = [claim EXCEPT ![l] = p[1]] /\ claim'[l] = p[1]
    BY <1>1 DEF DeliverClaimed
  <1>3. /\ entry' = [m \in Lanes |-> entry'[m]]
        /\ \A m \in Lanes : m # l =>
              /\ lane'[m] = lane[m] \/ lane'[m] = "fetch"
              /\ claim'[m] = claim[m] /\ entry'[m] = entry[m] /\ batch'[m] = batch[m]
    BY <1>1, <1>2 DEF DeliverClaimed, Moves
  <1>4. LaneClimbs(l)'
    <2>1. CASE p[1].type = "run.start"
      <3>1. lane'[l] = "gate"
        BY <1>1, <2>1 DEF DeliverClaimed, Moves
      <3>2. QED BY <1>2, <2>1, <3>1 DEF LaneClimbs
    <2>2. CASE p[1].type # "run.start"
      <3>1. lane'[l] = "locked"
        BY <1>1, <2>2 DEF DeliverClaimed, Moves
      <3>2. QED BY <3>1, LaneAway DEF Delivering
    <2>3. QED BY <2>1, <2>2
  <1>5. QED BY <1>2, <1>3, <1>4, StillLane

LEMMA PassClimbs ==
    ASSUME ClimbInv, ClaimInv', NEW l \in Lanes, NEW pc \in {"fetch", "idle", "next"},
           lane' = [lane EXCEPT ![l] = pc],
           UNCHANGED <<outbox, received, retiring, admission, updates, claim, entry>>,
           \A m \in Lanes : m # l => batch'[m] = batch[m],
           batch'[l] \subseteq batch[l]
    PROVE  ClimbInv'
  <1>1. lane \in [Lanes -> LaneStates] /\ entry = [m \in Lanes |-> entry[m]]
    BY DEF ClimbInv, ClimbShapes, ClaimInv, LanesTyped
  <1>2. \A m \in Lanes : m # l =>
            /\ lane'[m] = lane[m] \/ lane'[m] = "fetch"
            /\ claim'[m] = claim[m] /\ entry'[m] = entry[m] /\ batch'[m] = batch[m]
    BY <1>1
  <1>3. LaneClimbs(l)'
    BY <1>1, LaneAway DEF Delivering
  <1>4. QED BY <1>1, <1>2, <1>3, StillLane

LEMMA TakePassClimbs ==
    ASSUME ClimbInv, ClaimInv', NEW l \in Lanes,
           TakeFirst(l) \/ TakeAll(l) \/ TakeNone(l) \/ TakeNext(l) \/ EndBatch(l)
    PROVE  ClimbInv'
  <1>1. DOMAIN batch = Lanes /\ lane \in [Lanes -> LaneStates]
    BY DEF ClimbInv, ClaimInv, LanesTyped
  <1>2. CASE TakeFirst(l)
    <2>1. PICK p \in FirstOf(Claimable(l)) : DeliverClaimed(l, p)
      BY <1>2 DEF TakeFirst
    <2>2. p \in batch[l]
      BY DEF FirstOf, Claimable
    <2>3. /\ \A m \in Lanes : m # l => batch'[m] = batch[m]
          /\ batch'[l] \subseteq batch[l]
      BY <1>1, <1>2 DEF TakeFirst
    <2>4. UNCHANGED <<outbox, received, retiring, admission, updates>>
      BY <1>2 DEF TakeFirst, Here
    <2>5. QED BY <2>1, <2>2, <2>3, <2>4, TakeClimbs
  <1>3. CASE TakeNext(l)
    <2>1. PICK p \in FirstOf(batch[l]) :
              /\ batch' = [batch EXCEPT ![l] = @ \ {p}]
              /\ \/ DeliverClaimed(l, p)
                 \/ UNCHANGED <<lane, claim, entry, lifecycle>>
      BY <1>3 DEF TakeNext
    <2>2. p \in batch[l]
      BY DEF FirstOf
    <2>3. /\ \A m \in Lanes : m # l => batch'[m] = batch[m]
          /\ batch'[l] \subseteq batch[l]
      BY <1>1, <2>1
    <2>4. UNCHANGED <<outbox, received, retiring, admission, updates>> /\ lane[l] = "next"
      BY <1>3 DEF TakeNext, Here, LaneAt
    <2>5. CASE DeliverClaimed(l, p)
      BY <2>2, <2>3, <2>4, <2>5, TakeClimbs
    <2>6. CASE UNCHANGED <<lane, claim, entry, lifecycle>>
      <3>1. lane' = [lane EXCEPT ![l] = "next"]
        BY <1>1, <2>4, <2>6
      <3>2. QED BY <2>3, <2>4, <2>6, <3>1, PassClimbs
    <2>7. QED BY <2>1, <2>5, <2>6
  <1>4. CASE TakeAll(l) \/ TakeNone(l) \/ EndBatch(l)
    <2>1. PICK pc \in {"fetch", "idle", "next"} : lane' = [lane EXCEPT ![l] = pc]
      BY <1>4 DEF TakeAll, TakeNone, EndBatch, EndPass, Moves
    <2>2. UNCHANGED <<outbox, received, retiring, admission, updates, claim, entry>>
      BY <1>4 DEF TakeAll, TakeNone, EndBatch, Here, lockVars
    <2>3. /\ \A m \in Lanes : m # l => batch'[m] = batch[m]
          /\ batch'[l] \subseteq batch[l]
      BY <1>1, <1>4 DEF TakeAll, TakeNone, EndBatch, Claimable
    <2>4. QED BY <2>1, <2>2, <2>3, PassClimbs
  <1>5. QED BY <1>2, <1>3, <1>4

(* A lane moves on, with its claim and the rows as they are.               *)
LEMMA OnwardClimbs ==
    ASSUME ClimbInv, ClaimInv', NEW l \in Lanes, NEW pc, lane' = [lane EXCEPT ![l] = pc],
           UNCHANGED <<outbox, received, retiring, admission, claim, batch>>,
           \/ updates' = updates
           \/ \E s : updates' = Join(updates, s, l)
           \/ updates' = Leave(updates, l),
           entry' = entry \/ \E row : entry' = [entry EXCEPT ![l] = row],
           LaneClimbs(l)'
    PROVE  ClimbInv'
  <1>1. lane \in [Lanes -> LaneStates] /\ entry = [m \in Lanes |-> entry[m]]
    BY DEF ClimbInv, ClimbShapes, ClaimInv, LanesTyped
  <1>2. /\ entry' = [m \in Lanes |-> entry'[m]]
        /\ \A m \in Lanes : m # l =>
              /\ lane'[m] = lane[m] \/ lane'[m] = "fetch"
              /\ claim'[m] = claim[m] /\ entry'[m] = entry[m] /\ batch'[m] = batch[m]
    BY <1>1
  <1>3. QED BY <1>2, StillLane

LEMMA RereadClimbs ==
    ASSUME ClimbInv, ClaimInv', NEW l \in Lanes, Reread(l)
    PROVE  ClimbInv'
  <1>1. PICK k : k = claim[l]
    OBVIOUS
  <1>2. UNCHANGED <<outbox, received, retiring, admission, claim, batch>> /\ claim'[l] = k
    BY <1>1 DEF Reread, Here
  <1>3. lane \in [Lanes -> LaneStates]
    BY DEF ClimbInv, ClaimInv, LanesTyped
  <1>4. \/ updates' = updates
        \/ \E s : updates' = Join(updates, s, l)
        \/ updates' = Leave(updates, l)
    BY DEF Reread
  <1>5. entry' = entry \/ \E row : entry' = [entry EXCEPT ![l] = row]
    BY DEF Reread
  <1>6. PICK pc \in {"release", "gate", "update"} :
            /\ lane' = [lane EXCEPT ![l] = pc]
            /\ pc = "gate" => k.type = "run.ended"
            /\ pc = "update" => k.type = "run.update"
    BY <1>1 DEF Reread, Moves
  <1>7. lane'[l] = pc
    BY <1>3, <1>6
  <1>8. LaneClimbs(l)'
    BY <1>2, <1>6, <1>7 DEF LaneClimbs
  <1>9. QED BY <1>2, <1>4, <1>5, <1>6, <1>8, OnwardClimbs

(* At the delivery boundary.  If a higher level is queued it replaces the  *)
(* claimed one; otherwise the claimed one is the highest of its run, or it *)
(* is itself to be superseded.                                             *)
LEMMA BoundaryIsTop ==
    ASSUME ClimbInv, NEW l \in Lanes, NEW k, k = claim[l], k # NoKey, k.type = "run.update",
           StillDue(l),
           ~Dominated(outbox, k.run, k.n), Reconciled(outbox, k.run, k.n) = k.n
    PROVE  OnTop(k)
  <1>1. k \in EventIds
    BY DEF ClimbInv, ClaimInv, LanesTyped
  <1>2. PICK r, n : r = k.run /\ n = k.n
    OBVIOUS
  <1>3. r \in Runs /\ n \in Levels /\ k = Update(r, n)
    BY <1>1, <1>2, UpdateIds
  <1>4. /\ \A h \in Published(outbox, r) : h < n
        /\ \A h \in Active(outbox, r) : h <= n
    BY <1>2, <1>3, ReconciledIs
  <1>5. ASSUME NEW p \in received, p[1].type = "run.update", p[1].run = r
        PROVE  p[1].n <= n
    <2>1. PICK j : j = p[1]
      OBVIOUS
    <2>2. j \in EventIds /\ Queued(outbox[j])
      BY <1>5, <2>1 DEF ClimbInv, KnownIsQueued, QueuedUpdate
    <2>3. j.n \in Levels /\ j = Update(r, j.n)
      BY <1>5, <2>1, <2>2, UpdateIds
    <2>4. PICK x : x = j.n /\ x \in Levels /\ Queued(outbox[Update(r, x)])
      BY <2>2, <2>3
    <2>5. PICK m \in Standing(outbox, r) : x <= m
      BY <1>3, <2>4 DEF ClimbInv, HighWater
    <2>6. m \in Levels
      BY <2>5, StandingIs DEF Standing
    <2>7. m <= n
      BY <1>3, <1>4, <2>5, <2>6, UpdateIds DEF Standing, Levels
    <2>8. x <= n
      BY <1>3, <2>4, <2>5, <2>6, <2>7, UpdateIds DEF Levels
    <2>9. QED BY <2>1, <2>4, <2>8
  <1>6. QED BY <1>2, <1>4, <1>5 DEF OnTop

LEMMA ReconcileAtBoundaryClimbs ==
    ASSUME ClimbInv, ClaimInv', NEW l \in Lanes, ReconcileAtBoundary(l)
    PROVE  ClimbInv'
  <1>1. PICK k : k = claim[l]
    OBVIOUS
  <1>2. PICK r, n : r = k.run /\ n = k.n
    OBVIOUS
  <1>3. /\ lane[l] = "update" /\ Holds(updates[r], l)
        /\ UNCHANGED <<outbox, received, admission, claim, entry, batch>> /\ claim'[l] = k
    BY <1>1, <1>2 DEF ReconcileAtBoundary, LaneAt, Here
  <1>4. lane \in [Lanes -> LaneStates] /\ k # NoKey /\ k \in EventIds /\ k.type = "run.update"
    <2>1. claim[l] # NoKey
      BY <1>3 DEF ClimbInv, ClaimInv, ClaimHeld, Claimed
    <2>2. QED BY <1>1, <1>3, <2>1 DEF ClimbInv, ClaimInv, LanesTyped, LaneClimbs
  <1>5. r \in Runs /\ n \in Levels /\ k = Update(r, n)
    BY <1>2, <1>4, UpdateIds
  <1>6. CASE ~StillDue(l)
    <2>1. /\ lane' = [lane EXCEPT ![l] = "release"] /\ updates' = Leave(updates, l)
          /\ retiring' = retiring
      BY <1>6 DEF ReconcileAtBoundary, Moves
    <2>2. LaneClimbs(l)'
      BY <1>4, <2>1, LaneAway DEF Delivering
    <2>3. QED BY <1>3, <2>1, <2>2, OnwardClimbs
  <1>7. CASE StillDue(l)
    <2>1. /\ retiring' = [retiring EXCEPT ![l] = Superseded(outbox, r, n)]
          /\ updates' = updates
      BY <1>1, <1>2, <1>7 DEF ReconcileAtBoundary
    <2>2. PICK pc \in {"retire", "replace"} :
              /\ lane' = [lane EXCEPT ![l] = pc]
              /\ pc = "retire" <=> Dominated(outbox, r, n) \/ Reconciled(outbox, r, n) = n
      BY <1>1, <1>2, <1>7 DEF ReconcileAtBoundary, Moves
    <2>3. lane'[l] = pc /\ retiring'[l] = Superseded(outbox, r, n)
      BY <1>4, <2>1, <2>2 DEF ClimbInv, ClimbShapes
    <2>4. n \in Active(outbox, r)
      <3>1. outbox[Update(r, n)].state \notin {"absent", "delivered"}
        BY <1>1, <1>5, <1>7 DEF StillDue, Due
      <3>2. QED BY <1>5, <3>1, StandingIs
    <2>5. Covered(l, r)'
      <3>1. CASE Dominated(outbox, r, n)
        <4>1. PICK h \in Published(outbox, r) : Below(l, r, h)'
          BY <1>5, <2>3, <3>1, SupersededIsBelow
        <4>2. QED BY <1>3, <4>1 DEF Covered, Standing
      <3>2. CASE ~Dominated(outbox, r, n)
        <4>1. PICK c \in Levels : c = Reconciled(outbox, r, n) /\ Below(l, r, c)'
          BY <1>5, <2>3, <3>2, SupersededIsBelow
        <4>2. c \in Active(outbox, r)
          BY <1>5, <2>4, <4>1, ReconciledIs
        <4>3. QED BY <1>3, <4>1, <4>2 DEF Covered, Standing
      <3>3. QED BY <3>1, <3>2
    <2>6. pc = "retire" => OnTop(k) \/ k \in retiring'[l]
      <3>1. CASE Dominated(outbox, r, n)
        <4>1. k \in Superseded(outbox, r, n)
          BY <1>5, <2>4, <3>1 DEF Superseded
        <4>2. QED BY <2>3, <4>1
      <3>2. CASE ~Dominated(outbox, r, n) /\ pc = "retire"
        <4>1. Reconciled(outbox, r, n) = n
          BY <2>2, <3>2
        <4>2. OnTop(k)
          BY <1>1, <1>2, <1>4, <1>7, <3>2, <4>1, BoundaryIsTop
        <4>3. QED BY <4>2
      <3>3. QED BY <3>1, <3>2
    <2>7. OnTop(k)' <=> OnTop(k)
      BY <1>3 DEF OnTop
    <2>8. LaneClimbs(l)'
      BY <1>2, <1>3, <1>4, <2>1, <2>2, <2>3, <2>5, <2>6, <2>7
         DEF LaneClimbs, Covered, Below, OnTop
    <2>9. outbox' = [j \in EventIds |-> outbox'[j]] /\ SameRows
      BY <1>3 DEF SameRows, ClimbInv, ClimbShapes
    <2>10. /\ retiring' = [p \in Lanes \cup Admitters |-> retiring'[p]]
           /\ \A p \in Lanes \cup Admitters : p # l => retiring'[p] = retiring[p]
           /\ entry' = [m \in Lanes |-> entry'[m]]
      BY <1>3, <2>1 DEF ClimbInv, ClimbShapes
    <2>11. \A m \in Lanes : m # l =>
              /\ lane'[m] = lane[m] \/ lane'[m] = "fetch"
              /\ claim'[m] = claim[m] /\ entry'[m] = entry[m] /\ batch'[m] = batch[m]
      BY <1>3, <1>4, <2>2
    <2>12. /\ \A p \in received' : p \in received \/ (claim[l] # NoKey /\ p[1] = claim[l])
           /\ \A p \in batch'[l] : p \in batch[l] \/ (p[1] \in EventIds /\ Queued(outbox[p[1]]))
           /\ claim'[l] \in {NoKey, claim[l]}
      <3>1. batch'[l] = batch[l] /\ received' = received /\ claim'[l] = claim[l]
        BY <1>3
      <3>2. QED BY <3>1
    <2>13. QED BY <1>3, <2>1, <2>8, <2>9, <2>10, <2>11, <2>12, QuietLane
  <1>8. QED BY <1>6, <1>7

LEMMA UpdateRow ==
    ASSUME ClimbShapes, NEW k \in EventIds, k.type = "run.update" PROVE IsRow(outbox[k])
  <1>1. PICK r \in Runs, n \in Levels : k = Update(r, n)
    BY UpdateIds
  <1>2. IsRow(outbox[Update(r, n)])
    BY DEF ClimbShapes
  <1>3. QED BY <1>1, <1>2

(* A lane supersedes a row, its own claim among them.                      *)
LEMMA RetireAtBoundaryClimbs ==
    ASSUME ClimbInv, ClaimInv', NEW l \in Lanes, RetireAtBoundary(l)
    PROVE  ClimbInv'
  <1>1. PICK k : k = claim[l]
    OBVIOUS
  <1>2. PICK at : at = lane[l]
    OBVIOUS
  <1>3. /\ at \in {"retire", "replace"}
        /\ UNCHANGED <<lane, claim, entry, batch, received, updates, admission>>
    BY <1>2 DEF RetireAtBoundary, laneVars, lockVars, Here
  <1>4. k # NoKey /\ k \in EventIds /\ k.type = "run.update"
    <2>1. claim[l] # NoKey
      BY <1>2, <1>3 DEF ClimbInv, ClaimInv, ClaimHeld, Claimed
    <2>2. QED BY <1>1, <1>2, <1>3, <2>1 DEF ClimbInv, ClaimInv, LanesTyped, LaneClimbs
  <1>5. PICK r : r = k.run
    OBVIOUS
  <1>6. r \in Runs /\ Holds(updates[r], l) /\ Covered(l, r)
    BY <1>1, <1>2, <1>3, <1>4, <1>5, UpdateIds DEF ClimbInv, LaneClimbs
  <1>7. PICK c \in Standing(outbox, r) : Below(l, r, c)
    BY <1>6 DEF Covered
  <1>8. PICK j \in retiring[l] :
            /\ outbox' \in {outbox, [outbox EXCEPT ![j] = Suppress(@)]}
            /\ j = k => outbox' = [outbox EXCEPT ![j] = Suppress(@)]
            /\ retiring' = [retiring EXCEPT ![l] = @ \ {j}]
    <2>1. outbox = [i \in EventIds |-> outbox[i]]
      BY DEF ClimbInv, ClimbShapes
    <2>2. \A i : [outbox EXCEPT ![i] = outbox[i]] = outbox
      BY <2>1
    <2>3. QED BY <1>1, <2>2 DEF RetireAtBoundary
  <1>9. PICK n \in Levels : n < c /\ j = Update(r, n)
    BY <1>7, <1>8 DEF Below
  <1>10. Superseding(r, n)
    BY <1>8, <1>9 DEF Superseding
  <1>11. /\ outbox' = [i \in EventIds |-> outbox'[i]]
         /\ \A s \in Runs, m \in Levels : IsRow(outbox'[Update(s, m)])
         /\ StaysQueued /\ HighWater'
         /\ \A s \in Runs : s # r => Keeps(s)
         /\ \A s \in Runs : Published(outbox', s) \subseteq Published(outbox, s)
         /\ \A i \in EventIds : i.type = "run.update" /\ outbox[i].state = "delivered"
                                   => outbox'[i].state = "delivered"
         /\ c \in Standing(outbox', r)
    BY <1>6, <1>7, <1>9, <1>10, SupersedingKeeps DEF ClimbInv
  <1>12. /\ retiring' = [p \in Lanes \cup Admitters |-> retiring'[p]]
         /\ \A p \in Lanes \cup Admitters : p # l => retiring'[p] = retiring[p]
         /\ retiring'[l] = retiring[l] \ {j}
    BY <1>8 DEF ClimbInv, ClimbShapes
  <1>13. Covered(l, r)'
    BY <1>7, <1>11, <1>12 DEF Covered, Below
  <1>14. at = "retire" => OnTop(k)' \/ k \in retiring'[l] \/ outbox'[k].state = "delivered"
    <2>1. CASE j = k
      <3>1. outbox[k].state # "absent" /\ outbox'[k] = Suppress(outbox[k])
        <4>1. Queued(outbox[k])
          BY <1>1, <1>4 DEF ClimbInv, KnownIsQueued, QueuedUpdate
        <4>2. outbox'[k] = Suppress(outbox[k])
          BY <1>4, <1>8, <2>1 DEF ClimbInv, ClimbShapes
        <4>3. QED BY <4>1, <4>2 DEF Queued
      <3>2. IsRow(outbox[k])
        BY <1>4, UpdateRow DEF ClimbInv
      <3>3. PICK row : row = outbox[k]
        OBVIOUS
      <3>4. Suppress(row).state = "delivered"
        BY <3>1, <3>2, <3>3 DEF Suppress, IsRow
      <3>5. QED BY <3>1, <3>3, <3>4
    <2>2. CASE j # k
      <3>1. at = "retire" => OnTop(k) \/ k \in retiring[l] \/ outbox[k].state = "delivered"
        BY <1>1, <1>2 DEF ClimbInv, LaneClimbs
      <3>2. OnTop(k) => OnTop(k)'
        BY <1>3, <1>5, <1>6, <1>11 DEF OnTop
      <3>3. QED BY <1>4, <1>11, <1>12, <2>2, <3>1, <3>2
    <2>3. QED BY <2>1, <2>2
  <1>15. LaneClimbs(l)'
    <2>1. lane'[l] = at /\ claim'[l] = k
      BY <1>1, <1>2, <1>3
    <2>2. QED BY <1>3, <1>4, <1>5, <1>6, <1>13, <1>14, <2>1
             DEF LaneClimbs, Covered, Below, OnTop
  <1>16. \A s \in Runs : \A q : q # l /\ Holds(updates[s], q) => Holds(updates'[s], q) /\ Keeps(s)
    BY <1>3, <1>6, <1>11 DEF Holds
  <1>17. ASSUME NEW m \in Lanes, m # l, claim[m] # NoKey
         PROVE  /\ Published(outbox', claim[m].run) \subseteq Published(outbox, claim[m].run)
                /\ claim[m].type = "run.update" /\ outbox[claim[m]].state = "delivered"
                      => outbox'[claim[m]].state = "delivered"
    <2>1. claim[m] \in EventIds
      BY <1>17 DEF ClimbInv, ClaimInv, LanesTyped
    <2>2. claim[m].run \in Runs
      BY <2>1 DEF EventIds, EventId, Start, Update, Ended
    <2>3. QED BY <1>11, <2>1, <2>2
  <1>18. /\ entry' = [m \in Lanes |-> entry'[m]]
         /\ updates' \in [Runs -> Seq(Lanes \cup Admitters)]
         /\ \A m \in Lanes : m # l =>
               /\ lane'[m] = lane[m] \/ lane'[m] = "fetch"
               /\ claim'[m] = claim[m] /\ entry'[m] = entry[m] /\ batch'[m] = batch[m]
         /\ batch'[l] = batch[l] /\ received' = received /\ claim'[l] = claim[l]
    BY <1>3 DEF ClimbInv, ClimbShapes
  <1>19. QED BY <1>3, <1>11, <1>12, <1>15, <1>16, <1>17, <1>18, LaneStepped

LEMMA LeaveBoundaryClimbs ==
    ASSUME ClimbInv, ClaimInv', NEW l \in Lanes, LeaveBoundary(l)
    PROVE  ClimbInv'
  <1>1. PICK k : k = claim[l]
    OBVIOUS
  <1>2. /\ UNCHANGED <<outbox, received, retiring, admission, claim, batch>> /\ claim'[l] = k
        /\ updates' = Leave(updates, l) /\ retiring[l] = {}
    BY <1>1 DEF LeaveBoundary, Here
  <1>3. lane \in [Lanes -> LaneStates] /\ entry = [m \in Lanes |-> entry[m]]
    BY DEF ClimbInv, ClimbShapes, ClaimInv, LanesTyped
  <1>4. CASE lane' = [lane EXCEPT ![l] = "release"]
    <2>1. entry' = entry \/ \E row : entry' = [entry EXCEPT ![l] = row]
      BY DEF LeaveBoundary
    <2>2. LaneClimbs(l)'
      BY <1>3, <1>4, LaneAway DEF Delivering
    <2>3. QED BY <1>2, <1>4, <2>1, <2>2, OnwardClimbs
  <1>5. CASE lane' # [lane EXCEPT ![l] = "release"]
    <2>1. /\ lane[l] = "retire" /\ lane' = [lane EXCEPT ![l] = "gate"] /\ StillDue(l)
          /\ entry' = [entry EXCEPT ![l] = outbox[k]]
      BY <1>1, <1>5 DEF LeaveBoundary, Moves, LaneAt
    <2>2. k \in EventIds /\ k.type = "run.update"
      <3>1. claim[l] # NoKey
        BY <2>1 DEF ClimbInv, ClaimInv, ClaimHeld, Claimed
      <3>2. QED BY <1>1, <2>1, <3>1 DEF ClimbInv, ClaimInv, LanesTyped, LaneClimbs
    <2>3. outbox[k].state \in DueStates
      BY <1>1, <2>1 DEF StillDue, Due, DueStates
    <2>4. OnTop(k)
      <3>1. OnTop(k) \/ k \in retiring[l] \/ outbox[k].state = "delivered"
        BY <1>1, <2>1 DEF ClimbInv, LaneClimbs
      <3>2. QED BY <1>2, <2>3, <3>1 DEF DueStates
    <2>5. IsRow(outbox[k])
      BY <2>2, UpdateRow DEF ClimbInv
    <2>6. lane'[l] = "gate" /\ entry'[l] = outbox[k]
      BY <1>3, <2>1
    <2>7. LaneClimbs(l)'
      BY <1>2, <2>2, <2>3, <2>4, <2>5, <2>6 DEF LaneClimbs, OnTop, IsRow
    <2>8. QED BY <1>2, <2>1, <2>7, OnwardClimbs
  <1>6. QED BY <1>4, <1>5

(* The request goes out, the subject is read and written.                  *)
LEMMA OnTheWayClimbs ==
    ASSUME ClimbInv, ClaimInv', NEW l \in Lanes, Post(l) \/ ReadRecord(l) \/ WriteRecord(l)
    PROVE  ClimbInv'
  <1>1. /\ UNCHANGED <<outbox, received, retiring, admission, claim, batch, entry>>
        /\ updates' = updates
    BY DEF Post, ReadRecord, WriteRecord, Attempting, Here, lockVars
  <1>2. PICK pc \in {"post", "release", "write"} :
            /\ lane' = [lane EXCEPT ![l] = pc]
            /\ pc = "post" => lane[l] = "attempted"
    BY DEF Post, ReadRecord, WriteRecord, Moves, LaneAt
  <1>3. lane'[l] = pc /\ claim'[l] = claim[l] /\ entry'[l] = entry[l]
    BY <1>1, <1>2 DEF ClimbInv, ClaimInv, LanesTyped
  <1>4. LaneClimbs(l)'
    <2>1. CASE pc = "post"
      <3>1. PICK k : k = claim[l]
        OBVIOUS
      <3>2. k.type = "run.update" =>
                OnTop(k) /\ IsRow(entry[l]) /\ entry[l].state \in DueStates
        BY <1>2, <2>1, <3>1 DEF ClimbInv, LaneClimbs
      <3>3. OnTop(k)' <=> OnTop(k)
        BY <1>1 DEF OnTop
      <3>4. QED BY <1>3, <2>1, <3>1, <3>2, <3>3 DEF LaneClimbs, OnTop, IsRow
    <2>2. CASE pc # "post"
      BY <1>2, <1>3, <2>2, LaneAway DEF Delivering
    <2>3. QED BY <2>1, <2>2
  <1>5. QED BY <1>1, <1>2, <1>4, OnwardClimbs

(* The receiver takes the claimed event, of a run no other lane has.       *)
LEMMA ReceiveClimbs ==
    ASSUME ClimbInv, ClaimInv', NEW l \in Lanes, Receive(l)
    PROVE  ClimbInv'
  <1>1. PICK k : k = claim[l]
    OBVIOUS
  <1>2. /\ lane[l] = "post" /\ lane' = [lane EXCEPT ![l] = "received"]
        /\ received' = received \cup {<<k, entry[l].meaning>>}
        /\ UNCHANGED <<outbox, retiring, admission, claim, batch, entry, updates>>
    BY <1>1 DEF Receive, LaneAt, Moves, Here, lockVars
  <1>3. lane \in [Lanes -> LaneStates] /\ k # NoKey
    BY <1>1, <1>2 DEF ClimbInv, ClaimInv, LanesTyped, ClaimHeld, Claimed
  <1>4. LaneClimbs(l)'
    <2>1. lane'[l] = "received" /\ claim'[l] = k /\ entry'[l] = entry[l]
      BY <1>1, <1>2, <1>3
    <2>2. k.type = "run.update" => IsRow(entry[l]) /\ entry[l].state \in DueStates
      BY <1>1, <1>2 DEF ClimbInv, LaneClimbs
    <2>3. QED BY <2>1, <2>2 DEF LaneClimbs, IsRow
  <1>5. outbox' = [j \in EventIds |-> outbox'[j]] /\ SameRows
    BY <1>2 DEF SameRows, ClimbInv, ClimbShapes
  <1>6. /\ retiring' = [p \in Lanes \cup Admitters |-> retiring'[p]]
        /\ \A p \in Lanes \cup Admitters : p # l => retiring'[p] = retiring[p]
        /\ entry' = [m \in Lanes |-> entry'[m]]
        /\ \A m \in Lanes : m # l =>
              /\ lane'[m] = lane[m] \/ lane'[m] = "fetch"
              /\ claim'[m] = claim[m] /\ entry'[m] = entry[m] /\ batch'[m] = batch[m]
    BY <1>2, <1>3 DEF ClimbInv, ClimbShapes
  <1>7. \A p \in received' : p \in received \/ (claim[l] # NoKey /\ p[1] = claim[l])
    BY <1>1, <1>2, <1>3
  <1>8. batch'[l] = batch[l] /\ claim'[l] = claim[l]
    BY <1>2
  <1>9. QED BY <1>2, <1>4, <1>5, <1>6, <1>7, <1>8, QuietLane

LEMMA ReleaseClimbs ==
    ASSUME ClimbInv, ClaimInv', NEW l \in Lanes, Release(l)
    PROVE  ClimbInv'
  <1>1. /\ lane \in [Lanes -> LaneStates] /\ claim \in [Lanes -> EventIds \cup {NoKey}]
        /\ entry = [m \in Lanes |-> entry[m]]
    BY DEF ClimbInv, ClimbShapes, ClaimInv, LanesTyped
  <1>2. /\ UNCHANGED <<outbox, received, retiring, admission, batch>>
        /\ claim' = [claim EXCEPT ![l] = NoKey]
        /\ entry' = [entry EXCEPT ![l] = NoRow]
        /\ updates' = Leave(updates, l)
    BY DEF Release, Here, LeaveAll
  <1>3. /\ lane'[l] \in {"next", "fetch", "idle"}
        /\ \A m \in Lanes : m # l => lane'[m] = lane[m] \/ lane'[m] = "fetch"
    <2>1. CASE Forced(l) /\ Moves(l, "next")
      BY <1>1, <2>1 DEF Moves
    <2>2. CASE EndPass(l)
      BY <1>1, <2>2 DEF EndPass, Moves
    <2>3. CASE /\ l = Anchor
               /\ lane' = [lane EXCEPT ![Anchor] = "idle",
                                       ![Main] = IF up /\ @ = "idle" THEN "fetch" ELSE @]
      BY <1>1, <2>3 DEF Lanes, Main, Anchor
    <2>4. QED BY <2>1, <2>2, <2>3 DEF Release
  <1>4. LaneClimbs(l)'
    BY <1>3, LaneAway DEF Delivering
  <1>5. /\ entry' = [m \in Lanes |-> entry'[m]]
        /\ \A m \in Lanes : m # l =>
              /\ lane'[m] = lane[m] \/ lane'[m] = "fetch"
              /\ claim'[m] = claim[m] /\ entry'[m] = entry[m] /\ batch'[m] = batch[m]
    BY <1>1, <1>2, <1>3
  <1>6. batch'[l] = batch[l] /\ claim'[l] = NoKey
    BY <1>1, <1>2
  <1>7. QED BY <1>2, <1>4, <1>5, <1>6, StillLane

(* A lane writes the row it has claimed.  The row of an update stays active*)
(* or is published: none of its run falls silent, and only its own run is  *)
(* touched, which no other lane has claimed.                               *)
LEMMA PutClimbs ==
    ASSUME ClimbInv, ClaimInv', NEW l \in Lanes, NEW row, Puts(l, row), claim[l] # NoKey,
           claim[l].type = "run.update" =>
              /\ IsRow(row) /\ row.state \in DueStates \cup {"delivered"}
              /\ row.state = "delivered" => ~row.superseded,
           NEW pc, lane' = [lane EXCEPT ![l] = pc],
           \/ pc \notin Delivering
           \/ pc = "attempted" /\ lane[l] = "gate" /\ row = entry[l],
           UNCHANGED <<received, retiring, admission, claim, entry, batch, updates>>
    PROVE  ClimbInv'
  <1>1. PICK k : k = claim[l]
    OBVIOUS
  <1>2. k \in EventIds /\ k # NoKey /\ lane \in [Lanes -> LaneStates]
    BY <1>1 DEF ClimbInv, ClaimInv, LanesTyped
  <1>3. outbox' = [outbox EXCEPT ![k] = row] /\ lane'[l] = pc /\ claim'[l] = k /\ entry'[l] = entry[l]
    BY <1>1, <1>2 DEF Puts
  <1>4. /\ retiring' = [p \in Lanes \cup Admitters |-> retiring'[p]]
        /\ \A p \in Lanes \cup Admitters : p # l => retiring'[p] = retiring[p]
        /\ entry' = [m \in Lanes |-> entry'[m]]
        /\ updates' \in [Runs -> Seq(Lanes \cup Admitters)]
        /\ \A m \in Lanes : m # l =>
              /\ lane'[m] = lane[m] \/ lane'[m] = "fetch"
              /\ claim'[m] = claim[m] /\ entry'[m] = entry[m] /\ batch'[m] = batch[m]
        /\ received' = received /\ batch'[l] = batch[l] /\ claim'[l] = claim[l]
    BY <1>2 DEF ClimbInv, ClimbShapes
  <1>5. CASE k.type # "run.update"
    <2>1. SameRows /\ outbox' = [j \in EventIds |-> outbox'[j]]
      BY <1>3, <1>5, OtherRow DEF ClimbInv
    <2>2. LaneClimbs(l)'
      BY <1>3, <1>5 DEF LaneClimbs, Delivering
    <2>3. QED BY <1>4, <2>1, <2>2, QuietLane
  <1>6. CASE k.type = "run.update"
    <2>1. PICK r \in Runs, n \in Levels : k = Update(r, n) /\ k.run = r /\ k.n = n
      BY <1>2, <1>6, UpdateIds
    <2>2. /\ IsRow(row) /\ row.state \in DueStates \cup {"delivered"}
          /\ row.state = "delivered" => ~row.superseded
      BY <1>1, <1>6
    <2>3. outbox' = [outbox EXCEPT ![Update(r, n)] = row]
      BY <1>3, <2>1
    <2>4. /\ outbox' = [j \in EventIds |-> outbox'[j]]
          /\ outbox'[Update(r, n)] = row
          /\ \A s \in Runs, m \in Levels :
                /\ IsRow(outbox'[Update(s, m)])
                /\ s # r \/ m # n => outbox'[Update(s, m)] = outbox[Update(s, m)]
          /\ \A j \in EventIds : j # Update(r, n) => outbox'[j] = outbox[j]
          /\ \A s \in Runs : s # r =>
                Keeps(s) /\ Published(outbox', s) = Published(outbox, s)
      BY <2>2, <2>3, OneRow DEF ClimbInv
    <2>5. Queued(outbox[Update(r, n)])
      BY <1>1, <1>2, <1>6, <2>1 DEF ClimbInv, KnownIsQueued, QueuedUpdate
    <2>6. Queued(outbox'[Update(r, n)]) /\ n \in Standing(outbox', r)
      BY <2>2, <2>4, StandingIs DEF Queued, DueStates
    <2>7. \A m \in Levels : m # n =>
              /\ m \in Standing(outbox', r) <=> m \in Standing(outbox, r)
              /\ m \in Published(outbox', r) <=> m \in Published(outbox, r)
              /\ Queued(outbox'[Update(r, m)]) <=> Queued(outbox[Update(r, m)])
      BY <2>4, StandingIs
    <2>8. Keeps(r)
      BY <2>5, <2>6, <2>7 DEF Keeps
    <2>9. \A s \in Runs : Keeps(s)
      BY <2>4, <2>8
    <2>10. StaysQueued /\ HighWater'
      BY <2>9, WaterKept DEF ClimbInv, StaysQueued, Keeps
    <2>11. ASSUME NEW m \in Lanes, m # l, claim[m] # NoKey
           PROVE  /\ Published(outbox', claim[m].run) \subseteq Published(outbox, claim[m].run)
                  /\ claim[m].type = "run.update" /\ outbox[claim[m]].state = "delivered"
                        => outbox'[claim[m]].state = "delivered"
      <3>1. claim[m] \in EventIds /\ claim[m].run # r
        BY <1>1, <1>2, <2>1, <2>11 DEF ClimbInv, ClaimInv, LanesTyped, ClaimsApart
      <3>2. claim[m].run \in Runs /\ claim[m] # Update(r, n)
        <4>1. claim[m].run \in Runs
          BY <3>1 DEF EventIds, EventId, Start, Update, Ended
        <4>2. QED BY <2>1, <3>1, <4>1
      <3>3. QED BY <2>4, <3>1, <3>2
    <2>12. LaneClimbs(l)'
      <3>1. CASE pc \notin Delivering
        BY <1>3, <3>1, LaneAway
      <3>2. CASE pc = "attempted" /\ lane[l] = "gate" /\ row = entry[l]
        <4>1. OnTop(k) /\ IsRow(entry[l]) /\ entry[l].state \in DueStates
          BY <1>1, <1>6, <3>2 DEF ClimbInv, LaneClimbs
        <4>2. n \notin Published(outbox', r)
          BY <2>4, <3>2, <4>1, StandingIs DEF DueStates
        <4>3. Published(outbox', r) \subseteq Published(outbox, r)
          BY <2>7, <4>2, StandingIs
        <4>4. OnTop(k)'
          BY <1>4, <2>1, <4>1, <4>3 DEF OnTop
        <4>5. QED BY <1>3, <3>2, <4>1, <4>4 DEF LaneClimbs, OnTop, IsRow
      <3>3. QED BY <3>1, <3>2
    <2>13. \A s \in Runs : \A q : q # l /\ Holds(updates[s], q)
                                     => Holds(updates'[s], q) /\ Keeps(s)
      BY <2>9
    <2>14. \A s \in Runs, m \in Levels : IsRow(outbox'[Update(s, m)])
      BY <2>4
    <2>15. outbox' = [j \in EventIds |-> outbox'[j]]
      BY <2>4
    <2>16. QED BY <1>4, <2>10, <2>11, <2>12, <2>13, <2>14, <2>15, LaneStepped
  <1>7. QED BY <1>5, <1>6

LEMMA GateClimbs ==
    ASSUME ClimbInv, ClaimInv', NEW l \in Lanes,
           Gate(l) \/ Answered(l) \/ Refused(l) \/ Rejected(l)
    PROVE  ClimbInv'
  <1>1. UNCHANGED <<received, retiring, admission, claim, entry, batch, updates>>
    BY DEF Gate, Answered, Refused, Rejected, Attempting, Here, lockVars
  <1>2. lane[l] \in {"gate", "post", "received"}
    BY DEF Gate, Answered, Refused, Rejected, LaneAt
  <1>3. claim[l] # NoKey
    BY <1>2 DEF ClimbInv, ClaimInv, ClaimHeld, Claimed
  <1>4. PICK old : old = entry[l]
    OBVIOUS
  <1>5. claim[l].type = "run.update" => IsRow(old) /\ old.state \in DueStates
    BY <1>2, <1>4 DEF ClimbInv, LaneClimbs
  <1>6. lane \in [Lanes -> LaneStates]
    BY DEF ClimbInv, ClaimInv, LanesTyped
  <1>7. ASSUME UNCHANGED outbox, Moves(l, "release") PROVE ClimbInv'
    <2>1. LaneClimbs(l)'
      BY <1>6, <1>7, LaneAway DEF Delivering, Moves
    <2>2. QED BY <1>1, <1>7, <2>1, OnwardClimbs DEF Moves
  <1>8. ASSUME NEW row, Puts(l, row), NEW pc \in {"release", "record"}, Moves(l, pc),
               \/ \E waits : row = [old EXCEPT !.state = "delivered", !.waits = waits,
                                               !.deliveredAt = TRUE, !.superseded = FALSE]
               \/ \E state \in DueStates : \E waits : row = [old EXCEPT !.state = state, !.waits = waits]
        PROVE  ClimbInv'
    <2>1. claim[l].type = "run.update" =>
              /\ IsRow(row) /\ row.state \in DueStates \cup {"delivered"}
              /\ row.state = "delivered" => ~row.superseded
      BY <1>5, <1>8 DEF IsRow, DueStates
    <2>2. pc \notin Delivering
      BY DEF Delivering
    <2>3. QED BY <1>1, <1>3, <1>8, <2>1, <2>2, PutClimbs DEF Moves
  <1>9. CASE Gate(l)
    <2>1. CASE ~up /\ Moves(l, "release") /\ UNCHANGED <<outbox, timer>>
      BY <1>7, <2>1
    <2>2. CASE /\ lane[l] = "gate" /\ Puts(l, old) /\ Moves(l, "attempted")
      <3>1. claim[l].type = "run.update" =>
                /\ IsRow(old) /\ old.state \in DueStates \cup {"delivered"}
                /\ old.state = "delivered" => ~old.superseded
        BY <1>5 DEF DueStates
      <3>2. QED BY <1>1, <1>3, <1>4, <2>2, <3>1, PutClimbs DEF Moves
    <2>3. CASE Give(l, [old EXCEPT !.state = "delivered", !.waits = FALSE,
                                   !.deliveredAt = TRUE, !.superseded = FALSE])
      BY <1>8, <2>3 DEF Give
    <2>4. CASE Give(l, [old EXCEPT !.state = "blocked", !.waits = FALSE])
      BY <1>8, <2>4 DEF Give, DueStates
    <2>5. CASE Give(l, [old EXCEPT !.state = "pending", !.waits = TRUE])
      BY <1>8, <2>5 DEF Give, DueStates
    <2>6. QED BY <1>4, <1>9, <2>1, <2>2, <2>3, <2>4, <2>5 DEF Gate, LaneAt
  <1>10. CASE Answered(l)
    <2>1. PICK pc \in {"release", "record"} : Moves(l, pc)
      BY <1>10 DEF Answered
    <2>2. Puts(l, [old EXCEPT !.state = "delivered", !.waits = FALSE,
                              !.deliveredAt = TRUE, !.superseded = FALSE])
      BY <1>4, <1>10 DEF Answered
    <2>3. QED BY <1>8, <2>1, <2>2
  <1>11. CASE Refused(l)
    <2>1. Give(l, [old EXCEPT !.state = "retry", !.waits = TRUE])
      BY <1>4, <1>11 DEF Refused
    <2>2. QED BY <1>8, <2>1 DEF Give, DueStates
  <1>12. CASE Rejected(l)
    <2>1. Give(l, [old EXCEPT !.state = "blocked", !.waits = FALSE])
      BY <1>4, <1>12 DEF Rejected
    <2>2. QED BY <1>8, <2>1 DEF Give, DueStates
  <1>13. QED BY <1>9, <1>10, <1>11, <1>12

(* Timers, the clock, the operator and the process.                        *)
LEMMA ClimbInit == Init => ClimbInv
  <1> SUFFICES ASSUME Init PROVE ClimbInv
    OBVIOUS
  <1>1. ClimbShapes
    <2>1. /\ outbox = [k \in EventIds |-> outbox[k]]
          /\ entry = [l \in Lanes |-> entry[l]]
          /\ retiring = [p \in Lanes \cup Admitters |-> retiring[p]]
          /\ admission = [a \in Admitters |-> admission[a]]
      BY DEF Init
    <2>2. updates \in [Runs -> Seq(Lanes \cup Admitters)]
      <3>1. <<>> \in Seq(Lanes \cup Admitters)
        OBVIOUS
      <3>2. updates = [r \in Runs |-> <<>>]
        BY DEF Init
      <3>3. QED BY <3>1, <3>2
    <2>3. ASSUME NEW k \in EventIds PROVE IsRow(outbox[k])
      BY DEF Init, IsRow, NoRow
    <2>4. \A r \in Runs, n \in Levels : IsRow(outbox[Update(r, n)])
      BY <2>3, UpdateIds
    <2>5. \A a \in Admitters : IsAdmission(admission[a])
      BY DEF Init, AtRest, IsAdmission
    <2>6. QED BY <2>1, <2>2, <2>4, <2>5 DEF ClimbShapes
  <1>2. KnownIsQueued
    BY DispatchAssumption DEF Init, KnownIsQueued
  <1>3. HighWater
    <2>1. ASSUME NEW r \in Runs, NEW n \in Levels PROVE ~Queued(outbox[Update(r, n)])
      <3>1. Update(r, n) \in EventIds /\ \A s \in Started : Update(r, n) # Start(s)
        BY UpdateIds DEF Start, EventId
      <3>2. outbox[Update(r, n)] = NoRow
        BY <3>1 DEF Init
      <3>3. QED BY <3>2 DEF NoRow, Queued
    <2>2. QED BY <2>1 DEF HighWater
  <1>4. \A a \in Admitters : CallerClimbs(a)
    BY DEF Init, AtRest, CallerClimbs
  <1>5. \A l \in Lanes : LaneClimbs(l)
    BY DEF Init, LaneClimbs
  <1>6. QED BY <1>1, <1>2, <1>3, <1>4, <1>5, ClaimInit DEF ClimbInv

LEMMA WaitOverClimbs ==
    ASSUME ClimbInv, ClaimInv', NEW k \in EventIds, WaitOver(k)
    PROVE  ClimbInv'
  <1>1. /\ UNCHANGED <<lane, claim, entry, batch, received, retiring, updates, admission>>
        /\ outbox' = [outbox EXCEPT ![k].waits = FALSE]
    BY DEF WaitOver, laneVars, lockVars, Rest
  <1>2. outbox = [j \in EventIds |-> outbox[j]]
    BY DEF ClimbInv, ClimbShapes
  <1>3. PICK row : row = [outbox[k] EXCEPT !.waits = FALSE]
    OBVIOUS
  <1>4. /\ outbox' = [j \in EventIds |-> outbox'[j]] /\ outbox'[k] = row
        /\ \A j \in EventIds : j # k => outbox'[j] = outbox[j]
    BY <1>1, <1>2, <1>3
  <1>5. ASSUME NEW j \in EventIds, j.type = "run.update"
        PROVE  /\ IsRow(outbox'[j]) /\ IsRow(outbox[j])
               /\ outbox'[j].state = outbox[j].state
               /\ outbox'[j].superseded = outbox[j].superseded
    <2>1. IsRow(outbox[j])
      BY <1>5, UpdateRow DEF ClimbInv
    <2>2. CASE j = k
      <3>1. PICK old : old = outbox[k] /\ IsRow(old)
        BY <2>1, <2>2
      <3>2. row = [old EXCEPT !.waits = FALSE]
        BY <1>3, <3>1
      <3>3. IsRow(row) /\ row.state = old.state /\ row.superseded = old.superseded
        BY <3>1, <3>2 DEF IsRow
      <3>4. QED BY <1>4, <2>2, <3>1, <3>3
    <2>3. CASE j # k
      BY <1>4, <2>1, <2>3
    <2>4. QED BY <2>2, <2>3
  <1>6. ASSUME NEW r \in Runs, NEW n \in Levels
        PROVE  /\ IsRow(outbox'[Update(r, n)])
               /\ outbox'[Update(r, n)].state = outbox[Update(r, n)].state
               /\ outbox'[Update(r, n)].superseded = outbox[Update(r, n)].superseded
    BY <1>5, UpdateIds
  <1>7. ASSUME NEW r \in Runs
        PROVE  /\ Active(outbox', r) = Active(outbox, r)
               /\ Published(outbox', r) = Published(outbox, r)
               /\ Keeps(r)
    <2>1. \A n \in 1..MaxLevel :
              /\ outbox'[Update(r, n)].state = outbox[Update(r, n)].state
              /\ outbox'[Update(r, n)].superseded = outbox[Update(r, n)].superseded
      BY <1>6 DEF Levels
    <2>2. /\ Active(outbox', r) = Active(outbox, r)
          /\ Published(outbox', r) = Published(outbox, r)
      BY <2>1 DEF Active, Published
    <2>3. QED BY <2>1, <2>2 DEF Keeps, Standing, Queued, Levels
  <1>8. ClimbShapes'
    BY <1>1, <1>4, <1>6 DEF ClimbInv, ClimbShapes, IsAdmission, IsRow
  <1>9. HighWater'
    BY <1>7, WaterKept DEF ClimbInv
  <1>10. KnownIsQueued'
    <2>1. ASSUME NEW j \in EventIds, QueuedUpdate(j) PROVE QueuedUpdate(j)'
      BY <1>5, <2>1 DEF QueuedUpdate, Queued
    <2>2. \A l \in Lanes : \A p \in batch[l] : p[1] \in EventIds
      BY DEF ClimbInv, ClaimInv, LanesTyped
    <2>3. StaysQueued
      BY <1>7 DEF StaysQueued, Keeps
    <2>4. KnownIsQueued /\ ClaimInv
      BY DEF ClimbInv
    <2>5. received' = received /\ claim' = claim /\ \A l \in Lanes : batch'[l] = batch[l]
      BY <1>1
    <2>6. QED BY <2>3, <2>4, <2>5, KnownKept
  <1>11. ASSUME NEW a \in Admitters PROVE CallerClimbs(a)'
    <2>1. CallerClimbs(a)
      BY DEF ClimbInv
    <2>2. QED BY <1>1, <1>7, <2>1, CallerFrame
  <1>12. ASSUME NEW l \in Lanes PROVE LaneClimbs(l)'
    <2>1. LaneClimbs(l) /\ ClaimInv
      BY DEF ClimbInv
    <2>2. claim[l] # NoKey => claim[l] \in EventIds
      BY <2>1 DEF ClaimInv, LanesTyped
    <2>3. claim[l] # NoKey => claim[l].run \in Runs
      BY <2>2 DEF EventIds, EventId, Start, Update, Ended
    <2>4. claim[l] # NoKey =>
            /\ Published(outbox', claim[l].run) \subseteq Published(outbox, claim[l].run)
            /\ \A p \in received' : p[1].run = claim[l].run => p \in received
            /\ claim[l].type = "run.update" /\ outbox[claim[l]].state = "delivered"
                  => outbox'[claim[l]].state = "delivered"
      BY <1>1, <1>5, <1>7, <2>2, <2>3
    <2>5. QED BY <1>1, <1>7, <2>1, <2>4, LaneFrame
  <1>13. QED BY <1>8, <1>9, <1>10, <1>11, <1>12 DEF ClimbInv

(* A crash leaves the rows, and nobody at work on them.                    *)
LEMMA CrashClimbs ==
    ASSUME ClimbInv, ClaimInv', Crash
    PROVE  ClimbInv'
  <1>1. ClimbShapes'
    <2>1. /\ outbox' = [k \in EventIds |-> outbox'[k]]
          /\ \A r \in Runs, n \in Levels : IsRow(outbox'[Update(r, n)])
      BY DEF Crash, durable, ClimbInv, ClimbShapes
    <2>2. /\ entry' = [l \in Lanes |-> entry'[l]]
          /\ retiring' = [p \in Lanes \cup Admitters |-> retiring'[p]]
          /\ admission' = [a \in Admitters |-> admission'[a]]
      BY DEF Crash
    <2>3. updates' \in [Runs -> Seq(Lanes \cup Admitters)]
      <3>1. <<>> \in Seq(Lanes \cup Admitters)
        OBVIOUS
      <3>2. updates' = [r \in Runs |-> <<>>]
        BY DEF Crash
      <3>3. QED BY <3>1, <3>2
    <2>4. \A a \in Admitters : IsAdmission(admission'[a])
      BY DEF Crash, AtRest, IsAdmission
    <2>5. QED BY <2>1, <2>2, <2>3, <2>4 DEF ClimbShapes, IsAdmission, IsRow
  <1>2. KnownIsQueued' /\ HighWater'
    BY DEF Crash, durable, ClimbInv, KnownIsQueued, QueuedUpdate, HighWater, Standing
  <1>3. ASSUME NEW a \in Admitters PROVE CallerClimbs(a)'
    BY DEF Crash, AtRest, CallerClimbs
  <1>4. ASSUME NEW l \in Lanes PROVE LaneClimbs(l)'
    <2>1. lane'[l] = "idle"
      BY DEF Crash
    <2>2. QED BY <2>1, LaneAway DEF Delivering
  <1>5. QED BY <1>1, <1>2, <1>3, <1>4 DEF ClimbInv

LEMMA ClimbNext == ClimbInv /\ [Next]_vars => ClimbInv'
  <1> SUFFICES ASSUME ClimbInv, [Next]_vars PROVE ClimbInv'
    OBVIOUS
  <1>1. ClaimInv'
    BY ClaimNext DEF ClimbInv
  <1>2. ASSUME NEW a \in Admitters, Admit(a) PROVE ClimbInv'
    BY <1>1, <1>2, SubmitClimbs
  <1>3. ASSUME NEW a \in Admitters, Advance(a) PROVE ClimbInv'
    BY <1>1, <1>3, WaitClimbs, ExistingClimbs, UpsertClimbs, DoneClimbs, ReconcileClimbs,
       RetireClimbs, KickClimbs DEF Advance
  <1>4. ASSUME NEW l \in Lanes, Deliver(l) PROVE ClimbInv'
    BY <1>1, <1>4, FetchClimbs, TakePassClimbs, RereadClimbs, ReconcileAtBoundaryClimbs,
       RetireAtBoundaryClimbs, LeaveBoundaryClimbs, GateClimbs, OnTheWayClimbs, ReleaseClimbs
       DEF Deliver
  <1>5. ASSUME NEW l \in Lanes, Receive(l) \/ Refused(l) \/ Rejected(l) PROVE ClimbInv'
    BY <1>1, <1>5, ReceiveClimbs, GateClimbs
  <1>6. ASSUME UNCHANGED <<outbox, claim, entry, batch, received, retiring, updates, admission>>,
               \A l \in Lanes : lane'[l] = lane[l] \/ lane'[l] \in {"idle", "fetch"}
        PROVE  ClimbInv'
    BY <1>1, <1>6, WakeClimbs
  <1>7. CASE TimerFires \/ RetryNow
    <2>1. \A l \in Lanes : lane'[l] = lane[l] \/ lane'[l] \in {"idle", "fetch"}
      BY <1>7 DEF TimerFires, RetryNow, ProcessDueEntries
    <2>2. UNCHANGED <<outbox, claim, entry, batch, received, retiring, updates, admission>>
      BY <1>7 DEF TimerFires, RetryNow, ProcessDueEntries, durable, lockVars, Rest
    <2>3. QED BY <1>6, <2>1, <2>2
  <1>8. CASE Clock
    <2>1. CASE \E r \in Runs : GraceOver(r)
      <3>1. UNCHANGED <<outbox, lane, claim, entry, batch, received, retiring, updates, admission>>
        BY <2>1 DEF GraceOver, laneVars, lockVars, Rest
      <3>2. QED BY <1>6, <3>1
    <2>2. CASE \E k \in EventIds : WaitOver(k)
      BY <1>1, <2>2, WaitOverClimbs
    <2>3. QED BY <1>8, <2>1, <2>2 DEF Clock
  <1>9. CASE StartDispatch
    <2>1. UNCHANGED <<outbox, claim, entry, batch, received, retiring, updates, admission>>
      BY <1>9 DEF StartDispatch, durable, lockVars, Rest
    <2>2. \A l \in Lanes : lane'[l] = lane[l] \/ lane'[l] \in {"idle", "fetch"}
      BY <1>9 DEF StartDispatch, ClimbInv, ClaimInv, LanesTyped
    <2>3. QED BY <1>6, <2>1, <2>2
  <1>10. CASE ConfigureUrl \/ SetRunEndedEnabled \/ StopDispatch
    <2>1. UNCHANGED <<outbox, lane, claim, entry, batch, received, retiring, updates, admission>>
      BY <1>10 DEF ConfigureUrl, SetRunEndedEnabled, StopDispatch, durable, laneVars, lockVars, Rest
    <2>2. QED BY <1>6, <2>1
  <1>11. CASE Crash
    BY <1>1, <1>11, CrashClimbs
  <1>12. CASE UNCHANGED vars
    <2>1. UNCHANGED <<outbox, lane, claim, entry, batch, received, retiring, updates, admission>>
      BY <1>12 DEF vars, durable, laneVars, lockVars
    <2>2. QED BY <1>6, <2>1
  <1>13. QED BY <1>2, <1>3, <1>4, <1>5, <1>7, <1>8, <1>9, <1>10, <1>11, <1>12 DEF Next, Operator

(* What is queued of a run is said, by itself or by more, and whoever is   *)
(* about to supersede levels says more than they do                        *)
(* (reconcileRunUpdateForQueue, suppressSupersededRunUpdates).             *)
THEOREM ClimbHolds == Spec => []ClimbInv
  BY ClimbInit, ClimbNext, PTL DEF Spec

(* No receiver is sent a snapshot of a run behind one it took or one that  *)
(* was published, whatever fails, crashes or is retried                    *)
(* (reconcileRunUpdateAtDeliveryBoundary).                                 *)
THEOREM UpdatesAlwaysClimb == Spec => []UpdatesClimb
  <1>1. ClimbInv => UpdatesClimb
    BY DEF ClimbInv, LaneClimbs, OnTop, UpdatesClimb
  <1>2. QED BY <1>1, ClimbHolds, PTL
=============================================================================
