------------------------- MODULE AgentRuntimeProofs -------------------------
(***************************************************************************)
(* Three properties of the agent's background work for any observations,   *)
(* runs, commits and surroundings: work in a queue has a turn coming,      *)
(* nothing starts again once a quiesce has answered drained, and by then   *)
(* what was accepted has been carried to its end.                          *)
(***************************************************************************)
EXTENDS AgentRuntime, TLAPS

(*--------------------------------- lanes --------------------------------*)

IsLane(x) ==
    /\ x = [at |-> x.at, again |-> x.again, full |-> x.full, item |-> x.item]
    /\ x.again \in BOOLEAN

LaneTable(lanes) ==
    /\ lanes = [l \in Lanes |-> lanes[l]]
    /\ \A l \in Lanes : IsLane(lanes[l])

Busy(lanes, l) == lanes[l].at # "idle"

(* A lane that is asked for is busy, a busy lane stays so, and one that was *)
(* busy when it was asked for takes another turn.                           *)
LEMMA AskedLanes ==
    ASSUME NEW lanes, LaneTable(lanes), NEW asks
    PROVE  /\ LaneTable(Asked(lanes, asks))
           /\ \A l \in Lanes :
                  /\ l \notin asks => Asked(lanes, asks)[l] = lanes[l]
                  /\ l \in asks \/ Busy(lanes, l) => Busy(Asked(lanes, asks), l)
                  /\ l \in asks /\ Busy(lanes, l) => Asked(lanes, asks)[l].again = TRUE
                  /\ Asked(lanes, asks)[l].at \in {lanes[l].at, "start"}
<1> DEFINE A == Asked(lanes, asks)
<1>1. ASSUME NEW l \in Lanes
      PROVE  /\ IsLane(A[l])
             /\ l \notin asks => A[l] = lanes[l]
             /\ l \in asks \/ Busy(lanes, l) => Busy(A, l)
             /\ l \in asks /\ Busy(lanes, l) => A[l].again = TRUE
             /\ A[l].at \in {lanes[l].at, "start"}
  <2>1. IsLane(lanes[l])
    BY DEF LaneTable
  <2>2. CASE l \notin asks
    BY <2>1, <2>2 DEF Asked, Busy
  <2>3. CASE l \in asks
    <3>1. A[l] = [lanes[l] EXCEPT !.again = lanes[l].at # "idle",
                                  !.at = IF @ = "idle" THEN "start" ELSE @,
                                  !.full = l \in Runs /\ owner = "full"]
      BY <2>3 DEF Asked
    <3>2. /\ A[l].again = (lanes[l].at # "idle")
          /\ A[l].at = IF lanes[l].at = "idle" THEN "start" ELSE lanes[l].at
          /\ A[l] = [at |-> A[l].at, again |-> A[l].again, full |-> A[l].full, item |-> A[l].item]
      BY <2>1, <3>1 DEF IsLane
    <3> QED BY <2>3, <3>2 DEF IsLane, Busy
  <2> QED BY <2>2, <2>3
<1>2. A = [l \in Lanes |-> A[l]]
  BY DEF Asked
<1> QED BY <1>1, <1>2 DEF LaneTable

(* The end of a turn is about its lane alone, which starts again if it was  *)
(* asked for meanwhile.                                                     *)
LEMMA EndedLanes ==
    ASSUME NEW lanes, LaneTable(lanes), NEW l \in Lanes
    PROVE  /\ LaneTable(Ended(lanes, l))
           /\ \A k \in Lanes \ {l} : Ended(lanes, l)[k] = lanes[k]
           /\ lanes[l].again = TRUE => Ended(lanes, l)[l].at = "start"
           /\ Ended(lanes, l)[l].at \in {"idle", "start"}
<1> DEFINE E == Ended(lanes, l)
           next == IF lanes[l].again THEN [Idle EXCEPT !.at = "start", !.full = lanes[l].full] ELSE Idle
<1>1. E = [lanes EXCEPT ![l] = next]
  BY DEF Ended
<1>2. lanes = [k \in Lanes |-> lanes[k]] /\ lanes[l].again \in BOOLEAN
  BY DEF LaneTable, IsLane
<1>3. E[l] = next /\ (\A k \in Lanes \ {l} : E[k] = lanes[k]) /\ E = [k \in Lanes |-> E[k]]
  BY <1>1, <1>2
<1>4. /\ IsLane(next) /\ next.at \in {"idle", "start"}
      /\ lanes[l].again = TRUE => next.at = "start"
  BY <1>2 DEF Idle, IsLane
<1>5. LaneTable(E)
  BY <1>3, <1>4 DEF LaneTable
<1> QED BY <1>3, <1>4, <1>5

(* A turn that ends and asks for nothing leaves the other lanes at work.     *)
LEMMA TurnEnds ==
    ASSUME LaneTable(lane), NEW l \in Lanes, EndTurn(l, {})
    PROVE  /\ LaneTable(lane')
           /\ \A k \in Lanes \ {l} : Busy(lane, k) => Busy(lane', k)
<1>1. PICK asked : asked = Asked(lane, {})
  OBVIOUS
<1>2. LaneTable(asked) /\ \A k \in Lanes : Busy(lane, k) => Busy(asked, k)
  BY <1>1, AskedLanes
<1>3. PICK ended : ended = Ended(asked, l)
  OBVIOUS
<1>4. LaneTable(ended) /\ \A k \in Lanes \ {l} : ended[k] = asked[k]
  BY <1>2, <1>3, EndedLanes
<1>5. lane' = ended
  BY <1>1, <1>3 DEF EndTurn
<1>6. \A k \in Lanes \ {l} : Busy(lane, k) => Busy(ended, k)
  BY <1>2, <1>4 DEF Busy
<1> QED BY <1>4, <1>5, <1>6

(* A turn that goes on, or a lane that is moved to its next await.          *)
LEMMA TurnedLanes ==
    ASSUME LaneTable(lane), NEW l \in Lanes, NEW at, NEW item, Turn(l, at, item)
    PROVE  /\ LaneTable(lane')
           /\ \A k \in Lanes \ {l} : lane'[k] = lane[k]
           /\ lane'[l].at = at
<1>1. lane = [k \in Lanes |-> lane[k]] /\ IsLane(lane[l])
  BY DEF LaneTable
<1>2. lane' = [lane EXCEPT ![l] = [lane[l] EXCEPT !.at = at, !.item = item]]
  <2>1. lane' = [lane EXCEPT ![l].at = at, ![l].item = item]
    BY DEF Turn
  <2> QED BY <1>1, <2>1 DEF IsLane
<1>3. lane'[l] = [lane[l] EXCEPT !.at = at, !.item = item]
  BY <1>1, <1>2
<1>4. IsLane(lane'[l]) /\ lane'[l].at = at
  BY <1>1, <1>3 DEF IsLane
<1>5. (\A k \in Lanes \ {l} : lane'[k] = lane[k]) /\ lane' = [k \in Lanes |-> lane'[k]]
  BY <1>1, <1>2
<1>6. LaneTable(lane)'
  BY <1>4, <1>5 DEF LaneTable
<1> QED BY <1>4, <1>5, <1>6

(*----------------------- waiting work has a turn ------------------------*)

QueueShapes ==
    /\ pending = [p \in Projections |-> pending[p]]
    /\ life = [priority |-> life.priority, history |-> life.history, commits |-> life.commits]
    /\ life.priority = [r \in Runs |-> life.priority[r]]
    /\ life.history = [r \in Runs |-> life.history[r]]
    /\ life.commits \in BOOLEAN

WaitInv == LaneTable(lane) /\ QueueShapes /\ WaitingWorkHasATurn

Queues == Projections \cup Lifecycles

(* The lanes of the queues are lanes of their own.                          *)
LEMMA QueueLanes ==
    /\ Queues \subseteq Lanes
    /\ {"usage", "commit", "commit_change", "evidence"} \subseteq Lanes \ Queues
    /\ Runs \subseteq Lanes \ Queues
BY RuntimeAssumption DEF Queues, Lanes, NamedLanes, Projections, Lifecycles

(* Nothing new waits, and no lane of a queue falls idle.                    *)
LEMMA StillWaiting ==
    ASSUME WaitInv, UNCHANGED <<pending, life>>, LaneTable(lane)',
           \A l \in Queues : Busy(lane, l) => Busy(lane', l)
    PROVE  WaitInv'
BY DEF WaitInv, QueueShapes, WaitingWorkHasATurn, Queues, Busy, NoRows

(* Lanes were asked for, and nothing else.                                  *)
LEMMA EnqueueWaits ==
    ASSUME WaitInv, UNCHANGED <<pending, life>>, NEW asks, Enqueue(asks)
    PROVE  WaitInv'
<1>1. lane' = Asked(lane, asks) /\ LaneTable(lane)
  BY DEF Enqueue, WaitInv
<1>2. LaneTable(lane') /\ \A l \in Lanes : Busy(lane, l) => Busy(lane', l)
  BY <1>1, AskedLanes
<1> QED BY <1>2, StillWaiting, QueueLanes

(* A turn of a lane l that is not of a queue ends, having asked for others. *)
LEMMA OtherTurnEnds ==
    ASSUME LaneTable(lane), NEW asks, NEW l \in Lanes \ Queues
    PROVE  /\ LaneTable(Ended(Asked(lane, asks), l))
           /\ \A q \in Queues :
                  q \in asks \/ Busy(lane, q) => Busy(Ended(Asked(lane, asks), l), q)
<1> DEFINE A == Asked(lane, asks)
<1>1. LaneTable(A) /\ \A q \in Lanes : q \in asks \/ Busy(lane, q) => Busy(A, q)
  BY AskedLanes
<1>2. LaneTable(Ended(A, l)) /\ \A q \in Lanes \ {l} : Ended(A, l)[q] = A[q]
  BY <1>1, EndedLanes
<1> QED BY <1>1, <1>2, QueueLanes DEF Busy

(* A lifecycle request gives its queue's lane a turn: what it leaves in the *)
(* other queue was there before.                                            *)
LEMMA ScheduledWaits ==
    ASSUME WaitInv, NEW runs, NEW priority \in BOOLEAN, life' = Scheduled(runs, priority),
           UNCHANGED pending, LaneTable(lane)',
           \A l \in Queues : l = LifecycleLane(priority) \/ Busy(lane, l) => Busy(lane', l)
    PROVE  WaitInv'
<1> DEFINE q == LifecycleLane(priority)
<1>1. q \in Lifecycles /\ q \in Queues /\ Busy(lane', q)
  BY DEF LifecycleLane, Lifecycles, Queues
<1>2. QueueShapes'
  BY DEF Scheduled, WaitInv, QueueShapes
<1>3. \A other \in Lifecycles \ {q} : life[other] = NoRows => life'[other] = NoRows
  <2>1. CASE priority
    <3>1. life'.history = [r \in Runs |-> IF runs[r] = {} THEN life.history[r] ELSE {}]
      BY <2>1 DEF Scheduled
    <3>2. life.history = NoRows => life'.history = NoRows
      BY <3>1 DEF NoRows
    <3> QED BY <2>1, <3>2 DEF Lifecycles, LifecycleLane
  <2>2. CASE ~priority
    <3>1. life'.priority = [r \in Runs |-> life.priority[r]]
      BY <2>2 DEF Scheduled
    <3>2. life.priority = NoRows => life'.priority = NoRows
      BY <3>1 DEF NoRows
    <3> QED BY <2>2, <3>2 DEF Lifecycles, LifecycleLane
  <2> QED BY <2>1, <2>2
<1>4. \A other \in Lifecycles : life'[other] # NoRows => lane'[other].at # "idle"
  BY <1>1, <1>3 DEF WaitInv, WaitingWorkHasATurn, Queues, Busy
<1>5. \A p \in Projections : pending'[p] # {} => lane'[p].at # "idle"
  BY DEF WaitInv, WaitingWorkHasATurn, Queues, Busy
<1> QED BY <1>1, <1>2, <1>4, <1>5 DEF WaitInv, WaitingWorkHasATurn, Busy, NoRows

(* What follows a lifecycle projection leaves a lane at work for what is    *)
(* left to do, in `next`.                                                   *)
LEMMA AfterProjectionWaits ==
    ASSUME WaitInv, NEW q \in Lifecycles, NEW next, AfterProjection(q, next), UNCHANGED pending,
           next = [priority |-> next.priority, history |-> next.history, commits |-> next.commits],
           next.priority = [r \in Runs |-> next.priority[r]],
           next.history = [r \in Runs |-> next.history[r]],
           next.commits \in BOOLEAN,
           \A other \in Lifecycles \ {q} : next[other] # NoRows => lane[other].at # "idle",
           Busy(lane, q)
    PROVE  WaitInv'
<1> DEFINE reconcile == /\ next.commits
                        /\ next.priority = NoRows /\ next.history = NoRows
                        /\ \A other \in Lifecycles \ {q} : ~InFlight(other)
           asks == (IF reconcile THEN {"commit"} ELSE {}) \cup (IF next[q] # NoRows THEN {q} ELSE {})
           A == Asked(lane, asks)
<1>1. life' = [next EXCEPT !.commits = @ /\ ~reconcile] /\ lane' = Ended(A, q)
  BY DEF AfterProjection, EndTurn
<1>2. q \in Lanes /\ q \in Queues /\ Lifecycles \subseteq Lanes
  BY QueueLanes DEF Queues
<1>3. /\ LaneTable(A)
      /\ \A l \in Lanes : l \in asks \/ Busy(lane, l) => Busy(A, l)
      /\ next[q] # NoRows => A[q].again = TRUE
  <2>1. LaneTable(lane)
    BY DEF WaitInv
  <2>2. /\ LaneTable(A)
        /\ \A l \in Lanes : l \in asks \/ Busy(lane, l) => Busy(A, l)
        /\ q \in asks /\ Busy(lane, q) => A[q].again = TRUE
    <3> HIDE DEF asks
    <3> QED BY <1>2, <2>1, AskedLanes
  <2>3. next[q] # NoRows => q \in asks
    OBVIOUS
  <2> QED BY <2>2, <2>3
<1>4. /\ LaneTable(lane')
      /\ \A l \in Lanes \ {q} : lane'[l] = A[l]
      /\ next[q] # NoRows => Busy(lane', q)
  <2>1. /\ LaneTable(Ended(A, q))
        /\ \A l \in Lanes \ {q} : Ended(A, q)[l] = A[l]
        /\ A[q].again = TRUE => Ended(A, q)[q].at = "start"
    <3> HIDE DEF A
    <3> QED BY <1>2, <1>3, EndedLanes
  <2> QED BY <1>1, <1>3, <2>1 DEF Busy
<1>5. \A l \in Queues \ {q} : Busy(lane, l) => Busy(lane', l)
  BY <1>3, <1>4, QueueLanes DEF Busy
<1>6. /\ life'.priority = next.priority /\ life'.history = next.history
      /\ life'.commits = (next.commits /\ ~reconcile)
      /\ life' = [priority |-> life'.priority, history |-> life'.history, commits |-> life'.commits]
  BY <1>1
<1>7. QueueShapes'
  BY <1>6 DEF WaitInv, QueueShapes
<1>8. \A other \in Lifecycles : life'[other] # NoRows => Busy(lane', other)
  BY <1>4, <1>5, <1>6 DEF Lifecycles, Queues, Busy
<1>9. \A p \in Projections : pending'[p] # {} => Busy(lane', p)
  BY <1>5 DEF WaitInv, WaitingWorkHasATurn, Queues, Busy, Projections, Lifecycles
<1>10. life'.commits => \E other \in Lifecycles : Busy(lane', other)
  <2> SUFFICES ASSUME life'.commits PROVE \E other \in Lifecycles : Busy(lane', other)
    OBVIOUS
  <2>1. ~reconcile /\ next.commits
    BY <1>6
  <2>2. CASE next.priority # NoRows \/ next.history # NoRows
    BY <1>6, <1>8, <2>2 DEF Lifecycles
  <2>3. CASE \E other \in Lifecycles \ {q} : InFlight(other)
    BY <1>5, <2>3 DEF InFlight, Busy, Queues
  <2> QED BY <2>1, <2>2, <2>3
<1> QED BY <1>4, <1>7, <1>8, <1>9, <1>10 DEF WaitInv, WaitingWorkHasATurn, Busy, NoRows

(* Storage, requests, the dispatch and the barrier: the queues and the      *)
(* lanes are left alone.                                                    *)
QuietSteps ==
    \/ \E o \in Observations : Submit(o) \/ SubmitSealed(o) \/ Append(o)
    \/ RebuildReads \/ RebuildUpserts \/ MaintenanceEnds \/ Maintain
    \/ WebhookTest \/ Transition \/ TransitionGoesOn \/ DispatchStarted \/ Deliver
    \/ Quiesce \/ BarrierWaits \/ BarrierNotes \/ BarrierDelivers
    \/ BarrierCompletes \/ BarrierRepeats \/ BarrierTimesOut
    \/ Restart

LEMMA QuietStepsLeaveQueues == QuietSteps => UNCHANGED <<lane, pending, life>>
<1>1. ASSUME NEW o \in Observations, Submit(o) \/ SubmitSealed(o) \/ Append(o)
      PROVE  UNCHANGED <<lane, pending, life>>
  BY <1>1 DEF Submit, SubmitSealed, Append, scheduler, lives
<1>2. CASE RebuildReads \/ RebuildUpserts \/ MaintenanceEnds \/ Maintain
  BY <1>2 DEF RebuildReads, RebuildUpserts, MaintenanceEnds, Maintain, scheduler, lives
<1>3. CASE WebhookTest \/ Transition \/ TransitionGoesOn \/ DispatchStarted \/ Deliver
  BY <1>3 DEF WebhookTest, Transition, TransitionGoesOn, DispatchStarted, Deliver, scheduler, lives
<1>4. CASE Quiesce \/ BarrierWaits \/ BarrierNotes \/ BarrierDelivers
              \/ BarrierCompletes \/ BarrierRepeats \/ BarrierTimesOut
  BY <1>4 DEF Quiesce, BarrierWaits, BarrierNotes, BarrierDelivers, BarrierCompletes, BarrierRepeats,
              BarrierTimesOut, BarrierOnly, lives
<1>5. CASE Restart
  BY <1>5 DEF Restart, scheduler, lives
<1> QED BY <1>1, <1>2, <1>3, <1>4, <1>5 DEF QuietSteps

LEMMA WaitInit == Init => WaitInv
<1> SUFFICES ASSUME Init PROVE WaitInv
  OBVIOUS
<1>1. lane = [l \in Lanes |-> Idle] /\ pending = NoProjection /\ life = NoLife
  BY DEF Init
<1>2. LaneTable(lane) /\ QueueShapes
  BY <1>1 DEF LaneTable, IsLane, Idle, QueueShapes, NoLife, NoRows, NoProjection
<1>3. /\ \A p \in Projections : pending[p] = {}
      /\ (\A q \in Lifecycles : life[q] = NoRows) /\ ~life.commits
  BY <1>1 DEF NoProjection, NoLife, Lifecycles
<1> QED BY <1>2, <1>3 DEF WaitInv, WaitingWorkHasATurn

LEMMA WaitStep == WaitInv /\ [Next]_vars => WaitInv'
<1> SUFFICES ASSUME WaitInv, [Next]_vars PROVE WaitInv'
  OBVIOUS
<1>1. CASE UNCHANGED <<lane, pending, life>>
  BY <1>1, StillWaiting DEF WaitInv, Busy, LaneTable, IsLane
<1>2. CASE QuietSteps
  BY <1>1, <1>2, QuietStepsLeaveQueues
<1>3. ASSUME NEW o \in Observations, DispatchAccepted(o) PROVE WaitInv'
  <2>1. CASE preStop
    BY <1>1, <1>3, <2>1 DEF DispatchAccepted, scheduler
  <2>2. CASE ~preStop
    <3>1. PICK late : ScheduleLiveIngest(o, late)
      BY <1>3, <2>2 DEF DispatchAccepted
    <3> DEFINE asks == LiveLanes(o) \cup late \cup (IF o \in Immediate THEN {RunOf[o]} ELSE {})
    <3>2. /\ lane' = Asked(lane, asks) /\ UNCHANGED life
          /\ pending' = [p \in Projections |->
                            IF p \in LiveLanes(o) THEN pending[p] \cup {o} ELSE pending[p]]
      BY <1>3, <3>1 DEF DispatchAccepted, ScheduleLiveIngest, Enqueue
    <3> HIDE DEF asks
    <3>3. /\ LaneTable(lane')
          /\ \A l \in Lanes : l \in asks \/ Busy(lane, l) => Busy(lane', l)
      BY <3>2, AskedLanes DEF WaitInv
    <3>4. \A p \in Projections : pending'[p] # {} => p \in asks \/ pending[p] # {}
      BY <3>2 DEF asks
    <3> QED BY <3>2, <3>3, <3>4, QueueLanes
            DEF WaitInv, QueueShapes, WaitingWorkHasATurn, Queues, Busy, NoRows
  <2> QED BY <2>1, <2>2
<1>4. ASSUME NEW t \in Runs \cup {"usage"}, TimerFires(t) PROVE WaitInv'
  <2>1. UNCHANGED <<pending, life>> /\ (UNCHANGED lane \/ Enqueue({t}))
    BY <1>4 DEF TimerFires, lives, scheduler
  <2> QED BY <1>1, <2>1, EnqueueWaits
<1>5. ASSUME NEW p \in Projections, DrainLive(p) PROVE WaitInv'
  <2>1. p \in Lanes /\ p \in Queues /\ UNCHANGED life
    BY <1>5, QueueLanes DEF DrainLive, Queues
  <2>2. \/ pending' = [pending EXCEPT ![p] = {}] /\ EndTurn(p, {})
        \/ \E o : pending' = [pending EXCEPT ![p] = @ \ {o}] /\ UNCHANGED lane
    <3>1. CASE pending[p] = {} \/ ~Dispatching
      BY <1>5, <3>1 DEF DrainLive
    <3>2. CASE ~(pending[p] = {} \/ ~Dispatching)
      <4>1. PICK o \in pending[p] :
                /\ pending' = [pending EXCEPT ![p] = @ \ {o}]
                /\ IF pending[p] = {o} THEN EndTurn(p, {}) ELSE UNCHANGED scheduler
        BY <1>5, <3>2 DEF DrainLive
      <4>2. CASE pending[p] = {o}
        <5>1. pending[p] \ {o} = {}
          BY <4>2
        <5> QED BY <4>1, <4>2, <5>1
      <4>3. CASE pending[p] # {o}
        BY <4>1, <4>3 DEF scheduler
      <4> QED BY <4>2, <4>3
    <3> QED BY <3>1, <3>2
  <2>3. CASE pending' = [pending EXCEPT ![p] = {}] /\ EndTurn(p, {})
    <3>1. /\ LaneTable(lane')
          /\ \A l \in Lanes \ {p} : Busy(lane, l) => Busy(lane', l)
      BY <2>1, <2>3, TurnEnds DEF WaitInv
    <3>2. /\ pending'[p] = {}
          /\ \A other \in Projections \ {p} : pending'[other] = pending[other]
          /\ pending' = [other \in Projections |-> pending'[other]]
      BY <2>3 DEF WaitInv, QueueShapes
    <3>3. \A q \in Queues \ {p} : Busy(lane, q) => Busy(lane', q)
      BY <3>1, QueueLanes
    <3>4. p \notin Lifecycles
      BY DEF Projections, Lifecycles
    <3> QED BY <2>1, <3>1, <3>2, <3>3, <3>4
            DEF WaitInv, QueueShapes, WaitingWorkHasATurn, Queues, Busy, NoRows
  <2>4. ASSUME NEW o, pending' = [pending EXCEPT ![p] = @ \ {o}], UNCHANGED lane
        PROVE  WaitInv'
    <3>1. /\ \A other \in Projections : pending'[other] # {} => pending[other] # {}
          /\ pending' = [other \in Projections |-> pending'[other]]
      BY <2>4 DEF WaitInv, QueueShapes
    <3> QED BY <2>1, <2>4, <3>1 DEF WaitInv, LaneTable, IsLane, QueueShapes, WaitingWorkHasATurn, NoRows
  <2> QED BY <2>2, <2>3, <2>4
<1>6. CASE DrainWorkspace
  <2>1. /\ pending' = [pending EXCEPT !["workspace"] = {}]
        /\ EndTurn("workspace", {}) /\ UNCHANGED life
    BY <1>6 DEF DrainWorkspace
  <2>2. "workspace" \in Lanes /\ "workspace" \in Projections \ Lifecycles
    BY QueueLanes DEF Queues, Projections, Lifecycles
  <2>3. /\ LaneTable(lane')
        /\ \A l \in Lanes \ {"workspace"} : Busy(lane, l) => Busy(lane', l)
    BY <2>1, <2>2, TurnEnds DEF WaitInv
  <2>4. /\ pending'["workspace"] = {}
        /\ \A other \in Projections \ {"workspace"} : pending'[other] = pending[other]
        /\ pending' = [other \in Projections |-> pending'[other]]
    BY <2>1, <2>2 DEF WaitInv, QueueShapes
  <2>5. \A q \in Queues \ {"workspace"} : Busy(lane, q) => Busy(lane', q)
    BY <2>3, QueueLanes
  <2> QED BY <2>1, <2>2, <2>3, <2>4, <2>5
          DEF WaitInv, QueueShapes, WaitingWorkHasATurn, Queues, Busy, NoRows
<1>7. ASSUME NEW q \in Lifecycles, TakeLifecycle(q) PROVE WaitInv'
  <2>1. Busy(lane, q) /\ UNCHANGED pending /\ q \in Lanes /\ q \in Queues
    BY <1>7, QueueLanes DEF TakeLifecycle, InTurn, Busy, lives, Queues
  <2>2. CASE ~Dispatching
    <3>1. life' = [priority |-> NoRows, history |-> NoRows, commits |-> FALSE] /\ EndTurn(q, {})
      BY <1>7, <2>2 DEF TakeLifecycle
    <3>2. /\ LaneTable(lane')
          /\ \A l \in Lanes \ {q} : Busy(lane, l) => Busy(lane', l)
      BY <2>1, <3>1, TurnEnds DEF WaitInv
    <3>3. QueueShapes'
      BY <2>1, <3>1 DEF WaitInv, QueueShapes, NoRows
    <3>4. \A p \in Projections : Busy(lane, p) => Busy(lane', p)
      BY <3>2, QueueLanes DEF Queues, Projections, Lifecycles
    <3>5. (\A other \in Lifecycles : life'[other] = NoRows) /\ ~life'.commits
      BY <3>1 DEF Lifecycles
    <3> QED BY <2>1, <3>2, <3>3, <3>4, <3>5 DEF WaitInv, WaitingWorkHasATurn, Busy, NoRows
  <2>3. CASE Dispatching /\ life[q] = NoRows
    <3>1. AfterProjection(q, life)
      BY <1>7, <2>3 DEF TakeLifecycle
    <3> QED BY <2>1, <3>1, AfterProjectionWaits DEF WaitInv, QueueShapes, WaitingWorkHasATurn
  <2>4. CASE Dispatching /\ life[q] # NoRows
    <3>1. PICK r \in Runs : /\ life' = [life EXCEPT ![q][r] = {}]
                            /\ Turn(q, "observe", <<r, life[q][r]>>)
      BY <1>7, <2>4 DEF TakeLifecycle
    <3>2. LaneTable(lane') /\ (\A k \in Lanes \ {q} : lane'[k] = lane[k]) /\ lane'[q].at = "observe"
      BY <2>1, <3>1, TurnedLanes DEF WaitInv
    <3>3. /\ QueueShapes' /\ life'.commits = life.commits
          /\ \A other \in Lifecycles \ {q} : life'[other] = life[other]
      <4>1. CASE q = "priority"
        BY <2>1, <3>1, <4>1 DEF WaitInv, QueueShapes, Lifecycles
      <4>2. CASE q = "history"
        BY <2>1, <3>1, <4>2 DEF WaitInv, QueueShapes, Lifecycles
      <4> QED BY <4>1, <4>2 DEF Lifecycles
    <3>4. \A l \in Queues : Busy(lane, l) => Busy(lane', l)
      BY <3>2, QueueLanes DEF Busy
    <3> QED BY <2>1, <3>2, <3>3, <3>4 DEF WaitInv, WaitingWorkHasATurn, Queues, Busy, NoRows
  <2> QED BY <2>2, <2>3, <2>4
<1>8. ASSUME NEW q \in Lifecycles, ObserveCompletedRun(q) PROVE WaitInv'
  <2>1. AfterProjection(q, life) /\ Busy(lane, q) /\ UNCHANGED pending
    BY <1>8 DEF ObserveCompletedRun, InTurn, Busy, lives
  <2> QED BY <2>1, AfterProjectionWaits DEF WaitInv, QueueShapes, WaitingWorkHasATurn
<1>9. ASSUME NEW l \in {"commit", "commit_change"}, ReconcileCommitEvents(l) PROVE WaitInv'
  <2>1. l \in Lanes \ Queues /\ UNCHANGED <<pending, life>> /\ lane' = Ended(Asked(lane, {}), l)
    BY <1>9, QueueLanes DEF ReconcileCommitEvents, EndTurn, lives
  <2> QED BY <2>1, OtherTurnEnds, StillWaiting DEF WaitInv
<1>10. CASE ScheduleBoundRuns
  <2>1. "evidence" \in Lanes \ Queues /\ UNCHANGED pending
    BY <1>10, QueueLanes DEF ScheduleBoundRuns, lives
  <2>2. CASE EndTurn("evidence", {}) /\ UNCHANGED life
    <3>1. lane' = Ended(Asked(lane, {}), "evidence")
      BY <2>2 DEF EndTurn
    <3> QED BY <2>1, <2>2, <3>1, OtherTurnEnds, StillWaiting DEF WaitInv
  <2>3. CASE life' = Scheduled(Only(work.run, durable[work.run]), TRUE) /\ EndTurn("evidence", {"priority"})
    <3>1. lane' = Ended(Asked(lane, {"priority"}), "evidence")
      BY <2>3 DEF EndTurn
    <3>2. /\ LaneTable(lane')
          /\ \A l \in Queues : l = LifecycleLane(TRUE) \/ Busy(lane, l) => Busy(lane', l)
      BY <2>1, <3>1, OtherTurnEnds DEF WaitInv, LifecycleLane
    <3> QED BY <2>1, <2>3, <3>2, ScheduledWaits
  <2> QED BY <1>10, <2>2, <2>3 DEF ScheduleBoundRuns
<1>11. ASSUME NEW r \in Runs, ReadQuery(r) PROVE WaitInv'
  <2>1. r \in Lanes \ Queues /\ UNCHANGED <<pending, life>> /\ Turn(r, "upsert", <<EvidenceOf(r), lane[r].full>>)
    BY <1>11, QueueLanes DEF ReadQuery, lives
  <2>2. LaneTable(lane') /\ \A k \in Lanes \ {r} : lane'[k] = lane[k]
    BY <2>1, TurnedLanes DEF WaitInv
  <2> QED BY <2>1, <2>2, QueueLanes, StillWaiting DEF Busy
<1>12. ASSUME NEW r \in Runs, UpsertQuery(r) PROVE WaitInv'
  <2>1. r \in Lanes \ Queues /\ UNCHANGED pending
    BY <1>12, QueueLanes DEF UpsertQuery, lives
  <2>2. \/ UNCHANGED life /\ EndTurn(r, {})
        \/ life' = Scheduled(Only(r, lane[r].item[1]), TRUE) /\ EndTurn(r, {"priority"})
    BY <1>12 DEF UpsertQuery
  <2>3. CASE UNCHANGED life /\ EndTurn(r, {})
    <3>1. lane' = Ended(Asked(lane, {}), r)
      BY <2>3 DEF EndTurn
    <3> QED BY <2>1, <2>3, <3>1, OtherTurnEnds, StillWaiting DEF WaitInv
  <2>4. CASE life' = Scheduled(Only(r, lane[r].item[1]), TRUE) /\ EndTurn(r, {"priority"})
    <3>1. lane' = Ended(Asked(lane, {"priority"}), r)
      BY <2>4 DEF EndTurn
    <3>2. /\ LaneTable(lane')
          /\ \A l \in Queues : l = LifecycleLane(TRUE) \/ Busy(lane, l) => Busy(lane', l)
      BY <2>1, <3>1, OtherTurnEnds DEF WaitInv, LifecycleLane
    <3> QED BY <2>1, <2>4, <3>2, ScheduledWaits
  <2> QED BY <2>2, <2>3, <2>4
<1>13. CASE UsageTurn
  <2>1. "usage" \in Lanes \ Queues /\ UNCHANGED <<pending, life>> /\ Turn("usage", "wait", NoItem)
    BY <1>13, QueueLanes DEF UsageTurn, lives
  <2>2. LaneTable(lane') /\ \A k \in Lanes \ {"usage"} : lane'[k] = lane[k]
    BY <2>1, TurnedLanes DEF WaitInv
  <2> QED BY <2>1, <2>2, QueueLanes, StillWaiting DEF Busy
<1>14. ASSUME NEW asks,
              lane' \in {Asked(lane, asks), Ended(Asked(lane, asks), "usage")}
       PROVE  /\ LaneTable(lane')
              /\ \A q \in Queues : q \in asks \/ Busy(lane, q) => Busy(lane', q)
  <2>1. CASE lane' = Asked(lane, asks)
    BY <2>1, AskedLanes, QueueLanes DEF WaitInv
  <2>2. CASE lane' = Ended(Asked(lane, asks), "usage")
    BY <2>2, OtherTurnEnds, QueueLanes DEF WaitInv
  <2> QED BY <1>14, <2>1, <2>2
<1>15. CASE RebuildSchedules
  <2> DEFINE asks == IF rebuild.full /\ Changed # NoRows /\ ~preStop THEN {LifecycleLane(replayed)} ELSE {}
  <2>1. /\ UNCHANGED pending
        /\ life' = IF asks = {} THEN life ELSE Scheduled(Changed, replayed)
        /\ lane' \in {Asked(lane, asks), Ended(Asked(lane, asks), "usage")}
    BY <1>15 DEF RebuildSchedules, RebuildEnds, lives
  <2>2. asks = {} \/ asks = {LifecycleLane(replayed)}
    OBVIOUS
  <2> HIDE DEF asks
  <2>3. /\ LaneTable(lane')
        /\ \A q \in Queues : q \in asks \/ Busy(lane, q) => Busy(lane', q)
    BY <2>1, <1>14
  <2>4. CASE asks = {}
    BY <2>1, <2>3, <2>4, StillWaiting
  <2>5. CASE asks = {LifecycleLane(replayed)}
    <3>1. life' = Scheduled(Changed, replayed)
      BY <2>1, <2>5
    <3>2. /\ Scheduled(Changed, replayed) = Scheduled(Changed, replayed = TRUE)
          /\ LifecycleLane(replayed) = LifecycleLane(replayed = TRUE)
      BY DEF Scheduled, LifecycleLane
    <3> QED BY <2>1, <2>3, <2>5, <3>1, <3>2, ScheduledWaits
  <2> QED BY <2>2, <2>4, <2>5
<1>16. CASE RebuildAttributes
  <2> DEFINE rows == [r \in Runs |-> IF r \in Identified \ attributed THEN rebuild.after[r] ELSE {}]
             asks == IF rows = NoRows \/ preStop THEN {} ELSE {"priority"}
  <2>1. /\ UNCHANGED pending
        /\ life' = IF asks = {} THEN life ELSE Scheduled(rows, TRUE)
        /\ lane' \in {Asked(lane, asks), Ended(Asked(lane, asks), "usage")}
    BY <1>16 DEF RebuildAttributes, RebuildEnds, lives
  <2>2. asks = {} \/ asks = {LifecycleLane(TRUE)}
    BY DEF LifecycleLane
  <2> HIDE DEF asks, rows
  <2>3. /\ LaneTable(lane')
        /\ \A q \in Queues : q \in asks \/ Busy(lane, q) => Busy(lane', q)
    BY <2>1, <1>14
  <2>4. CASE asks = {}
    BY <2>1, <2>3, <2>4, StillWaiting
  <2>5. CASE asks = {LifecycleLane(TRUE)}
    BY <2>1, <2>3, <2>5, ScheduledWaits
  <2> QED BY <2>2, <2>4, <2>5
<1>17. CASE RebuildFails
  <2>1. UNCHANGED <<pending, life>> /\ (lane' = lane \/ lane' = Ended(lane, "usage"))
    BY <1>17 DEF RebuildFails, lives
  <2>2. CASE lane' = Ended(lane, "usage")
    <3>1. LaneTable(lane') /\ \A k \in Lanes \ {"usage"} : lane'[k] = lane[k]
      BY <2>2, QueueLanes, EndedLanes DEF WaitInv
    <3> QED BY <2>1, <3>1, QueueLanes, StillWaiting DEF Busy
  <2> QED BY <1>1, <2>1, <2>2
<1>18. ASSUME NEW c \in Commits, CommitChanges(c) PROVE WaitInv'
  <2>1. UNCHANGED <<pending, life>> /\ (UNCHANGED lane \/ Enqueue({"commit_change"}))
    BY <1>18 DEF CommitChanges, AttributionAsks, scheduler
  <2> QED BY <1>1, <2>1, EnqueueWaits
<1>19. ASSUME NEW r \in Runs, EvidenceBound(r) PROVE WaitInv'
  <2>1. UNCHANGED <<pending, life>> /\ (UNCHANGED lane \/ Enqueue({"evidence"}))
    BY <1>19 DEF EvidenceBound, AttributionAsks, scheduler
  <2> QED BY <1>1, <2>1, EnqueueWaits
<1>20. CASE AttributionStarts
  <2>1. UNCHANGED <<pending, life>> /\ (UNCHANGED lane \/ Enqueue({"usage"}))
    BY <1>20 DEF AttributionStarts, scheduler, lives
  <2> QED BY <1>1, <2>1, EnqueueWaits
<1>21. CASE BarrierForces
  <2>1. UNCHANGED <<pending, life>> /\ Enqueue(Forced)
    BY <1>21 DEF BarrierForces, lives
  <2> QED BY <2>1, EnqueueWaits
<1>22. CASE Crash
  <2>1. /\ lane' = [l \in Lanes |-> Idle]
        /\ pending' = NoProjection /\ life' = NoLife
    BY <1>22 DEF Crash, Volatile
  <2>2. LaneTable(lane)' /\ QueueShapes'
    BY <2>1 DEF LaneTable, IsLane, Idle, QueueShapes, NoLife, NoRows, NoProjection
  <2>3. /\ \A p \in Projections : pending'[p] = {}
        /\ (\A q \in Lifecycles : life'[q] = NoRows) /\ ~life'.commits
    BY <2>1 DEF NoProjection, NoLife, Lifecycles
  <2> QED BY <2>2, <2>3 DEF WaitInv, WaitingWorkHasATurn, NoRows
<1> QED BY <1>1, <1>2, <1>3, <1>4, <1>5, <1>6, <1>7, <1>8, <1>9, <1>10, <1>11, <1>12, <1>13,
           <1>15, <1>16, <1>17, <1>18, <1>19, <1>20, <1>21, <1>22
        DEF Next, QuietSteps, Ingest, Project, Rebuild, Services, Barrier, vars, scheduler, lives

(* A queued observation, a run to project or a commit reconciliation always *)
(* has a lane at work for it, for any observations, runs and surroundings,  *)
(* through rebuilds, quiesces, failures and crashes (index.ts: every queue  *)
(* is filled together with an enqueue of its lane).                         *)
THEOREM WorkNeverStalls == Spec => []WaitingWorkHasATurn
<1>1. Init => WaitInv
  BY WaitInit
<1>2. WaitInv /\ [Next]_vars => WaitInv'
  BY WaitStep
<1>3. WaitInv => WaitingWorkHasATurn
  BY DEF WaitInv
<1> QED BY <1>1, <1>2, <1>3, PTL DEF Spec

(*------------------------- quiet after the seal -------------------------*)

(* An agent that becomes the full owner while a quiesce seals it starts its *)
(* services after the seal, and their changes of attribution are queued:    *)
(* the seal says nothing of an ownership transition under way.              *)
LateOwner == scene.owner # "full" /\ "attribution" \in scene.calls

ControlShapes ==
    /\ barrier = [at |-> barrier.at, pass |-> barrier.pass, was |-> barrier.was]
    /\ call = [test |-> call.test, transition |-> call.transition, rows |-> call.rows]
    /\ call.transition = "reading" => owner = "usage"
    /\ call.transition \in {"rebuilding", "storing"} => owner = "full"
    /\ scene \in Scenes

LanesIdle == \A l \in Lanes : lane[l].at = "idle"

(* A stopped agent has no barrier, no seal and no transition under way.     *)
DownIsOpen == ~up => ~preStop /\ barrier.at = "none" /\ call.transition = "none"

(* While the barrier watches and sees no move, no lane has work.            *)
MovesAreSeen == (moved => Noted) /\ (Noted /\ ~moved => LanesIdle)

(* Past the drain of the requests, a test stores nothing.                   *)
TestsAreRefused ==
    barrier.at \in {"drain", "runtime", "webhook", "final"} => call.test # "storing"

(* What was delivered stays the last that was queued, unless a lane moved.  *)
DeliveredIsAll == barrier.at = "final" /\ ~moved => ~queued

SealIsQuiet == preStop => PipelineQuiescent /\ ~queued /\ call.test # "storing"

(* Without a dispatcher nothing is queued and no service is starting.       *)
NoDispatcherNoRows ==
    ~Dispatching => /\ ~queued /\ ~starting /\ call.test # "storing"
                    /\ \A q \in Lifecycles : lane[q].at # "observe"

(* A full owner stays one, and its start is over when its rows are          *)
(* delivered; the other owner has no change of attribution to report.       *)
StartIsOver ==
    /\ scene.owner = "full" =>
           /\ owner = "full" /\ call.transition = "none"
           /\ barrier.at = "final" \/ preStop => ~starting
    /\ scene.owner # "full" => Unreported = {}

QuietInv ==
    /\ LaneTable(lane) /\ ControlShapes
    /\ DownIsOpen /\ MovesAreSeen /\ TestsAreRefused /\ DeliveredIsAll
    /\ SealIsQuiet /\ NoDispatcherNoRows /\ StartIsOver

LEMMA EndTurnLanes ==
    ASSUME LaneTable(lane), NEW l \in Lanes, NEW asks, EndTurn(l, asks)
    PROVE  /\ LaneTable(lane')
           /\ \A q \in Lanes : lane'[q].at = "observe" => lane[q].at = "observe"
<1> DEFINE A == Asked(lane, asks)
<1>1. LaneTable(A) /\ \A q \in Lanes : A[q].at \in {lane[q].at, "start"}
  BY AskedLanes
<1>2. lane' = Ended(A, l)
  BY DEF EndTurn
<1> HIDE DEF A
<1>3. /\ LaneTable(lane')
      /\ \A q \in Lanes \ {l} : lane'[q] = A[q]
      /\ lane'[l].at \in {"idle", "start"}
  BY <1>1, <1>2, EndedLanes
<1> QED BY <1>1, <1>3

(* A step of a busy lane: the barrier, if it watches, has seen a move.      *)
LEMMA BusyStep ==
    ASSUME QuietInv, NEW l \in Lanes, Busy(lane, l),
           UNCHANGED <<scene, owner, starting, call, barrier, preStop, up>>,
           LaneTable(lane'), moved => moved', moved' => moved \/ Noted,
           queued' => queued \/ Dispatching,
           \A q \in Lifecycles : lane'[q].at = "observe" => lane[q].at = "observe" \/ Dispatching,
           Unreported' \subseteq Unreported
    PROVE  QuietInv'
<1>1. ~preStop /\ (Noted => moved)
  BY DEF QuietInv, SealIsQuiet, PipelineQuiescent, MovesAreSeen, LanesIdle, Busy
<1>2. ControlShapes' /\ DownIsOpen' /\ TestsAreRefused' /\ StartIsOver'
  BY DEF QuietInv, ControlShapes, DownIsOpen, TestsAreRefused, StartIsOver
<1>3. MovesAreSeen'
  BY <1>1 DEF QuietInv, MovesAreSeen, Noted
<1>4. DeliveredIsAll'
  BY <1>1 DEF DeliveredIsAll, Noted
<1>5. SealIsQuiet'
  BY <1>1 DEF SealIsQuiet
<1>6. NoDispatcherNoRows'
  BY DEF QuietInv, NoDispatcherNoRows, Dispatching
<1> QED BY <1>2, <1>3, <1>4, <1>5, <1>6 DEF QuietInv

(* A step that asks for lanes, or for none, before the seal.                *)
LEMMA AskingStep ==
    ASSUME QuietInv, ~preStop, NEW asks,
           UNCHANGED <<scene, owner, starting, call, barrier, preStop, up>>,
           lane' = Asked(lane, asks), moved' = (moved \/ (Noted /\ asks # {})),
           queued' => queued, scene.owner # "full" => Unreported' \subseteq Unreported
    PROVE  QuietInv'
<1>1. /\ LaneTable(lane')
      /\ \A q \in Lanes : lane'[q].at = "observe" => lane[q].at = "observe"
      /\ \A q \in Lanes : q \notin asks => lane'[q] = lane[q]
  <2> DEFINE A == Asked(lane, asks)
  <2>1. LaneTable(lane)
    BY DEF QuietInv
  <2>2. LaneTable(A)
    BY <2>1, AskedLanes
  <2>3. ASSUME NEW q \in Lanes
        PROVE  A[q].at \in {lane[q].at, "start"} /\ (q \notin asks => A[q] = lane[q])
    <3>1. \A l \in Lanes : l \notin asks => A[l] = lane[l]
      BY DEF Asked
    <3>2. \A l \in Lanes : A[l].at \in {lane[l].at, "start"}
      BY <2>1, AskedLanes
    <3> QED BY <3>1, <3>2
  <2>4. lane' = A
    OBVIOUS
  <2> HIDE DEF A
  <2> QED BY <2>2, <2>3, <2>4
<1>2. ControlShapes' /\ DownIsOpen' /\ TestsAreRefused' /\ StartIsOver'
  BY DEF QuietInv, ControlShapes, DownIsOpen, TestsAreRefused, StartIsOver
<1>3. MovesAreSeen'
  BY <1>1 DEF QuietInv, MovesAreSeen, Noted, LanesIdle
<1>4. DeliveredIsAll' /\ SealIsQuiet'
  BY DEF QuietInv, DeliveredIsAll, SealIsQuiet
<1>5. NoDispatcherNoRows'
  BY <1>1, QueueLanes DEF QuietInv, NoDispatcherNoRows, Dispatching, Queues
<1> QED BY <1>1, <1>2, <1>3, <1>4, <1>5 DEF QuietInv

(* A step that leaves the lanes alone, and after the seal the pipeline.     *)
LEMMA OtherStep ==
    ASSUME QuietInv,
           UNCHANGED <<scene, owner, starting, call, barrier, preStop, up, lane, moved>>,
           preStop => UNCHANGED <<timers, pending, life, upkeep, rebuild>>,
           queued' => queued, scene.owner # "full" => Unreported' \subseteq Unreported
    PROVE  QuietInv'
<1>1. LaneTable(lane') /\ ControlShapes' /\ DownIsOpen' /\ TestsAreRefused' /\ StartIsOver'
  BY DEF QuietInv, ControlShapes, DownIsOpen, TestsAreRefused, StartIsOver
<1>2. MovesAreSeen' /\ DeliveredIsAll'
  BY DEF QuietInv, MovesAreSeen, Noted, LanesIdle, DeliveredIsAll
<1>3. SealIsQuiet'
  BY DEF QuietInv, SealIsQuiet, PipelineQuiescent, NoRows
<1>4. NoDispatcherNoRows'
  BY DEF QuietInv, NoDispatcherNoRows, Dispatching
<1> QED BY <1>1, <1>2, <1>3, <1>4 DEF QuietInv

(* A turn of a lane ends, or goes on at its next await.                     *)
LEMMA TurnStep ==
    ASSUME QuietInv, NEW l \in Lanes, Busy(lane, l), NEW asks,
           EndTurn(l, asks),
           UNCHANGED <<scene, owner, starting, call, barrier, preStop, up>>,
           queued' => queued \/ Dispatching, Unreported' \subseteq Unreported
    PROVE  QuietInv'
<1>1. LaneTable(lane') /\ \A q \in Lifecycles : lane'[q].at = "observe" => lane[q].at = "observe"
  BY EndTurnLanes, QueueLanes DEF QuietInv, Queues
<1>2. (moved => moved') /\ (moved' => moved \/ Noted)
  BY DEF EndTurn
<1> QED BY <1>1, <1>2, BusyStep

LEMMA AwaitStep ==
    ASSUME QuietInv, NEW l \in Lanes, Busy(lane, l), NEW at, NEW item, Turn(l, at, item),
           UNCHANGED <<scene, owner, starting, call, barrier, preStop, up>>,
           queued' => queued \/ Dispatching, Unreported' \subseteq Unreported,
           at = "observe" => Dispatching
    PROVE  QuietInv'
<1>1. LaneTable(lane') /\ \A q \in Lifecycles : lane'[q].at = "observe" => lane[q].at = "observe" \/ Dispatching
  BY TurnedLanes, QueueLanes DEF QuietInv, Queues
<1>2. moved' = moved
  BY DEF Turn
<1> QED BY <1>1, <1>2, BusyStep

(* A rebuild is under way only before the seal, whether or not the usage    *)
(* lane waits for it.                                                       *)
LEMMA RebuildStep ==
    ASSUME QuietInv, rebuild.at # "idle", NEW asks,
           lane' = Asked(lane, asks)
             \/ (lane["usage"].at = "wait" /\ lane' = Ended(Asked(lane, asks), "usage")),
           moved' = (moved \/ (Noted /\ asks # {})),
           UNCHANGED <<scene, owner, starting, call, barrier, preStop, up, queued, change>>
    PROVE  QuietInv'
<1>1. ~preStop /\ Unreported' = Unreported
  BY DEF QuietInv, SealIsQuiet, PipelineQuiescent, Unreported
<1>2. CASE lane' = Asked(lane, asks)
  BY <1>1, <1>2, AskingStep
<1>3. CASE lane["usage"].at = "wait" /\ lane' = Ended(Asked(lane, asks), "usage")
  <2>1. "usage" \in Lanes /\ Busy(lane, "usage")
    BY <1>3, QueueLanes DEF Busy
  <2>2. EndTurn("usage", asks)
    BY <1>3 DEF EndTurn
  <2> QED BY <1>1, <2>1, <2>2, TurnStep
<1> QED BY <1>2, <1>3

LEMMA QuietInit == Init => QuietInv
<1> SUFFICES ASSUME Init PROVE QuietInv
  OBVIOUS
<1>1. /\ lane = [l \in Lanes |-> Idle] /\ barrier = Open /\ call = NoCall
      /\ ~preStop /\ ~moved /\ ~queued /\ scene \in Scenes /\ up
      /\ change = [c \in Commits |-> "none"] /\ owner = scene.owner
      /\ starting = (~scene.warm /\ owner = "full")
  BY DEF Init
<1>2. LaneTable(lane) /\ \A l \in Lanes : lane[l].at = "idle"
  BY <1>1 DEF LaneTable, IsLane, Idle
<1>3. /\ barrier.at = "none" /\ call.test = "none" /\ call.transition = "none"
      /\ ControlShapes
  BY <1>1 DEF Open, NoCall, ControlShapes
<1>4. Unreported = {}
  BY <1>1 DEF Unreported
<1> QED BY <1>1, <1>2, <1>3, <1>4, QueueLanes
        DEF QuietInv, DownIsOpen, MovesAreSeen, Noted, TestsAreRefused, DeliveredIsAll, SealIsQuiet,
            NoDispatcherNoRows, Dispatching, StartIsOver, Queues

(* The steps of the barrier itself.                                         *)
LEMMA BarrierStep ==
    ASSUME QuietInv,
           Quiesce \/ BarrierWaits \/ BarrierForces \/ BarrierNotes \/ BarrierDelivers
             \/ BarrierCompletes \/ BarrierRepeats \/ BarrierTimesOut
    PROVE  QuietInv'
<1> USE DEF QuietInv
<1>1. UNCHANGED <<queued, scene, owner, starting, call, up, change, pending, life, upkeep, rebuild>>
  BY DEF Quiesce, BarrierWaits, BarrierForces, BarrierNotes, BarrierDelivers, BarrierCompletes,
         BarrierRepeats, BarrierTimesOut, BarrierOnly, durables, lives, usage
<1>2. Unreported' = Unreported /\ Dispatching' = Dispatching /\ up
  BY <1>1 DEF Unreported, Dispatching, Quiesce, BarrierWaits, BarrierForces, BarrierNotes,
              BarrierDelivers, BarrierCompletes, BarrierRepeats, BarrierTimesOut
<1>3. ASSUME UNCHANGED <<lane, timers>>, ControlShapes', MovesAreSeen', TestsAreRefused',
             DeliveredIsAll', SealIsQuiet',
             barrier'.at = "final" \/ preStop' =>
                 barrier.at = "final" \/ preStop \/ ~Dispatching \/ ~starting
      PROVE  QuietInv'
  <2>1. DownIsOpen' /\ LaneTable(lane)'
    BY <1>1, <1>2, <1>3 DEF DownIsOpen
  <2>2. NoDispatcherNoRows'
    BY <1>1, <1>2, <1>3 DEF NoDispatcherNoRows
  <2>3. StartIsOver'
    BY <1>1, <1>2, <1>3 DEF StartIsOver, NoDispatcherNoRows
  <2> QED BY <1>3, <2>1, <2>2, <2>3
<1>4. CASE Quiesce
  <2>1. /\ barrier' = [at |-> "ingress", pass |-> 1, was |-> preStop] /\ barrier.at = "none"
        /\ UNCHANGED <<lane, timers, moved, preStop>>
    BY <1>4 DEF Quiesce, Quiescing, BarrierOnly, usage
  <2>2. barrier'.at = "ingress" /\ ControlShapes'
    BY <1>1, <2>1 DEF ControlShapes
  <2> QED BY <1>1, <1>3, <2>1, <2>2
          DEF MovesAreSeen, Noted, TestsAreRefused, DeliveredIsAll, SealIsQuiet, PipelineQuiescent, NoRows
<1>5. CASE BarrierWaits
  <2>1. /\ barrier' = [barrier EXCEPT !.at = "drain"] /\ barrier.at = "ingress" /\ call.test = "none"
        /\ UNCHANGED <<lane, timers, moved, preStop>>
    BY <1>5 DEF BarrierWaits, BarrierOnly, usage
  <2>2. barrier'.at = "drain" /\ ControlShapes'
    BY <1>1, <2>1 DEF ControlShapes
  <2> QED BY <1>1, <1>3, <2>1, <2>2
          DEF MovesAreSeen, Noted, TestsAreRefused, DeliveredIsAll, SealIsQuiet, PipelineQuiescent, NoRows
<1>6. CASE BarrierForces
  <2>1. /\ barrier' = [barrier EXCEPT !.at = "runtime"] /\ barrier.at = "drain"
        /\ timers' = {} /\ UNCHANGED preStop
        /\ lane' = Asked(lane, Forced) /\ moved' = (moved \/ (Noted /\ Forced # {}))
    BY <1>6 DEF BarrierForces, Enqueue
  <2>2. barrier'.at = "runtime" /\ ControlShapes'
    BY <1>1, <2>1 DEF ControlShapes
  <2>8. ~moved'
    BY <2>1 DEF Noted, MovesAreSeen
  <2>3. LaneTable(lane') /\ \A q \in Lanes : lane'[q].at = "observe" => lane[q].at = "observe"
    BY <2>1, AskedLanes
  <2>4. SealIsQuiet'
    <3> SUFFICES ASSUME preStop PROVE SealIsQuiet'
      BY <2>1 DEF SealIsQuiet
    <3>1. PipelineQuiescent /\ ~queued /\ call.test # "storing"
      BY DEF SealIsQuiet
    <3>2. Forced = {}
      BY <3>1 DEF Forced, PipelineQuiescent
    <3>3. \A l \in Lanes : lane'[l] = lane[l]
      BY <2>1, <3>2 DEF Asked
    <3> QED BY <1>1, <2>1, <3>1, <3>3 DEF SealIsQuiet, PipelineQuiescent, NoRows
  <2>5. NoDispatcherNoRows'
    BY <1>1, <1>2, <2>3, QueueLanes DEF NoDispatcherNoRows, Queues
  <2>6. MovesAreSeen' /\ TestsAreRefused' /\ DeliveredIsAll' /\ DownIsOpen'
    BY <1>1, <1>2, <2>1, <2>2, <2>8 DEF MovesAreSeen, Noted, TestsAreRefused, DeliveredIsAll, DownIsOpen
  <2>7. StartIsOver'
    BY <1>1, <1>2, <2>1, <2>2 DEF StartIsOver
  <2> QED BY <2>2, <2>3, <2>4, <2>5, <2>6, <2>7
<1>7. CASE BarrierNotes
  <2>1. /\ barrier' = [barrier EXCEPT !.at = "webhook"] /\ barrier.at = "runtime" /\ PipelineQuiescent
        /\ UNCHANGED <<lane, timers, moved, preStop>>
    BY <1>7 DEF BarrierNotes, BarrierOnly, usage
  <2>2. barrier'.at = "webhook" /\ ControlShapes' /\ ~moved
    BY <1>1, <2>1 DEF ControlShapes, MovesAreSeen, Noted
  <2> QED BY <1>1, <1>3, <2>1, <2>2
          DEF MovesAreSeen, Noted, LanesIdle, TestsAreRefused, DeliveredIsAll, SealIsQuiet,
              PipelineQuiescent, NoRows
<1>8. CASE BarrierDelivers
  <2>1. /\ barrier' = [barrier EXCEPT !.at = "final"] /\ barrier.at = "webhook" /\ WebhookDrained
        /\ UNCHANGED <<lane, timers, moved, preStop>>
    BY <1>8 DEF BarrierDelivers, BarrierOnly, usage
  <2>2. barrier'.at = "final" /\ ControlShapes'
    BY <1>1, <2>1 DEF ControlShapes
  <2>3. ~queued /\ (~Dispatching \/ ~starting)
    BY <2>1 DEF WebhookDrained, NoDispatcherNoRows
  <2> QED BY <1>1, <1>3, <2>1, <2>2, <2>3
          DEF MovesAreSeen, Noted, LanesIdle, TestsAreRefused, DeliveredIsAll, SealIsQuiet,
              PipelineQuiescent, NoRows
<1>9. CASE BarrierCompletes
  <2>1. /\ barrier' = Open /\ barrier.at = "final" /\ Stable /\ preStop' = TRUE
        /\ UNCHANGED <<lane, timers, moved>>
    BY <1>9 DEF BarrierCompletes, BarrierOnly, usage
  <2>2. barrier'.at = "none" /\ ControlShapes'
    BY <1>1, <2>1 DEF ControlShapes, Open
  <2>3. ~moved /\ PipelineQuiescent /\ ~queued /\ call.test # "storing"
    BY <2>1 DEF Stable, DeliveredIsAll, TestsAreRefused
  <2>4. SealIsQuiet'
    BY <1>1, <2>1, <2>3 DEF SealIsQuiet, PipelineQuiescent, NoRows
  <2> QED BY <1>1, <1>3, <2>1, <2>2, <2>3, <2>4
          DEF MovesAreSeen, Noted, TestsAreRefused, DeliveredIsAll
<1>10. CASE BarrierRepeats
  <2>1. /\ barrier' = [barrier EXCEPT !.at = "drain", !.pass = @ + 1] /\ barrier.at = "final"
        /\ moved' = FALSE /\ UNCHANGED <<lane, timers, preStop>>
    BY <1>10 DEF BarrierRepeats, BarrierOnly, usage
  <2>2. barrier'.at = "drain" /\ ControlShapes'
    BY <1>1, <2>1 DEF ControlShapes
  <2> QED BY <1>1, <1>3, <2>1, <2>2
          DEF MovesAreSeen, Noted, TestsAreRefused, DeliveredIsAll, SealIsQuiet, PipelineQuiescent, NoRows
<1>11. CASE BarrierTimesOut
  <2>1. /\ barrier' = Open /\ moved' = FALSE /\ UNCHANGED <<lane, timers, preStop>>
    BY <1>11 DEF BarrierTimesOut, BarrierOnly, usage
  <2>2. barrier'.at = "none" /\ ControlShapes'
    BY <1>1, <2>1 DEF ControlShapes, Open
  <2> QED BY <1>1, <1>3, <2>1, <2>2
          DEF MovesAreSeen, Noted, TestsAreRefused, DeliveredIsAll, SealIsQuiet, PipelineQuiescent, NoRows
<1> QED BY <1>4, <1>5, <1>6, <1>7, <1>8, <1>9, <1>10, <1>11

LEMMA QuietStep == ~LateOwner /\ QuietInv /\ [Next]_vars => QuietInv'
<1> SUFFICES ASSUME ~LateOwner, QuietInv, [Next]_vars PROVE QuietInv'
  OBVIOUS
<1>1. CASE UNCHANGED vars
  <2>1. UNCHANGED <<lane, moved, timers, pending, life, upkeep, rebuild, scene, owner, starting, call,
                    barrier, preStop, up, queued, change>>
    BY <1>1 DEF vars, durables, scheduler, lives, usage, control
  <2> QED BY <2>1, OtherStep DEF Unreported
<1>2. CASE \E o \in Observations : Submit(o) \/ SubmitSealed(o) \/ Append(o)
  <2>1. UNCHANGED <<lane, moved, timers, pending, life, upkeep, rebuild, scene, owner, starting, call,
                    barrier, preStop, up, queued, change>>
    BY <1>2 DEF Submit, SubmitSealed, Append, durables, scheduler, lives, usage, control
  <2> QED BY <2>1, OtherStep DEF Unreported
<1>3. ASSUME NEW o \in Observations, DispatchAccepted(o) PROVE QuietInv'
  <2>1. UNCHANGED <<life, upkeep, rebuild, queued, change, scene, owner, starting, call, barrier,
                    preStop, up>>
    BY <1>3 DEF DispatchAccepted, durables, control
  <2>2. CASE preStop
    <3>1. UNCHANGED <<timers, pending, lane, moved>>
      BY <1>3, <2>2 DEF DispatchAccepted, scheduler
    <3> QED BY <2>1, <3>1, OtherStep DEF Unreported
  <2>3. CASE ~preStop
    <3>1. \E asks : lane' = Asked(lane, asks) /\ moved' = (moved \/ (Noted /\ asks # {}))
      BY <1>3, <2>3 DEF DispatchAccepted, ScheduleLiveIngest, Enqueue
    <3> QED BY <2>1, <2>3, <3>1, AskingStep DEF Unreported
  <2> QED BY <2>2, <2>3
<1>4. ASSUME NEW t \in Runs \cup {"usage"}, TimerFires(t) PROVE QuietInv'
  <2>1. t \in timers /\ UNCHANGED <<queued, change, scene, owner, starting, call, barrier, preStop, up>>
    BY <1>4 DEF TimerFires, durables, control
  <2>2. ~preStop
    BY <2>1 DEF QuietInv, SealIsQuiet, PipelineQuiescent
  <2>3. \E asks : lane' = Asked(lane, asks) /\ moved' = (moved \/ (Noted /\ asks # {}))
    BY <1>4, <2>2 DEF TimerFires, Enqueue
  <2> QED BY <2>1, <2>2, <2>3, AskingStep DEF Unreported
<1>5. ASSUME NEW p \in Projections, DrainLive(p) PROVE QuietInv'
  <2>1. p \in Lanes /\ Busy(lane, p) /\ LaneTable(lane) /\ Lifecycles \subseteq Lanes
    BY <1>5, QueueLanes DEF DrainLive, InTurn, Busy, Queues, QuietInv
  <2>5. UNCHANGED <<change, scene, owner, starting, call, barrier, preStop, up>>
    BY <1>5 DEF DrainLive, control
  <2>6. EndTurn(p, {}) \/ UNCHANGED scheduler
    BY <1>5 DEF DrainLive
  <2>2. queued' => queued \/ Dispatching
    BY <1>5 DEF DrainLive
  <2>3. CASE EndTurn(p, {})
    BY <2>1, <2>2, <2>3, <2>5, TurnStep DEF Unreported
  <2>4. CASE UNCHANGED scheduler
    <3>1. lane' = lane /\ moved' = moved /\ LaneTable(lane')
      BY <2>1, <2>4 DEF scheduler
    <3> QED BY <2>1, <2>2, <2>5, <3>1, BusyStep DEF Unreported
  <2> QED BY <2>3, <2>4, <2>6
<1>6. CASE DrainWorkspace
  <2>1. /\ "workspace" \in Lanes /\ Busy(lane, "workspace") /\ EndTurn("workspace", {})
        /\ UNCHANGED <<queued, change, scene, owner, starting, call, barrier, preStop, up>>
    BY <1>6, QueueLanes DEF DrainWorkspace, InTurn, Busy, control, durables, Queues, Projections
  <2> QED BY <2>1, TurnStep DEF Unreported
<1>7. ASSUME NEW q \in Lifecycles, TakeLifecycle(q) PROVE QuietInv'
  <2>1. /\ q \in Lanes /\ Busy(lane, q)
        /\ UNCHANGED <<queued, change, scene, owner, starting, call, barrier, preStop, up>>
    BY <1>7, QueueLanes DEF TakeLifecycle, InTurn, Busy, control, durables, Queues
  <2>2. \/ \E asks : EndTurn(q, asks)
        \/ Dispatching /\ \E item : Turn(q, "observe", item)
    BY <1>7 DEF TakeLifecycle, AfterProjection
  <2> QED BY <2>1, <2>2, TurnStep, AwaitStep DEF Unreported
<1>8. ASSUME NEW q \in Lifecycles, ObserveCompletedRun(q) PROVE QuietInv'
  <2>1. /\ q \in Lanes /\ Busy(lane, q) /\ \E asks : EndTurn(q, asks)
        /\ UNCHANGED <<change, scene, owner, starting, call, barrier, preStop, up>>
    BY <1>8, QueueLanes DEF ObserveCompletedRun, AfterProjection, InTurn, Busy, control, Queues
  <2>2. Dispatching
    BY <1>8 DEF ObserveCompletedRun, InTurn, QuietInv, NoDispatcherNoRows
  <2> QED BY <2>1, <2>2, TurnStep DEF Unreported
<1>9. ASSUME NEW l \in {"commit", "commit_change"}, ReconcileCommitEvents(l) PROVE QuietInv'
  <2>1. /\ l \in Lanes /\ Busy(lane, l) /\ EndTurn(l, {})
        /\ UNCHANGED <<scene, owner, starting, call, barrier, preStop, up>>
    BY <1>9, QueueLanes DEF ReconcileCommitEvents, InTurn, Busy, control
  <2>2. queued' => queued \/ Dispatching
    BY <1>9 DEF ReconcileCommitEvents
  <2>3. Unreported' \subseteq Unreported
    <3>1. change' = change \/ \E commits : change' = Reported(commits)
      BY <1>9 DEF ReconcileCommitEvents
    <3> QED BY <3>1 DEF Reported, Unreported
  <2> QED BY <2>1, <2>2, <2>3, TurnStep
<1>10. CASE ScheduleBoundRuns
  <2>1. /\ "evidence" \in Lanes /\ Busy(lane, "evidence") /\ \E asks : EndTurn("evidence", asks)
        /\ UNCHANGED <<queued, change, scene, owner, starting, call, barrier, preStop, up>>
    BY <1>10, QueueLanes DEF ScheduleBoundRuns, InTurn, Busy, control, durables
  <2> QED BY <2>1, TurnStep DEF Unreported
<1>11. ASSUME NEW r \in Runs, ReadQuery(r) PROVE QuietInv'
  <2>1. /\ r \in Lanes /\ Busy(lane, r) /\ \E item : Turn(r, "upsert", item)
        /\ UNCHANGED <<queued, change, scene, owner, starting, call, barrier, preStop, up>>
    BY <1>11, QueueLanes DEF ReadQuery, InTurn, Busy, control, durables
  <2> QED BY <2>1, AwaitStep DEF Unreported
<1>12. ASSUME NEW r \in Runs, UpsertQuery(r) PROVE QuietInv'
  <2>1. /\ r \in Lanes /\ Busy(lane, r) /\ \E asks : EndTurn(r, asks)
        /\ UNCHANGED <<queued, change, scene, owner, starting, call, barrier, preStop, up>>
    BY <1>12, QueueLanes DEF UpsertQuery, InTurn, Busy, control
  <2> QED BY <2>1, TurnStep DEF Unreported
<1>13. CASE UsageTurn
  <2>1. /\ "usage" \in Lanes /\ Busy(lane, "usage") /\ Turn("usage", "wait", NoItem)
        /\ UNCHANGED <<queued, change, scene, owner, starting, call, barrier, preStop, up>>
    BY <1>13, QueueLanes DEF UsageTurn, InTurn, Busy, control, durables
  <2> QED BY <2>1, AwaitStep DEF Unreported
<1>14. CASE RebuildReads \/ RebuildUpserts \/ MaintenanceEnds \/ Maintain
  <2>1. UNCHANGED <<lane, moved, queued, change, scene, owner, starting, call, barrier, preStop, up>>
    BY <1>14 DEF RebuildReads, RebuildUpserts, MaintenanceEnds, Maintain, durables, scheduler, control
  <2>2. ~preStop
    BY <1>14 DEF RebuildReads, RebuildUpserts, MaintenanceEnds, Maintain, InRebuild, QuietInv,
                 SealIsQuiet, PipelineQuiescent
  <2> QED BY <2>1, <2>2, OtherStep DEF Unreported
<1>15. CASE RebuildSchedules \/ RebuildAttributes \/ RebuildFails
  <2>1. /\ rebuild.at # "idle"
        /\ UNCHANGED <<queued, change, scene, owner, starting, call, barrier, preStop, up>>
    BY <1>15 DEF RebuildSchedules, RebuildAttributes, RebuildFails, InRebuild, durables, control
  <2>2. CASE RebuildSchedules
    <3>1. PICK asks :
              /\ \/ lane' = Asked(lane, asks)
                 \/ lane["usage"].at = "wait" /\ lane' = Ended(Asked(lane, asks), "usage")
              /\ moved' = (moved \/ (Noted /\ asks # {}))
      BY <2>2 DEF RebuildSchedules, RebuildEnds
    <3> QED BY <2>1, <3>1, RebuildStep
  <2>3. CASE RebuildAttributes
    <3>1. PICK asks :
              /\ \/ lane' = Asked(lane, asks)
                 \/ lane["usage"].at = "wait" /\ lane' = Ended(Asked(lane, asks), "usage")
              /\ moved' = (moved \/ (Noted /\ asks # {}))
      BY <2>3 DEF RebuildAttributes, RebuildEnds
    <3> QED BY <2>1, <3>1, RebuildStep
  <2>4. CASE RebuildFails
    <3>1. moved' = moved /\ (lane' = lane \/ (lane["usage"].at = "wait" /\ lane' = Ended(lane, "usage")))
      BY <2>4 DEF RebuildFails
    <3>2. ~preStop
      BY <2>1 DEF QuietInv, SealIsQuiet, PipelineQuiescent
    <3>3. CASE lane' = lane
      BY <2>1, <3>1, <3>2, <3>3, OtherStep DEF Unreported
    <3>4. CASE lane["usage"].at = "wait" /\ lane' = Ended(lane, "usage")
      <4>1. "usage" \in Lanes /\ Busy(lane, "usage")
        BY <3>4, QueueLanes DEF Busy
      <4>2. LaneTable(lane) /\ Lifecycles \subseteq Lanes
        BY QueueLanes DEF QuietInv, Queues
      <4>4. /\ LaneTable(Ended(lane, "usage"))
            /\ \A q \in Lanes \ {"usage"} : Ended(lane, "usage")[q] = lane[q]
        BY <4>1, <4>2, EndedLanes
      <4>3. LaneTable(lane') /\ \A q \in Lifecycles : lane'[q].at = "observe" => lane[q].at = "observe"
        BY <3>4, <4>2, <4>4, QueueLanes DEF Lifecycles
      <4> QED BY <2>1, <3>1, <4>1, <4>3, BusyStep DEF Unreported
    <3> QED BY <3>1, <3>3, <3>4
  <2> QED BY <1>15, <2>2, <2>3, <2>4
<1>16. ASSUME NEW c \in Commits, CommitChanges(c) PROVE QuietInv'
  <2>1. /\ scene.owner = "full"
        /\ UNCHANGED <<timers, pending, life, upkeep, rebuild, queued, scene, owner, starting, call,
                       barrier, preStop, up>>
    BY <1>16 DEF CommitChanges, LateOwner, usage, control
  <2>2. CASE preStop
    <3>1. UNCHANGED <<lane, moved>>
      BY <1>16, <2>2 DEF CommitChanges, AttributionAsks, scheduler
    <3> QED BY <2>1, <3>1, OtherStep
  <2>3. CASE ~preStop
    <3>1. \E asks : lane' = Asked(lane, asks) /\ moved' = (moved \/ (Noted /\ asks # {}))
      BY <1>16, <2>3 DEF CommitChanges, AttributionAsks, Enqueue
    <3> QED BY <2>1, <2>3, <3>1, AskingStep
  <2> QED BY <2>2, <2>3
<1>17. CASE AttributionStarts \/ \E r \in Runs : EvidenceBound(r)
  <2>1. UNCHANGED <<timers, pending, life, upkeep, rebuild, queued, change, scene, owner, starting,
                    call, barrier, preStop, up>>
    BY <1>17 DEF AttributionStarts, EvidenceBound, durables, lives, usage, control
  <2>2. CASE preStop
    <3>1. UNCHANGED <<lane, moved>>
      BY <1>17, <2>2 DEF AttributionStarts, EvidenceBound, AttributionAsks, scheduler
    <3> QED BY <2>1, <3>1, OtherStep DEF Unreported
  <2>3. CASE ~preStop
    <3>1. \E asks : lane' = Asked(lane, asks) /\ moved' = (moved \/ (Noted /\ asks # {}))
      BY <1>17, <2>3 DEF AttributionStarts, EvidenceBound, AttributionAsks, Enqueue
    <3> QED BY <2>1, <2>3, <3>1, AskingStep DEF Unreported
  <2> QED BY <2>2, <2>3
<1>18. CASE WebhookTest
  <2>1. /\ UNCHANGED <<lane, moved, timers, pending, life, upkeep, rebuild, change, scene, owner,
                       starting, barrier, preStop, up>>
        /\ \/ /\ call.test \in {"none", "arrived"} /\ queued' = queued
              /\ \E test : /\ call' = [call EXCEPT !.test = test]
                           /\ test = "storing" => ~Quiescing /\ ~preStop /\ Dispatching
           \/ call.test = "storing" /\ call' = [call EXCEPT !.test = "none"]
    BY <1>18 DEF WebhookTest, scheduler, lives, usage
  <2>2. /\ ControlShapes' /\ call'.transition = call.transition
        /\ call'.test = "storing" => ~Quiescing /\ ~preStop /\ Dispatching
        /\ call.test = "storing" \/ queued' = queued
    BY <2>1 DEF QuietInv, ControlShapes
  <2>3. Dispatching' = Dispatching /\ Unreported' = Unreported
    BY <2>1, <2>2 DEF Dispatching, Unreported
  <2>4. SealIsQuiet'
    BY <2>1, <2>2 DEF QuietInv, SealIsQuiet, PipelineQuiescent, NoRows
  <2>5. DeliveredIsAll' /\ TestsAreRefused'
    BY <2>1, <2>2 DEF QuietInv, DeliveredIsAll, TestsAreRefused, Quiescing
  <2>6. DownIsOpen' /\ MovesAreSeen' /\ NoDispatcherNoRows' /\ StartIsOver' /\ LaneTable(lane)'
    BY <2>1, <2>2, <2>3 DEF QuietInv, DownIsOpen, MovesAreSeen, Noted, LanesIdle, NoDispatcherNoRows,
                            StartIsOver
  <2> QED BY <2>2, <2>4, <2>5, <2>6 DEF QuietInv
<1>19. CASE Transition \/ TransitionGoesOn
  <2>1. /\ UNCHANGED <<lane, moved, timers, pending, life, upkeep, rebuild, queued, change, scene,
                       barrier, preStop, up>>
        /\ up
    BY <1>19 DEF Transition, TransitionGoesOn, durables, scheduler, lives, usage
  <2>2. scene.owner # "full"
    BY <1>19 DEF Transition, TransitionGoesOn, QuietInv, StartIsOver
  <2>3. ControlShapes' /\ call'.test = call.test
    <3>1. call = [test |-> call.test, transition |-> call.transition, rows |-> call.rows]
      BY DEF QuietInv, ControlShapes
    <3>2. CASE Transition
      <4>1. call' = [test |-> call.test, transition |-> "reading", rows |-> call.rows]
        BY <3>1, <3>2 DEF Transition
      <4>2. owner' = "usage"
        BY <3>2 DEF Transition, durables
      <4> QED BY <2>1, <4>1, <4>2 DEF QuietInv, ControlShapes
    <3>3. CASE TransitionGoesOn /\ call.transition = "reading"
      <4>1. /\ call' = [test |-> call.test, transition |-> "rebuilding", rows |-> call.rows]
            /\ owner' = "full"
        BY <3>1, <3>3 DEF TransitionGoesOn
      <4> QED BY <2>1, <4>1 DEF QuietInv, ControlShapes
    <3>4. CASE TransitionGoesOn /\ call.transition = "rebuilding"
      <4>1. PICK rows : rows = CompletedRows([r \in Runs |-> EvidenceOf(r)])
        OBVIOUS
      <4>2. call' = [test |-> call.test, transition |-> "storing", rows |-> rows]
        BY <3>1, <3>4, <4>1 DEF TransitionGoesOn
      <4>3. owner' = "full"
        BY <3>4 DEF TransitionGoesOn, QuietInv, ControlShapes
      <4> QED BY <2>1, <4>2, <4>3 DEF QuietInv, ControlShapes
    <3>5. CASE TransitionGoesOn /\ call.transition = "storing"
      <4>1. PICK rows : rows = NoRows
        OBVIOUS
      <4>2. call' = [test |-> call.test, transition |-> "none", rows |-> rows]
        BY <3>1, <3>5, <4>1 DEF TransitionGoesOn
      <4> QED BY <2>1, <4>2 DEF QuietInv, ControlShapes
    <3>6. TransitionGoesOn => call.transition \in {"reading", "rebuilding", "storing"}
      BY DEF TransitionGoesOn
    <3> QED BY <1>19, <3>2, <3>3, <3>4, <3>5, <3>6
  <2>4. StartIsOver'
    BY <2>1, <2>2 DEF QuietInv, StartIsOver, Unreported
  <2>5. NoDispatcherNoRows'
    <3>1. CASE Transition
      BY <2>1, <2>3, <3>1 DEF Transition, QuietInv, NoDispatcherNoRows, Dispatching
    <3>2. CASE TransitionGoesOn
      <4>1. ~Dispatching
        BY <3>2 DEF TransitionGoesOn, Dispatching, QuietInv, ControlShapes
      <4>2. CASE call.transition \in {"reading", "rebuilding"}
        <5>1. starting' = starting /\ call'.transition \in {"rebuilding", "storing"}
          BY <3>2, <4>2 DEF TransitionGoesOn, QuietInv, ControlShapes
        <5> QED BY <2>1, <2>3, <4>1, <5>1 DEF QuietInv, NoDispatcherNoRows
      <4>3. CASE call.transition = "storing"
        <5>1. call'.transition = "none" /\ UNCHANGED owner
          BY <3>2, <4>3 DEF TransitionGoesOn, QuietInv, ControlShapes
        <5> QED BY <4>3, <5>1 DEF QuietInv, ControlShapes, NoDispatcherNoRows, Dispatching
      <4>4. call.transition \in {"reading", "rebuilding", "storing"}
        BY <3>2 DEF TransitionGoesOn
      <4> QED BY <4>2, <4>3, <4>4
    <3> QED BY <1>19, <3>1, <3>2
  <2>6. SealIsQuiet'
    BY <2>1, <2>3 DEF QuietInv, SealIsQuiet, PipelineQuiescent, NoRows
  <2>7. DownIsOpen' /\ MovesAreSeen' /\ TestsAreRefused' /\ DeliveredIsAll' /\ LaneTable(lane)'
    BY <2>1, <2>3 DEF QuietInv, DownIsOpen, MovesAreSeen, Noted, LanesIdle, TestsAreRefused,
                      DeliveredIsAll
  <2> QED BY <2>3, <2>4, <2>5, <2>6, <2>7 DEF QuietInv
<1>20. CASE DispatchStarted
  <2>1. /\ starting /\ ~starting' /\ change' = Reported(Unreported)
        /\ UNCHANGED <<lane, moved, timers, pending, life, upkeep, rebuild, scene, owner, call, barrier,
                       preStop, up>>
    BY <1>20 DEF DispatchStarted, scheduler, lives, usage
  <2>2. Dispatching /\ Dispatching' /\ Unreported' \subseteq Unreported
    BY <2>1 DEF QuietInv, NoDispatcherNoRows, Dispatching, Reported, Unreported
  <2>3. barrier.at = "final" \/ preStop => (queued' => queued)
    BY <1>20, <2>1 DEF DispatchStarted, QuietInv, StartIsOver
  <2>4. SealIsQuiet'
    BY <2>1, <2>3 DEF QuietInv, SealIsQuiet, PipelineQuiescent, NoRows
  <2>5. StartIsOver'
    BY <2>1, <2>2 DEF QuietInv, StartIsOver
  <2>6. DeliveredIsAll' /\ NoDispatcherNoRows'
    BY <2>1, <2>2, <2>3 DEF QuietInv, DeliveredIsAll, NoDispatcherNoRows
  <2>7. ControlShapes' /\ DownIsOpen' /\ MovesAreSeen' /\ TestsAreRefused' /\ LaneTable(lane)'
    BY <2>1 DEF QuietInv, ControlShapes, DownIsOpen, MovesAreSeen, Noted, LanesIdle, TestsAreRefused
  <2> QED BY <2>4, <2>5, <2>6, <2>7 DEF QuietInv
<1>21. CASE Deliver
  <2>1. /\ UNCHANGED <<lane, moved, timers, pending, life, upkeep, rebuild, change, scene, owner,
                       starting, call, barrier, preStop, up>>
        /\ ~queued'
    BY <1>21 DEF Deliver, scheduler, lives, usage, control
  <2> QED BY <2>1, OtherStep DEF Unreported
<1>22. CASE Quiesce \/ Barrier \/ BarrierTimesOut
  BY <1>22, BarrierStep DEF Barrier
<1>23. CASE Crash
  <2>1. /\ lane' = [l \in Lanes |-> Idle] /\ barrier' = Open /\ call' = NoCall
        /\ ~preStop' /\ ~moved' /\ ~starting' /\ UNCHANGED <<scene, change, queued, owner>>
    BY <1>23 DEF Crash, Volatile, durables
  <2>2. LaneTable(lane') /\ \A l \in Lanes : lane'[l].at = "idle"
    BY <2>1 DEF LaneTable, IsLane, Idle
  <2>3. /\ barrier'.at = "none" /\ call'.test = "none" /\ call'.transition = "none"
        /\ ControlShapes'
    BY <2>1 DEF Open, NoCall, ControlShapes, QuietInv
  <2>4. NoDispatcherNoRows'
    BY <2>1, <2>2, <2>3, QueueLanes DEF QuietInv, NoDispatcherNoRows, Dispatching, Queues
  <2>5. StartIsOver'
    BY <2>1, <2>3 DEF QuietInv, StartIsOver, Unreported
  <2> QED BY <2>1, <2>2, <2>3, <2>4, <2>5
          DEF QuietInv, DownIsOpen, MovesAreSeen, Noted, TestsAreRefused, DeliveredIsAll, SealIsQuiet
<1>24. CASE Restart
  <2>1. /\ ~up /\ up' /\ (starting' <=> owner = "full")
        /\ UNCHANGED <<lane, moved, queued, change, scene, owner, call, barrier, preStop>>
    BY <1>24 DEF Restart, durables, scheduler
  <2>2. ~preStop /\ barrier.at = "none" /\ call.transition = "none"
    BY <2>1 DEF QuietInv, DownIsOpen
  <2>3. ControlShapes' /\ LaneTable(lane)' /\ MovesAreSeen' /\ DownIsOpen'
    BY <2>1 DEF QuietInv, ControlShapes, MovesAreSeen, Noted, LanesIdle, DownIsOpen
  <2>4. TestsAreRefused' /\ DeliveredIsAll' /\ SealIsQuiet' /\ StartIsOver'
    BY <2>1, <2>2 DEF QuietInv, TestsAreRefused, DeliveredIsAll, SealIsQuiet, StartIsOver, Unreported
  <2>5. NoDispatcherNoRows'
    BY <2>1, <2>2 DEF QuietInv, NoDispatcherNoRows, Dispatching
  <2> QED BY <2>3, <2>4, <2>5 DEF QuietInv
<1> QED BY <1>1, <1>2, <1>3, <1>4, <1>5, <1>6, <1>7, <1>8, <1>9, <1>10, <1>11, <1>12, <1>13, <1>14,
           <1>15, <1>16, <1>17, <1>18, <1>19, <1>20, <1>21, <1>22, <1>23, <1>24
        DEF Next, Ingest, Project, Rebuild, Services

(* A behaviour stays in its scene.                                          *)
LEMMA SceneStays == [Next]_vars => scene' = scene
<1> SUFFICES ASSUME [Next]_vars PROVE scene' = scene
  OBVIOUS
<1>1. CASE UNCHANGED vars \/ Ingest \/ \E o \in Observations : Submit(o) \/ SubmitSealed(o)
  BY <1>1 DEF vars, Ingest, Submit, SubmitSealed, Append, DispatchAccepted, TimerFires, control
<1>2. CASE Project
  BY <1>2 DEF Project, DrainWorkspace, DrainLive, TakeLifecycle, ObserveCompletedRun,
              ReconcileCommitEvents, ScheduleBoundRuns, ReadQuery, UpsertQuery, control
<1>3. CASE Rebuild \/ Maintain
  BY <1>3 DEF Rebuild, UsageTurn, RebuildReads, RebuildUpserts, RebuildSchedules, RebuildAttributes,
              RebuildFails, MaintenanceEnds, Maintain, control
<1>4. CASE Services \/ Transition \/ WebhookTest
  BY <1>4 DEF Services, TransitionGoesOn, DispatchStarted, AttributionStarts, Deliver, Transition,
              WebhookTest, control
<1>5. CASE (\E c \in Commits : CommitChanges(c)) \/ \E r \in Runs : EvidenceBound(r)
  BY <1>5 DEF CommitChanges, EvidenceBound, control
<1>6. CASE Quiesce \/ Barrier \/ BarrierTimesOut
  BY <1>6 DEF Quiesce, Barrier, BarrierTimesOut, BarrierWaits, BarrierForces, BarrierNotes,
              BarrierDelivers, BarrierCompletes, BarrierRepeats, BarrierOnly
<1>7. CASE Crash \/ Restart
  BY <1>7 DEF Crash, Restart
<1> QED BY <1>1, <1>2, <1>3, <1>4, <1>5, <1>6, <1>7 DEF Next

(* Unless the services of a late owner report attribution after the seal, a *)
(* quiesce that has succeeded leaves no lane, no timer and no undelivered   *)
(* row until a stop, whatever requests, timers, tests and maintenance it    *)
(* met (index.ts: the two generations around the delivery of the webhooks). *)
THEOREM SealHolds == Spec => [](~LateOwner => SealedStaysQuiet)
<1> DEFINE Inv == ~LateOwner => QuietInv
<1>1. Init => Inv
  BY QuietInit
<1>2. Inv /\ [Next]_vars => Inv'
  <2>1. [Next]_vars => (LateOwner' <=> LateOwner)
    BY SceneStays DEF LateOwner
  <2> QED BY <2>1, QuietStep
<1>3. Inv => (~LateOwner => SealedStaysQuiet)
  BY DEF QuietInv, SealIsQuiet, PipelineQuiescent, SealedStaysQuiet
<1> QED BY <1>1, <1>2, <1>3, PTL DEF Spec


(*----------------------- a drained agent is complete --------------------*)

(* A full owner whose storage and dispatch answer.  A run the dispatch        *)
(* refused, or a rebuild that failed, is retried by nothing.                *)
Undisturbed == scene.owner = "full" /\ scene.faults \cap {"ledger", "dispatch"} = {}

(* An accepted observation is queued or projected; ...                       *)
AcceptedIsOwed ==
    \A o \in Observations : request[o] = "done" =>
        /\ o \in pending[LiveLane(o)] \cup projected[LiveLane(o)]
        /\ o \in Hints => o \in pending["workspace"] \cup projected["workspace"]

(* ... a completed run was handed over with its row or waits: for the         *)
(* dispatch of an observation that closes it, for a timer, in a lane of     *)
(* its own, for the rebuild after a start, or for its lifecycle.            *)
Awaited(r) == \E o \in Closing : RunOf[o] = r /\ request[o] = "appended"

InItsLane(r) ==
    \/ lane[r].at = "start" \/ (lane[r].at # "idle" /\ lane[r].again = TRUE)
    \/ lane[r].at = "upsert" /\ Completed(lane[r].item[1])

InTheRebuild(r) ==
    /\ replayed = FALSE
    /\ \/ ~up
       \/ rebuild.at \in {"previous", "read"}
       \/ rebuild.at \in {"upsert", "warnings"} /\ rebuild.after[r] # {}

InQueues(r) == life.priority[r] # {} \/ life.history[r] # {}
Observed(q, r) == lane[q].at = "observe" /\ lane[q].item[1] = r
InLifecycle(r) == InQueues(r) \/ \E q \in Lifecycles : Observed(q, r)

CompletedIsOwed ==
    \A r \in Runs : Completed(EvidenceOf(r)) =>
        \/ published[r] # {}
        \/ Awaited(r) \/ r \in timers \/ InItsLane(r) \/ InTheRebuild(r) \/ InLifecycle(r)

HandedOverHasARow ==
    /\ \A r \in Runs : published[r] # {} \/ InLifecycle(r) => durable[r] # {}
    /\ \A r \in Runs : rebuild.at \in {"warnings", "attribute"} /\ rebuild.after[r] # {}
                           => durable[r] # {}
    /\ \A q \in Lifecycles : lane[q].at = "observe" => lane[q].item[2] # {}

(* The work of a run's lane captured a full owner, and so did a rebuild.      *)
CapturedIsFull ==
    /\ \A r \in Runs : /\ lane[r].at # "idle" => lane[r].full = TRUE
                       /\ lane[r].at = "upsert" => lane[r].item[2] = TRUE
    /\ rebuild.at \in {"read", "upsert", "warnings", "attribute"} => rebuild.full = TRUE

(* The seal was set with nothing on its way to the queues.                   *)
SealIsShut ==
    /\ preStop \/ barrier.at # "none" => seal.shut = TRUE
    /\ barrier.at # "none" => barrier.was = preStop
    /\ preStop => IngressIdle
    /\ ~up => replayed = FALSE

TableShapes ==
    /\ request = [o \in Observations |-> request[o]]
    /\ projected = [p \in Projections |-> projected[p]]
    /\ durable = [r \in Runs |-> durable[r]] /\ published = [r \in Runs |-> published[r]]
    /\ rebuild = [at |-> rebuild.at, requested |-> rebuild.requested, full |-> rebuild.full,
                  before |-> rebuild.before, after |-> rebuild.after]
    /\ seal = [shut |-> seal.shut, late |-> seal.late, moved |-> seal.moved]
    /\ replayed \in BOOLEAN

DrainInv ==
    /\ TableShapes /\ AcceptedIsOwed /\ CompletedIsOwed /\ HandedOverHasARow
    /\ CapturedIsFull /\ SealIsShut

(* What a step may do to the lanes it does not end a turn of.                *)
LanesGoOn(except) ==
    \A l \in Lanes \ except :
        /\ lane'[l].item = lane[l].item
        /\ lane'[l].at = lane[l].at \/ (lane[l].at = "idle" /\ lane'[l].at = "start")
        /\ lane[l].at # "idle" /\ lane[l].again = TRUE => lane'[l].again = TRUE
        /\ l \in Runs /\ lane'[l].at # "idle" => lane'[l].full = TRUE

LEMMA UntouchedGoOn ==
    ASSUME CapturedIsFull, UNCHANGED lane
    PROVE  LanesGoOn({})
BY DEF CapturedIsFull, LanesGoOn

LEMMA AskedGoOn ==
    ASSUME LaneTable(lane), CapturedIsFull, owner = "full", NEW asks, lane' = Asked(lane, asks)
    PROVE  /\ LanesGoOn({})
           /\ \A r \in Runs : r \in asks => InItsLane(r)'
<1>1. ASSUME NEW l \in Lanes, l \notin asks
      PROVE  lane'[l] = lane[l] /\ (l \in Runs /\ lane'[l].at # "idle" => lane'[l].full = TRUE)
  BY <1>1 DEF Asked, CapturedIsFull
<1>2. ASSUME NEW l \in Lanes, l \in asks
      PROVE  /\ lane'[l].item = lane[l].item
             /\ lane'[l].at = IF lane[l].at = "idle" THEN "start" ELSE lane[l].at
             /\ lane'[l].again = (lane[l].at # "idle")
             /\ lane'[l].full = (l \in Runs)
  <2>1. IsLane(lane[l])
    BY DEF LaneTable
  <2>2. lane'[l] = [lane[l] EXCEPT !.again = lane[l].at # "idle",
                                   !.at = IF @ = "idle" THEN "start" ELSE @,
                                   !.full = l \in Runs /\ owner = "full"]
    BY <1>2 DEF Asked
  <2> QED BY <2>1, <2>2 DEF IsLane
<1>3. LanesGoOn({})
  BY <1>1, <1>2 DEF LanesGoOn
<1>4. \A r \in Runs : r \in Lanes
  BY DEF Lanes
<1>5. \A r \in Runs : r \in asks => InItsLane(r)'
  BY <1>2, <1>4 DEF InItsLane
<1> QED BY <1>3, <1>5

LEMMA EndedGoOn ==
    ASSUME LaneTable(lane), CapturedIsFull, owner = "full", NEW asks, NEW l \in Lanes,
           lane[l].at # "idle", lane' = Ended(Asked(lane, asks), l)
    PROVE  /\ LanesGoOn({l})
           /\ \A r \in Runs : r \in asks /\ r # l => InItsLane(r)'
           /\ lane'[l].at \in {"idle", "start"}
           /\ l \in Runs /\ lane'[l].at = "start" => lane'[l].full = TRUE
           /\ l \in asks \/ lane[l].again = TRUE => lane'[l].at = "start"
<1>1. PICK A : A = Asked(lane, asks)
  OBVIOUS
<1>2. LaneTable(A)
  BY <1>1, AskedLanes
<1>3. \A k \in Lanes \ {l} :
          lane'[k] = A[k]
  BY <1>1, <1>2, EndedLanes
<1>4. ASSUME NEW k \in Lanes, k \notin asks
      PROVE  A[k] = lane[k] /\ (k \in Runs /\ A[k].at # "idle" => A[k].full = TRUE)
  BY <1>1, <1>4 DEF Asked, CapturedIsFull
<1>5. ASSUME NEW k \in Lanes, k \in asks
      PROVE  /\ A[k].item = lane[k].item
             /\ A[k].at = IF lane[k].at = "idle" THEN "start" ELSE lane[k].at
             /\ A[k].again = (lane[k].at # "idle")
             /\ A[k].full = (k \in Runs)
  <2>1. IsLane(lane[k])
    BY DEF LaneTable
  <2>2. A[k] = [lane[k] EXCEPT !.again = lane[k].at # "idle",
                               !.at = IF @ = "idle" THEN "start" ELSE @,
                               !.full = k \in Runs /\ owner = "full"]
    BY <1>1, <1>5 DEF Asked
  <2> QED BY <2>1, <2>2 DEF IsLane
<1>6. LanesGoOn({l})
  <2>1. ASSUME NEW k \in Lanes \ {l}
        PROVE  /\ lane'[k].item = lane[k].item
               /\ lane'[k].at = lane[k].at \/ (lane[k].at = "idle" /\ lane'[k].at = "start")
               /\ lane[k].at # "idle" /\ lane[k].again = TRUE => lane'[k].again = TRUE
               /\ k \in Runs /\ lane'[k].at # "idle" => lane'[k].full = TRUE
    <3>1. lane'[k] = A[k]
      BY <1>3
    <3>2. CASE k \in asks
      BY <1>5, <3>1, <3>2
    <3>3. CASE k \notin asks
      BY <1>4, <3>1, <3>3
    <3> QED BY <3>2, <3>3
  <2> QED BY <2>1 DEF LanesGoOn
<1>7. \A r \in Runs : r \in asks /\ r # l => InItsLane(r)'
  <2> SUFFICES ASSUME NEW r \in Runs, r \in asks, r # l PROVE InItsLane(r)'
    OBVIOUS
  <2>1. r \in Lanes
    BY DEF Lanes
  <2>2. lane'[r] = A[r]
    BY <1>3, <2>1
  <2>3. A[r].at = "start" \/ (A[r].at # "idle" /\ A[r].again = TRUE)
    BY <1>5, <2>1
  <2> QED BY <2>2, <2>3 DEF InItsLane
<1>8. /\ l \in asks \/ lane[l].again = TRUE => A[l].again = TRUE
      /\ l \in Runs => A[l].full = TRUE
  <2>1. CASE l \in asks
    BY <1>5, <2>1
  <2>2. CASE l \notin asks
    BY <1>4, <2>2
  <2> QED BY <2>1, <2>2
<1>9. lane'[l] = IF A[l].again THEN [Idle EXCEPT !.at = "start", !.full = A[l].full] ELSE Idle
  <2>1. A = [k \in Lanes |-> A[k]]
    BY <1>2 DEF LaneTable
  <2> QED BY <1>1, <2>1 DEF Ended
<1>10. lane'[l].at \in {"idle", "start"} /\ (lane'[l].at = "start" => lane'[l].full = A[l].full)
       /\ (A[l].again = TRUE => lane'[l].at = "start")
  <2>1. CASE A[l].again
    <3>1. lane'[l] = [Idle EXCEPT !.at = "start", !.full = A[l].full]
      BY <1>9, <2>1
    <3>2. lane'[l].at = "start" /\ lane'[l].full = A[l].full
      BY <3>1 DEF Idle
    <3> QED BY <3>2
  <2>2. CASE ~A[l].again
    <3>1. lane'[l].at = "idle"
      BY <1>9, <2>2 DEF Idle
    <3> QED BY <2>2, <3>1
  <2> QED BY <2>1, <2>2
<1> QED BY <1>6, <1>7, <1>8, <1>10

LEMMA TurnGoesOn ==
    ASSUME LaneTable(lane), CapturedIsFull, NEW l \in Lanes, NEW at, NEW item, Turn(l, at, item)
    PROVE  /\ LanesGoOn({l})
           /\ lane'[l].at = at /\ lane'[l].item = item
           /\ lane'[l].full = lane[l].full /\ lane'[l].again = lane[l].again
<1>1. lane = [k \in Lanes |-> lane[k]] /\ IsLane(lane[l])
  BY DEF LaneTable
<1>2. lane' = [lane EXCEPT ![l].at = at, ![l].item = item]
  BY DEF Turn
<1>3. lane'[l] = [lane[l] EXCEPT !.at = at, !.item = item] /\ \A k \in Lanes \ {l} : lane'[k] = lane[k]
  BY <1>1, <1>2 DEF IsLane
<1>4. /\ lane'[l].at = at /\ lane'[l].item = item
      /\ lane'[l].full = lane[l].full /\ lane'[l].again = lane[l].again
  BY <1>1, <1>3 DEF IsLane
<1>5. LanesGoOn({l})
  BY <1>3 DEF LanesGoOn, CapturedIsFull
<1> QED BY <1>4, <1>5

(* What a step has to keep of the rows, the queues, the turns, the waits and  *)
(* the rebuild: whoever waits in one of them is moved on to the next.      *)
RowsStay ==
    /\ durable' = [r \in Runs |-> durable'[r]] /\ published' = [r \in Runs |-> published'[r]]
    /\ \A r \in Runs : /\ durable[r] # {} => durable'[r] # {}
                       /\ published[r] # {} => published'[r] # {}
                       /\ published'[r] # {} => durable'[r] # {}

QueuesStay ==
    \A r \in Runs : /\ InQueues(r) => InQueues(r)' \/ \E q \in Lifecycles : Observed(q, r)'
                    /\ InQueues(r)' => durable'[r] # {}

TurnsStay(except) ==
    /\ LanesGoOn(except)
    /\ \A r \in Runs \cap except :
           /\ lane'[r].at # "idle" => lane'[r].full = TRUE
           /\ lane'[r].at = "upsert" => lane'[r].item[2] = TRUE
           /\ InItsLane(r) /\ Completed(EvidenceOf(r)) => InItsLane(r)' \/ InQueues(r)'
    /\ \A q \in Lifecycles \cap except :
           /\ lane'[q].at = "observe" =>
                  lane'[q].item[2] # {} /\ \A r \in Runs : lane'[q].item[1] = r => durable'[r] # {}
           /\ \A r \in Runs : Observed(q, r) => published'[r] # {}

WaitsStay ==
    \A r \in Runs : /\ Completed(EvidenceOf(r))' => Completed(EvidenceOf(r)) \/ Awaited(r)'
                    /\ Awaited(r) => Awaited(r)' \/ r \in timers'
                    /\ r \in timers => r \in timers' \/ InItsLane(r)'

RebuildStays ==
    /\ rebuild' = [at |-> rebuild'.at, requested |-> rebuild'.requested, full |-> rebuild'.full,
                   before |-> rebuild'.before, after |-> rebuild'.after]
    /\ rebuild'.at \in {"read", "upsert", "warnings", "attribute"} => rebuild'.full = TRUE
    /\ \A r \in Runs :
           /\ InTheRebuild(r) /\ Completed(EvidenceOf(r)) => InTheRebuild(r)' \/ InQueues(r)'
           /\ rebuild'.at \in {"warnings", "attribute"} /\ rebuild'.after[r] # {} => durable'[r] # {}

Kept == CompletedIsOwed' /\ HandedOverHasARow' /\ CapturedIsFull'

LEMMA DrainKept ==
    ASSUME DrainInv, RowsStay, QueuesStay, WaitsStay, RebuildStays, NEW except, TurnsStay(except)
    PROVE  Kept
<1>1. Lifecycles \subseteq Lanes /\ Runs \subseteq Lanes
  BY QueueLanes DEF Queues, Lanes
<1>2. ASSUME NEW r \in Runs, InItsLane(r), Completed(EvidenceOf(r))
      PROVE  InItsLane(r)' \/ InQueues(r)'
  <2>1. CASE r \in except
    BY <1>2, <2>1 DEF TurnsStay
  <2>2. CASE r \notin except
    <3>1. /\ lane'[r].item = lane[r].item
          /\ lane'[r].at = lane[r].at \/ (lane[r].at = "idle" /\ lane'[r].at = "start")
          /\ lane[r].at # "idle" /\ lane[r].again = TRUE => lane'[r].again = TRUE
      BY <1>1, <2>2 DEF TurnsStay, LanesGoOn
    <3> QED BY <1>2, <3>1 DEF InItsLane
  <2> QED BY <2>1, <2>2
<1>3. ASSUME NEW r \in Runs, NEW q \in Lifecycles, Observed(q, r)
      PROVE  published'[r] # {} \/ Observed(q, r)'
  <2>1. CASE q \in except
    BY <1>3, <2>1 DEF TurnsStay
  <2>2. CASE q \notin except
    BY <1>1, <1>3, <2>2 DEF TurnsStay, LanesGoOn, Observed
  <2> QED BY <2>1, <2>2
<1>4. ASSUME NEW r \in Runs, NEW q \in Lifecycles, Observed(q, r)'
      PROVE  durable'[r] # {}
  <2>1. CASE q \in except
    BY <1>4, <2>1 DEF TurnsStay, Observed
  <2>2. CASE q \notin except
    <3>1. Observed(q, r)
      BY <1>1, <1>4, <2>2 DEF TurnsStay, LanesGoOn, Observed
    <3>2. durable[r] # {}
      BY <3>1 DEF DrainInv, HandedOverHasARow, InLifecycle
    <3> QED BY <3>2 DEF RowsStay
  <2> QED BY <2>1, <2>2
<1>5. ASSUME NEW q \in Lifecycles, lane'[q].at = "observe" PROVE lane'[q].item[2] # {}
  <2>1. CASE q \in except
    BY <1>5, <2>1 DEF TurnsStay
  <2>2. CASE q \notin except
    <3>1. lane[q].at = "observe" /\ lane'[q].item = lane[q].item
      BY <1>1, <1>5, <2>2 DEF TurnsStay, LanesGoOn
    <3> QED BY <3>1 DEF DrainInv, HandedOverHasARow
  <2> QED BY <2>1, <2>2
<1>6. HandedOverHasARow'
  <2>1. ASSUME NEW r \in Runs, published'[r] # {} \/ InLifecycle(r)' PROVE durable'[r] # {}
    <3>1. CASE published'[r] # {}
      BY <3>1 DEF RowsStay
    <3>2. CASE InQueues(r)'
      BY <3>2 DEF QueuesStay
    <3>3. CASE \E q \in Lifecycles : Observed(q, r)'
      BY <1>4, <3>3
    <3> QED BY <2>1, <3>1, <3>2, <3>3 DEF InLifecycle
  <2> QED BY <1>5, <2>1 DEF HandedOverHasARow, RebuildStays
<1>7. CapturedIsFull'
  <2>1. ASSUME NEW r \in Runs
        PROVE  /\ lane'[r].at # "idle" => lane'[r].full = TRUE
               /\ lane'[r].at = "upsert" => lane'[r].item[2] = TRUE
    <3>1. CASE r \in except
      BY <3>1 DEF TurnsStay
    <3>2. CASE r \notin except
      <4>1. /\ lane'[r].item = lane[r].item
            /\ lane'[r].at = lane[r].at \/ (lane[r].at = "idle" /\ lane'[r].at = "start")
            /\ lane'[r].at # "idle" => lane'[r].full = TRUE
        BY <1>1, <3>2 DEF TurnsStay, LanesGoOn
      <4> QED BY <4>1 DEF DrainInv, CapturedIsFull
    <3> QED BY <3>1, <3>2
  <2> QED BY <2>1 DEF CapturedIsFull, RebuildStays
<1>8. CompletedIsOwed'
  <2> SUFFICES ASSUME NEW r \in Runs, Completed(EvidenceOf(r))'
               PROVE  \/ published'[r] # {}
                      \/ Awaited(r)' \/ r \in timers' \/ InItsLane(r)' \/ InTheRebuild(r)' \/ InLifecycle(r)'
    BY DEF CompletedIsOwed
  <2>1. CASE Awaited(r)'
    BY <2>1
  <2>2. CASE Completed(EvidenceOf(r))
    <3>1. \/ published[r] # {}
          \/ Awaited(r) \/ r \in timers \/ InItsLane(r) \/ InTheRebuild(r) \/ InLifecycle(r)
      BY <2>2 DEF DrainInv, CompletedIsOwed
    <3>2. CASE published[r] # {}
      BY <3>2 DEF RowsStay
    <3>3. CASE Awaited(r) \/ r \in timers
      BY <3>3 DEF WaitsStay
    <3>4. CASE InItsLane(r)
      BY <1>2, <2>2, <3>4 DEF InLifecycle
    <3>5. CASE InTheRebuild(r)
      BY <2>2, <3>5 DEF RebuildStays, InLifecycle
    <3>6. CASE InQueues(r)
      BY <3>6 DEF QueuesStay, InLifecycle
    <3>7. CASE \E q \in Lifecycles : Observed(q, r)
      BY <1>3, <3>7 DEF InLifecycle
    <3> QED BY <3>1, <3>2, <3>3, <3>4, <3>5, <3>6, <3>7 DEF InLifecycle
  <2> QED BY <2>1, <2>2 DEF WaitsStay
<1> QED BY <1>6, <1>7, <1>8 DEF Kept

LEMMA RowsFrame ==
    ASSUME DrainInv, UNCHANGED <<durable, published>>
    PROVE  RowsStay
BY DEF RowsStay, DrainInv, TableShapes, HandedOverHasARow

LEMMA QueuesFrame ==
    ASSUME DrainInv, RowsStay, UNCHANGED life
    PROVE  QueuesStay
BY DEF QueuesStay, RowsStay, DrainInv, HandedOverHasARow, InLifecycle, InQueues

LEMMA QueuesScheduled ==
    ASSUME DrainInv, QueueShapes, RowsStay, NEW rows, NEW priority \in BOOLEAN, life' = Scheduled(rows, priority),
           \A r \in Runs : rows[r] # {} => durable'[r] # {}
    PROVE  /\ QueuesStay
           /\ \A r \in Runs : rows[r] # {} => InQueues(r)'
<1>1. ASSUME NEW r \in Runs
      PROVE  /\ InQueues(r) => InQueues(r)'
             /\ InQueues(r)' => InQueues(r) \/ rows[r] # {}
             /\ rows[r] # {} => InQueues(r)'
  <2>1. /\ life'.priority[r] = IF priority /\ rows[r] # {} THEN rows[r] ELSE life.priority[r]
        /\ life'.history[r] = IF rows[r] = {} THEN life.history[r]
                              ELSE IF priority THEN {}
                              ELSE IF life.priority[r] # {} THEN life.history[r]
                              ELSE rows[r]
    BY DEF Scheduled
  <2> QED BY <2>1 DEF InQueues
<1>2. \A r \in Runs : InQueues(r) => durable'[r] # {}
  BY DEF RowsStay, DrainInv, HandedOverHasARow, InLifecycle
<1> QED BY <1>1, <1>2 DEF QueuesStay

LEMMA TurnsFrame ==
    ASSUME NEW except, LanesGoOn(except), except \cap (Runs \cup Lifecycles) = {}
    PROVE  TurnsStay(except)
BY DEF TurnsStay

LEMMA WaitsFrame ==
    ASSUME UNCHANGED <<journal, request, timers>>
    PROVE  WaitsStay
BY DEF WaitsStay, EvidenceOf, Awaited

LEMMA RebuildFrame ==
    ASSUME DrainInv, RowsStay, UNCHANGED <<rebuild, replayed, up>>
    PROVE  RebuildStays
BY DEF RebuildStays, RowsStay, DrainInv, TableShapes, HandedOverHasARow, CapturedIsFull, InTheRebuild


LEMMA AskedFrame ==
    ASSUME DrainInv, LaneTable(lane), owner = "full", NEW asks, lane' = Asked(lane, asks)
    PROVE  TurnsStay({}) /\ \A r \in Runs : r \in asks => InItsLane(r)'
BY AskedGoOn, TurnsFrame DEF DrainInv

LEMMA EndedFrame ==
    ASSUME DrainInv, LaneTable(lane), owner = "full", NEW asks, NEW l \in Lanes \ (Runs \cup Lifecycles),
           lane[l].at # "idle", lane' = Ended(Asked(lane, asks), l)
    PROVE  TurnsStay({l})
<1>1. LanesGoOn({l})
  BY EndedGoOn DEF DrainInv
<1> QED BY <1>1, TurnsFrame

(* What most steps leave alone: requests, the seal, what was projected.      *)
DrainState == Undisturbed /\ WaitInv /\ QuietInv /\ DrainInv

LEMMA FullDispatches ==
    ASSUME DrainState
    PROVE  /\ owner = "full" /\ Dispatching /\ LaneTable(lane)
           /\ preStop => /\ \A l \in Lanes : lane[l].at = "idle"
                         /\ timers = {} /\ rebuild.at = "idle"
BY DEF DrainState, Undisturbed, WaitInv, QuietInv, StartIsOver, Dispatching, SealIsQuiet, PipelineQuiescent

ShapesStay ==
    /\ request' = [o \in Observations |-> request'[o]]
    /\ projected' = [p \in Projections |-> projected'[p]]
    /\ seal' = [shut |-> seal'.shut, late |-> seal'.late, moved |-> seal'.moved]
    /\ replayed' \in BOOLEAN

LEMMA DrainJoined ==
    ASSUME RowsStay, RebuildStays, ShapesStay, Kept, AcceptedIsOwed', SealIsShut'
    PROVE  DrainInv'
BY DEF RowsStay, RebuildStays, ShapesStay, Kept, DrainInv, TableShapes

ProjectedStays ==
    \A p \in Projections : pending[p] \cup projected[p] \subseteq pending'[p] \cup projected'[p]

LEMMA AcceptedStays ==
    ASSUME AcceptedIsOwed, UNCHANGED request, ProjectedStays
    PROVE  AcceptedIsOwed'
<1>1. "workspace" \in Projections /\ \A o \in Observations : LiveLane(o) \in Projections
  BY DEF Projections, LiveLane
<1> QED BY <1>1 DEF AcceptedIsOwed, ProjectedStays, LiveLane

LEMMA ControlStays ==
    ASSUME DrainInv, UNCHANGED <<request, seal, barrier, preStop, up>>, up \/ UNCHANGED replayed
    PROVE  SealIsShut'
BY DEF DrainInv, SealIsShut, IngressIdle

LEMMA DrainStays ==
    ASSUME DrainInv, RowsStay, QueuesStay, WaitsStay, RebuildStays, NEW except, TurnsStay(except),
           UNCHANGED <<request, seal, barrier, preStop, up>>, up \/ UNCHANGED replayed,
           ProjectedStays, projected' = [p \in Projections |-> projected'[p]], replayed' \in BOOLEAN
    PROVE  DrainInv'
<1>1. Kept
  BY DrainKept
<1>2. AcceptedIsOwed' /\ SealIsShut'
  BY AcceptedStays, ControlStays DEF DrainInv
<1>3. ShapesStay
  BY DEF ShapesStay, DrainInv, TableShapes
<1> QED BY <1>1, <1>2, <1>3, DrainJoined

(* Steps of the lanes alone, and of what no part of the invariant reads.     *)
LEMMA LanesOnly ==
    ASSUME DrainState, NEW except, TurnsStay(except),
           UNCHANGED <<journal, durable, published, request, seal, pending, projected, timers,
                       rebuild, replayed, life, barrier, preStop, up>>
    PROVE  DrainInv'
<1>1. RowsStay
  BY RowsFrame DEF DrainState
<1>2. QueuesStay /\ WaitsStay /\ RebuildStays
  BY <1>1, QueuesFrame, WaitsFrame, RebuildFrame DEF DrainState
<1>3. ProjectedStays /\ projected' = [p \in Projections |-> projected'[p]] /\ replayed' \in BOOLEAN
  BY DEF ProjectedStays, DrainState, DrainInv, TableShapes
<1> QED BY <1>1, <1>2, <1>3, DrainStays DEF DrainState

LEMMA NothingMoves ==
    ASSUME DrainState,
           UNCHANGED <<journal, durable, published, request, seal, lane, pending, projected, timers,
                       rebuild, replayed, life, barrier, preStop, up>>
    PROVE  DrainInv'
<1>1. TurnsStay({})
  BY UntouchedGoOn, TurnsFrame DEF DrainState, DrainInv
<1> QED BY <1>1, LanesOnly

(*-------------------------- ingress and timers --------------------------*)

LEMMA SubmitDrains ==
    ASSUME DrainState, NEW o \in Observations, Submit(o)
    PROVE  DrainInv'
<1>1. /\ ~seal.shut /\ request[o] = "none" /\ request' = [request EXCEPT ![o] = "open"]
      /\ UNCHANGED <<journal, durable, published, seal, lane, pending, projected, timers, rebuild,
                     replayed, life, barrier, preStop, up>>
  BY DEF Submit, durables, scheduler, lives, usage, control
<1>2. RowsStay /\ TurnsStay({})
  BY <1>1, RowsFrame, UntouchedGoOn, TurnsFrame DEF DrainState, DrainInv
<1>3. QueuesStay /\ RebuildStays
  BY <1>1, <1>2, QueuesFrame, RebuildFrame DEF DrainState
<1>4. \A x \in Observations : request'[x] = IF x = o THEN "open" ELSE request[x]
  BY <1>1 DEF DrainState, DrainInv, TableShapes
<1>5. WaitsStay
  <2>1. ASSUME NEW r \in Runs, Awaited(r) PROVE Awaited(r)'
    BY <1>1, <1>4, <2>1, RuntimeAssumption DEF Awaited
  <2> QED BY <1>1, <2>1 DEF WaitsStay, EvidenceOf
<1>6. AcceptedIsOwed' /\ ShapesStay
  BY <1>1, <1>4 DEF DrainState, DrainInv, AcceptedIsOwed, ShapesStay, TableShapes, LiveLane
<1>7. SealIsShut'
  BY <1>1 DEF DrainState, DrainInv, SealIsShut
<1>8. Kept
  BY <1>2, <1>3, <1>5, DrainKept DEF DrainState
<1> QED BY <1>2, <1>3, <1>6, <1>7, <1>8, DrainJoined

LEMMA AppendDrains ==
    ASSUME DrainState, NEW o \in Observations, Append(o)
    PROVE  DrainInv'
<1>1. /\ request[o] = "open" /\ request' = [request EXCEPT ![o] = "appended"]
      /\ journal' = journal \cup {o}
      /\ UNCHANGED <<durable, published, seal, lane, pending, projected, timers, rebuild,
                     replayed, life, barrier, preStop, up>>
  BY DEF Append, scheduler, lives, usage, control
<1>2. RowsStay /\ TurnsStay({})
  BY <1>1, RowsFrame, UntouchedGoOn, TurnsFrame DEF DrainState, DrainInv
<1>3. QueuesStay /\ RebuildStays
  BY <1>1, <1>2, QueuesFrame, RebuildFrame DEF DrainState
<1>4. \A x \in Observations : request'[x] = IF x = o THEN "appended" ELSE request[x]
  BY <1>1 DEF DrainState, DrainInv, TableShapes
<1>5. WaitsStay
  <2>1. ASSUME NEW r \in Runs, Awaited(r) PROVE Awaited(r)'
    BY <1>1, <1>4, <2>1, RuntimeAssumption DEF Awaited
  <2>2. ASSUME NEW r \in Runs, Completed(EvidenceOf(r))'
        PROVE  Completed(EvidenceOf(r)) \/ Awaited(r)'
    <3>1. PICK x \in Closing : x \in journal' /\ RunOf[x] = r
      BY <2>2 DEF Completed, EvidenceOf
    <3>2. CASE x = o
      BY <1>4, <3>1, <3>2 DEF Awaited
    <3>3. CASE x # o
      BY <1>1, <3>1, <3>3 DEF Completed, EvidenceOf
    <3> QED BY <3>2, <3>3
  <2> QED BY <1>1, <2>1, <2>2 DEF WaitsStay
<1>6. AcceptedIsOwed' /\ ShapesStay
  BY <1>1, <1>4 DEF DrainState, DrainInv, AcceptedIsOwed, ShapesStay, TableShapes, LiveLane
<1>7. SealIsShut'
  BY <1>1 DEF DrainState, DrainInv, SealIsShut, IngressIdle
<1>8. Kept
  BY <1>2, <1>3, <1>5, DrainKept DEF DrainState
<1> QED BY <1>2, <1>3, <1>6, <1>7, <1>8, DrainJoined

(* An accepted observation is queued for its projections, and its run, if    *)
(* it closes it, has a timer.                                              *)
LEMMA AcceptDrains ==
    ASSUME DrainState, NEW o \in Observations, DispatchAccepted(o)
    PROVE  DrainInv'
<1>1. /\ request[o] = "appended" /\ request' = [request EXCEPT ![o] = "done"]
      /\ seal' = [seal EXCEPT !.moved = @ \/ Noted]
      /\ UNCHANGED <<journal, durable, published, projected, rebuild, replayed, life, barrier, preStop, up>>
  BY DEF DispatchAccepted, durables, control
<1>2. ~preStop
  BY <1>1 DEF DrainState, DrainInv, SealIsShut, IngressIdle
<1>3. PICK late : ScheduleLiveIngest(o, late)
  BY <1>2 DEF DispatchAccepted
<1>4. /\ timers' = timers \cup {"usage"} \cup (IF o \in Closing THEN {RunOf[o]} ELSE {})
      /\ pending' = [p \in Projections |->
                        IF p \in LiveLanes(o) THEN pending[p] \cup {o} ELSE pending[p]]
      /\ \E asks : lane' = Asked(lane, asks)
  BY <1>3 DEF ScheduleLiveIngest, Enqueue
<1>5. RowsStay /\ TurnsStay({})
  BY <1>1, <1>4, RowsFrame, AskedFrame, FullDispatches DEF DrainState
<1>6. QueuesStay /\ RebuildStays
  BY <1>1, <1>5, QueuesFrame, RebuildFrame DEF DrainState
<1>7. \A x \in Observations : request'[x] = IF x = o THEN "done" ELSE request[x]
  BY <1>1 DEF DrainState, DrainInv, TableShapes
<1>8. WaitsStay
  <2>1. ASSUME NEW r \in Runs, Awaited(r) PROVE Awaited(r)' \/ r \in timers'
    <3>1. PICK x \in Closing : RunOf[x] = r /\ request[x] = "appended"
      BY <2>1 DEF Awaited
    <3>2. CASE x = o
      BY <1>4, <3>1, <3>2
    <3>3. CASE x # o
      BY <1>7, <3>1, <3>3, RuntimeAssumption DEF Awaited
    <3> QED BY <3>2, <3>3
  <2> QED BY <1>1, <1>4, <2>1 DEF WaitsStay, EvidenceOf
<1>9. AcceptedIsOwed'
  <2>1. LiveLanes(o) = {LiveLane(o)} \cup (IF o \in Hints THEN {"workspace"} ELSE {})
    BY FullDispatches DEF LiveLanes
  <2>2. "workspace" \in Projections /\ \A x \in Observations : LiveLane(x) \in Projections
    BY DEF Projections, LiveLane
  <2>3. \A p \in Projections : /\ pending[p] \subseteq pending'[p]
                               /\ p \in LiveLanes(o) => o \in pending'[p]
    BY <1>4
  <2>4. /\ o \in pending'[LiveLane(o)]
        /\ o \in Hints => o \in pending'["workspace"]
    BY <2>1, <2>2, <2>3
  <2>5. ASSUME NEW x \in Observations, x # o, request[x] = "done"
        PROVE  /\ x \in pending'[LiveLane(x)] \cup projected[LiveLane(x)]
               /\ x \in Hints => x \in pending'["workspace"] \cup projected["workspace"]
    BY <2>2, <2>3, <2>5 DEF DrainState, DrainInv, AcceptedIsOwed
  <2>6. \A x \in Observations : LiveLane(x)' = LiveLane(x)
    BY DEF LiveLane
  <2> QED BY <1>1, <1>7, <2>4, <2>5, <2>6 DEF AcceptedIsOwed
<1>10. SealIsShut' /\ ShapesStay
  BY <1>1, <1>2 DEF DrainState, DrainInv, SealIsShut, ShapesStay, TableShapes
<1>11. Kept
  BY <1>5, <1>6, <1>8, DrainKept DEF DrainState
<1> QED BY <1>5, <1>6, <1>9, <1>10, <1>11, DrainJoined

LEMMA TimerDrains ==
    ASSUME DrainState, NEW t \in Runs \cup {"usage"}, TimerFires(t)
    PROVE  DrainInv'
<1>1. /\ timers' = timers \ {t} /\ t \in timers
      /\ UNCHANGED <<journal, durable, published, request, seal, pending, projected, rebuild, replayed,
                     life, barrier, preStop, up>>
  BY DEF TimerFires, durables, ingress, lives, control
<1>2. lane' = Asked(lane, {t})
  BY <1>1, FullDispatches DEF TimerFires, Enqueue
<1>3. RowsStay /\ TurnsStay({}) /\ \A r \in Runs : r = t => InItsLane(r)'
  BY <1>1, <1>2, RowsFrame, AskedFrame, FullDispatches DEF DrainState
<1>4. QueuesStay /\ RebuildStays
  BY <1>1, <1>3, QueuesFrame, RebuildFrame DEF DrainState
<1>5. WaitsStay
  BY <1>1, <1>3 DEF WaitsStay, EvidenceOf, Awaited
<1>6. ProjectedStays /\ projected' = [p \in Projections |-> projected'[p]] /\ replayed' \in BOOLEAN
  BY <1>1 DEF ProjectedStays, DrainState, DrainInv, TableShapes
<1> QED BY <1>1, <1>3, <1>4, <1>5, <1>6, DrainStays DEF DrainState

(*--------------------------- live projections ---------------------------*)

LEMMA LiveDrains ==
    ASSUME DrainState, NEW p \in Projections,
           UNCHANGED <<journal, durable, published, request, seal, timers, rebuild, replayed, life,
                       barrier, preStop, up>>,
           lane[p].at # "idle", UNCHANGED lane \/ EndTurn(p, {}),
           projected' = [x \in Projections |-> projected'[x]], ProjectedStays
    PROVE  DrainInv'
<1>1. p \in Lanes \ (Runs \cup Lifecycles)
  BY QueueLanes DEF Queues, Projections, Lifecycles
<1>2. PICK except : TurnsStay(except)
  <2>1. CASE UNCHANGED lane
    BY <2>1, UntouchedGoOn, TurnsFrame DEF DrainState, DrainInv
  <2>2. CASE EndTurn(p, {})
    BY <1>1, <2>2, EndedFrame, FullDispatches DEF EndTurn, DrainState
  <2> QED BY <2>1, <2>2
<1>3. RowsStay
  BY RowsFrame DEF DrainState
<1>4. QueuesStay /\ WaitsStay /\ RebuildStays
  BY <1>3, QueuesFrame, WaitsFrame, RebuildFrame DEF DrainState
<1>5. replayed' \in BOOLEAN
  BY DEF DrainState, DrainInv, TableShapes
<1> QED BY <1>2, <1>3, <1>4, <1>5, DrainStays DEF DrainState

LEMMA DrainLiveDrains ==
    ASSUME DrainState, NEW p \in Projections, DrainLive(p)
    PROVE  DrainInv'
<1>1. /\ lane[p].at = "start"
      /\ UNCHANGED <<journal, durable, published, request, seal, timers, rebuild, replayed, life,
                     barrier, preStop, up>>
  BY DEF DrainLive, InTurn, ingress, usage, control
<1>2. /\ projected = [x \in Projections |-> projected[x]]
      /\ pending = [x \in Projections |-> pending[x]]
  BY DEF DrainState, DrainInv, TableShapes, WaitInv, QueueShapes
<1>3. /\ UNCHANGED lane \/ EndTurn(p, {})
      /\ \/ /\ pending[p] = {} /\ pending' = [pending EXCEPT ![p] = {}]
            /\ UNCHANGED projected
         \/ \E o : /\ pending' = [pending EXCEPT ![p] = @ \ {o}]
                   /\ projected' = [projected EXCEPT ![p] = @ \cup {o}]
  BY FullDispatches DEF DrainLive, scheduler
<1>4. ProjectedStays /\ projected' = [x \in Projections |-> projected'[x]]
  <2>1. CASE pending[p] = {} /\ pending' = [pending EXCEPT ![p] = {}] /\ UNCHANGED projected
    BY <1>2, <2>1 DEF ProjectedStays
  <2>2. ASSUME NEW o, pending' = [pending EXCEPT ![p] = @ \ {o}],
               projected' = [projected EXCEPT ![p] = @ \cup {o}]
        PROVE  ProjectedStays /\ projected' = [x \in Projections |-> projected'[x]]
    BY <1>2, <2>2 DEF ProjectedStays
  <2> QED BY <1>3, <2>1, <2>2
<1> QED BY <1>1, <1>3, <1>4, LiveDrains

LEMMA DrainWorkspaceDrains ==
    ASSUME DrainState, DrainWorkspace
    PROVE  DrainInv'
<1>1. /\ lane["workspace"].at = "start" /\ EndTurn("workspace", {}) /\ "workspace" \in Projections
      /\ UNCHANGED <<journal, durable, published, request, seal, timers, rebuild, replayed, life,
                     barrier, preStop, up>>
  BY DEF DrainWorkspace, InTurn, durables, ingress, usage, control, Projections
<1>2. /\ projected = [x \in Projections |-> projected[x]]
      /\ pending = [x \in Projections |-> pending[x]]
  BY DEF DrainState, DrainInv, TableShapes, WaitInv, QueueShapes
<1>3. /\ pending' = [pending EXCEPT !["workspace"] = {}]
      /\ projected' = [projected EXCEPT !["workspace"] = @ \cup pending["workspace"]]
  BY FullDispatches DEF DrainWorkspace
<1>4. ProjectedStays /\ projected' = [x \in Projections |-> projected'[x]]
  BY <1>2, <1>3 DEF ProjectedStays
<1> QED BY <1>1, <1>4, LiveDrains

(*------------------------- lifecycle projections ------------------------*)

(* What follows a lifecycle projection leaves the rows in its queues.        *)
LEMMA AfterProjectionDrains ==
    ASSUME DrainState, NEW q \in Lifecycles, lane[q].at # "idle", AfterProjection(q, life), RowsStay,
           \A r \in Runs : Observed(q, r) => published'[r] # {}
    PROVE  QueuesStay /\ TurnsStay({q})
<1>1. q \in Lanes /\ q \notin Runs
  BY QueueLanes DEF Queues
<1>2. \E asks : lane' = Ended(Asked(lane, asks), q)
  BY DEF AfterProjection, EndTurn
<1>3. LanesGoOn({q}) /\ lane'[q].at \in {"idle", "start"}
  BY <1>1, <1>2, EndedGoOn, FullDispatches DEF DrainState, DrainInv
<1>4. life'.priority = life.priority /\ life'.history = life.history
  BY DEF AfterProjection, DrainState, WaitInv, QueueShapes
<1>5. QueuesStay
  BY <1>4 DEF QueuesStay, InQueues, RowsStay, DrainState, DrainInv, HandedOverHasARow, InLifecycle
<1> QED BY <1>1, <1>3, <1>5 DEF TurnsStay

LEMMA LifecycleDrains ==
    ASSUME DrainState, RowsStay, QueuesStay, NEW except, TurnsStay(except),
           UNCHANGED <<journal, request, seal, pending, projected, timers, rebuild, replayed,
                       barrier, preStop, up>>
    PROVE  DrainInv'
<1>1. WaitsStay /\ RebuildStays
  BY WaitsFrame, RebuildFrame DEF DrainState
<1>2. ProjectedStays /\ projected' = [p \in Projections |-> projected'[p]] /\ replayed' \in BOOLEAN
  BY DEF ProjectedStays, DrainState, DrainInv, TableShapes
<1> QED BY <1>1, <1>2, DrainStays DEF DrainState

LEMMA TakeDrains ==
    ASSUME DrainState, NEW q \in Lifecycles, TakeLifecycle(q)
    PROVE  DrainInv'
<1>1. /\ lane[q].at = "start" /\ q \in Lanes /\ q \notin Runs
      /\ UNCHANGED <<journal, durable, published, request, seal, pending, projected, timers, rebuild,
                     replayed, barrier, preStop, up>>
  BY QueueLanes DEF TakeLifecycle, InTurn, durables, ingress, lives, usage, control, Queues
<1>2. RowsStay
  BY <1>1, RowsFrame DEF DrainState
<1>3. \A r \in Runs : ~Observed(q, r)
  BY <1>1 DEF Observed
<1>4. CASE life[q] = NoRows
  <2>1. AfterProjection(q, life)
    BY <1>4, FullDispatches DEF TakeLifecycle
  <2>2. QueuesStay /\ TurnsStay({q})
    BY <1>1, <1>2, <1>3, <2>1, AfterProjectionDrains
  <2> QED BY <1>1, <1>2, <2>2, LifecycleDrains
<1>5. CASE life[q] # NoRows
  <2>1. PICK r \in Runs : /\ life[q][r] # {}
                          /\ life' = [life EXCEPT ![q][r] = {}]
                          /\ Turn(q, "observe", <<r, life[q][r]>>)
    BY <1>5, FullDispatches DEF TakeLifecycle
  <2>2. /\ LanesGoOn({q})
        /\ lane'[q].at = "observe" /\ lane'[q].item = <<r, life[q][r]>>
    BY <1>1, <2>1, TurnGoesOn DEF DrainState, WaitInv, DrainInv
  <2>3. \A s \in Runs : InQueues(s)' \/ s = r <=> InQueues(s) \/ s = r
    <3>1. life = [priority |-> life.priority, history |-> life.history, commits |-> life.commits]
          /\ life.priority = [s \in Runs |-> life.priority[s]]
          /\ life.history = [s \in Runs |-> life.history[s]]
      BY DEF DrainState, WaitInv, QueueShapes
    <3>2. CASE q = "priority"
      <4>1. life'.priority = [life.priority EXCEPT ![r] = {}] /\ life'.history = life.history
        BY <2>1, <3>1, <3>2
      <4> QED BY <3>1, <4>1 DEF InQueues
    <3>3. CASE q = "history"
      <4>1. life'.history = [life.history EXCEPT ![r] = {}] /\ life'.priority = life.priority
        BY <2>1, <3>1, <3>3
      <4> QED BY <3>1, <4>1 DEF InQueues
    <3> QED BY <3>2, <3>3 DEF Lifecycles
  <2>4. InQueues(r)
    BY <2>1 DEF InQueues, Lifecycles
  <2>5. \A s \in Runs : InQueues(s) => durable[s] # {}
    BY DEF DrainState, DrainInv, HandedOverHasARow, InLifecycle
  <2>6. Observed(q, r)'
    BY <2>2 DEF Observed
  <2>7. QueuesStay
    BY <1>1, <2>3, <2>4, <2>5, <2>6 DEF QueuesStay
  <2>8. TurnsStay({q})
    BY <1>1, <1>3, <2>1, <2>2, <2>4, <2>5 DEF TurnsStay
  <2> QED BY <1>1, <1>2, <2>7, <2>8, LifecycleDrains
<1> QED BY <1>4, <1>5

LEMMA ObserveDrains ==
    ASSUME DrainState, NEW q \in Lifecycles, ObserveCompletedRun(q)
    PROVE  DrainInv'
<1>1. /\ lane[q].at = "observe" /\ AfterProjection(q, life)
      /\ UNCHANGED <<journal, durable, request, seal, pending, projected, timers, rebuild,
                     replayed, barrier, preStop, up>>
  BY DEF ObserveCompletedRun, InTurn, ingress, lives, usage, control
<1>2. published' = [published EXCEPT ![lane[q].item[1]] = lane[q].item[2]]
  BY DEF ObserveCompletedRun, DrainState, Undisturbed
<1>3. lane[q].item[2] # {} /\ \A r \in Runs : lane[q].item[1] = r => durable[r] # {}
  BY <1>1 DEF DrainState, DrainInv, HandedOverHasARow, InLifecycle, Observed
<1>4. /\ published' = [r \in Runs |-> published'[r]]
      /\ \A r \in Runs : published'[r] = IF r = lane[q].item[1] THEN lane[q].item[2] ELSE published[r]
  BY <1>2 DEF DrainState, DrainInv, TableShapes
<1>5. RowsStay
  BY <1>1, <1>3, <1>4 DEF RowsStay, DrainState, DrainInv, TableShapes, HandedOverHasARow
<1>6. \A r \in Runs : Observed(q, r) => published'[r] # {}
  BY <1>3, <1>4 DEF Observed
<1>7. QueuesStay /\ TurnsStay({q})
  BY <1>1, <1>5, <1>6, AfterProjectionDrains
<1> QED BY <1>1, <1>5, <1>7, LifecycleDrains

LEMMA NamedOnly ==
    {"usage", "commit", "commit_change", "evidence"} \subseteq Lanes \ (Runs \cup Lifecycles)
BY RuntimeAssumption DEF Lanes, NamedLanes, Lifecycles

LEMMA CommitsDrain ==
    ASSUME DrainState, NEW l \in {"commit", "commit_change"}, ReconcileCommitEvents(l)
    PROVE  DrainInv'
<1>1. /\ l \in Lanes \ (Runs \cup Lifecycles) /\ lane[l].at # "idle" /\ EndTurn(l, {})
      /\ UNCHANGED <<journal, durable, published, request, seal, pending, projected, timers,
                     rebuild, replayed, life, barrier, preStop, up>>
  BY NamedOnly DEF ReconcileCommitEvents, InTurn, ingress, lives, usage, control
<1>2. TurnsStay({l})
  BY <1>1, EndedFrame, FullDispatches DEF EndTurn, DrainState
<1> QED BY <1>1, <1>2, LanesOnly

LEMMA BoundDrains ==
    ASSUME DrainState, ScheduleBoundRuns
    PROVE  DrainInv'
<1>1. /\ "evidence" \in Lanes \ (Runs \cup Lifecycles) /\ lane["evidence"].at # "idle"
      /\ UNCHANGED <<journal, durable, published, request, seal, pending, projected, timers,
                     rebuild, replayed, barrier, preStop, up>>
  BY NamedOnly DEF ScheduleBoundRuns, InTurn, durables, ingress, lives, usage, control
<1>2. /\ life' = Scheduled(Only(work.run, durable[work.run]), TRUE)
      /\ lane' = Ended(Asked(lane, {"priority"}), "evidence")
  BY <1>1, FullDispatches DEF ScheduleBoundRuns, EndTurn
<1>3. RowsStay /\ TurnsStay({"evidence"})
  BY <1>1, <1>2, RowsFrame, EndedFrame, FullDispatches DEF DrainState
<1>4. QueuesStay
  <2>1. \A r \in Runs : Only(work.run, durable[work.run])[r] # {} => durable'[r] # {}
    BY <1>1 DEF Only
  <2> QED BY <1>2, <1>3, <2>1, QueuesScheduled DEF DrainState, WaitInv
<1> QED BY <1>1, <1>3, <1>4, LifecycleDrains

(* The attribution and its start ask for lanes and nothing else.             *)
OnlyAsked ==
    /\ UNCHANGED lane \/ \E asks : lane' = Asked(lane, asks)
    /\ UNCHANGED <<journal, durable, published, request, seal, pending, projected, timers,
                   rebuild, replayed, life, barrier, preStop, up>>

LEMMA AsksDrain ==
    ASSUME DrainState, AttributionStarts \/ (\E c \in Commits : CommitChanges(c))
                           \/ \E r \in Runs : EvidenceBound(r)
    PROVE  DrainInv'
<1>1. OnlyAsked
  <2>1. CASE AttributionStarts
    BY <2>1 DEF OnlyAsked, AttributionStarts, Enqueue, durables, ingress, scheduler, lives, usage
  <2>2. ASSUME NEW c \in Commits, CommitChanges(c) PROVE OnlyAsked
    BY <2>2 DEF OnlyAsked, CommitChanges, AttributionAsks, Enqueue, ingress, scheduler, usage, control
  <2>3. ASSUME NEW r \in Runs, EvidenceBound(r) PROVE OnlyAsked
    BY <2>3 DEF OnlyAsked, EvidenceBound, AttributionAsks, Enqueue, ingress, scheduler, usage, control
  <2> QED BY <2>1, <2>2, <2>3
<1>2. TurnsStay({})
  <2>1. CASE UNCHANGED lane
    BY <2>1, UntouchedGoOn, TurnsFrame DEF DrainState, DrainInv
  <2>2. CASE \E asks : lane' = Asked(lane, asks)
    BY <2>2, AskedFrame, FullDispatches DEF DrainState
  <2> QED BY <1>1, <2>1, <2>2 DEF OnlyAsked
<1> QED BY <1>1, <1>2, LanesOnly DEF OnlyAsked

(*--------------------------- usage projections --------------------------*)

LEMMA ReadQueryDrains ==
    ASSUME DrainState, NEW r \in Runs, ReadQuery(r)
    PROVE  DrainInv'
<1>1. /\ lane[r].at = "start" /\ r \in Lanes /\ r \notin Lifecycles
      /\ Turn(r, "upsert", <<EvidenceOf(r), lane[r].full>>)
      /\ UNCHANGED <<journal, durable, published, request, seal, pending, projected, timers, rebuild,
                     replayed, life, barrier, preStop, up>>
  BY QueueLanes DEF ReadQuery, InTurn, durables, ingress, lives, usage, control, Queues
<1>2. /\ LanesGoOn({r})
      /\ lane'[r].at = "upsert" /\ lane'[r].item = <<EvidenceOf(r), lane[r].full>>
      /\ lane'[r].full = lane[r].full
  BY <1>1, TurnGoesOn DEF DrainState, WaitInv, DrainInv
<1>3. lane[r].full = TRUE
  BY <1>1 DEF DrainState, DrainInv, CapturedIsFull
<1>4. lane'[r].item[1] = EvidenceOf(r) /\ lane'[r].item[2] = TRUE
  BY <1>2, <1>3
<1>5. Completed(EvidenceOf(r)) => InItsLane(r)'
  BY <1>2, <1>4 DEF InItsLane, Completed
<1>6. TurnsStay({r})
  BY <1>1, <1>2, <1>3, <1>4, <1>5 DEF TurnsStay
<1> QED BY <1>1, <1>6, LanesOnly

(* A closed run has its row and goes to its lifecycle; one that was closed   *)
(* meanwhile was asked for again.                                          *)
LEMMA UpsertQueryDrains ==
    ASSUME DrainState, NEW r \in Runs, UpsertQuery(r)
    PROVE  DrainInv'
<1> DEFINE row == lane[r].item[1]
           publish == Completed(row) /\ lane[r].item[2] /\ ~preStop
           asks == IF publish THEN {"priority"} ELSE {}
<1>1. /\ lane[r].at = "upsert" /\ r \in Lanes /\ r \notin Lifecycles
      /\ durable' = [durable EXCEPT ![r] = IF Completed(row) THEN row ELSE @]
      /\ life' = IF publish THEN Scheduled(Only(r, row), TRUE) ELSE life
      /\ lane' = Ended(Asked(lane, asks), r)
      /\ UNCHANGED <<journal, published, request, seal, pending, projected, timers, rebuild,
                     replayed, barrier, preStop, up>>
  BY QueueLanes DEF UpsertQuery, InTurn, EndTurn, ingress, lives, usage, control, Queues
<1>2. publish <=> Completed(row)
  BY <1>1, FullDispatches DEF DrainState, DrainInv, CapturedIsFull
<1>3. Completed(row) => row # {}
  BY DEF Completed
<1>4. /\ durable' = [s \in Runs |-> durable'[s]]
      /\ \A s \in Runs : durable'[s] = IF s = r /\ Completed(row) THEN row ELSE durable[s]
  BY <1>1 DEF DrainState, DrainInv, TableShapes
<1>5. RowsStay
  BY <1>1, <1>3, <1>4 DEF RowsStay, DrainState, DrainInv, TableShapes, HandedOverHasARow
<1>6. QueuesStay /\ (Completed(row) => InQueues(r)')
  <2>1. CASE Completed(row)
    <3>1. PICK rows : rows = Only(r, row)
      OBVIOUS
    <3>2. life' = Scheduled(rows, TRUE)
      BY <1>1, <1>2, <2>1, <3>1
    <3>3. /\ rows[r] # {}
          /\ \A s \in Runs : rows[s] # {} => durable'[s] # {}
      BY <1>3, <1>4, <2>1, <3>1 DEF Only
    <3> QED BY <1>5, <3>2, <3>3, QueuesScheduled DEF DrainState, WaitInv
  <2>2. CASE ~Completed(row)
    <3>1. UNCHANGED life
      BY <1>1, <1>2, <2>2
    <3> QED BY <1>5, <2>2, <3>1, QueuesFrame DEF DrainState
  <2> QED BY <2>1, <2>2
<1>7. /\ LanesGoOn({r}) /\ lane'[r].at \in {"idle", "start"}
      /\ lane'[r].at = "start" => lane'[r].full = TRUE
      /\ lane[r].again = TRUE => lane'[r].at = "start"
  <2> HIDE DEF asks
  <2> QED BY <1>1, EndedGoOn, FullDispatches DEF DrainState, DrainInv
<1>8. InItsLane(r) => InItsLane(r)' \/ InQueues(r)'
  BY <1>1, <1>6, <1>7 DEF InItsLane
<1>9. TurnsStay({r})
  BY <1>1, <1>7, <1>8 DEF TurnsStay
<1> QED BY <1>1, <1>5, <1>6, <1>9, LifecycleDrains

(* A rebuild that is asked for begins, or has the one at work run again.     *)
LEMMA RequestedStays ==
    ASSUME DrainState, QueueRebuild, up, UNCHANGED <<durable, replayed, up>>
    PROVE  RebuildStays
<1>1. rebuild = [at |-> rebuild.at, requested |-> rebuild.requested, full |-> rebuild.full,
                 before |-> rebuild.before, after |-> rebuild.after]
  BY DEF DrainState, DrainInv, TableShapes
<1>2. /\ rebuild' = [at |-> rebuild'.at, requested |-> rebuild'.requested, full |-> rebuild'.full,
                     before |-> rebuild'.before, after |-> rebuild'.after]
      /\ rebuild'.full = rebuild.full /\ rebuild'.after = rebuild.after
      /\ rebuild'.at = IF rebuild.at = "idle" THEN "previous" ELSE rebuild.at
  BY <1>1 DEF QueueRebuild
<1> QED BY <1>2 DEF RebuildStays, InTheRebuild, DrainState, DrainInv, CapturedIsFull, HandedOverHasARow

LEMMA UsageDrains ==
    ASSUME DrainState, UsageTurn
    PROVE  DrainInv'
<1>1. /\ "usage" \in Lanes \ (Runs \cup Lifecycles) /\ Turn("usage", "wait", NoItem) /\ QueueRebuild /\ up
      /\ UNCHANGED <<journal, durable, published, request, seal, pending, projected, timers,
                     replayed, life, barrier, preStop, up>>
  BY NamedOnly DEF UsageTurn, InTurn, durables, ingress, lives, control
<1>2. RowsStay /\ TurnsStay({"usage"})
  BY <1>1, RowsFrame, TurnGoesOn, TurnsFrame DEF DrainState, WaitInv, DrainInv
<1>3. QueuesStay /\ WaitsStay
  BY <1>1, <1>2, QueuesFrame, WaitsFrame DEF DrainState
<1>4. RebuildStays
  BY <1>1, RequestedStays
<1>5. ProjectedStays /\ projected' = [p \in Projections |-> projected'[p]] /\ replayed' \in BOOLEAN
  BY <1>1 DEF ProjectedStays, DrainState, DrainInv, TableShapes
<1> QED BY <1>1, <1>2, <1>3, <1>4, <1>5, DrainStays DEF DrainState

(* Steps of the rebuild that leave the lanes and the queues alone.           *)
LEMMA RebuildDrains ==
    ASSUME DrainState, up, RowsStay, RebuildStays,
           UNCHANGED <<journal, published, request, seal, lane, pending, projected, timers,
                       replayed, life, barrier, preStop, up>>
    PROVE  DrainInv'
<1>1. QueuesStay /\ WaitsStay
  BY QueuesFrame, WaitsFrame DEF DrainState
<1>2. TurnsStay({})
  BY UntouchedGoOn, TurnsFrame DEF DrainState, DrainInv
<1>3. ProjectedStays /\ projected' = [p \in Projections |-> projected'[p]] /\ replayed' \in BOOLEAN
  BY DEF ProjectedStays, DrainState, DrainInv, TableShapes
<1> QED BY <1>1, <1>2, <1>3, DrainStays DEF DrainState

LEMMA MaintainDrains ==
    ASSUME DrainState, Maintain
    PROVE  DrainInv'
<1>1. /\ up
      /\ UNCHANGED rebuild \/ QueueRebuild
      /\ UNCHANGED <<journal, durable, published, request, seal, lane, pending, projected, timers,
                     replayed, life, barrier, preStop, up>>
  BY DEF Maintain, durables, ingress, scheduler, lives, control
<1>2. RowsStay
  BY <1>1, RowsFrame DEF DrainState
<1>3. CASE UNCHANGED rebuild
  BY <1>1, <1>3, NothingMoves
<1>4. CASE QueueRebuild
  <2>1. RebuildStays
    BY <1>1, <1>4, RequestedStays
  <2> QED BY <1>1, <1>2, <2>1, RebuildDrains
<1> QED BY <1>1, <1>3, <1>4

LEMMA RebuildReadsDrains ==
    ASSUME DrainState, RebuildReads
    PROVE  DrainInv'
<1>1. /\ up
      /\ UNCHANGED <<journal, durable, published, request, seal, lane, pending, projected, timers,
                     replayed, life, barrier, preStop, up>>
  BY DEF RebuildReads, InRebuild, durables, ingress, scheduler, lives, control
<1>2. RowsStay
  BY <1>1, RowsFrame DEF DrainState
<1>3. \/ /\ rebuild.at = "previous"
         /\ rebuild' = [rebuild EXCEPT !.at = "read", !.full = TRUE, !.before = durable]
      \/ /\ rebuild.at = "read"
         /\ rebuild' = [rebuild EXCEPT !.at = "upsert",
                          !.after = CompletedRows([r \in Runs |-> EvidenceOf(r)])]
  BY FullDispatches DEF RebuildReads, InRebuild
<1>4. RebuildStays
  <2>1. rebuild = [at |-> rebuild.at, requested |-> rebuild.requested, full |-> rebuild.full,
                   before |-> rebuild.before, after |-> rebuild.after]
    BY DEF DrainState, DrainInv, TableShapes
  <2>2. CASE rebuild' = [rebuild EXCEPT !.at = "read", !.full = TRUE, !.before = durable]
    <3>1. /\ rebuild'.at = "read" /\ rebuild'.full = TRUE
          /\ rebuild' = [at |-> rebuild'.at, requested |-> rebuild'.requested, full |-> rebuild'.full,
                         before |-> rebuild'.before, after |-> rebuild'.after]
      BY <2>1, <2>2
    <3> QED BY <1>1, <3>1 DEF RebuildStays, InTheRebuild
  <2>3. CASE /\ rebuild.at = "read"
             /\ rebuild' = [rebuild EXCEPT !.at = "upsert",
                              !.after = CompletedRows([r \in Runs |-> EvidenceOf(r)])]
    <3>1. /\ rebuild'.at = "upsert" /\ rebuild'.full = rebuild.full
          /\ rebuild'.after = CompletedRows([r \in Runs |-> EvidenceOf(r)])
          /\ rebuild' = [at |-> rebuild'.at, requested |-> rebuild'.requested, full |-> rebuild'.full,
                         before |-> rebuild'.before, after |-> rebuild'.after]
      BY <2>1, <2>3
    <3>2. rebuild.full = TRUE
      BY <2>3 DEF DrainState, DrainInv, CapturedIsFull
    <3>3. ASSUME NEW r \in Runs, Completed(EvidenceOf(r)) PROVE rebuild'.after[r] # {}
      <4>1. rebuild'.after[r] = EvidenceOf(r)
        BY <3>1, <3>3 DEF CompletedRows
      <4> QED BY <3>3, <4>1 DEF Completed
    <3> QED BY <1>1, <3>1, <3>2, <3>3 DEF RebuildStays, InTheRebuild
  <2> QED BY <1>3, <2>2, <2>3
<1> QED BY <1>1, <1>2, <1>4, RebuildDrains

LEMMA RebuildUpsertsDrains ==
    ASSUME DrainState, RebuildUpserts
    PROVE  DrainInv'
<1>1. /\ up /\ rebuild.at = "upsert"
      /\ durable' = [r \in Runs |-> IF rebuild.after[r] # {} THEN rebuild.after[r] ELSE durable[r]]
      /\ rebuild' = [rebuild EXCEPT !.at = "warnings", !.after = durable']
      /\ UNCHANGED <<journal, published, request, seal, lane, pending, projected, timers,
                     replayed, life, barrier, preStop, up>>
  BY DEF RebuildUpserts, InRebuild, ingress, scheduler, lives, control
<1>2. RowsStay
  BY <1>1 DEF RowsStay, DrainState, DrainInv, TableShapes, HandedOverHasARow
<1>3. rebuild = [at |-> rebuild.at, requested |-> rebuild.requested, full |-> rebuild.full,
                 before |-> rebuild.before, after |-> rebuild.after]
  BY DEF DrainState, DrainInv, TableShapes
<1>4. /\ rebuild'.at = "warnings" /\ rebuild'.full = rebuild.full /\ rebuild'.after = durable'
      /\ rebuild' = [at |-> rebuild'.at, requested |-> rebuild'.requested, full |-> rebuild'.full,
                     before |-> rebuild'.before, after |-> rebuild'.after]
  BY <1>1, <1>3
<1>5. rebuild.full = TRUE
  BY <1>1 DEF DrainState, DrainInv, CapturedIsFull
<1>6. RebuildStays
  BY <1>1, <1>4, <1>5 DEF RebuildStays, InTheRebuild
<1> QED BY <1>1, <1>2, <1>6, RebuildDrains

(* The rebuild asks for its queue's lane and, unless it goes on, ends with    *)
(* the turn of the usage lane that waits for it.                           *)
LEMMA RebuildTurn ==
    ASSUME DrainState, NEW asks,
           \/ lane' = Asked(lane, asks)
           \/ lane["usage"].at = "wait" /\ lane' = Ended(Asked(lane, asks), "usage")
    PROVE  \E except : TurnsStay(except)
<1>1. CASE lane' = Asked(lane, asks)
  BY <1>1, AskedFrame, FullDispatches DEF DrainState
<1>2. CASE lane["usage"].at = "wait" /\ lane' = Ended(Asked(lane, asks), "usage")
  BY <1>2, NamedOnly, EndedFrame, FullDispatches DEF DrainState
<1> QED BY <1>1, <1>2

LEMMA RebuildMovesOn ==
    ASSUME DrainState, up, RowsStay, QueuesStay, RebuildStays, NEW except, TurnsStay(except),
           replayed' \in BOOLEAN,
           UNCHANGED <<journal, request, seal, pending, projected, timers, barrier, preStop, up>>
    PROVE  DrainInv'
<1>1. WaitsStay
  BY WaitsFrame DEF DrainState
<1>2. ProjectedStays /\ projected' = [p \in Projections |-> projected'[p]]
  BY DEF ProjectedStays, DrainState, DrainInv, TableShapes
<1> QED BY <1>1, <1>2, DrainStays DEF DrainState

(* A rebuild that has ended rests or begins again.                           *)
LEMMA RestingStays ==
    ASSUME rebuild' = Resting \/ rebuild' = [Resting EXCEPT !.at = "previous"]
    PROVE  /\ rebuild'.at \in {"idle", "previous"}
           /\ rebuild' = [at |-> rebuild'.at, requested |-> rebuild'.requested, full |-> rebuild'.full,
                          before |-> rebuild'.before, after |-> rebuild'.after]
BY DEF Resting

(* The first rebuild schedules every completed run, for it captured a full    *)
(* owner and nothing was sealed.                                           *)
LEMMA RebuildSchedulesDrains ==
    ASSUME DrainState, RebuildSchedules
    PROVE  DrainInv'
<1> DEFINE asks == IF rebuild.full /\ Changed # NoRows /\ ~preStop
                   THEN {LifecycleLane(replayed)} ELSE {}
<1>1. /\ up /\ rebuild.at = "warnings"
      /\ life' = IF asks = {} THEN life ELSE Scheduled(Changed, replayed)
      /\ replayed' = (replayed \/ rebuild.full)
      /\ UNCHANGED <<journal, durable, published, request, seal, pending, projected, timers,
                     barrier, preStop, up>>
  BY DEF RebuildSchedules, InRebuild, durables, ingress, lives, control
<1>2. /\ \/ lane' = Asked(lane, asks)
         \/ lane["usage"].at = "wait" /\ lane' = Ended(Asked(lane, asks), "usage")
      /\ \/ rebuild' = [rebuild EXCEPT !.at = "attribute", !.before = NoRows]
         \/ rebuild' = Resting \/ rebuild' = [Resting EXCEPT !.at = "previous"]
  BY DEF RebuildSchedules, RebuildEnds
<1>3. rebuild.full = TRUE /\ replayed \in BOOLEAN /\ ~preStop /\ RowsStay
  BY <1>1, FullDispatches, RowsFrame DEF DrainState, DrainInv, CapturedIsFull, TableShapes
<1>4. PICK except : TurnsStay(except)
  <2> HIDE DEF asks
  <2> QED BY <1>2, RebuildTurn
<1>5. /\ \A r \in Runs : Changed[r] # {} => rebuild.after[r] # {}
      /\ \A r \in Runs : rebuild.after[r] # {} => durable[r] # {}
      /\ replayed = FALSE => \A r \in Runs : Changed[r] = rebuild.after[r]
  BY <1>1 DEF Changed, DrainState, DrainInv, HandedOverHasARow
<1>6. QueuesStay /\ (\A r \in Runs : Changed[r] # {} => InQueues(r)')
  <2>1. PICK rows : rows = Changed
    OBVIOUS
  <2>2. CASE rows = NoRows
    <3>1. UNCHANGED life
      BY <1>1, <2>1, <2>2
    <3>2. \A r \in Runs : Changed[r] = {}
      BY <2>1, <2>2 DEF NoRows
    <3> QED BY <1>3, <3>1, <3>2, QueuesFrame DEF DrainState
  <2>3. CASE rows # NoRows
    <3>1. life' = Scheduled(rows, replayed)
      BY <1>1, <1>3, <2>1, <2>3
    <3>2. \A r \in Runs : rows[r] # {} => durable'[r] # {}
      BY <1>1, <1>5, <2>1
    <3> QED BY <1>3, <2>1, <3>1, <3>2, QueuesScheduled DEF DrainState, WaitInv
  <2> QED BY <2>2, <2>3
<1>7. RebuildStays
  <2>1. \A r \in Runs : InTheRebuild(r) => InQueues(r)'
    BY <1>1, <1>5, <1>6 DEF InTheRebuild
  <2>2. CASE rebuild' = [rebuild EXCEPT !.at = "attribute", !.before = NoRows]
    <3>1. rebuild = [at |-> rebuild.at, requested |-> rebuild.requested, full |-> rebuild.full,
                     before |-> rebuild.before, after |-> rebuild.after]
      BY DEF DrainState, DrainInv, TableShapes
    <3>2. /\ rebuild'.full = rebuild.full /\ rebuild'.after = rebuild.after
          /\ rebuild' = [at |-> rebuild'.at, requested |-> rebuild'.requested, full |-> rebuild'.full,
                         before |-> rebuild'.before, after |-> rebuild'.after]
      BY <2>2, <3>1
    <3> QED BY <1>1, <1>3, <1>5, <2>1, <3>2 DEF RebuildStays
  <2>3. CASE rebuild' = Resting \/ rebuild' = [Resting EXCEPT !.at = "previous"]
    BY <2>1, <2>3, RestingStays DEF RebuildStays
  <2> QED BY <1>2, <2>2, <2>3
<1>8. replayed' \in BOOLEAN
  BY <1>1
<1> QED BY <1>1, <1>3, <1>4, <1>6, <1>7, <1>8, RebuildMovesOn

LEMMA RebuildAttributesDrains ==
    ASSUME DrainState, RebuildAttributes
    PROVE  DrainInv'
<1>1. PICK rows : rows = [r \in Runs |-> IF r \in Identified \ attributed THEN rebuild.after[r] ELSE {}]
  OBVIOUS
<1>2. PICK asks : asks = IF rows = NoRows \/ preStop THEN {} ELSE {"priority"}
  OBVIOUS
<1>3. /\ up /\ rebuild.at = "attribute"
      /\ life' = IF asks = {} THEN life ELSE Scheduled(rows, TRUE)
      /\ UNCHANGED <<journal, durable, published, request, seal, pending, projected, timers,
                     replayed, barrier, preStop, up>>
  BY <1>1, <1>2 DEF RebuildAttributes, InRebuild, ingress, lives, control
<1>4. /\ \/ lane' = Asked(lane, asks)
         \/ lane["usage"].at = "wait" /\ lane' = Ended(Asked(lane, asks), "usage")
      /\ rebuild' = Resting \/ rebuild' = [Resting EXCEPT !.at = "previous"]
  BY <1>1, <1>2 DEF RebuildAttributes, RebuildEnds
<1>5. RowsStay /\ replayed' \in BOOLEAN
  BY <1>3, RowsFrame DEF DrainState, DrainInv, TableShapes
<1>6. PICK except : TurnsStay(except)
  BY <1>4, RebuildTurn
<1>7. QueuesStay
  <2>1. CASE asks = {}
    BY <1>3, <1>5, <2>1, QueuesFrame DEF DrainState
  <2>2. CASE asks # {}
    <3>1. \A r \in Runs : rows[r] # {} => durable'[r] # {}
      BY <1>1, <1>3 DEF DrainState, DrainInv, HandedOverHasARow
    <3> QED BY <1>3, <1>5, <2>2, <3>1, QueuesScheduled DEF DrainState, WaitInv
  <2> QED BY <2>1, <2>2
<1>8. RebuildStays
  BY <1>3, <1>4, RestingStays DEF RebuildStays, InTheRebuild
<1> QED BY <1>3, <1>5, <1>6, <1>7, <1>8, RebuildMovesOn

(*----------------------- barrier, crash and restart ---------------------*)

(* The barrier moves the seal; what waits is as it was.                      *)
LEMMA SealMoves ==
    ASSUME DrainState, SealIsShut',
           UNCHANGED <<journal, durable, published, request, lane, pending, projected, timers,
                       rebuild, replayed, life, up>>,
           seal' = [shut |-> seal'.shut, late |-> seal'.late, moved |-> seal'.moved]
    PROVE  DrainInv'
<1>1. RowsStay /\ TurnsStay({})
  BY RowsFrame, UntouchedGoOn, TurnsFrame DEF DrainState, DrainInv
<1>2. QueuesStay /\ WaitsStay /\ RebuildStays
  BY <1>1, QueuesFrame, WaitsFrame, RebuildFrame DEF DrainState
<1>3. Kept
  BY <1>1, <1>2, DrainKept DEF DrainState
<1>4. AcceptedIsOwed'
  BY AcceptedStays DEF DrainState, DrainInv, ProjectedStays
<1>5. ShapesStay
  BY DEF ShapesStay, DrainState, DrainInv, TableShapes
<1> QED BY <1>1, <1>2, <1>3, <1>4, <1>5, DrainJoined

LEMMA BarrierDrains ==
    ASSUME DrainState,
           \/ \E o \in Observations : SubmitSealed(o)
           \/ Quiesce \/ BarrierWaits \/ BarrierNotes \/ BarrierDelivers
           \/ BarrierCompletes \/ BarrierRepeats \/ BarrierTimesOut
    PROVE  DrainInv'
<1>1. /\ UNCHANGED <<journal, durable, published, request, lane, pending, projected, timers,
                     rebuild, replayed, life, up>>
      /\ up
  BY DEF SubmitSealed, Quiesce, BarrierWaits, BarrierNotes, BarrierDelivers, BarrierCompletes,
         BarrierRepeats, BarrierTimesOut, BarrierOnly, durables, scheduler, lives, usage, control
<1>2. /\ seal = [shut |-> seal.shut, late |-> seal.late, moved |-> seal.moved]
      /\ barrier = [at |-> barrier.at, pass |-> barrier.pass, was |-> barrier.was]
      /\ SealIsShut
  BY DEF DrainState, DrainInv, TableShapes, QuietInv, ControlShapes
<1>3. CASE \E o \in Observations : SubmitSealed(o)
  <2>1. seal' = [seal EXCEPT !.late = TRUE] /\ UNCHANGED <<barrier, preStop>>
    BY <1>3 DEF SubmitSealed, control
  <2>2. /\ seal'.shut = seal.shut
        /\ seal' = [shut |-> seal'.shut, late |-> seal'.late, moved |-> seal'.moved]
    BY <1>2, <2>1
  <2>3. SealIsShut'
    BY <1>1, <1>2, <2>1, <2>2 DEF SealIsShut, IngressIdle
  <2> QED BY <1>1, <2>2, <2>3, SealMoves
<1>4. CASE Quiesce
  <2>1. /\ seal' = [seal EXCEPT !.shut = TRUE] /\ preStop' = preStop
        /\ barrier'.at = "ingress" /\ barrier'.was = preStop
    BY <1>4 DEF Quiesce
  <2>2. /\ seal'.shut = TRUE
        /\ seal' = [shut |-> seal'.shut, late |-> seal'.late, moved |-> seal'.moved]
    BY <1>2, <2>1
  <2>3. SealIsShut'
    BY <1>1, <1>2, <2>1, <2>2 DEF SealIsShut, IngressIdle
  <2> QED BY <1>1, <2>2, <2>3, SealMoves
<1>5. CASE BarrierWaits \/ BarrierNotes \/ BarrierDelivers \/ BarrierRepeats
  <2>1. /\ barrier.at # "none" /\ preStop' = preStop
        /\ seal' = seal \/ seal' = [seal EXCEPT !.moved = FALSE]
        /\ \E at, pass : barrier' = [barrier EXCEPT !.at = at, !.pass = pass]
    <3>1. CASE BarrierWaits
      <4>1. barrier' = [barrier EXCEPT !.at = "drain", !.pass = barrier.pass]
        BY <1>2, <3>1 DEF BarrierWaits
      <4> QED BY <3>1, <4>1 DEF BarrierWaits
    <3>2. CASE BarrierNotes
      <4>1. barrier' = [barrier EXCEPT !.at = "webhook", !.pass = barrier.pass]
        BY <1>2, <3>2 DEF BarrierNotes
      <4> QED BY <3>2, <4>1 DEF BarrierNotes
    <3>3. CASE BarrierDelivers
      <4>1. barrier' = [barrier EXCEPT !.at = "final", !.pass = barrier.pass]
        BY <1>2, <3>3 DEF BarrierDelivers
      <4> QED BY <3>3, <4>1 DEF BarrierDelivers
    <3>4. CASE BarrierRepeats
      BY <3>4 DEF BarrierRepeats
    <3> QED BY <1>5, <3>1, <3>2, <3>3, <3>4
  <2>2. /\ seal'.shut = seal.shut /\ barrier'.was = barrier.was
        /\ seal' = [shut |-> seal'.shut, late |-> seal'.late, moved |-> seal'.moved]
    BY <1>2, <2>1
  <2>3. SealIsShut'
    BY <1>1, <1>2, <2>1, <2>2 DEF SealIsShut, IngressIdle
  <2> QED BY <1>1, <2>2, <2>3, SealMoves
<1>6. CASE BarrierCompletes
  <2>1. barrier.at = "final" /\ IngressIdle /\ barrier' = Open /\ UNCHANGED seal
    BY <1>6 DEF BarrierCompletes
  <2>2. SealIsShut'
    BY <1>1, <1>2, <2>1 DEF SealIsShut, IngressIdle, Open
  <2> QED BY <1>1, <1>2, <2>1, <2>2, SealMoves
<1>7. CASE BarrierTimesOut
  <2>1. /\ barrier.at # "none" /\ barrier' = Open /\ preStop' = preStop
        /\ seal' = IF barrier.was THEN [seal EXCEPT !.moved = FALSE] ELSE OpenSeal
    BY <1>7 DEF BarrierTimesOut, Quiescing
  <2>2. barrier.was = preStop /\ seal.shut = TRUE
    BY <1>2, <2>1 DEF SealIsShut
  <2>3. /\ preStop => seal'.shut = TRUE
        /\ seal' = [shut |-> seal'.shut, late |-> seal'.late, moved |-> seal'.moved]
    BY <1>2, <2>1, <2>2 DEF OpenSeal
  <2>4. SealIsShut'
    BY <1>1, <1>2, <2>1, <2>3 DEF SealIsShut, IngressIdle, Open
  <2> QED BY <1>1, <2>3, <2>4, SealMoves
<1> QED BY <1>3, <1>4, <1>5, <1>6, <1>7

(* The barrier asks for the lanes of the timers it takes away.               *)
LEMMA ForceDrains ==
    ASSUME DrainState, BarrierForces
    PROVE  DrainInv'
<1>1. /\ barrier.at = "drain" /\ barrier' = [barrier EXCEPT !.at = "runtime"]
      /\ timers' = {} /\ lane' = Asked(lane, Forced)
      /\ UNCHANGED <<journal, durable, published, request, seal, pending, projected, rebuild, replayed,
                     life, preStop, up>>
  BY DEF BarrierForces, Enqueue, durables, ingress, lives
<1>2. RowsStay /\ TurnsStay({}) /\ \A r \in Runs : r \in Forced => InItsLane(r)'
  BY <1>1, RowsFrame, AskedFrame, FullDispatches DEF DrainState
<1>3. QueuesStay /\ RebuildStays
  BY <1>1, <1>2, QueuesFrame, RebuildFrame DEF DrainState
<1>4. WaitsStay
  <2>1. \A r \in Runs : r \in timers => r \in Forced
    BY FullDispatches DEF Forced
  <2> QED BY <1>1, <1>2, <2>1 DEF WaitsStay, EvidenceOf, Awaited
<1>5. Kept
  BY <1>2, <1>3, <1>4, DrainKept DEF DrainState
<1>6. AcceptedIsOwed'
  BY <1>1, AcceptedStays DEF DrainState, DrainInv, ProjectedStays
<1>7. ShapesStay
  BY <1>1 DEF ShapesStay, DrainState, DrainInv, TableShapes
<1>8. SealIsShut'
  <2>1. barrier'.was = barrier.was
    BY <1>1 DEF DrainState, QuietInv, ControlShapes
  <2> QED BY <1>1, <2>1 DEF DrainState, DrainInv, SealIsShut, IngressIdle
<1> QED BY <1>2, <1>3, <1>5, <1>6, <1>7, <1>8, DrainJoined

(* What was accepted before a crash is lost with it, and a completed run      *)
(* waits for the start.                                                    *)
LEMMA CrashDrains ==
    ASSUME DrainState, Crash
    PROVE  DrainInv'
<1>1. /\ request' = [o \in Observations |-> IF o \in journal THEN "lost" ELSE "none"]
      /\ seal' = OpenSeal /\ lane' = [l \in Lanes |-> Idle] /\ projected' = NoProjection
      /\ rebuild' = Resting /\ replayed' = FALSE /\ life' = NoLife /\ barrier' = Open
      /\ preStop' = FALSE /\ up' = FALSE /\ UNCHANGED <<durable, published>>
  BY DEF Crash, Volatile, durables
<1>2. \A l \in Lanes : lane'[l].at = "idle"
  BY <1>1 DEF Idle
<1>3. AcceptedIsOwed'
  BY <1>1 DEF AcceptedIsOwed
<1>4. CompletedIsOwed'
  BY <1>1 DEF CompletedIsOwed, InTheRebuild
<1>5. rebuild'.at = "idle" /\ barrier'.at = "none"
  BY <1>1 DEF Resting, Open
<1>6. \A r \in Runs : ~InLifecycle(r)'
  BY <1>1, <1>2, QueueLanes DEF InLifecycle, InQueues, Observed, NoLife, NoRows, Queues
<1>7. HandedOverHasARow'
  BY <1>1, <1>2, <1>5, <1>6, QueueLanes DEF HandedOverHasARow, DrainState, DrainInv, Queues
<1>8. CapturedIsFull'
  BY <1>2, <1>5, QueueLanes DEF CapturedIsFull
<1>9. SealIsShut'
  BY <1>1, <1>5 DEF SealIsShut
<1>10. TableShapes'
  BY <1>1 DEF TableShapes, NoProjection, Resting, OpenSeal, DrainState, DrainInv
<1> QED BY <1>3, <1>4, <1>7, <1>8, <1>9, <1>10 DEF DrainInv

LEMMA RestartDrains ==
    ASSUME DrainState, Restart
    PROVE  DrainInv'
<1>1. /\ ~up /\ up' = TRUE /\ rebuild' = [Resting EXCEPT !.at = "previous"]
      /\ UNCHANGED <<journal, durable, published, request, seal, lane, pending, projected, timers,
                     replayed, life, barrier, preStop>>
  BY DEF Restart, durables, ingress, scheduler, lives
<1>2. replayed = FALSE
  BY <1>1 DEF DrainState, DrainInv, SealIsShut
<1>3. RowsStay /\ TurnsStay({})
  BY <1>1, RowsFrame, UntouchedGoOn, TurnsFrame DEF DrainState, DrainInv
<1>4. QueuesStay /\ WaitsStay
  BY <1>1, <1>3, QueuesFrame, WaitsFrame DEF DrainState
<1>5. RebuildStays
  <2>1. rebuild'.at = "previous"
    BY <1>1 DEF Resting
  <2> QED BY <1>1, <1>2, <2>1, RestingStays DEF RebuildStays, InTheRebuild
<1>6. Kept
  BY <1>3, <1>4, <1>5, DrainKept DEF DrainState
<1>7. AcceptedIsOwed'
  BY <1>1, AcceptedStays DEF DrainState, DrainInv, ProjectedStays
<1>8. ShapesStay /\ SealIsShut'
  BY <1>1 DEF ShapesStay, DrainState, DrainInv, TableShapes, SealIsShut, IngressIdle
<1> QED BY <1>3, <1>5, <1>6, <1>7, <1>8, DrainJoined

LEMMA DrainInit == Init => DrainInv
<1> SUFFICES ASSUME Init PROVE DrainInv
  OBVIOUS
<1>1. /\ journal = {} /\ durable = NoRows /\ published = NoRows
      /\ request = [o \in Observations |-> "none"] /\ seal = OpenSeal
      /\ lane = [l \in Lanes |-> Idle] /\ projected = NoProjection
      /\ rebuild = (IF scene.warm THEN Resting ELSE [Resting EXCEPT !.at = "previous"])
      /\ life = NoLife /\ barrier = Open /\ preStop = FALSE /\ up = TRUE
      /\ replayed = (scene.warm /\ owner = "full")
  BY DEF Init
<1>2. \A l \in Lanes : lane[l].at = "idle"
  BY <1>1 DEF Idle
<1>3. /\ rebuild.at \in {"idle", "previous"} /\ barrier.at = "none"
      /\ rebuild = [at |-> rebuild.at, requested |-> rebuild.requested, full |-> rebuild.full,
                    before |-> rebuild.before, after |-> rebuild.after]
  BY <1>1 DEF Resting, Open
<1>4. \A r \in Runs : ~InLifecycle(r) /\ published[r] = {}
  BY <1>1, <1>2, QueueLanes DEF InLifecycle, InQueues, Observed, NoLife, NoRows, Queues
<1>5. AcceptedIsOwed
  BY <1>1 DEF AcceptedIsOwed
<1>6. CompletedIsOwed
  BY <1>1 DEF CompletedIsOwed, Completed, EvidenceOf
<1>7. HandedOverHasARow /\ CapturedIsFull
  BY <1>2, <1>3, <1>4, QueueLanes DEF HandedOverHasARow, CapturedIsFull, Queues
<1>8. SealIsShut
  BY <1>1, <1>3 DEF SealIsShut
<1>9. TableShapes
  BY <1>1, <1>3 DEF TableShapes, NoProjection, NoRows, OpenSeal
<1> QED BY <1>5, <1>6, <1>7, <1>8, <1>9 DEF DrainInv

LEMMA DrainStep ==
    ASSUME DrainState, [Next]_vars
    PROVE  DrainInv'
<1>1. CASE \E o \in Observations : Submit(o) \/ Append(o) \/ DispatchAccepted(o)
  BY <1>1, SubmitDrains, AppendDrains, AcceptDrains
<1>2. CASE \E t \in Runs \cup {"usage"} : TimerFires(t)
  BY <1>2, TimerDrains
<1>3. CASE DrainWorkspace \/ \E p \in Projections : DrainLive(p)
  BY <1>3, DrainWorkspaceDrains, DrainLiveDrains
<1>4. CASE \E q \in Lifecycles : TakeLifecycle(q) \/ ObserveCompletedRun(q)
  BY <1>4, TakeDrains, ObserveDrains
<1>5. CASE ScheduleBoundRuns \/ \E l \in {"commit", "commit_change"} : ReconcileCommitEvents(l)
  BY <1>5, CommitsDrain, BoundDrains
<1>6. CASE AttributionStarts \/ (\E c \in Commits : CommitChanges(c)) \/ \E r \in Runs : EvidenceBound(r)
  BY <1>6, AsksDrain
<1>7. CASE \E r \in Runs : ReadQuery(r) \/ UpsertQuery(r)
  BY <1>7, ReadQueryDrains, UpsertQueryDrains
<1>8. CASE UsageTurn \/ RebuildReads \/ RebuildUpserts \/ RebuildSchedules \/ RebuildAttributes \/ Maintain
  BY <1>8, UsageDrains, RebuildReadsDrains, RebuildUpsertsDrains, RebuildSchedulesDrains,
     RebuildAttributesDrains, MaintainDrains
<1>9. ~RebuildFails /\ ~Transition /\ ~TransitionGoesOn
  BY DEF RebuildFails, Transition, TransitionGoesOn, DrainState, Undisturbed, QuietInv, StartIsOver
<1>10. CASE UNCHANGED vars \/ MaintenanceEnds \/ WebhookTest \/ DispatchStarted \/ Deliver
  <2>1. UNCHANGED <<journal, durable, published, request, seal, lane, pending, projected, timers,
                    rebuild, replayed, life, barrier, preStop, up>>
    BY <1>10 DEF vars, MaintenanceEnds, WebhookTest, DispatchStarted, Deliver, durables, ingress,
                 scheduler, lives, usage, control
  <2> QED BY <2>1, NothingMoves
<1>11. CASE \/ \E o \in Observations : SubmitSealed(o)
            \/ Quiesce \/ BarrierWaits \/ BarrierNotes \/ BarrierDelivers
            \/ BarrierCompletes \/ BarrierRepeats \/ BarrierTimesOut
  BY <1>11, BarrierDrains
<1>12. CASE BarrierForces \/ Crash \/ Restart
  BY <1>12, ForceDrains, CrashDrains, RestartDrains
<1> QED BY <1>1, <1>2, <1>3, <1>4, <1>5, <1>6, <1>7, <1>8, <1>9, <1>10, <1>11, <1>12
        DEF Next, Ingest, Project, Rebuild, Services, Barrier

(* Once a quiesce has answered drained every place where an accepted          *)
(* observation or a completed run could wait is empty.                     *)
LEMMA NothingIsOwed ==
    ASSUME DrainState
    PROVE  DrainedIsComplete
<1> SUFFICES ASSUME preStop
             PROVE  /\ \A o \in Observations : request[o] = "done" =>
                          /\ o \in projected[LiveLane(o)]
                          /\ o \in Hints => o \in projected["workspace"]
                    /\ \A r \in Runs : Completed(EvidenceOf(r)) => durable[r] # {} /\ published[r] # {}
  BY DEF DrainedIsComplete
<1>1. PipelineQuiescent /\ up /\ IngressIdle
  BY DEF DrainState, QuietInv, SealIsQuiet, DownIsOpen, DrainInv, SealIsShut
<1>2. "workspace" \in Projections /\ \A o \in Observations : LiveLane(o) \in Projections
  BY DEF Projections, LiveLane
<1>3. AcceptedIsOwed /\ CompletedIsOwed /\ HandedOverHasARow
  BY DEF DrainState, DrainInv
<1>4. ASSUME NEW o \in Observations, request[o] = "done"
      PROVE  o \in projected[LiveLane(o)] /\ (o \in Hints => o \in projected["workspace"])
  BY <1>1, <1>2, <1>3, <1>4 DEF PipelineQuiescent, AcceptedIsOwed
<1>5. ASSUME NEW r \in Runs, Completed(EvidenceOf(r)) PROVE durable[r] # {} /\ published[r] # {}
  <2>1. ~Awaited(r)
    BY <1>1, RuntimeAssumption DEF Awaited, IngressIdle
  <2>2. r \notin timers /\ ~InTheRebuild(r)
    BY <1>1 DEF PipelineQuiescent, InTheRebuild
  <2>3. /\ \A l \in Lanes : lane[l].at = "idle"
        /\ life.priority = NoRows /\ life.history = NoRows
    BY <1>1 DEF PipelineQuiescent
  <2>4. ~InItsLane(r) /\ ~InLifecycle(r)
    BY <2>3, QueueLanes DEF InItsLane, InLifecycle, InQueues, Observed, NoRows, Queues
  <2>5. published[r] # {}
    BY <1>3, <1>5, <2>1, <2>2, <2>4 DEF CompletedIsOwed
  <2> QED BY <1>3, <2>5 DEF HandedOverHasARow
<1> QED BY <1>4, <1>5

(* While storage and dispatch answer, a full owner's quiesce that answers    *)
(* drained has lost nothing: every observation accepted since the start went *)
(* through its live projections, and every completed run, those of before a  *)
(* crash included, has its row and was handed to the webhook dispatch        *)
(* (index.ts: forceQueuedProjectionWorkForQuiesce and the fixed point).      *)
THEOREM DrainCompletes == Spec => [](Undisturbed => DrainedIsComplete)
<1> DEFINE Inv == Undisturbed => DrainState
<1>1. Init => Inv
  BY WaitInit, QuietInit, DrainInit DEF DrainState, Undisturbed, LateOwner
<1>2. Inv /\ [Next]_vars => Inv'
  <2> SUFFICES ASSUME Inv, [Next]_vars, Undisturbed' PROVE DrainState'
    OBVIOUS
  <2>1. scene' = scene
    BY SceneStays
  <2>2. DrainState /\ ~LateOwner
    BY <2>1 DEF Undisturbed, LateOwner
  <2>3. WaitInv' /\ QuietInv'
    BY <2>2, WaitStep, QuietStep DEF DrainState
  <2>4. DrainInv'
    BY <2>2, DrainStep
  <2> QED BY <2>3, <2>4 DEF DrainState
<1>3. Inv => (Undisturbed => DrainedIsComplete)
  BY NothingIsOwed
<1> QED BY <1>1, <1>2, <1>3, PTL DEF Spec

=============================================================================
