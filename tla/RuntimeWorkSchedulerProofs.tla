--------------------- MODULE RuntimeWorkSchedulerProofs ---------------------
(***************************************************************************)
(* Lane discipline of the scheduler for any lanes, work functions, drains  *)
(* and round limit.  The inductive invariant adds to the checked ones what *)
(* ties the flags together: a lane asked for another turn is running and   *)
(* has a work to call, and its unsettled call is a single one.             *)
(***************************************************************************)
EXTENDS RuntimeWorkScheduler, FiniteSetTheorems, TLAPS

(* The flags, the pending work and the unsettled call of one lane agree.   *)
LaneOK(k) ==
    /\ running[k] => \E w \in Works : inFlight[k] = {w}
    /\ ~running[k] => inFlight[k] = {} /\ ~requested[k]
    /\ running[k] => work[k] \in Works
    /\ ~requested[k] => owed[k] = NoWork
    /\ owed[k] # NoWork => owed[k] = work[k] /\ running[k]

LanesOK == \A k \in Keys : LaneOK(k)

IInv == TypeOK /\ LanesOK /\ NoStrandedDrain

-----------------------------------------------------------------------------
LEMMA InitEstablishes == Init => IInv
  BY SchedulerAssumption
     DEF Init, IInv, TypeOK, LanesOK, LaneOK, NoStrandedDrain, DrainerStates

(* enqueue starts an idle lane or asks a running one for another turn.     *)
LEMMA EnqueuePreserves ==
    ASSUME IInv, NEW k \in Keys, NEW w \in Works, Enqueue(k, w)
    PROVE  IInv'
  <1> USE SchedulerAssumption
  <1>1. TypeOK'
    <2>1. stale' \in [Drainers -> BOOLEAN]
      BY DEF Enqueue
    <2>2. work' \in [Keys -> Works \cup {NoWork}]
      BY DEF IInv, TypeOK, Enqueue, ReplaceWork
    <2>3. /\ running' \in [Keys -> BOOLEAN]
          /\ requested' \in [Keys -> BOOLEAN]
          /\ inFlight' \in [Keys -> SUBSET Works]
          /\ owed' \in [Keys -> Works \cup {NoWork}]
      <3>1. CASE running[k]
        <4>1. /\ requested' = [requested EXCEPT ![k] = TRUE] /\ owed' = [owed EXCEPT ![k] = w]
              /\ UNCHANGED <<running, inFlight>>
          BY <3>1 DEF Enqueue, Busy, AskForAnotherTurn
        <4>2. requested' \in [Keys -> BOOLEAN] /\ owed' \in [Keys -> Works \cup {NoWork}]
          BY <4>1 DEF IInv, TypeOK
        <4>3. running' \in [Keys -> BOOLEAN] /\ inFlight' \in [Keys -> SUBSET Works]
          BY <4>1 DEF IInv, TypeOK
        <4> QED BY <4>2, <4>3
      <3>2. CASE ~running[k]
        <4>1. running' \in [Keys -> BOOLEAN]
          BY <3>2 DEF IInv, TypeOK, Enqueue, Busy
        <4>2. requested' \in [Keys -> BOOLEAN]
          BY <3>2 DEF IInv, TypeOK, Enqueue, Busy, StartWork
        <4>3. inFlight' \in [Keys -> SUBSET Works]
          BY <3>2 DEF IInv, TypeOK, Enqueue, Busy, StartWork
        <4>4. owed' \in [Keys -> Works \cup {NoWork}]
          BY <3>2 DEF IInv, TypeOK, Enqueue, Busy, StartWork
        <4>5. QED BY <4>1, <4>2, <4>3, <4>4
      <3>3. QED BY <3>1, <3>2
    <2>4. QED BY <2>1, <2>2, <2>3 DEF IInv, TypeOK, Enqueue
  <1>2. ASSUME NEW j \in Keys PROVE LaneOK(j)'
    <2>1. CASE j # k
      BY <2>1 DEF IInv, TypeOK, Enqueue, Busy, ReplaceWork, AskForAnotherTurn,
                  StartWork, LanesOK, LaneOK
    <2>2. CASE j = k /\ running[k]
      BY <2>2 DEF IInv, TypeOK, Enqueue, Busy, ReplaceWork, AskForAnotherTurn,
                  LanesOK, LaneOK
    <2>3. CASE j = k /\ ~running[k]
      BY <2>3 DEF IInv, TypeOK, Enqueue, Busy, ReplaceWork, StartWork,
                  LanesOK, LaneOK
    <2>4. QED BY <2>1, <2>2, <2>3
  <1>3. NoStrandedDrain'
    BY DEF IInv, TypeOK, NoStrandedDrain, Enqueue, Busy
  <1>4. QED BY <1>1, <1>2, <1>3 DEF IInv, LanesOK

(* A settled call loops, or leaves the lane idle and resolves its drains.  *)
LEMMA SettlePreserves ==
    ASSUME IInv, NEW k \in Keys, NEW w \in Works, Settle(k, w)
    PROVE  IInv'
  <1> USE SchedulerAssumption
  <1>1. running[k] /\ inFlight[k] = {w} /\ work[k] \in Works
    BY DEF IInv, TypeOK, LanesOK, LaneOK, Settle
  <1>2. TypeOK'
    <2>1. running' \in [Keys -> BOOLEAN]
      BY DEF IInv, TypeOK, Settle
    <2>2. requested' \in [Keys -> BOOLEAN]
      BY DEF IInv, TypeOK, Settle, StartWork
    <2>3. inFlight' \in [Keys -> SUBSET Works]
      BY <1>1 DEF IInv, TypeOK, Settle, StartWork
    <2>4. owed' \in [Keys -> Works \cup {NoWork}]
      BY DEF IInv, TypeOK, Settle, StartWork
    <2>5. waiting' \in [Drainers -> SUBSET Keys]
      BY DEF IInv, TypeOK, Settle, ResolveIdle
    <2>6. QED
      BY <2>1, <2>2, <2>3, <2>4, <2>5 DEF IInv, TypeOK, Settle
  <1>3. ASSUME NEW j \in Keys PROVE LaneOK(j)'
    <2>1. CASE j # k
      BY <2>1 DEF IInv, TypeOK, Settle, StartWork, LanesOK, LaneOK
    <2>2. CASE j = k /\ requested[k]
      BY <1>1, <2>2 DEF IInv, TypeOK, Settle, StartWork, LanesOK, LaneOK
    <2>3. CASE j = k /\ ~requested[k]
      BY <1>1, <2>3 DEF IInv, TypeOK, Settle, LanesOK, LaneOK
    <2>4. QED BY <2>1, <2>2, <2>3
  <1>4. NoStrandedDrain'
    BY DEF IInv, TypeOK, NoStrandedDrain, Settle, ResolveIdle
  <1>5. QED BY <1>2, <1>3, <1>4 DEF IInv, LanesOK

(* The drains leave the lanes alone and park only in running ones.         *)
LEMMA DrainerPreserves ==
    ASSUME IInv, NEW d \in Drainers,
           \/ DrainToFixedPoint(d)
           \/ Drained(d)
           \/ CheckFixedPoint(d)
           \/ Answered(d)
    PROVE  IInv'
  <1> USE SchedulerAssumption
  <1>1. UNCHANGED laneVars
    BY DEF DrainToFixedPoint, Drained, CheckFixedPoint, Answered
  <1>2. TypeOK'
    <2>1. CASE DrainToFixedPoint(d)
      BY <1>1, <2>1 DEF IInv, TypeOK, laneVars, DrainToFixedPoint, Drain,
                        DrainerStates
    <2>2. CASE Drained(d)
      BY <1>1, <2>2 DEF IInv, TypeOK, laneVars, Drained, DrainerStates
    <2>3. CASE CheckFixedPoint(d)
      <3>1. drainer' \in [Drainers -> DrainerStates]
        BY <2>3 DEF IInv, TypeOK, CheckFixedPoint, DrainerStates
      <3>2. round' \in [Drainers -> 0..MaxRounds - 1]
        BY <2>3 DEF IInv, TypeOK, CheckFixedPoint, AnotherRound
      <3>3. stale' \in [Drainers -> BOOLEAN]
        BY <2>3 DEF IInv, TypeOK, CheckFixedPoint
      <3>4. waiting' \in [Drainers -> SUBSET Keys]
        BY <2>3 DEF IInv, TypeOK, CheckFixedPoint, Drain
      <3>5. QED
        BY <1>1, <3>1, <3>2, <3>3, <3>4 DEF IInv, TypeOK, laneVars
    <2>4. CASE Answered(d)
      BY <1>1, <2>4 DEF IInv, TypeOK, laneVars, Answered, DrainerStates
    <2>5. QED BY <2>1, <2>2, <2>3, <2>4
  <1>3. LanesOK'
    BY <1>1 DEF IInv, LanesOK, LaneOK, laneVars
  <1>4. NoStrandedDrain'
    BY <1>1 DEF IInv, TypeOK, NoStrandedDrain, laneVars, DrainToFixedPoint,
                Drained, CheckFixedPoint, Answered, Drain
  <1>5. QED BY <1>2, <1>3, <1>4 DEF IInv

LEMMA NextPreserves == IInv /\ [Next]_vars => IInv'
  <1> SUFFICES ASSUME IInv, [Next]_vars PROVE IInv'
    OBVIOUS
  <1>1. CASE UNCHANGED vars
    BY <1>1 DEF vars, IInv, TypeOK, LanesOK, LaneOK, NoStrandedDrain
  <1>2. CASE Next
    BY <1>2, EnqueuePreserves, SettlePreserves, DrainerPreserves DEF Next
  <1>3. QED BY <1>1, <1>2

THEOREM InductiveInvariant == Spec => []IInv
  BY InitEstablishes, NextPreserves, PTL DEF Spec

-----------------------------------------------------------------------------
(* Every variable of the scheduler keeps its type, rounds stay in limit.   *)
THEOREM SchedulerTypes == Spec => []TypeOK
  <1>1. IInv => TypeOK
    BY DEF IInv
  <1>2. QED BY <1>1, InductiveInvariant, PTL

(* enqueue never runs two works of a lane at once, and state.running says  *)
(* exactly whether one runs.                                               *)
THEOREM LanesSerialize == Spec => []OneRunPerLane
  <1>1. IInv => OneRunPerLane
    <2> SUFFICES ASSUME IInv, NEW k \in Keys
                 PROVE  /\ Cardinality(inFlight[k]) <= 1
                        /\ running[k] <=> inFlight[k] # {}
      BY DEF OneRunPerLane
    <2>1. CASE running[k]
      <3>1. PICK w \in Works : inFlight[k] = {w}
        BY <2>1 DEF IInv, LanesOK, LaneOK
      <3>2. Cardinality(inFlight[k]) = 1
        BY <3>1, FS_Singleton
      <3>3. QED BY <2>1, <3>1, <3>2
    <2>2. CASE ~running[k]
      <3>1. inFlight[k] = {}
        BY <2>2 DEF IInv, LanesOK, LaneOK
      <3>2. Cardinality(inFlight[k]) = 0
        BY <3>1, FS_EmptySet
      <3>3. QED BY <2>2, <3>1, <3>2
    <2>3. QED BY <2>1, <2>2 DEF IInv, TypeOK
  <1>2. QED BY <1>1, InductiveInvariant, PTL

(* A lane that will not loop again has started the last work it was given. *)
THEOREM NothingDropped == Spec => []LastWorkIsNeverDropped
  <1>1. IInv => LastWorkIsNeverDropped
    BY DEF IInv, LanesOK, LaneOK, LastWorkIsNeverDropped
  <1>2. QED BY <1>1, InductiveInvariant, PTL

(* The next turn of a lane calls the latest work it owes.                  *)
THEOREM LatestWins == Spec => []NextTurnRunsTheLatest
  <1>1. IInv => NextTurnRunsTheLatest
    BY DEF IInv, LanesOK, LaneOK, NextTurnRunsTheLatest
  <1>2. QED BY <1>1, InductiveInvariant, PTL

(* No drain is parked in an idle lane.                                     *)
THEOREM DrainsAreNotStranded == Spec => []NoStrandedDrain
  <1>1. IInv => NoStrandedDrain
    BY DEF IInv
  <1>2. QED BY <1>1, InductiveInvariant, PTL

(* drainToFixedPoint answers true only when no lane owes or runs anything  *)
(* and nothing was enqueued since its round took the generation.           *)
THEOREM StableIsQuiescent == Spec => StableMeansQuiescent
  <1>1. IInv /\ [Next]_vars =>
          [\A d \in Drainers :
              drainer'[d] = "stable" /\ drainer[d] # "stable" =>
                 /\ ~stale[d]
                 /\ \A k \in Keys : owed'[k] = NoWork /\ inFlight'[k] = {}]_vars
    <2> SUFFICES ASSUME IInv, Next, NEW d \in Drainers,
                        drainer'[d] = "stable", drainer[d] # "stable"
                 PROVE  /\ ~stale[d]
                        /\ \A k \in Keys : owed'[k] = NoWork /\ inFlight'[k] = {}
      OBVIOUS
    <2>1. CheckFixedPoint(d) /\ FixedPoint(d)
      BY DEF IInv, TypeOK, Next, Enqueue, Settle, DrainToFixedPoint, Drained,
             CheckFixedPoint, Answered
    <2>2. ~stale[d] /\ \A k \in Keys : ~running[k]
      BY <2>1 DEF FixedPoint, IsIdle
    <2>3. \A k \in Keys : owed[k] = NoWork /\ inFlight[k] = {}
      BY <2>2 DEF IInv, LanesOK, LaneOK
    <2>4. QED
      BY <2>1, <2>2, <2>3 DEF CheckFixedPoint, laneVars
  <1>2. QED
    BY <1>1, InductiveInvariant, PTL DEF Spec, StableMeansQuiescent
=============================================================================
