------------------------ MODULE RuntimeWorkScheduler ------------------------
(***************************************************************************)
(* The agent's background-work scheduler: one lane per key, the latest     *)
(* work function of a lane replacing the one that has not started yet, and *)
(* drains that wait for the lanes to fall idle.                            *)
(*                                                                         *)
(* JavaScript runs one callback at a time, so everything between two       *)
(* awaits is one action.  run() awaits only the work function itself: its  *)
(* loop, its catch and its finally belong to the step in which that await  *)
(* settles.                                                                *)
(***************************************************************************)
EXTENDS Naturals, FiniteSets

CONSTANTS Keys,       \* RuntimeWorkKey: the lanes
          Works,      \* the work functions callers hand to enqueue
          Drainers,   \* callers of drain, drainKey and drainToFixedPoint
          MaxRounds,  \* drainToFixedPoint's maxRounds
          NoWork      \* no work function

ASSUME SchedulerAssumption ==
    /\ NoWork \notin Works
    /\ MaxRounds \in Nat \ {0}

VARIABLES running,    \* state.running of every lane
          requested,  \* state.requested
          work,       \* state.work
          inFlight,   \* the calls of work() that have not settled
          waiting,    \* idleResolvers: which lanes each drainer still awaits
          drainer,    \* where each drainer is
          round,      \* drainToFixedPoint's loop counter
          stale,      \* generation # this.generation, per drainer
          owed        \* history: the last enqueued work of a lane not started

vars == <<running, requested, work, inFlight, waiting, drainer, round, stale,
          owed>>

laneVars  == <<running, requested, work, inFlight, owed>>
drainVars == <<waiting, drainer, round, stale>>

DrainerStates == {"out", "draining", "yielded", "stable", "gaveUp"}

TypeOK ==
    /\ running \in [Keys -> BOOLEAN]
    /\ requested \in [Keys -> BOOLEAN]
    /\ work \in [Keys -> Works \cup {NoWork}]
    /\ inFlight \in [Keys -> SUBSET Works]
    /\ waiting \in [Drainers -> SUBSET Keys]
    /\ drainer \in [Drainers -> DrainerStates]
    /\ round \in [Drainers -> 0..MaxRounds - 1]
    /\ stale \in [Drainers -> BOOLEAN]
    /\ owed \in [Keys -> Works \cup {NoWork}]

Init ==
    /\ running = [k \in Keys |-> FALSE]
    /\ requested = [k \in Keys |-> FALSE]
    /\ work = [k \in Keys |-> NoWork]
    /\ inFlight = [k \in Keys |-> {}]
    /\ waiting = [d \in Drainers |-> {}]
    /\ drainer = [d \in Drainers |-> "out"]
    /\ round = [d \in Drainers |-> 0]
    /\ stale = [d \in Drainers |-> FALSE]
    /\ owed = [k \in Keys |-> NoWork]

-----------------------------------------------------------------------------
(* The state changes of enqueue and run that a slip would break, each under  *)
(* its own name; the Slip variants are the mistakes the runs must notice.   *)
SlipBusy(k) == FALSE
Busy(k) == running[k]

SlipReplaceWork(k, w) == work' = [work EXCEPT ![k] = IF running[k] THEN @ ELSE w]
ReplaceWork(k, w) == work' = [work EXCEPT ![k] = w]

SlipAskForAnotherTurn(k) == requested' = requested
AskForAnotherTurn(k) == requested' = [requested EXCEPT ![k] = TRUE]

SlipResolveIdle(k) == waiting' = waiting
ResolveIdle(k) == waiting' = [d \in Drainers |-> waiting[d] \ {k}]

(* One turn of run's do-loop: requested is cleared and w is called.  others  *)
(* are the lane's unsettled calls, last the latest work not yet started.    *)
StartWork(k, w, others, last) ==
    /\ requested' = [requested EXCEPT ![k] = FALSE]
    /\ inFlight' = [inFlight EXCEPT ![k] = others \cup {w}]
    /\ owed' = [owed EXCEPT ![k] = IF w = last THEN NoWork ELSE last]

(* enqueue: the lane's work is replaced; a running lane is asked for        *)
(* another turn, an idle one starts at once.                               *)
Enqueue(k, w) ==
    /\ ReplaceWork(k, w)
    /\ stale' = [d \in Drainers |-> drainer[d] \in {"draining", "yielded"}]
    /\ \/ /\ Busy(k)
          /\ AskForAnotherTurn(k)
          /\ owed' = [owed EXCEPT ![k] = w]
          /\ UNCHANGED <<running, inFlight>>
       \/ /\ ~Busy(k)
          /\ running' = [running EXCEPT ![k] = TRUE]
          /\ StartWork(k, w, inFlight[k], w)
    /\ UNCHANGED <<waiting, drainer, round>>

(* A call of work() resolves or rejects; run then loops, or its finally     *)
(* block re-enters run, or the lane falls idle and its resolvers fire.  A  *)
(* rejection is caught and reaches the same two outcomes.                  *)
Settle(k, w) ==
    /\ w \in inFlight[k]
    /\ \/ /\ requested[k]
          /\ StartWork(k, work[k], inFlight[k] \ {w}, owed[k])
          /\ UNCHANGED <<running, waiting>>
       \/ /\ ~requested[k]
          /\ running' = [running EXCEPT ![k] = FALSE]
          /\ ResolveIdle(k)
          /\ inFlight' = [inFlight EXCEPT ![k] = @ \ {w}]
          /\ UNCHANGED <<requested, owed>>
    /\ UNCHANGED <<work, drainer, round, stale>>

IsIdle == \A k \in Keys : ~running[k]

(* The generation is the one of the round's start, and no lane is running.  *)
SlipFixedPoint(d) == IsIdle
FixedPoint(d) == ~stale[d] /\ IsIdle

(* drainKey on every lane of the map: one resolver in each running lane.   *)
Drain(d) == waiting' = [waiting EXCEPT ![d] = {k \in Keys : running[k]}]

(* drainToFixedPoint: the generation snapshot and the first drain.         *)
DrainToFixedPoint(d) ==
    /\ drainer[d] = "out"
    /\ Drain(d)
    /\ drainer' = [drainer EXCEPT ![d] = "draining"]
    /\ round' = [round EXCEPT ![d] = 0]
    /\ stale' = [stale EXCEPT ![d] = FALSE]
    /\ UNCHANGED laneVars

(* Every awaited lane has fallen idle once; Promise.resolve() yields.      *)
Drained(d) ==
    /\ drainer[d] = "draining"
    /\ waiting[d] = {}
    /\ drainer' = [drainer EXCEPT ![d] = "yielded"]
    /\ UNCHANGED <<waiting, round, stale>>
    /\ UNCHANGED laneVars

AnotherRound(d) == round[d] + 1 < MaxRounds

(* The fixed-point test, the next round, or the refusal after the last.    *)
CheckFixedPoint(d) ==
    /\ drainer[d] = "yielded"
    /\ \/ /\ FixedPoint(d)
          /\ drainer' = [drainer EXCEPT ![d] = "stable"]
          /\ UNCHANGED <<waiting, round, stale>>
       \/ /\ ~FixedPoint(d)
          /\ AnotherRound(d)
          /\ round' = [round EXCEPT ![d] = @ + 1]
          /\ drainer' = [drainer EXCEPT ![d] = "draining"]
          /\ stale' = [stale EXCEPT ![d] = FALSE]
          /\ Drain(d)
       \/ /\ ~FixedPoint(d)
          /\ ~AnotherRound(d)
          /\ drainer' = [drainer EXCEPT ![d] = "gaveUp"]
          /\ UNCHANGED <<waiting, round, stale>>
    /\ UNCHANGED laneVars

(* The caller has used the answer and may drain again.                     *)
Answered(d) ==
    /\ drainer[d] \in {"stable", "gaveUp"}
    /\ drainer' = [drainer EXCEPT ![d] = "out"]
    /\ UNCHANGED <<waiting, round, stale>>
    /\ UNCHANGED laneVars

Next ==
    \/ \E k \in Keys, w \in Works : Enqueue(k, w)
    \/ \E k \in Keys, w \in Works : Settle(k, w)
    \/ \E d \in Drainers : \/ DrainToFixedPoint(d)
                           \/ Drained(d)
                           \/ CheckFixedPoint(d)
                           \/ Answered(d)

Spec == Init /\ [][Next]_vars

(* Every work function settles, and a resolved promise's continuation runs. *)
Fairness ==
    /\ \A k \in Keys, w \in Works : WF_vars(Settle(k, w))
    /\ \A d \in Drainers : WF_vars(Drained(d)) /\ WF_vars(CheckFixedPoint(d))

FairSpec == Spec /\ Fairness

-----------------------------------------------------------------------------
(* A lane never runs two of its works at once, and running says whether it *)
(* runs one: callers of enqueue rely on it to serialize one kind of work.  *)
OneRunPerLane ==
    \A k \in Keys : /\ Cardinality(inFlight[k]) <= 1
                    /\ running[k] <=> inFlight[k] # {}

(* Coalescing never drops the last request: a lane that is idle, or that   *)
(* will not loop again, has already started the last work handed to it.    *)
LastWorkIsNeverDropped ==
    \A k \in Keys : ~requested[k] => owed[k] = NoWork

(* The work a lane owes is the one its next turn will call.                *)
NextTurnRunsTheLatest ==
    \A k \in Keys : owed[k] # NoWork => owed[k] = work[k] /\ running[k]

(* No resolver is parked in an idle lane: such a drain would never return. *)
NoStrandedDrain ==
    \A d \in Drainers : \A k \in waiting[d] : running[k]

(* When drainToFixedPoint answers true, nothing enqueued before the answer *)
(* is unstarted or still running, and nothing was enqueued since the round *)
(* began, not even work that ran and ended meanwhile; quiesce trusts both. *)
StableMeansQuiescent ==
    [][\A d \in Drainers :
          drainer'[d] = "stable" /\ drainer[d] # "stable" =>
             /\ ~stale[d]
             /\ \A k \in Keys : owed'[k] = NoWork /\ inFlight'[k] = {}]_vars

(* Every enqueued work is eventually started, or replaced by a later one   *)
(* that is: the lane does not owe work for ever.                           *)
OwedWorkStarts ==
    \A k \in Keys, w \in Works : owed[k] = w ~> owed[k] # w

(* A drain answers once producers stop enqueueing.                         *)
DrainAnswersOnceQuiet ==
    <>[][\A k \in Keys, w \in Works : ~Enqueue(k, w)]_vars =>
        \A d \in Drainers :
            drainer[d] = "draining" ~> drainer[d] \in {"stable", "gaveUp"}

=============================================================================
