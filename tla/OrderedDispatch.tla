-------------------------- MODULE OrderedDispatch --------------------------
(***************************************************************************)
(* The dispatch on top of its storage worker.  The worker takes operations *)
(* in the order they are posted and answers in that order, so a caller     *)
(* that waits for an answer is overtaken at most once by each other one.   *)
(* ExternalWebhookDispatch leaves the order open; here `calls` is the      *)
(* queue of those who wait for the worker.                                 *)
(***************************************************************************)
EXTENDS ExternalWebhookDispatch, SequencesExt

VARIABLE calls  \* the worker's queue: who waits for an answer, oldest first

(* Whether an operation is outstanding before the next step.  A step that   *)
(* first needs a lock it does not hold has none.                           *)
LaneAwaits(l) ==
    \/ lane[l] \in {"fetched", "retire", "replace", "gate", "attempted",
                    "record", "write", "release"}
    \/ lane[l] = "update" /\ Holds(updates[claim[l].run], l)

CallerAwaits(a) ==
    admission[a].pc \in {"reconcile", "stateEntry", "existing", "upsert",
                         "subject", "retire", "kick"}

Awaits(p) == IF p \in Lanes THEN LaneAwaits(p) ELSE CallerAwaits(p)

(* The worker answers the oldest call first; p's continuation runs and, if  *)
(* it posts another operation, p goes to the end of the queue.             *)
Turn(p) == p \in ToSet(calls) => Head(calls) = p

Requeue(p) ==
    calls' = SelectSeq(calls, LAMBDA q : q # p) \o (IF Awaits(p)' THEN <<p>> ELSE <<>>)

Serve(p) ==
    /\ Turn(p)
    /\ IF p \in Lanes THEN Deliver(p) ELSE Advance(p)
    /\ Requeue(p)

OrderedInit == Init /\ calls = <<>>

OrderedNext ==
    \/ \E p \in Lanes \cup Admitters : Serve(p)
    \/ \E a \in Admitters : Admit(a) /\ Requeue(a)
    \/ \E l \in Lanes : (Receive(l) \/ Refused(l) \/ Rejected(l)) /\ Requeue(l)
    \/ /\ TimerFires \/ Clock \/ StartDispatch \/ Operator
       /\ calls' = SelectSeq(calls, LAMBDA p : Awaits(p)')   \* none after a crash

OrderedSpec == OrderedInit /\ [][OrderedNext]_<<vars, calls>>
=============================================================================
