----------------------- MODULE WebhookTerminalProofs -----------------------
(***************************************************************************)
(* Terminals, proved for any runs, callers and bounds.                     *)
(*                                                                         *)
(* Everything here is about behaviours in which terminals take turns with  *)
(* updates: none is submitted while its run delivers an update, so none    *)
(* goes past the lifecycle lock (Orderly).  The argument has three layers. *)
(* TurnInv: whoever replaces or delivers a terminal, and whoever has yet   *)
(* to write its subject, holds the lifecycle lock of its run.  LedgerInv,  *)
(* on top of it: the versions of a run are the first few, all but the last *)
(* delivered and each saying more than the one before, and the subject     *)
(* points at the last one.  TakenInv, on top of both: what the receiver    *)
(* took of a terminal is what its row says for good.  From LedgerInv, too, *)
(* every step maps to a step of RunEndedLedger or a stutter.               *)
(*                                                                         *)
(* The last part carries what is proved of answers in any order over to    *)
(* the storage worker's own order.                                         *)
(***************************************************************************)
EXTENDS OrderedDispatch, ExternalWebhookDispatchProofs, FiniteSetTheorems, SequenceTheorems

-----------------------------------------------------------------------------
(* Taking turns.  No terminal passes by an update in flight, ...           *)
Orderly ==
    \A a \in Admitters, r \in Runs, m \in 1..MaxMeaning :
        Submit(a, r, "run.ended", m) => ~DeliveringUpdate(r)

(* ... so whoever replaces or delivers a terminal of a run, and whoever has *)
(* yet to write its subject, holds the lifecycle lock of the run.          *)
Replacing == {"terminal", "stateEntry", "existing", "upsert", "subject"}
Sending   == {"gate", "attempted", "post", "received", "record", "write"}
Recording == {"record", "write"}

Replaces(a) == admission[a].type = "run.ended" /\ admission[a].pc \in Replacing

Sends(l) == lane[l] \in Sending /\ claim[l].type = "run.ended"

CallerTurn(a) ==
    LET adm == admission[a] IN
    /\ adm.type = "run.ended" /\ adm.pc \notin {"idle", "kick"} => adm.run \in Runs
    /\ adm.pc = "subject" => adm.type = "run.ended"
    /\ Replaces(a) => Holds(lifecycle[adm.run], a)
    /\ Replaces(a) /\ adm.pc \in {"existing", "upsert", "subject"} =>
          \E v : adm.k = Ended(adm.run, v)

LaneTurn(l) ==
    /\ lane[l] \in Recording => claim[l].type = "run.ended"
    /\ Sends(l) => Holds(lifecycle[claim[l].run], l)

TurnInv ==
    /\ lifecycle \in [Runs -> Seq(Lanes \cup Admitters)]
    /\ \A a \in Admitters : CallerTurn(a)
    /\ \A l \in Lanes : LaneTurn(l)

-----------------------------------------------------------------------------
LEMMA LanesAreNoCallers == Lanes \cap Admitters = {}
  BY DispatchAssumption DEF Lanes, Main, Anchor

(* Joining and leaving a queue of locks.                                   *)
LEMMA QueueKeeps ==
    ASSUME NEW queues \in [Runs -> Seq(Lanes \cup Admitters)], NEW p \in Lanes \cup Admitters,
           NEW queues2, queues2 = queues \/ (\E r : queues2 = Join(queues, r, p))
                                         \/ queues2 = Leave(queues, p)
    PROVE  /\ queues2 \in [Runs -> Seq(Lanes \cup Admitters)]
           /\ \A s \in Runs : \A q : q # p /\ Holds(queues[s], q) => Holds(queues2[s], q)
  <1>1. CASE queues2 = queues
    BY <1>1
  <1>2. CASE \E r : queues2 = Join(queues, r, p)
    <2>1. PICK r : queues2 = Join(queues, r, p)
      BY <1>2
    <2>2. ASSUME NEW s \in Runs
          PROVE  /\ queues2[s] \in {queues[s], Append(queues[s], p)}
                 /\ queues[s] \in Seq(Lanes \cup Admitters)
      BY <2>1 DEF Join
    <2>3. ASSUME NEW s \in Runs, NEW q, Holds(queues[s], q)
          PROVE  Holds(queues2[s], q)
      <3>1. PICK queue : queue = queues[s] /\ queue \in Seq(Lanes \cup Admitters)
        BY <2>2
      <3>2. queue # <<>> /\ Head(queue) = q
        BY <2>3, <3>1 DEF Holds
      <3>3. Append(queue, p) # <<>> /\ Head(Append(queue, p)) = q
        BY <3>1, <3>2
      <3>4. QED BY <2>2, <3>1, <3>2, <3>3 DEF Holds
    <2>4. queues2 \in [Runs -> Seq(Lanes \cup Admitters)]
      <3>1. queues2 = [s \in Runs |-> queues2[s]]
        BY <2>1 DEF Join
      <3>2. ASSUME NEW s \in Runs PROVE queues2[s] \in Seq(Lanes \cup Admitters)
        <4>1. PICK queue \in Seq(Lanes \cup Admitters) : queue = queues[s]
          BY <2>2
        <4>2. Append(queue, p) \in Seq(Lanes \cup Admitters)
          OBVIOUS
        <4>3. QED BY <2>2, <4>1, <4>2
      <3>3. QED BY <3>1, <3>2
    <2>5. QED BY <2>3, <2>4
  <1>3. CASE queues2 = Leave(queues, p)
    BY <1>3 DEF Leave, Holds
  <1>4. QED BY <1>1, <1>2, <1>3

LEMMA LockKeeps ==
    ASSUME lifecycle \in [Runs -> Seq(Lanes \cup Admitters)], NEW p \in Lanes \cup Admitters,
           \/ lifecycle' = lifecycle
           \/ \E r : lifecycle' = Join(lifecycle, r, p)
           \/ lifecycle' = Leave(lifecycle, p)
    PROVE  /\ lifecycle' \in [Runs -> Seq(Lanes \cup Admitters)]
           /\ \A s \in Runs : \A q : q # p /\ Holds(lifecycle[s], q) => Holds(lifecycle'[s], q)
  BY QueueKeeps

(* A caller nobody's step touches keeps its turn, and so does a lane.      *)
LEMMA TurnFrame ==
    ASSUME TurnInv, NEW x \in Lanes \cup Admitters,
           \/ lifecycle' = lifecycle
           \/ \E r : lifecycle' = Join(lifecycle, r, x)
           \/ lifecycle' = Leave(lifecycle, x),
           \A a \in Admitters : CallerTurn(a)' \/ (a # x /\ admission'[a] = admission[a]),
           \A l \in Lanes : LaneTurn(l)' \/ (l # x /\ lane'[l] = lane[l] /\ claim'[l] = claim[l]),
           \A l \in Lanes : claim[l] # NoKey => claim[l].run \in Runs,
           \A l \in Lanes : claim[l] # NoKey <=> lane[l] \in Claimed
    PROVE  TurnInv'
  <1>1. /\ lifecycle' \in [Runs -> Seq(Lanes \cup Admitters)]
        /\ \A s \in Runs : \A q : q # x /\ Holds(lifecycle[s], q) => Holds(lifecycle'[s], q)
    BY LockKeeps DEF TurnInv
  <1>2. ASSUME NEW a \in Admitters, a # x, admission'[a] = admission[a] PROVE CallerTurn(a)'
    <2>1. PICK adm : adm = admission[a] /\ admission'[a] = adm
      BY <1>2
    <2>2. CallerTurn(a)
      BY DEF TurnInv
    <2>3. adm.type = "run.ended" /\ adm.pc \in Replacing => adm.run \in Runs
      BY <2>1, <2>2 DEF CallerTurn, Replacing
    <2>4. QED BY <1>1, <1>2, <2>1, <2>2, <2>3 DEF CallerTurn, Replaces
  <1>3. ASSUME NEW l \in Lanes, l # x, lane'[l] = lane[l], claim'[l] = claim[l] PROVE LaneTurn(l)'
    <2>1. LaneTurn(l)
      BY DEF TurnInv
    <2>2. lane[l] \in Sending => claim[l].run \in Runs
      BY DEF Sending, Claimed
    <2>3. QED BY <1>1, <1>3, <2>1, <2>2 DEF LaneTurn, Sends
  <1>4. QED BY <1>1, <1>2, <1>3 DEF TurnInv

(* A caller's step that touches no lane.                                   *)
LEMMA CallerTakesTurn ==
    ASSUME TurnInv, ClimbInv, NEW a \in Admitters, NEW adm,
           admission' = [admission EXCEPT ![a] = adm], UNCHANGED <<lane, claim>>,
           \/ lifecycle' = lifecycle
           \/ \E r : lifecycle' = Join(lifecycle, r, a)
           \/ lifecycle' = Leave(lifecycle, a),
           adm.type = "run.ended" /\ adm.pc \notin {"idle", "kick"} => adm.run \in Runs,
           adm.pc = "subject" => adm.type = "run.ended",
           adm.type = "run.ended" /\ adm.pc \in Replacing => Holds(lifecycle'[adm.run], a),
           adm.type = "run.ended" /\ adm.pc \in {"existing", "upsert", "subject"} =>
              \E v : adm.k = Ended(adm.run, v)
    PROVE  TurnInv'
  <1>1. admission'[a] = adm /\ \A b \in Admitters : b # a => admission'[b] = admission[b]
    BY DEF ClimbInv, ClimbShapes
  <1>2. CallerTurn(a)'
    BY <1>1 DEF CallerTurn, Replaces
  <1>3. \A l \in Lanes : l # a
    BY LanesAreNoCallers
  <1>4. \A l \in Lanes : claim[l] # NoKey => claim[l].run \in Runs
    BY DEF ClimbInv, ClaimInv, LanesTyped, EventIds, EventId, Start, Update, Ended
  <1>5. \A l \in Lanes : claim[l] # NoKey <=> lane[l] \in Claimed
    BY DEF ClimbInv, ClaimInv, ClaimHeld
  <1>6. QED BY <1>1, <1>2, <1>3, <1>4, <1>5, TurnFrame

LEMMA FinishTurn ==
    ASSUME TurnInv, ClimbInv, NEW a \in Admitters, NEW queued \in BOOLEAN, Finish(a, queued),
           UNCHANGED <<lane, claim>>
    PROVE  TurnInv'
  <1>1. PICK adm : adm = IF queued THEN [AtRest EXCEPT !.pc = "kick"] ELSE AtRest
    OBVIOUS
  <1>2. adm.pc \in {"idle", "kick"}
    BY <1>1 DEF AtRest
  <1>3. admission' = [admission EXCEPT ![a] = adm] /\ lifecycle' = Leave(lifecycle, a)
    BY <1>1 DEF Finish, Becomes, LeaveAll
  <1>4. QED BY <1>2, <1>3, CallerTakesTurn DEF Replacing

(* Callers.                                                                *)
LEMMA AdmitTurn ==
    ASSUME TurnInv, ClimbInv, NEW a \in Admitters, Admit(a), Orderly
    PROVE  TurnInv'
  <1>1. ASSUME NEW r \in Runs, QueueStart(a, r) PROVE TurnInv'
    <2>1. PICK adm : adm = [AtRest EXCEPT !.pc = "kick"]
      OBVIOUS
    <2>2. adm.pc = "kick"
      BY <2>1 DEF AtRest
    <2>3. admission' = [admission EXCEPT ![a] = adm] /\ UNCHANGED <<lane, claim, lifecycle>>
      BY <1>1, <2>1 DEF QueueStart, Becomes, Elsewhere, laneVars, lockVars
    <2>4. QED BY <2>2, <2>3, CallerTakesTurn DEF Replacing
  <1>2. ASSUME NEW r \in Runs, NEW n, NEW type \in {"run.update", "run.ended"},
               Submit(a, r, type, n), type = "run.ended" => ~DeliveringUpdate(r)
        PROVE  TurnInv'
    <2>1. PICK pc \in {"lifecycle", "update"} :
              admission' = [admission EXCEPT ![a] =
                              [AtRest EXCEPT !.pc = pc, !.type = type, !.run = r, !.n = n]]
      BY <1>2 DEF Submit, Becomes
    <2>2. PICK adm : adm = [AtRest EXCEPT !.pc = pc, !.type = type, !.run = r, !.n = n]
      OBVIOUS
    <2>3. adm.pc = pc /\ adm.type = type /\ adm.run = r
      BY <2>2 DEF AtRest
    <2>4. lifecycle' = lifecycle \/ \E s : lifecycle' = Join(lifecycle, s, a)
      BY <1>2 DEF Submit
    <2>5. admission' = [admission EXCEPT ![a] = adm] /\ UNCHANGED <<lane, claim>>
      BY <1>2, <2>1, <2>2 DEF Submit, Elsewhere, laneVars
    <2>6. QED BY <2>3, <2>4, <2>5, CallerTakesTurn DEF Replacing
  <1>3. ASSUME SubmitUpdate(a) PROVE TurnInv'
    <2>1. PICK r \in Runs, n \in 1..MaxLevel : Submit(a, r, "run.update", n)
      BY <1>3 DEF SubmitUpdate
    <2>2. QED BY <1>2, <2>1
  <1>4. ASSUME SubmitTerminal(a) PROVE TurnInv'
    <2>1. PICK r \in Runs, m \in 1..MaxMeaning : Submit(a, r, "run.ended", m)
      BY <1>4 DEF SubmitTerminal
    <2>2. ~DeliveringUpdate(r)
      BY <2>1 DEF Orderly
    <2>3. QED BY <1>2, <2>1, <2>2
  <1>5. QED BY <1>1, <1>3, <1>4 DEF Admit

(* A caller that goes on with its type and its run.                        *)
LEMMA OnwardTurn ==
    ASSUME TurnInv, ClimbInv, NEW a \in Admitters, NEW new,
           admission' = [admission EXCEPT ![a] = new], UNCHANGED <<lane, claim, lifecycle>>,
           new.type = admission[a].type, new.run = admission[a].run,
           admission[a].pc \notin {"idle", "kick"},
           new.type = "run.ended" => admission[a].pc \in Replacing,
           new.pc = "subject" => new.type = "run.ended",
           new.type = "run.ended" /\ new.pc \in {"existing", "upsert", "subject"} =>
              \E v : new.k = Ended(new.run, v)
    PROVE  TurnInv'
  <1>1. PICK adm : adm = admission[a]
    OBVIOUS
  <1>2. CallerTurn(a)
    BY DEF TurnInv
  <1>3. /\ adm.type = "run.ended" /\ adm.pc \notin {"idle", "kick"} => adm.run \in Runs
        /\ adm.type = "run.ended" /\ adm.pc \in Replacing => Holds(lifecycle[adm.run], a)
    BY <1>1, <1>2 DEF CallerTurn, Replaces
  <1>4. new.type = "run.ended" => new.run \in Runs /\ Holds(lifecycle'[new.run], a)
    BY <1>1, <1>3
  <1>5. QED BY <1>4, CallerTakesTurn

LEMMA AdvanceTurn ==
    ASSUME TurnInv, ClimbInv, NEW a \in Admitters,
           \/ EnterLifecycle(a) \/ ReadSubject(a) \/ ReadStateEntry(a) \/ ReadExisting(a)
           \/ Upsert(a) \/ WriteSubject(a)
    PROVE  TurnInv'
  <1>1. PICK adm : adm = admission[a]
    OBVIOUS
  <1>2. IsAdmission(adm) /\ CallerClimbs(a) /\ CallerTurn(a)
    BY <1>1 DEF ClimbInv, ClimbShapes, TurnInv
  <1>3. UNCHANGED <<lane, claim>>
    BY DEF EnterLifecycle, ReadSubject, ReadStateEntry, ReadExisting, Upsert, WriteSubject,
           Elsewhere, laneVars
  <1>4. /\ adm.pc \in {"terminal", "stateEntry", "subject"} => adm.type = "run.ended"
        /\ adm.type = "run.ended" /\ adm.pc \in {"existing", "upsert", "subject"} =>
              \E v : adm.k = Ended(adm.run, v)
        /\ adm.type = "run.ended" /\ adm.pc \notin {"idle", "kick"} => adm.run \in Runs
    BY <1>1, <1>2 DEF CallerClimbs, CallerTurn, Replaces, Replacing
  <1>5. ASSUME EnterLifecycle(a) PROVE TurnInv'
    <2>1. PICK pc \in {"terminal", "update"} :
              /\ admission' = [admission EXCEPT ![a] = [adm EXCEPT !.pc = pc]]
              /\ adm.pc = "lifecycle" /\ UNCHANGED lifecycle
              /\ Holds(lifecycle[adm.run], a)
      BY <1>1, <1>5 DEF EnterLifecycle, Goes, Becomes, At
    <2>2. PICK new : new = [adm EXCEPT !.pc = pc]
      OBVIOUS
    <2>3. new.pc = pc /\ new.type = adm.type /\ new.run = adm.run
      BY <1>2, <2>2 DEF IsAdmission
    <2>4. admission' = [admission EXCEPT ![a] = new] /\ Holds(lifecycle'[new.run], a)
      BY <2>1, <2>2, <2>3
    <2>5. QED BY <1>3, <1>4, <2>1, <2>3, <2>4, CallerTakesTurn
  <1>6. ASSUME ReadSubject(a) PROVE TurnInv'
    <2>1. PICK new : new = [adm EXCEPT !.pc = "stateEntry", !.read = subject[adm.run]]
      OBVIOUS
    <2>2. new.pc = "stateEntry" /\ new.type = adm.type /\ new.run = adm.run
      BY <1>2, <2>1 DEF IsAdmission
    <2>3. /\ admission' = [admission EXCEPT ![a] = new] /\ adm.pc = "terminal"
          /\ UNCHANGED lifecycle
      BY <1>1, <1>6, <2>1 DEF ReadSubject, Becomes, At, lockVars
    <2>4. QED BY <1>1, <1>3, <2>2, <2>3, OnwardTurn DEF Replacing
  <1>7. ASSUME ReadStateEntry(a) PROVE TurnInv'
    <2>1. adm.pc = "stateEntry"
      BY <1>1, <1>7 DEF ReadStateEntry, At
    <2>2. CASE Finish(a, FALSE)
      BY <1>3, <2>2, FinishTurn
    <2>3. CASE ~Finish(a, FALSE)
      <3>1. PICK n, v : /\ admission' = [admission EXCEPT ![a] =
                              [adm EXCEPT !.pc = "existing", !.n = n, !.url = config.url,
                                          !.k = Ended(adm.run, v)]]
                        /\ UNCHANGED lifecycle
        BY <1>1, <1>7, <2>3 DEF ReadStateEntry, Becomes, lockVars
      <3>2. PICK new : new = [adm EXCEPT !.pc = "existing", !.n = n, !.url = config.url,
                                         !.k = Ended(adm.run, v)]
        OBVIOUS
      <3>3. /\ new.pc = "existing" /\ new.type = adm.type /\ new.run = adm.run
            /\ new.k = Ended(adm.run, v)
        BY <1>2, <3>2 DEF IsAdmission
      <3>4. admission' = [admission EXCEPT ![a] = new]
        BY <3>1, <3>2
      <3>5. new.type = "run.ended" /\ new.pc \in {"existing", "upsert", "subject"} =>
               \E w : new.k = Ended(new.run, w)
        BY <3>3
      <3>6. QED BY <1>1, <1>3, <2>1, <3>1, <3>3, <3>4, <3>5, OnwardTurn DEF Replacing
    <2>4. QED BY <2>2, <2>3
  <1>8. ASSUME ReadExisting(a) PROVE TurnInv'
    <2>1. adm.pc = "existing"
      BY <1>1, <1>8 DEF ReadExisting, At
    <2>2. CASE Finish(a, FALSE)
      BY <1>3, <2>2, FinishTurn
    <2>3. CASE ~Finish(a, FALSE)
      <3>1. PICK new : /\ admission' = [admission EXCEPT ![a] = new] /\ UNCHANGED lifecycle
                       /\ \/ new = [adm EXCEPT !.pc = "upsert", !.row = outbox[adm.k]]
                          \/ adm.type = "run.update" /\ new = [adm EXCEPT !.pc = "retire", !.k = NoKey]
        BY <1>1, <1>8, <2>3 DEF ReadExisting, Becomes, lockVars
      <3>2. CASE new = [adm EXCEPT !.pc = "upsert", !.row = outbox[adm.k]]
        <4>1. new.pc = "upsert" /\ new.type = adm.type /\ new.run = adm.run /\ new.k = adm.k
          BY <1>2, <3>2 DEF IsAdmission
        <4>2. new.type = "run.ended" => \E w : new.k = Ended(new.run, w)
          BY <1>4, <2>1, <4>1
        <4>3. QED BY <1>1, <1>3, <2>1, <3>1, <4>1, <4>2, OnwardTurn DEF Replacing
      <3>3. CASE adm.type = "run.update" /\ new = [adm EXCEPT !.pc = "retire", !.k = NoKey]
        <4>1. new.pc = "retire" /\ new.type = adm.type /\ new.run = adm.run
          BY <1>2, <3>3 DEF IsAdmission
        <4>2. QED BY <1>1, <1>3, <2>1, <3>1, <3>3, <4>1, OnwardTurn
      <3>4. QED BY <3>1, <3>2, <3>3
    <2>4. QED BY <2>2, <2>3
  <1>9. ASSUME Upsert(a) PROVE TurnInv'
    <2>1. PICK pc : /\ pc = IF adm.type = "run.ended" THEN "subject" ELSE "retire"
                    /\ admission' = [admission EXCEPT ![a] = [adm EXCEPT !.pc = pc]]
                    /\ adm.pc = "upsert" /\ UNCHANGED lifecycle
      BY <1>1, <1>9 DEF Upsert, Goes, Becomes, At, lockVars
    <2>2. PICK new : new = [adm EXCEPT !.pc = pc]
      OBVIOUS
    <2>3. new.pc = pc /\ new.type = adm.type /\ new.run = adm.run /\ new.k = adm.k
      BY <1>2, <2>2 DEF IsAdmission
    <2>4. admission' = [admission EXCEPT ![a] = new]
      BY <2>1, <2>2
    <2>5. new.pc = "subject" => new.type = "run.ended"
      BY <2>1, <2>3
    <2>6. new.type = "run.ended" => \E w : new.k = Ended(new.run, w)
      BY <1>4, <2>1, <2>3
    <2>7. QED BY <1>1, <1>3, <2>1, <2>3, <2>4, <2>5, <2>6, OnwardTurn DEF Replacing
  <1>10. ASSUME WriteSubject(a) PROVE TurnInv'
    BY <1>3, <1>10, FinishTurn DEF WriteSubject
  <1>11. QED BY <1>5, <1>6, <1>7, <1>8, <1>9, <1>10

(* The rest of an update's way.                                            *)
LEMMA UpdateTurn ==
    ASSUME TurnInv, ClimbInv, NEW a \in Admitters,
           BeginUpdate(a) \/ Reconcile(a) \/ Retire(a) \/ Retired(a)
    PROVE  TurnInv'
  <1>1. PICK adm : adm = admission[a]
    OBVIOUS
  <1>2. IsAdmission(adm) /\ CallerClimbs(a)
    BY <1>1 DEF ClimbInv, ClimbShapes
  <1>3. UNCHANGED <<lane, claim>>
    BY DEF BeginUpdate, Reconcile, Retire, Retired, Elsewhere, laneVars
  <1>4. adm.pc \in {"update", "reconcile", "retire"} /\ adm.type = "run.update"
    BY <1>1, <1>2 DEF BeginUpdate, Reconcile, Retire, Retired, At, CallerClimbs
  <1>5. ASSUME NEW queued \in BOOLEAN, Finish(a, queued) PROVE TurnInv'
    BY <1>3, <1>5, FinishTurn
  <1>6. ASSUME NEW new, admission' = [admission EXCEPT ![a] = new], UNCHANGED lifecycle,
               new.pc \in {"reconcile", "existing", "retire"}, new.type = "run.update"
        PROVE  TurnInv'
    BY <1>3, <1>6, CallerTakesTurn
  <1>7. ASSUME BeginUpdate(a) PROVE TurnInv'
    <2>1. CASE Finish(a, FALSE)
      BY <1>5, <2>1
    <2>2. CASE ~Finish(a, FALSE)
      <3>1. PICK new : /\ new = [adm EXCEPT !.pc = "reconcile", !.url = config.url]
                       /\ admission' = [admission EXCEPT ![a] = new] /\ UNCHANGED lifecycle
        BY <1>1, <1>7, <2>2 DEF BeginUpdate, Becomes, lockVars
      <3>2. new.pc = "reconcile" /\ new.type = adm.type
        BY <1>2, <3>1 DEF IsAdmission
      <3>3. QED BY <1>4, <1>6, <3>1, <3>2
    <2>3. QED BY <2>1, <2>2
  <1>8. ASSUME Reconcile(a) PROVE TurnInv'
    <2>1. PICK new : /\ admission' = [admission EXCEPT ![a] = new] /\ UNCHANGED lifecycle
                     /\ \/ new = [adm EXCEPT !.pc = "retire"]
                        \/ \E k : new = [adm EXCEPT !.pc = "existing", !.k = k]
      BY <1>1, <1>8 DEF Reconcile, Goes, Becomes, lockVars
    <2>2. new.pc \in {"existing", "retire"} /\ new.type = adm.type
      BY <1>2, <2>1 DEF IsAdmission
    <2>3. QED BY <1>4, <1>6, <2>1, <2>2
  <1>9. ASSUME Retire(a) PROVE TurnInv'
    <2>1. UNCHANGED <<admission, lifecycle>>
      BY <1>9 DEF Retire, lockVars
    <2>2. admission' = [admission EXCEPT ![a] = adm]
      BY <1>1, <2>1 DEF ClimbInv, ClimbShapes
    <2>3. QED BY <1>3, <1>4, <2>1, <2>2, CallerTakesTurn DEF Replacing
  <1>10. ASSUME Retired(a) PROVE TurnInv'
    <2>1. PICK queued \in BOOLEAN : Finish(a, queued)
      BY <1>10 DEF Retired
    <2>2. QED BY <1>5, <2>1
  <1>11. QED BY <1>7, <1>8, <1>9, <1>10

(* Lanes.                                                                  *)
LEMMA LaneAtRest ==
    ASSUME NEW l \in Lanes, lane'[l] \notin Sending PROVE LaneTurn(l)'
  BY DEF LaneTurn, Sends, Sending, Recording

LEMMA LaneTakesTurn ==
    ASSUME TurnInv, ClimbInv, NEW l \in Lanes, UNCHANGED admission,
           \/ lifecycle' = lifecycle
           \/ \E r : lifecycle' = Join(lifecycle, r, l)
           \/ lifecycle' = Leave(lifecycle, l),
           \A m \in Lanes : m # l =>
              lane'[m] = "fetch" \/ (lane'[m] = lane[m] /\ claim'[m] = claim[m]),
           LaneTurn(l)'
    PROVE  TurnInv'
  <1>1. \A a \in Admitters : a # l /\ admission'[a] = admission[a]
    BY LanesAreNoCallers
  <1>2. ASSUME NEW m \in Lanes
        PROVE  LaneTurn(m)' \/ (m # l /\ lane'[m] = lane[m] /\ claim'[m] = claim[m])
    <2>1. lane'[m] = "fetch" => LaneTurn(m)'
      BY LaneAtRest DEF Sending
    <2>2. QED BY <2>1
  <1>3. \A m \in Lanes : claim[m] # NoKey => claim[m].run \in Runs
    BY DEF ClimbInv, ClaimInv, LanesTyped, EventIds, EventId, Start, Update, Ended
  <1>4. \A m \in Lanes : claim[m] # NoKey <=> lane[m] \in Claimed
    BY DEF ClimbInv, ClaimInv, ClaimHeld
  <1>5. QED BY <1>1, <1>2, <1>3, <1>4, TurnFrame

LEMMA ClaimTurn ==
    ASSUME TurnInv, ClimbInv, NEW l \in Lanes, NEW p, DeliverClaimed(l, p), UNCHANGED admission
    PROVE  TurnInv'
  <1>1. lane \in [Lanes -> LaneStates] /\ claim \in [Lanes -> EventIds \cup {NoKey}]
    BY DEF ClimbInv, ClaimInv, LanesTyped
  <1>2. \A m \in Lanes : m # l => lane'[m] = lane[m] /\ claim'[m] = claim[m]
    BY <1>1 DEF DeliverClaimed, Moves
  <1>3. LaneTurn(l)'
    BY <1>1 DEF DeliverClaimed, Moves, LaneTurn, Sends, Sending, Recording
  <1>4. lifecycle' = lifecycle \/ \E r : lifecycle' = Join(lifecycle, r, l)
    BY DEF DeliverClaimed
  <1>5. QED BY <1>2, <1>3, <1>4, LaneTakesTurn

LEMMA MoveTurn ==
    ASSUME TurnInv, ClimbInv, NEW l \in Lanes, NEW pc, Moves(l, pc),
           UNCHANGED <<admission, claim, lifecycle>>,
           pc \in Recording => claim[l].type = "run.ended",
           pc \in Sending /\ claim[l].type = "run.ended" => Holds(lifecycle[claim[l].run], l)
    PROVE  TurnInv'
  <1>1. lane \in [Lanes -> LaneStates]
    BY DEF ClimbInv, ClaimInv, LanesTyped
  <1>2. lane'[l] = pc /\ \A m \in Lanes : m # l => lane'[m] = lane[m] /\ claim'[m] = claim[m]
    BY <1>1 DEF Moves
  <1>3. LaneTurn(l)'
    BY <1>2 DEF LaneTurn, Sends
  <1>4. QED BY <1>2, <1>3, LaneTakesTurn

LEMMA PassTurn ==
    ASSUME TurnInv, ClimbInv, NEW l \in Lanes,
           \/ Fetch(l) \/ TakeFirst(l) \/ TakeAll(l) \/ TakeNone(l) \/ TakeNext(l) \/ EndBatch(l)
    PROVE  TurnInv'
  <1>1. CASE TakeFirst(l)
    BY <1>1, ClaimTurn DEF TakeFirst, Here
  <1>2. CASE TakeNext(l)
    <2>1. UNCHANGED admission
      BY <1>2 DEF TakeNext, Here
    <2>2. CASE \E p : DeliverClaimed(l, p)
      BY <2>1, <2>2, ClaimTurn
    <2>3. CASE UNCHANGED <<lane, claim, entry, lifecycle>>
      <3>1. \A m \in Lanes : lane'[m] = lane[m] /\ claim'[m] = claim[m]
        BY <2>3
      <3>2. LaneTurn(l)'
        BY <2>3 DEF TurnInv, LaneTurn, Sends
      <3>3. QED BY <2>1, <2>3, <3>1, <3>2, LaneTakesTurn
    <2>4. QED BY <1>2, <2>2, <2>3 DEF TakeNext
  <1>3. CASE Fetch(l) \/ TakeAll(l) \/ TakeNone(l) \/ EndBatch(l)
    <2>1. PICK pc \in {"fetched", "next", "fetch", "idle"} : Moves(l, pc)
      BY <1>3 DEF Fetch, TakeAll, TakeNone, EndBatch, EndPass
    <2>2. UNCHANGED <<admission, claim, lifecycle>>
      BY <1>3 DEF Fetch, TakeAll, TakeNone, EndBatch, Here, lockVars
    <2>3. QED BY <2>1, <2>2, MoveTurn DEF Sending, Recording
  <1>4. QED BY <1>1, <1>2, <1>3

LEMMA DeliveryTurn ==
    ASSUME TurnInv, ClimbInv, NEW l \in Lanes,
           \/ Reread(l) \/ ReconcileAtBoundary(l) \/ RetireAtBoundary(l) \/ LeaveBoundary(l)
           \/ Gate(l) \/ Post(l) \/ Receive(l) \/ Answered(l) \/ Refused(l) \/ Rejected(l)
           \/ ReadRecord(l) \/ WriteRecord(l)
    PROVE  TurnInv'
  <1>1. UNCHANGED <<admission, claim, lifecycle>>
    BY DEF Reread, ReconcileAtBoundary, RetireAtBoundary, LeaveBoundary, Gate, Post, Receive,
           Answered, Refused, Rejected, ReadRecord, WriteRecord, Attempting, Here, lockVars, laneVars
  <1>2. LaneTurn(l) /\ LaneClimbs(l)
    BY DEF TurnInv, ClimbInv
  <1>3. ASSUME Reread(l) PROVE TurnInv'
    <2>1. CASE claim[l].type = "run.ended"
      BY <1>1, <1>3, <2>1, MoveTurn DEF Reread, Sending, Recording
    <2>2. CASE claim[l].type # "run.ended"
      BY <1>1, <1>3, <2>2, MoveTurn DEF Reread, Sending, Recording
    <2>3. QED BY <2>1, <2>2
  <1>4. ASSUME RetireAtBoundary(l) PROVE TurnInv'
    <2>1. UNCHANGED lane
      BY <1>4 DEF RetireAtBoundary, laneVars
    <2>2. LaneTurn(l)'
      BY <1>1, <1>2, <2>1 DEF LaneTurn, Sends
    <2>3. QED BY <1>1, <2>1, <2>2, LaneTakesTurn
  <1>5. ASSUME ReconcileAtBoundary(l) \/ LeaveBoundary(l) PROVE TurnInv'
    <2>1. PICK pc \in {"release", "retire", "replace", "gate"} : Moves(l, pc)
      BY <1>5 DEF ReconcileAtBoundary, LeaveBoundary
    <2>2. claim[l].type = "run.update"
      BY <1>2, <1>5 DEF ReconcileAtBoundary, LeaveBoundary, LaneAt, LaneClimbs
    <2>3. QED BY <1>1, <2>1, <2>2, MoveTurn DEF Recording
  <1>6. ASSUME Gate(l) \/ Post(l) \/ Receive(l) \/ Answered(l) \/ Refused(l) \/ Rejected(l)
                 \/ ReadRecord(l) \/ WriteRecord(l)
        PROVE  TurnInv'
    <2>1. lane[l] \in Sending
      BY <1>6 DEF Gate, Post, Receive, Answered, Refused, Rejected, ReadRecord, WriteRecord,
                  LaneAt, Sending
    <2>2. claim[l].type = "run.ended" => Holds(lifecycle[claim[l].run], l)
      BY <1>2, <2>1 DEF LaneTurn, Sends
    <2>3. PICK pc : Moves(l, pc) /\ (pc \in Recording => claim[l].type = "run.ended")
      <3>1. CASE Answered(l)
        BY <3>1 DEF Answered, Recording
      <3>2. CASE ReadRecord(l)
        BY <1>2, <3>2 DEF ReadRecord, LaneAt, Recording, LaneTurn
      <3>3. CASE Gate(l) \/ Post(l) \/ Receive(l) \/ Refused(l) \/ Rejected(l) \/ WriteRecord(l)
        <4>1. PICK pc \in {"release", "attempted", "post", "received"} : Moves(l, pc)
          BY <3>3 DEF Gate, Post, Receive, Refused, Rejected, WriteRecord, Give
        <4>2. QED BY <4>1 DEF Recording
      <3>4. QED BY <1>6, <3>1, <3>2, <3>3
    <2>4. QED BY <1>1, <2>2, <2>3, MoveTurn
  <1>7. QED BY <1>3, <1>4, <1>5, <1>6

LEMMA ReleaseTurn ==
    ASSUME TurnInv, ClimbInv, NEW l \in Lanes, Release(l)
    PROVE  TurnInv'
  <1>1. /\ lane \in [Lanes -> LaneStates] /\ claim \in [Lanes -> EventIds \cup {NoKey}]
        /\ claim' = [claim EXCEPT ![l] = NoKey]
        /\ lifecycle' = Leave(lifecycle, l) /\ UNCHANGED admission
    BY DEF ClimbInv, ClaimInv, LanesTyped, Release, LeaveAll, Here
  <1>2. /\ lane'[l] \in {"next", "fetch", "idle"}
        /\ \A m \in Lanes : m # l => lane'[m] \in {lane[m], "fetch"}
    BY <1>1 DEF Release, EndPass, Moves, Main, Anchor, Lanes
  <1>3. LaneTurn(l)'
    BY <1>2, LaneAtRest DEF Sending
  <1>4. QED BY <1>1, <1>2, <1>3, LaneTakesTurn

(* Idle lanes start.                                                       *)
LEMMA WakeTurn ==
    ASSUME TurnInv, ClimbInv, UNCHANGED <<claim, lifecycle>>,
           \/ UNCHANGED admission
           \/ \E a \in Admitters : admission' = [admission EXCEPT ![a] = AtRest],
           \A l \in Lanes : lane'[l] = lane[l] \/ lane'[l] \in {"idle", "fetch"}
    PROVE  TurnInv'
  <1>1. ASSUME NEW a \in Admitters PROVE CallerTurn(a)'
    <2>1. CallerTurn(a)
      BY DEF TurnInv
    <2>2. CASE admission'[a] = admission[a]
      BY <2>1, <2>2 DEF CallerTurn, Replaces
    <2>3. CASE admission'[a] = AtRest
      BY <2>3 DEF CallerTurn, Replaces, Replacing, AtRest
    <2>4. QED BY <2>2, <2>3 DEF ClimbInv, ClimbShapes
  <1>2. ASSUME NEW l \in Lanes PROVE LaneTurn(l)'
    <2>1. CASE lane'[l] = lane[l]
      BY <2>1 DEF TurnInv, LaneTurn, Sends
    <2>2. CASE lane'[l] \in {"idle", "fetch"}
      BY <2>2, LaneAtRest DEF Sending
    <2>3. QED BY <2>1, <2>2
  <1>3. QED BY <1>1, <1>2 DEF TurnInv

LEMMA CrashTurn ==
    ASSUME Crash PROVE TurnInv'
  <1>1. lifecycle' \in [Runs -> Seq(Lanes \cup Admitters)]
    <2>1. <<>> \in Seq(Lanes \cup Admitters)
      OBVIOUS
    <2>2. lifecycle' = [r \in Runs |-> <<>>]
      BY DEF Crash
    <2>3. QED BY <2>1, <2>2
  <1>2. \A a \in Admitters : CallerTurn(a)'
    BY DEF Crash, AtRest, CallerTurn, Replaces, Replacing
  <1>3. \A l \in Lanes : LaneTurn(l)'
    BY LaneAtRest DEF Crash, Sending
  <1>4. QED BY <1>1, <1>2, <1>3 DEF TurnInv

LEMMA TurnInit == Init => TurnInv
  <1> SUFFICES ASSUME Init PROVE TurnInv
    OBVIOUS
  <1>1. lifecycle \in [Runs -> Seq(Lanes \cup Admitters)]
    <2>1. <<>> \in Seq(Lanes \cup Admitters)
      OBVIOUS
    <2>2. lifecycle = [r \in Runs |-> <<>>]
      BY DEF Init
    <2>3. QED BY <2>1, <2>2
  <1>2. \A a \in Admitters : CallerTurn(a)
    BY DEF Init, AtRest, CallerTurn, Replaces, Replacing
  <1>3. \A l \in Lanes : LaneTurn(l)
    BY DEF Init, LaneTurn, Sends, Sending, Recording
  <1>4. QED BY <1>1, <1>2, <1>3 DEF TurnInv

(* Steps of timers, of the clock, of the operator and of a caller that     *)
(* wakes the loop change nothing but which idle lanes start.               *)
LEMMA QuietSteps ==
    ASSUME ClimbInv,
           \/ \E a \in Admitters : Kick(a)
           \/ TimerFires \/ Clock \/ StartDispatch \/ (Operator /\ ~Crash) \/ UNCHANGED vars
    PROVE  /\ UNCHANGED <<claim, entry, seen, lifecycle, received, subject>>
           /\ \/ UNCHANGED admission
              \/ \E a \in Admitters :
                    admission[a].pc = "kick" /\ admission' = [admission EXCEPT ![a] = AtRest]
           /\ \A l \in Lanes : lane'[l] = lane[l] \/ (lane[l] = "idle" /\ lane'[l] = "fetch")
           /\ UNCHANGED outbox \/ \E k \in EventIds : outbox' = [outbox EXCEPT ![k].waits = FALSE]
  <1>1. CASE \E a \in Admitters : Kick(a)
    BY <1>1 DEF Kick, At, ProcessDueEntries, Begun, Becomes, durable, lockVars
  <1>2. CASE TimerFires \/ RetryNow
    BY <1>2 DEF TimerFires, RetryNow, ProcessDueEntries, Begun, durable, Rest, lockVars
  <1>3. CASE Clock
    BY <1>3 DEF Clock, GraceOver, WaitOver, Rest, laneVars, lockVars
  <1>4. CASE StartDispatch
    BY <1>4 DEF StartDispatch, durable, Rest, lockVars, ClimbInv, ClaimInv, LanesTyped
  <1>5. CASE ConfigureUrl \/ SetRunEndedEnabled \/ StopDispatch
    BY <1>5 DEF ConfigureUrl, SetRunEndedEnabled, StopDispatch, durable, Rest, laneVars, lockVars
  <1>6. CASE UNCHANGED vars
    BY <1>6 DEF vars, durable, laneVars, lockVars
  <1>7. QED BY <1>1, <1>2, <1>3, <1>4, <1>5, <1>6 DEF Operator

LEMMA TurnNext == TurnInv /\ ClimbInv /\ [Next]_vars /\ [Orderly]_vars => TurnInv'
  <1> SUFFICES ASSUME TurnInv, ClimbInv, [Next]_vars, [Orderly]_vars PROVE TurnInv'
    OBVIOUS
  <1>1. ASSUME \/ \E a \in Admitters : Kick(a)
               \/ TimerFires \/ Clock \/ StartDispatch \/ (Operator /\ ~Crash) \/ UNCHANGED vars
        PROVE  TurnInv'
    BY <1>1, QuietSteps, WakeTurn
  <1>2. CASE UNCHANGED vars
    BY <1>1, <1>2
  <1>3. ASSUME ~UNCHANGED vars PROVE TurnInv'
    <2>1. Next /\ Orderly
      BY <1>3
    <2>2. ASSUME NEW a \in Admitters, Admit(a) \/ Advance(a) PROVE TurnInv'
      BY <1>1, <2>1, <2>2, AdmitTurn, AdvanceTurn, UpdateTurn DEF Advance
    <2>3. ASSUME NEW l \in Lanes, Deliver(l) \/ Receive(l) \/ Refused(l) \/ Rejected(l)
          PROVE TurnInv'
      BY <2>3, PassTurn, DeliveryTurn, ReleaseTurn DEF Deliver
    <2>4. CASE Crash
      BY <2>4, CrashTurn
    <2>5. CASE TimerFires \/ Clock \/ StartDispatch \/ (Operator /\ ~Crash)
      BY <1>1, <2>5
    <2>6. QED BY <2>1, <2>2, <2>3, <2>4, <2>5 DEF Next
  <1>4. QED BY <1>2, <1>3

(* A terminal is replaced and delivered under the lifecycle lock of its    *)
(* run, whatever fails or crashes (queueRunEndedEventAdmission, deliver).  *)
THEOREM TurnsAreTaken == Spec /\ [][Orderly]_vars => []TurnInv
  <1>1. TurnInv /\ ClimbInv /\ [Next]_vars /\ [Orderly]_vars => TurnInv'
    BY TurnNext
  <1>2. QED BY <1>1, TurnInit, ClimbHolds, PTL DEF Spec

-----------------------------------------------------------------------------
(* The ledger.  The versions of a run are the first t; all but the last    *)
(* are delivered, each says more than the one before, and the subject      *)
(* points at the last, or will once the caller at work has written it.     *)
Versions == 1..MaxVersion

Row(r, v) == outbox[Ended(r, v)]

Files(a, r) == admission[a].pc = "subject" /\ admission[a].run = r

Records(r) == \E l \in Lanes : lane[l] \in Recording /\ claim[l].run = r

TermRow(row) ==
    /\ IsRow(row) /\ row.state \in DeliveryStates /\ row.deliveredAt \in BOOLEAN
    /\ row.deliveredAt <=> row.state = "delivered"

StandsAt(r, t) ==
    /\ \A v \in Versions : TermRow(Row(r, v)) /\ (Queued(Row(r, v)) <=> v <= t)
    /\ \A v \in 1..t : Row(r, v).meaning \in v..MaxMeaning
    /\ \A v, w \in 1..t : v < w => Row(r, v).deliveredAt /\ Row(r, v).meaning < Row(r, w).meaning
    /\ subject[r].version \in 0..t
    /\ \A a \in Admitters : Files(a, r) =>
          /\ t > 0 /\ admission[a].k = Ended(r, t)
          /\ admission[a].n = Row(r, t).meaning /\ ~Row(r, t).deliveredAt
    /\ (\A a \in Admitters : ~Files(a, r)) =>
          /\ subject[r].version = t
          /\ subject[r].meaning = IF t = 0 THEN 0 ELSE Row(r, t).meaning

Stands(r) == \E t \in 0..MaxVersion : StandsAt(r, t)

(* A delivered version is told of in the subject, or about to be.          *)
Told(r) == (\E v \in Versions : Row(r, v).deliveredAt) /\ ~Records(r) => subject[r].deliveredAt

(* The version that the next correction of a run goes into.                *)
NextFor(r) ==
    IF subject[r].version > 0 /\ ~Row(r, subject[r].version).deliveredAt
    THEN subject[r].version ELSE subject[r].version + 1

(* What callers and lanes at work on a terminal have read is still so.     *)
CallerReads(a) ==
    LET adm == admission[a] IN
    /\ adm.type = "run.ended" /\ adm.pc \notin {"idle", "kick"} => adm.n \in 1..MaxMeaning
    /\ adm.type = "run.ended" /\ adm.pc \in {"stateEntry", "existing", "upsert", "subject"} =>
          adm.read = subject[adm.run]
    /\ adm.type = "run.ended" /\ adm.pc \in {"existing", "upsert"} =>
          /\ adm.n > subject[adm.run].meaning
          /\ NextFor(adm.run) \in Versions
          /\ adm.k = Ended(adm.run, NextFor(adm.run))
    /\ adm.type = "run.ended" /\ adm.pc = "upsert" => adm.row.deliveredAt = FALSE

LaneReads(l) ==
    LET k == claim[l] IN
    Sends(l) =>
        /\ k.n = subject[k.run].version
        /\ entry[l].meaning = subject[k.run].meaning
        /\ lane[l] \in Recording <=> outbox[k].deliveredAt
        /\ lane[l] \notin Recording =>
              /\ IsRow(entry[l]) /\ entry[l].state \in DueStates /\ entry[l].deliveredAt = FALSE
        /\ lane[l] = "write" => seen[l] = subject[k.run]

LedgerInv ==
    /\ subject = [r \in Runs |-> subject[r]]
    /\ seen = [l \in Lanes |-> seen[l]]
    /\ \A r \in Runs : Stands(r) /\ Told(r)
    /\ \A a \in Admitters : CallerReads(a)
    /\ \A l \in Lanes : LaneReads(l)

-----------------------------------------------------------------------------
LEMMA EndedIds ==
    /\ MaxVersion \in Nat /\ MaxMeaning \in Nat
    /\ \A r \in Runs, v \in Versions : Ended(r, v) \in EventIds
    /\ \A r, v : Ended(r, v).type = "run.ended" /\ Ended(r, v).run = r /\ Ended(r, v).n = v
    /\ \A k \in EventIds : k.type = "run.ended" =>
          k.run \in Runs /\ k.n \in Versions /\ k = Ended(k.run, k.n)
    /\ \A k \in EventIds : k.run \in Runs
  <1>1. /\ MaxVersion \in Nat /\ MaxMeaning \in Nat
        /\ \A r \in Runs, v \in Versions : Ended(r, v) \in EventIds
        /\ \A r, v : Ended(r, v).type = "run.ended" /\ Ended(r, v).run = r /\ Ended(r, v).n = v
    BY OutboxAssumption DEF EventIds, Ended, EventId, Versions
  <1>2. ASSUME NEW k \in EventIds
        PROVE  /\ k.run \in Runs
               /\ k.type = "run.ended" => k.n \in Versions /\ k = Ended(k.run, k.n)
    <2>1. CASE \E r \in Runs : k = Start(r)
      BY <2>1 DEF Start, EventId
    <2>2. CASE \E r \in Runs, n \in 1..MaxLevel : k = Update(r, n)
      BY <2>2 DEF Update, EventId
    <2>3. CASE \E r \in Runs, v \in Versions : k = Ended(r, v)
      BY <2>3 DEF Ended, EventId
    <2>4. QED BY <2>1, <2>2, <2>3 DEF EventIds, Versions
  <1>3. QED BY <1>1, <1>2

(* Whoever holds the lifecycle lock of a run is alone with its terminals.  *)
LEMMA Alone ==
    ASSUME TurnInv, NEW r, NEW x, Holds(lifecycle[r], x)
    PROVE  /\ \A a \in Admitters : a # x /\ Replaces(a) => admission[a].run # r
           /\ \A a \in Admitters : a # x => ~Files(a, r)
           /\ \A l \in Lanes : l # x /\ Sends(l) => claim[l].run # r
           /\ x \notin Lanes => ~Records(r)
  <1>1. \A a \in Admitters : Replaces(a) => Holds(lifecycle[admission[a].run], a)
    BY DEF TurnInv, CallerTurn
  <1>2. \A a \in Admitters : admission[a].pc = "subject" => Replaces(a)
    BY DEF TurnInv, CallerTurn, Replaces, Replacing
  <1>3. \A l \in Lanes : Sends(l) => Holds(lifecycle[claim[l].run], l)
    BY DEF TurnInv, LaneTurn
  <1>4. \A l \in Lanes : lane[l] \in Recording => Sends(l)
    BY DEF TurnInv, LaneTurn, Sends, Sending, Recording
  <1>5. \A a \in Admitters : a # x /\ Replaces(a) => admission[a].run # r
    BY <1>1 DEF Holds
  <1>6. \A l \in Lanes : l # x /\ Sends(l) => claim[l].run # r
    BY <1>3 DEF Holds
  <1>7. QED BY <1>2, <1>4, <1>5, <1>6 DEF Files, Records

(* In particular no other lane is at work on them.                          *)
LEMMA OneSender ==
    ASSUME TurnInv, NEW r, NEW x, Holds(lifecycle[r], x)
    PROVE  \A l \in Lanes : l # x /\ Sends(l) => claim[l].run # r
  BY Alone

(* Rows whose meaning and delivery are as they were.                       *)
SameVersions(r) ==
    /\ subject'[r] = subject[r]
    /\ \A v \in Versions :
          /\ TermRow(Row(r, v))' /\ (Queued(Row(r, v))' <=> Queued(Row(r, v)))
          /\ outbox'[Ended(r, v)].meaning = outbox[Ended(r, v)].meaning
          /\ outbox'[Ended(r, v)].deliveredAt = outbox[Ended(r, v)].deliveredAt

LEMMA StandsKept ==
    ASSUME NEW r \in Runs, Stands(r), Told(r), SameVersions(r),
           \A a \in Admitters : Files(a, r)' <=> Files(a, r),
           \A a \in Admitters : Files(a, r) =>
              admission'[a].k = admission[a].k /\ admission'[a].n = admission[a].n,
           Records(r) => Records(r)'
    PROVE  Stands(r)' /\ Told(r)'
  <1>1. PICK t \in 0..MaxVersion : StandsAt(r, t)
    BY DEF Stands
  <1>2. \A v \in 1..t : v \in Versions
    BY EndedIds DEF Versions
  <1>3. /\ \A v \in Versions : TermRow(Row(r, v))' /\ (Queued(Row(r, v))' <=> v <= t)
        /\ \A v \in 1..t : Row(r, v)'.meaning \in v..MaxMeaning
        /\ \A v, w \in 1..t : v < w => Row(r, v)'.deliveredAt /\ Row(r, v)'.meaning < Row(r, w)'.meaning
    BY <1>1, <1>2 DEF StandsAt, SameVersions, Row
  <1>4. subject'[r].version \in 0..t
    BY <1>1 DEF StandsAt, SameVersions
  <1>5. ASSUME NEW a \in Admitters, Files(a, r)'
        PROVE  /\ t > 0 /\ admission'[a].k = Ended(r, t)
               /\ admission'[a].n = Row(r, t)'.meaning /\ ~Row(r, t)'.deliveredAt
    <2>1. /\ t > 0 /\ admission[a].k = Ended(r, t)
          /\ admission[a].n = Row(r, t).meaning /\ ~Row(r, t).deliveredAt
      BY <1>1, <1>5 DEF StandsAt
    <2>2. t \in Versions
      BY <2>1, EndedIds DEF Versions
    <2>3. QED BY <1>5, <2>1, <2>2 DEF SameVersions, Row
  <1>6. ASSUME \A a \in Admitters : ~Files(a, r)'
        PROVE  /\ subject'[r].version = t
               /\ subject'[r].meaning = IF t = 0 THEN 0 ELSE Row(r, t)'.meaning
    <2>1. /\ subject[r].version = t
          /\ subject[r].meaning = IF t = 0 THEN 0 ELSE Row(r, t).meaning
      BY <1>1, <1>6 DEF StandsAt
    <2>2. t # 0 => t \in Versions
      BY EndedIds DEF Versions
    <2>3. QED BY <2>1, <2>2 DEF SameVersions, Row
  <1>7. StandsAt(r, t)'
    BY <1>3, <1>4, <1>5, <1>6 DEF StandsAt
  <1>8. Told(r)'
    BY DEF Told, SameVersions, Row
  <1>9. QED BY <1>7, <1>8 DEF Stands

LEMMA NextKept ==
    ASSUME NEW r \in Runs, Stands(r), SameVersions(r)
    PROVE  NextFor(r)' = NextFor(r)
  <1>1. PICK t \in 0..MaxVersion : StandsAt(r, t)
    BY DEF Stands
  <1>2. subject[r].version > 0 => subject[r].version \in Versions
    BY <1>1, EndedIds DEF StandsAt, Versions
  <1>3. QED BY <1>2 DEF NextFor, SameVersions, Row

LEMMA CallerReadsKept ==
    ASSUME NEW a \in Admitters, CallerReads(a), admission'[a] = admission[a],
           Replaces(a) => /\ admission[a].run \in Runs
                          /\ Stands(admission[a].run) /\ SameVersions(admission[a].run)
    PROVE  CallerReads(a)'
  <1>1. PICK adm : adm = admission[a] /\ admission'[a] = adm
    OBVIOUS
  <1>2. ASSUME adm.type = "run.ended", adm.pc \in {"stateEntry", "existing", "upsert", "subject"}
        PROVE  /\ subject'[adm.run] = subject[adm.run]
               /\ NextFor(adm.run)' = NextFor(adm.run)
    BY <1>1, <1>2, NextKept DEF Replaces, Replacing, SameVersions
  <1>3. /\ adm.type = "run.ended" /\ adm.pc \notin {"idle", "kick"} => adm.n \in 1..MaxMeaning
        /\ adm.type = "run.ended" /\ adm.pc \in {"stateEntry", "existing", "upsert", "subject"} =>
              adm.read = subject[adm.run]
        /\ adm.type = "run.ended" /\ adm.pc \in {"existing", "upsert"} =>
              /\ adm.n > subject[adm.run].meaning
              /\ NextFor(adm.run) \in Versions
              /\ adm.k = Ended(adm.run, NextFor(adm.run))
        /\ adm.type = "run.ended" /\ adm.pc = "upsert" => adm.row.deliveredAt = FALSE
    BY <1>1 DEF CallerReads
  <1>4. CallerReads(a)' <=>
        /\ adm.type = "run.ended" /\ adm.pc \notin {"idle", "kick"} => adm.n \in 1..MaxMeaning
        /\ adm.type = "run.ended" /\ adm.pc \in {"stateEntry", "existing", "upsert", "subject"} =>
              adm.read = subject'[adm.run]
        /\ adm.type = "run.ended" /\ adm.pc \in {"existing", "upsert"} =>
              /\ adm.n > subject'[adm.run].meaning
              /\ NextFor(adm.run)' \in Versions
              /\ adm.k = Ended(adm.run, NextFor(adm.run)')
        /\ adm.type = "run.ended" /\ adm.pc = "upsert" => adm.row.deliveredAt = FALSE
    BY <1>1 DEF CallerReads, NextFor, Row
  <1>5. QED BY <1>2, <1>3, <1>4

LEMMA LaneReadsKept ==
    ASSUME NEW l \in Lanes, LaneReads(l), ClaimInv,
           lane'[l] = lane[l], claim'[l] = claim[l], entry'[l] = entry[l], seen'[l] = seen[l],
           Sends(l) => SameVersions(claim[l].run)
    PROVE  LaneReads(l)'
  <1>1. CASE ~Sends(l)
    BY <1>1 DEF LaneReads, Sends
  <1>2. CASE Sends(l)
    <2>1. claim[l] \in EventIds
      BY <1>2 DEF ClaimInv, LanesTyped, ClaimHeld, Sends, Sending, Claimed
    <2>2. PICK r \in Runs, v \in Versions : claim[l] = Ended(r, v)
      BY <1>2, <2>1, EndedIds DEF Sends
    <2>3. claim[l].run = r
      BY <2>2, EndedIds
    <2>4. /\ subject'[r] = subject[r]
          /\ outbox'[claim[l]].deliveredAt = outbox[claim[l]].deliveredAt
      BY <1>2, <2>2, <2>3 DEF SameVersions
    <2>5. QED BY <1>2, <2>3, <2>4 DEF LaneReads, IsRow
  <1>3. QED BY <1>1, <1>2

(* A step that changes nothing of a terminal.                              *)
LEMMA LedgerIdle ==
    ASSUME LedgerInv, TurnInv, ClimbInv,
           \A r \in Runs : SameVersions(r), UNCHANGED <<subject, seen>>,
           \A a \in Admitters :
              \/ admission'[a] = admission[a]
              \/ CallerReads(a)' /\ admission[a].pc # "subject" /\ admission'[a].pc # "subject",
           \A l \in Lanes :
              \/ lane'[l] = lane[l] /\ claim'[l] = claim[l] /\ entry'[l] = entry[l]
              \/ LaneReads(l)' /\ lane[l] \notin Recording
    PROVE  LedgerInv'
  <1>1. ASSUME NEW r \in Runs PROVE Stands(r)' /\ Told(r)'
    <2>1. \A a \in Admitters : Files(a, r)' <=> Files(a, r)
      BY DEF Files
    <2>2. \A a \in Admitters : Files(a, r) =>
              admission'[a].k = admission[a].k /\ admission'[a].n = admission[a].n
      BY DEF Files
    <2>3. Records(r) => Records(r)'
      BY DEF Records
    <2>4. Stands(r) /\ Told(r) /\ SameVersions(r)
      BY DEF LedgerInv
    <2>5. QED BY <2>1, <2>2, <2>3, <2>4, StandsKept
  <1>2. ASSUME NEW a \in Admitters, admission'[a] = admission[a] PROVE CallerReads(a)'
    <2>1. Replaces(a) => admission[a].run \in Runs
      BY DEF TurnInv, CallerTurn, Replaces, Replacing
    <2>2. QED BY <1>2, <2>1, CallerReadsKept DEF LedgerInv
  <1>3. ASSUME NEW l \in Lanes,
               lane'[l] = lane[l], claim'[l] = claim[l], entry'[l] = entry[l]
        PROVE  LaneReads(l)'
    <2>1. claim[l] # NoKey => claim[l].run \in Runs
      BY EndedIds DEF ClimbInv, ClaimInv, LanesTyped
    <2>2. Sends(l) => claim[l] # NoKey
      BY DEF ClimbInv, ClaimInv, ClaimHeld, Sends, Sending, Claimed
    <2>3. LaneReads(l) /\ ClaimInv /\ seen'[l] = seen[l]
      BY DEF LedgerInv, ClimbInv
    <2>4. QED BY <1>3, <2>1, <2>2, <2>3, LaneReadsKept
  <1>4. subject' = [r \in Runs |-> subject'[r]] /\ seen' = [l \in Lanes |-> seen'[l]]
    BY DEF LedgerInv
  <1>5. QED BY <1>1, <1>2, <1>3, <1>4 DEF LedgerInv

(* A step of the caller at work on the terminals of a run.                 *)
LEMMA CallerActs ==
    ASSUME LedgerInv, TurnInv, ClimbInv, NEW a \in Admitters, Replaces(a),
           NEW r \in Runs, r = admission[a].run,
           NEW adm, admission' = [admission EXCEPT ![a] = adm],
           UNCHANGED <<lane, claim, entry, seen>>,
           subject' = [s \in Runs |-> subject'[s]],
           \A s \in Runs : s # r => SameVersions(s),
           adm.pc = "subject" => adm.run = r,
           Stands(r)', Told(r)', CallerReads(a)'
    PROVE  LedgerInv'
  <1>1. Holds(lifecycle[r], a)
    BY DEF TurnInv, CallerTurn
  <1>2. admission'[a] = adm /\ \A b \in Admitters : b # a => admission'[b] = admission[b]
    BY DEF ClimbInv, ClimbShapes
  <1>3. ASSUME NEW s \in Runs, s # r PROVE Stands(s)' /\ Told(s)'
    <2>1. ~Files(a, s) /\ ~Files(a, s)'
      BY <1>2, <1>3 DEF Files
    <2>2. \A b \in Admitters : Files(b, s)' <=> Files(b, s)
      BY <1>2, <2>1 DEF Files
    <2>3. \A b \in Admitters : Files(b, s) =>
              admission'[b].k = admission[b].k /\ admission'[b].n = admission[b].n
      BY <1>2, <2>1
    <2>4. Records(s) => Records(s)'
      BY DEF Records
    <2>5. Stands(s) /\ Told(s) /\ SameVersions(s)
      BY <1>3 DEF LedgerInv
    <2>6. QED BY <2>2, <2>3, <2>4, <2>5, StandsKept
  <1>4. ASSUME NEW b \in Admitters PROVE CallerReads(b)'
    <2>1. CASE b = a
      BY <2>1
    <2>2. CASE b # a
      <3>1. Replaces(b) => admission[b].run \in Runs
        BY DEF TurnInv, CallerTurn, Replaces, Replacing
      <3>2. Replaces(b) => admission[b].run # r
        BY <1>1, <2>2, Alone
      <3>3. QED BY <1>2, <2>2, <3>1, <3>2, CallerReadsKept DEF LedgerInv
    <2>3. QED BY <2>1, <2>2
  <1>5. ASSUME NEW l \in Lanes PROVE LaneReads(l)'
    <2>1. l # a
      BY LanesAreNoCallers
    <2>2. Sends(l) => claim[l].run # r
      BY <1>1, <2>1, Alone
    <2>3. Sends(l) => claim[l].run \in Runs
      BY EndedIds DEF ClimbInv, ClaimInv, LanesTyped, ClaimHeld, Sends, Sending, Claimed
    <2>4. LaneReads(l) /\ ClaimInv
      BY DEF LedgerInv, ClimbInv
    <2>5. lane'[l] = lane[l] /\ claim'[l] = claim[l] /\ entry'[l] = entry[l] /\ seen'[l] = seen[l]
      OBVIOUS
    <2>6. QED BY <2>2, <2>3, <2>4, <2>5, LaneReadsKept
  <1>6. seen' = [l \in Lanes |-> seen'[l]]
    BY DEF LedgerInv
  <1>7. ASSUME NEW s \in Runs PROVE Stands(s)' /\ Told(s)'
    BY <1>3
  <1>8. QED BY <1>4, <1>5, <1>6, <1>7 DEF LedgerInv

(* A step of the lane at work on the terminals of a run.                   *)
LEMMA LaneActs ==
    ASSUME LedgerInv, TurnInv, ClimbInv, NEW l \in Lanes,
           claim[l].type = "run.ended", Holds(lifecycle[claim[l].run], l), claim[l] # NoKey,
           UNCHANGED <<admission, claim>>,
           \A m \in Lanes : m # l =>
              lane'[m] = lane[m] /\ entry'[m] = entry[m] /\ seen'[m] = seen[m],
           subject' = [s \in Runs |-> subject'[s]], seen' = [m \in Lanes |-> seen'[m]],
           \A s \in Runs : s # claim[l].run => SameVersions(s),
           Stands(claim[l].run)', Told(claim[l].run)', LaneReads(l)'
    PROVE  LedgerInv'
  <1>1. PICK r : r = claim[l].run /\ claim'[l].run = r
    OBVIOUS
  <1>2. r \in Runs /\ Holds(lifecycle[r], l)
    BY <1>1, EndedIds DEF ClimbInv, ClaimInv, LanesTyped
  <1>3. ASSUME NEW s \in Runs, s # r PROVE Stands(s)' /\ Told(s)'
    <2>1. \A b \in Admitters : Files(b, s)' <=> Files(b, s)
      BY DEF Files
    <2>2. \A b \in Admitters : Files(b, s) =>
              admission'[b].k = admission[b].k /\ admission'[b].n = admission[b].n
      OBVIOUS
    <2>3. Records(s) => Records(s)'
      BY <1>1, <1>3 DEF Records
    <2>4. Stands(s) /\ Told(s) /\ SameVersions(s)
      BY <1>1, <1>3 DEF LedgerInv
    <2>5. QED BY <2>1, <2>2, <2>3, <2>4, StandsKept
  <1>4. ASSUME NEW b \in Admitters PROVE CallerReads(b)'
    <2>1. b # l
      BY LanesAreNoCallers
    <2>2. Replaces(b) => admission[b].run \in Runs
      BY DEF TurnInv, CallerTurn, Replaces, Replacing
    <2>3. Replaces(b) => admission[b].run # r
      BY <1>2, <2>1, Alone
    <2>4. CallerReads(b) /\ admission'[b] = admission[b]
      BY DEF LedgerInv
    <2>5. QED BY <1>1, <2>2, <2>3, <2>4, CallerReadsKept DEF LedgerInv
  <1>9. \A m \in Lanes : m # l /\ Sends(m) => claim[m].run # r
    BY <1>2, OneSender
  <1>5. ASSUME NEW m \in Lanes PROVE LaneReads(m)'
    <2>1. CASE m = l
      BY <2>1
    <2>2. CASE m # l
      <3>1. Sends(m) => claim[m].run # r
        BY <1>9, <2>2
      <3>2. Sends(m) => claim[m].run \in Runs
        BY EndedIds DEF ClimbInv, ClaimInv, LanesTyped, ClaimHeld, Sends, Sending, Claimed
      <3>3. LaneReads(m) /\ ClaimInv
        BY DEF LedgerInv, ClimbInv
      <3>4. lane'[m] = lane[m] /\ claim'[m] = claim[m] /\ entry'[m] = entry[m] /\ seen'[m] = seen[m]
        BY <2>2
      <3>5. QED BY <1>1, <3>1, <3>2, <3>3, <3>4, LaneReadsKept
    <2>3. QED BY <2>1, <2>2
  <1>6. ASSUME NEW s \in Runs PROVE Stands(s)' /\ Told(s)'
    <2>1. CASE s = r
      BY <1>1, <2>1, SMTT(30) DEF Stands, StandsAt, Told, Records, Files, Row
    <2>2. CASE s # r
      BY <1>3, <2>2
    <2>3. QED BY <2>1, <2>2
  <1>7. QED BY <1>4, <1>5, <1>6 DEF LedgerInv

-----------------------------------------------------------------------------
(* Which rows a step leaves as they were.                                  *)
LEMMA RowsKept ==
    ASSUME LedgerInv, ClimbInv,
           UNCHANGED subject,
           \/ outbox' = outbox
           \/ \E k, row : k.type # "run.ended" /\ outbox' = [outbox EXCEPT ![k] = row]
           \/ \E k \in EventIds : outbox' = [outbox EXCEPT ![k].waits = FALSE]
    PROVE  \A r \in Runs : SameVersions(r)
  <1> SUFFICES ASSUME NEW r \in Runs, NEW v \in Versions
               PROVE  /\ TermRow(Row(r, v))' /\ (Queued(Row(r, v))' <=> Queued(Row(r, v)))
                      /\ outbox'[Ended(r, v)].meaning = outbox[Ended(r, v)].meaning
                      /\ outbox'[Ended(r, v)].deliveredAt = outbox[Ended(r, v)].deliveredAt
    BY DEF SameVersions
  <1>1. PICK row : row = outbox[Ended(r, v)]
    OBVIOUS
  <1>2. TermRow(row)
    BY <1>1 DEF LedgerInv, Stands, StandsAt, Row
  <1>3. Ended(r, v) \in EventIds /\ Ended(r, v).type = "run.ended"
    BY EndedIds
  <1>4. outbox'[Ended(r, v)] \in {row, [row EXCEPT !.waits = FALSE]}
    <2>1. outbox = [j \in EventIds |-> outbox[j]]
      BY DEF ClimbInv, ClimbShapes
    <2>2. CASE outbox' = outbox
      BY <1>1, <2>2
    <2>3. CASE \E k, new : k.type # "run.ended" /\ outbox' = [outbox EXCEPT ![k] = new]
      BY <1>1, <1>3, <2>1, <2>3
    <2>4. CASE \E k \in EventIds : outbox' = [outbox EXCEPT ![k].waits = FALSE]
      BY <1>1, <1>3, <2>1, <2>4
    <2>5. QED BY <2>2, <2>3, <2>4
  <1>5. PICK new : new = outbox'[Ended(r, v)] /\ new \in {row, [row EXCEPT !.waits = FALSE]}
    BY <1>4
  <1>6. /\ TermRow(new) /\ new.state = row.state /\ new.meaning = row.meaning
        /\ new.deliveredAt = row.deliveredAt
    <2>1. CASE new = row
      BY <1>2, <2>1
    <2>2. CASE new = [row EXCEPT !.waits = FALSE]
      BY <1>2, <2>2 DEF TermRow, IsRow
    <2>3. QED BY <1>5, <2>1, <2>2
  <1>7. QED BY <1>1, <1>5, <1>6 DEF TermRow, IsRow, Queued, Row

-----------------------------------------------------------------------------
(* Callers.                                                                *)
LEMMA CallerIdles ==
    ASSUME LedgerInv, TurnInv, ClimbInv, NEW a \in Admitters, NEW adm,
           admission' = [admission EXCEPT ![a] = adm], UNCHANGED <<subject, seen, lane, claim, entry>>,
           \/ outbox' = outbox
           \/ \E k, row : k.type # "run.ended" /\ outbox' = [outbox EXCEPT ![k] = row],
           admission[a].pc # "subject", adm.pc # "subject", CallerReads(a)'
    PROVE  LedgerInv'
  <1>1. admission'[a] = adm /\ \A b \in Admitters : b # a => admission'[b] = admission[b]
    BY DEF ClimbInv, ClimbShapes
  <1>2. \A r \in Runs : SameVersions(r)
    BY RowsKept
  <1>3. \A b \in Admitters :
           \/ admission'[b] = admission[b]
           \/ CallerReads(b)' /\ admission[b].pc # "subject" /\ admission'[b].pc # "subject"
    BY <1>1
  <1>4. QED BY <1>2, <1>3, LedgerIdle

LEMMA RestsReads ==
    ASSUME NEW a \in Admitters, \/ admission'[a].type # "run.ended"
                                \/ admission'[a].pc \in {"idle", "kick"}
    PROVE  CallerReads(a)'
  BY DEF CallerReads

LEMMA FinishIdles ==
    ASSUME LedgerInv, TurnInv, ClimbInv, NEW a \in Admitters, NEW queued \in BOOLEAN,
           Finish(a, queued), UNCHANGED <<subject, seen, lane, claim, entry, outbox>>,
           admission[a].pc # "subject"
    PROVE  LedgerInv'
  <1>1. PICK adm : adm = IF queued THEN [AtRest EXCEPT !.pc = "kick"] ELSE AtRest
    OBVIOUS
  <1>2. adm.pc \in {"idle", "kick"}
    BY <1>1 DEF AtRest
  <1>3. admission' = [admission EXCEPT ![a] = adm]
    BY <1>1 DEF Finish, Becomes
  <1>4. admission'[a] = adm
    BY <1>3 DEF ClimbInv, ClimbShapes
  <1>5. CallerReads(a)'
    BY <1>2, <1>4, RestsReads
  <1>6. QED BY <1>2, <1>3, <1>5, CallerIdles

LEMMA AdmitIdles ==
    ASSUME LedgerInv, TurnInv, ClimbInv, NEW a \in Admitters, Admit(a)
    PROVE  LedgerInv'
  <1>1. ASSUME NEW r \in Runs, QueueStart(a, r) PROVE LedgerInv'
    <2>1. PICK adm : adm = [AtRest EXCEPT !.pc = "kick"]
      OBVIOUS
    <2>2. adm.pc = "kick"
      BY <2>1 DEF AtRest
    <2>3. /\ admission' = [admission EXCEPT ![a] = adm] /\ admission[a].pc = "idle"
          /\ UNCHANGED <<subject, seen, lane, claim, entry>>
      BY <1>1, <2>1 DEF QueueStart, Becomes, At, Elsewhere, laneVars
    <2>4. \E k, row : k.type # "run.ended" /\ outbox' = [outbox EXCEPT ![k] = row]
      <3>1. Start(r).type # "run.ended"
        BY DEF Start, EventId
      <3>2. QED BY <1>1, <3>1 DEF QueueStart
    <2>5. admission'[a] = adm
      BY <2>3 DEF ClimbInv, ClimbShapes
    <2>6. CallerReads(a)'
      BY <2>2, <2>5, RestsReads
    <2>7. QED BY <2>2, <2>3, <2>4, <2>6, CallerIdles
  <1>2. ASSUME NEW r \in Runs, NEW n, NEW type, type = "run.ended" => n \in 1..MaxMeaning,
               Submit(a, r, type, n)
        PROVE  LedgerInv'
    <2>1. PICK pc \in {"lifecycle", "update", "terminal"} :
              admission' = [admission EXCEPT ![a] =
                              [AtRest EXCEPT !.pc = pc, !.type = type, !.run = r, !.n = n]]
      BY <1>2 DEF Submit, Becomes
    <2>2. PICK adm : adm = [AtRest EXCEPT !.pc = pc, !.type = type, !.run = r, !.n = n]
      OBVIOUS
    <2>3. adm.pc = pc /\ adm.type = type /\ adm.n = n
      BY <2>2 DEF AtRest
    <2>4. /\ admission' = [admission EXCEPT ![a] = adm] /\ admission[a].pc = "idle"
          /\ UNCHANGED <<subject, seen, lane, claim, entry, outbox>>
      BY <1>2, <2>1, <2>2 DEF Submit, At, Elsewhere, laneVars
    <2>5. admission'[a] = adm
      BY <2>4 DEF ClimbInv, ClimbShapes
    <2>6. CallerReads(a)'
      BY <1>2, <2>3, <2>5 DEF CallerReads
    <2>7. QED BY <2>3, <2>4, <2>6, CallerIdles
  <1>3. ASSUME SubmitUpdate(a) PROVE LedgerInv'
    <2>1. PICK r \in Runs, n \in 1..MaxLevel : Submit(a, r, "run.update", n)
      BY <1>3 DEF SubmitUpdate
    <2>2. QED BY <1>2, <2>1
  <1>4. ASSUME SubmitTerminal(a) PROVE LedgerInv'
    <2>1. PICK r \in Runs, m \in 1..MaxMeaning : Submit(a, r, "run.ended", m)
      BY <1>4 DEF SubmitTerminal
    <2>2. QED BY <1>2, <2>1
  <1>5. QED BY <1>1, <1>3, <1>4 DEF Admit

LEMMA RevisionIs ==
    ASSUME NEW m \in Nat, NEW row, row.meaning \in Nat
    PROVE  Revision(m, row) = IF m < row.meaning THEN row.meaning ELSE m
  <1>1. PICK other \in Nat : other = row.meaning
    OBVIOUS
  <1>2. PICK top \in {m, other} : \A x \in {m, other} : x <= top
    <2>1. CASE m < other
      BY <2>1
    <2>2. CASE ~(m < other)
      BY <2>2
    <2>3. QED BY <2>1, <2>2
  <1>3. /\ Highest({m, other}) \in {m, other}
        /\ \A x \in {m, other} : x <= Highest({m, other})
    BY <1>2 DEF Highest
  <1>4. QED BY <1>1, <1>3 DEF Revision

(* A correction that says something new goes into the open version of its  *)
(* run, or into a new one once that is delivered.                          *)
LEMMA Corrects ==
    ASSUME LedgerInv, TurnInv, MaxMeaning <= MaxVersion, NEW a \in Admitters,
           admission[a].type = "run.ended", admission[a].pc = "stateEntry",
           NEW r, r = admission[a].run, NEW row, row = StateEntry(r, admission[a].read),
           NEW n, n = Revision(admission[a].n, row), n # admission[a].read.meaning
    PROVE  /\ r \in Runs /\ n \in 1..MaxMeaning /\ n > subject[r].meaning
           /\ NextFor(r) \in Versions /\ NextVersion(admission[a].read, row) = NextFor(r)
  <1>1. Replaces(a) /\ r \in Runs /\ Holds(lifecycle[r], a)
    BY DEF TurnInv, CallerTurn, Replaces, Replacing
  <1>2. /\ \A b \in Admitters : b # a => ~Files(b, r)
        /\ ~Files(a, r) /\ ~Records(r)
    BY <1>1, Alone, LanesAreNoCallers DEF Files
  <1>3. PICK t \in 0..MaxVersion : StandsAt(r, t)
    BY <1>1 DEF LedgerInv, Stands
  <1>4. PICK sub : sub = subject[r]
    OBVIOUS
  <1>5. admission[a].read = sub /\ admission[a].n \in 1..MaxMeaning
    BY <1>4 DEF LedgerInv, CallerReads
  <1>6. sub.version = t /\ sub.meaning = IF t = 0 THEN 0 ELSE Row(r, t).meaning
    BY <1>2, <1>3, <1>4 DEF StandsAt
  <1>7. MaxVersion \in Nat /\ MaxMeaning \in Nat
    BY EndedIds
  <1>8. CASE t = 0
    <2>1. row = NoRow /\ row.meaning = 0
      BY <1>5, <1>6, <1>8 DEF StateEntry, NoRow
    <2>2. n = admission[a].n
      BY <1>5, <1>7, <2>1, RevisionIs
    <2>3. NextFor(r) = 1 /\ NextVersion(admission[a].read, row) = 1
      BY <1>4, <1>5, <1>6, <1>8 DEF NextFor, NextVersion
    <2>4. QED BY <1>1, <1>4, <1>5, <1>6, <1>7, <1>8, <2>2, <2>3 DEF Versions
  <1>9. CASE t # 0
    <2>1. t \in Versions /\ t \in 1..t
      BY <1>7, <1>9 DEF Versions
    <2>2. row = Row(r, t) /\ TermRow(row) /\ Queued(row) /\ row.meaning \in t..MaxMeaning
      BY <1>3, <1>5, <1>6, <1>9, <2>1 DEF StateEntry, Row, StandsAt
    <2>3. /\ n = IF admission[a].n < row.meaning THEN row.meaning ELSE admission[a].n
          /\ n \in 1..MaxMeaning /\ n >= row.meaning
      BY <1>5, <1>7, <1>9, <2>2, RevisionIs
    <2>4. n > row.meaning /\ sub.meaning = row.meaning
      BY <1>5, <1>6, <1>9, <2>2, <2>3
    <2>5. Undelivered(row) <=> ~row.deliveredAt
      BY <2>2 DEF Undelivered, TermRow, Queued
    <2>6. CASE row.deliveredAt
      <3>1. sub.deliveredAt
        BY <1>1, <1>2, <1>4, <2>1, <2>2, <2>6 DEF LedgerInv, Told
      <3>2. NextFor(r) = t + 1
        BY <1>4, <1>6, <2>2, <2>6 DEF NextFor
      <3>3. NextVersion(admission[a].read, row) = t + 1
        BY <1>5, <1>6, <1>9, <2>5, <2>6, <3>1 DEF NextVersion
      <3>4. t + 1 \in Versions
        BY <1>7, <2>2, <2>3, <2>4 DEF Versions
      <3>5. QED BY <1>1, <1>4, <2>3, <2>4, <3>2, <3>3, <3>4
    <2>7. CASE ~row.deliveredAt
      <3>1. NextFor(r) = t
        BY <1>4, <1>6, <1>9, <2>2, <2>7 DEF NextFor
      <3>2. NextVersion(admission[a].read, row) = t
        BY <1>5, <1>6, <1>9, <2>5, <2>7 DEF NextVersion
      <3>3. QED BY <1>1, <1>4, <2>1, <2>3, <2>4, <3>1, <3>2
    <2>8. QED BY <2>6, <2>7
  <1>10. QED BY <1>8, <1>9

(* The row that a correction is about to write is not delivered.           *)
LEMMA NextIsOpen ==
    ASSUME LedgerInv, NEW r \in Runs, NextFor(r) \in Versions,
           \A a \in Admitters : ~Files(a, r)
    PROVE  Row(r, NextFor(r)).deliveredAt = FALSE
  <1>1. PICK t \in 0..MaxVersion : StandsAt(r, t)
    BY DEF LedgerInv, Stands
  <1>2. subject[r].version = t
    BY <1>1 DEF StandsAt
  <1>3. CASE t > 0 /\ ~Row(r, t).deliveredAt
    <2>1. NextFor(r) = t
      BY <1>2, <1>3 DEF NextFor
    <2>2. Row(r, t).deliveredAt \in BOOLEAN
      BY <1>1, <2>1 DEF StandsAt, TermRow
    <2>3. QED BY <1>3, <2>1, <2>2
  <1>4. CASE ~(t > 0 /\ ~Row(r, t).deliveredAt)
    <2>1. NextFor(r) = t + 1
      BY <1>2, <1>4 DEF NextFor
    <2>2. ~Queued(Row(r, t + 1)) /\ TermRow(Row(r, t + 1))
      BY <1>1, <2>1 DEF StandsAt
    <2>3. QED BY <2>1, <2>2 DEF TermRow, Queued
  <1>5. QED BY <1>3, <1>4

LEMMA CallerIdleSteps ==
    ASSUME LedgerInv, TurnInv, ClimbInv, MaxMeaning <= MaxVersion, NEW a \in Admitters,
           \/ EnterLifecycle(a) \/ ReadSubject(a) \/ ReadStateEntry(a) \/ ReadExisting(a)
           \/ BeginUpdate(a) \/ Reconcile(a) \/ Retired(a)
    PROVE  LedgerInv'
  <1>1. PICK adm : adm = admission[a]
    OBVIOUS
  <1>2. IsAdmission(adm) /\ CallerClimbs(a) /\ CallerReads(a) /\ CallerTurn(a)
    BY <1>1 DEF ClimbInv, ClimbShapes, LedgerInv, TurnInv
  <1>3. UNCHANGED <<subject, seen, lane, claim, entry, outbox>>
    BY DEF EnterLifecycle, ReadSubject, ReadStateEntry, ReadExisting, BeginUpdate, Reconcile,
           Retired, Elsewhere, laneVars
  <1>4. /\ adm.pc \in {"lifecycle", "terminal", "stateEntry", "existing", "update", "reconcile", "retire"}
        /\ adm.pc # "subject"
    BY <1>1 DEF EnterLifecycle, ReadSubject, ReadStateEntry, ReadExisting, BeginUpdate, Reconcile,
                Retired, At
  <1>5. /\ adm.type = "run.ended" => adm.n \in 1..MaxMeaning
        /\ adm.type = "run.ended" /\ adm.pc = "existing" =>
              /\ adm.read = subject[adm.run] /\ adm.n > subject[adm.run].meaning
              /\ NextFor(adm.run) \in Versions /\ adm.k = Ended(adm.run, NextFor(adm.run))
        /\ adm.pc \in {"update", "reconcile", "retire"} => adm.type = "run.update"
        /\ adm.pc \in {"terminal", "stateEntry"} => adm.type = "run.ended"
    BY <1>1, <1>2, <1>4 DEF CallerReads, CallerClimbs
  <1>6. ASSUME NEW queued \in BOOLEAN, Finish(a, queued) PROVE LedgerInv'
    BY <1>1, <1>3, <1>4, <1>6, FinishIdles
  <1>7. ASSUME NEW new, admission' = [admission EXCEPT ![a] = new], new.pc # "subject",
               CallerReads(a)'
        PROVE  LedgerInv'
    BY <1>1, <1>3, <1>4, <1>7, CallerIdles
  <1>8. ASSUME NEW new, admission' = [admission EXCEPT ![a] = new] PROVE admission'[a] = new
    BY <1>8 DEF ClimbInv, ClimbShapes
  <1>9. \A r : NextFor(r)' = NextFor(r)
    BY <1>3 DEF NextFor, Row
  <1>10. CASE EnterLifecycle(a)
    <2>1. PICK pc \in {"terminal", "update"} :
              admission' = [admission EXCEPT ![a] = [adm EXCEPT !.pc = pc]] /\ adm.pc = "lifecycle"
      BY <1>1, <1>10 DEF EnterLifecycle, Goes, Becomes, At
    <2>2. PICK new : new = [adm EXCEPT !.pc = pc]
      OBVIOUS
    <2>3. new.pc = pc /\ new.type = adm.type /\ new.n = adm.n
      BY <1>2, <2>2 DEF IsAdmission
    <2>4. admission'[a] = new
      BY <1>8, <2>1, <2>2
    <2>5. CallerReads(a)'
      BY <1>5, <2>3, <2>4 DEF CallerReads
    <2>6. QED BY <1>7, <2>1, <2>2, <2>3, <2>5
  <1>11. CASE ReadSubject(a)
    <2>1. PICK new : new = [adm EXCEPT !.pc = "stateEntry", !.read = subject[adm.run]]
      OBVIOUS
    <2>2. /\ new.pc = "stateEntry" /\ new.type = adm.type /\ new.n = adm.n /\ new.run = adm.run
          /\ new.read = subject'[new.run]
      BY <1>2, <1>3, <2>1 DEF IsAdmission
    <2>3. admission' = [admission EXCEPT ![a] = new]
      BY <1>1, <1>11, <2>1 DEF ReadSubject, Becomes
    <2>4. admission'[a] = new
      BY <1>8, <2>3
    <2>5. CallerReads(a)'
      BY <1>5, <2>2, <2>4 DEF CallerReads
    <2>6. QED BY <1>7, <2>2, <2>3, <2>5
  <1>12. CASE ReadStateEntry(a)
    <2>1. CASE Finish(a, FALSE)
      BY <1>6, <2>1
    <2>2. CASE ~Finish(a, FALSE)
      <3>1. PICK row, n : row = StateEntry(adm.run, adm.read) /\ n = Revision(adm.n, row)
        OBVIOUS
      <3>2. PICK new : new = [adm EXCEPT !.pc = "existing", !.n = n, !.url = config.url,
                                         !.k = Ended(adm.run, NextVersion(adm.read, row))]
        OBVIOUS
      <3>3. /\ n # adm.read.meaning /\ adm.pc = "stateEntry"
            /\ admission' = [admission EXCEPT ![a] = new]
        BY <1>1, <1>12, <2>2, <3>1, <3>2 DEF ReadStateEntry, Becomes, At
      <3>4. adm.type = "run.ended" /\ adm.read = subject[adm.run]
        BY <1>1, <1>2, <1>5, <3>3 DEF CallerReads
      <3>5. /\ n \in 1..MaxMeaning /\ n > subject[adm.run].meaning
            /\ NextFor(adm.run) \in Versions /\ NextVersion(adm.read, row) = NextFor(adm.run)
        BY <1>1, <3>1, <3>3, <3>4, Corrects
      <3>6. /\ new.pc = "existing" /\ new.type = "run.ended" /\ new.n = n /\ new.run = adm.run
            /\ new.read = adm.read /\ new.k = Ended(adm.run, NextFor(adm.run))
        BY <1>2, <3>2, <3>4, <3>5 DEF IsAdmission
      <3>7. admission'[a] = new
        BY <1>8, <3>3
      <3>8. CallerReads(a)'
        BY <1>3, <1>9, <3>4, <3>5, <3>6, <3>7 DEF CallerReads
      <3>9. QED BY <1>7, <3>3, <3>6, <3>8
    <2>3. QED BY <2>1, <2>2
  <1>13. CASE ReadExisting(a)
    <2>1. adm.pc = "existing"
      BY <1>1, <1>13 DEF ReadExisting, At
    <2>2. CASE Finish(a, FALSE)
      BY <1>6, <2>2
    <2>3. CASE ~Finish(a, FALSE)
      <3>1. PICK new : /\ admission' = [admission EXCEPT ![a] = new]
                       /\ \/ new = [adm EXCEPT !.pc = "upsert", !.row = outbox[adm.k]]
                          \/ adm.type = "run.update" /\ new = [adm EXCEPT !.pc = "retire", !.k = NoKey]
        BY <1>1, <1>13, <2>3 DEF ReadExisting, Becomes
      <3>2. admission'[a] = new
        BY <1>8, <3>1
      <3>3. CASE adm.type = "run.ended"
        <4>1. new = [adm EXCEPT !.pc = "upsert", !.row = outbox[adm.k]]
          BY <3>1, <3>3
        <4>2. /\ new.pc = "upsert" /\ new.type = adm.type /\ new.n = adm.n /\ new.run = adm.run
              /\ new.read = adm.read /\ new.k = adm.k /\ new.row = outbox[adm.k]
          BY <1>2, <4>1 DEF IsAdmission
        <4>3. adm.run \in Runs /\ Holds(lifecycle[adm.run], a)
          BY <1>1, <1>2, <2>1, <3>3 DEF CallerTurn, Replaces, Replacing
        <4>4. \A b \in Admitters : ~Files(b, adm.run)
          BY <1>1, <2>1, <4>3, Alone DEF Files
        <4>5. outbox[adm.k].deliveredAt = FALSE
          BY <1>5, <2>1, <3>3, <4>3, <4>4, NextIsOpen DEF Row
        <4>6. CallerReads(a)'
          BY <1>3, <1>5, <1>9, <2>1, <3>2, <3>3, <4>2, <4>5 DEF CallerReads
        <4>7. QED BY <1>7, <3>1, <4>2, <4>6
      <3>4. CASE adm.type # "run.ended"
        <4>1. new.pc \in {"upsert", "retire"} /\ new.type = adm.type
          BY <1>2, <3>1 DEF IsAdmission
        <4>2. CallerReads(a)'
          BY <3>2, <3>4, <4>1, RestsReads
        <4>3. QED BY <1>7, <3>1, <4>1, <4>2
      <3>5. QED BY <3>3, <3>4
    <2>4. QED BY <2>2, <2>3
  <1>14. CASE BeginUpdate(a)
    <2>1. CASE Finish(a, FALSE)
      BY <1>6, <2>1
    <2>2. CASE ~Finish(a, FALSE)
      <3>1. PICK new : /\ new = [adm EXCEPT !.pc = "reconcile", !.url = config.url]
                       /\ admission' = [admission EXCEPT ![a] = new] /\ adm.pc = "update"
        BY <1>1, <1>14, <2>2 DEF BeginUpdate, Becomes, At
      <3>2. new.pc = "reconcile" /\ new.type = "run.update"
        BY <1>2, <1>5, <3>1 DEF IsAdmission
      <3>3. admission'[a] = new
        BY <1>8, <3>1
      <3>4. CallerReads(a)'
        BY <3>2, <3>3, RestsReads
      <3>5. QED BY <1>7, <3>1, <3>2, <3>4
    <2>3. QED BY <2>1, <2>2
  <1>15. CASE Reconcile(a)
    <2>1. PICK new : /\ admission' = [admission EXCEPT ![a] = new] /\ adm.pc = "reconcile"
                     /\ \/ new = [adm EXCEPT !.pc = "retire"]
                        \/ \E k : new = [adm EXCEPT !.pc = "existing", !.k = k]
      BY <1>1, <1>15 DEF Reconcile, Goes, Becomes, At
    <2>2. new.pc \in {"existing", "retire"} /\ new.type = "run.update"
      BY <1>2, <1>5, <2>1 DEF IsAdmission
    <2>3. admission'[a] = new
      BY <1>8, <2>1
    <2>4. CallerReads(a)'
      BY <2>2, <2>3, RestsReads
    <2>5. QED BY <1>7, <2>1, <2>2, <2>4
  <1>16. CASE Retired(a)
    <2>1. PICK queued \in BOOLEAN : Finish(a, queued)
      BY <1>16 DEF Retired
    <2>2. QED BY <1>6, <2>1
  <1>17. QED BY <1>10, <1>11, <1>12, <1>13, <1>14, <1>15, <1>16

(* A lane or a caller supersedes rows of updates.                          *)
LEMMA RetireIdles ==
    ASSUME LedgerInv, TurnInv, ClimbInv, NEW a \in Admitters, Retire(a)
    PROVE  LedgerInv'
  <1>1. UNCHANGED <<subject, seen, lane, claim, entry, admission>> /\ admission[a].pc = "retire"
    BY DEF Retire, At, Elsewhere, laneVars
  <1>2. PICK k \in retiring[a] : \E row : outbox' = [outbox EXCEPT ![k] = row]
    BY DEF Retire
  <1>3. k.type # "run.ended"
    <2>1. CallerClimbs(a)
      BY DEF ClimbInv
    <2>2. Covered(a, admission[a].run)
      BY <1>1, <2>1 DEF CallerClimbs
    <2>3. PICK n \in Levels : k = Update(admission[a].run, n)
      BY <1>2, <2>2 DEF Covered, Below
    <2>4. QED BY <2>3 DEF Update, EventId
  <1>4. \A r \in Runs : SameVersions(r)
    BY <1>1, <1>2, <1>3, RowsKept
  <1>5. QED BY <1>1, <1>4, LedgerIdle

(* One row is written, the other ones stay.                                *)
LEMMA OneVersion ==
    ASSUME LedgerInv, ClimbInv, NEW r \in Runs, NEW w \in Versions, NEW row, TermRow(row),
           outbox' = [outbox EXCEPT ![Ended(r, w)] = row]
    PROVE  /\ outbox'[Ended(r, w)] = row
           /\ \A s \in Runs, v \in Versions :
                 s # r \/ v # w => outbox'[Ended(s, v)] = outbox[Ended(s, v)]
           /\ \A s \in Runs, v \in Versions : TermRow(Row(s, v))'
           /\ UNCHANGED subject => \A s \in Runs : s # r => SameVersions(s)
  <1>1. /\ outbox = [j \in EventIds |-> outbox[j]] /\ Ended(r, w) \in EventIds
        /\ \A s \in Runs, v \in Versions :
              Ended(s, v) \in EventIds /\ (s # r \/ v # w => Ended(s, v) # Ended(r, w))
    BY EndedIds DEF ClimbInv, ClimbShapes
  <1>2. /\ outbox'[Ended(r, w)] = row
        /\ \A s \in Runs, v \in Versions :
              s # r \/ v # w => outbox'[Ended(s, v)] = outbox[Ended(s, v)]
    BY <1>1
  <1>3. \A s \in Runs, v \in Versions : TermRow(outbox[Ended(s, v)])
    BY DEF LedgerInv, Stands, StandsAt, Row
  <1>4. \A s \in Runs, v \in Versions : TermRow(outbox'[Ended(s, v)])
    BY <1>2, <1>3
  <1>5. \A s \in Runs, v \in Versions : TermRow(Row(s, v))'
    BY <1>4 DEF Row, TermRow, IsRow
  <1>6. ASSUME UNCHANGED subject, NEW s \in Runs, s # r PROVE SameVersions(s)
    BY <1>2, <1>5, <1>6 DEF SameVersions, Row
  <1>7. QED BY <1>2, <1>5, <1>6

(* A correction revises the last version of its run, or opens the next one *)
(* after a delivered one, and says more than all of them.                  *)
CorrectsWith(a, r, t, w, row) ==
    /\ r \in Runs /\ t \in 0..MaxVersion /\ w \in Versions
    /\ r = admission[a].run /\ StandsAt(r, t) /\ Holds(lifecycle[r], a)
    /\ admission[a].k = Ended(r, w) /\ outbox' = [outbox EXCEPT ![Ended(r, w)] = row]
    /\ TermRow(row) /\ Queued(row) /\ row.meaning = admission[a].n
    /\ row.deliveredAt = FALSE
    /\ \/ w = t /\ t > 0 /\ ~Row(r, t).deliveredAt
       \/ w = t + 1 /\ (t > 0 => Row(r, t).deliveredAt)
    /\ admission[a].n \in w..MaxMeaning
    /\ \A v \in 1..t : Row(r, v).meaning < admission[a].n
    /\ subject[r].version = t /\ \A b \in Admitters : ~Files(b, r)

LEMMA UpsertWrites ==
    ASSUME LedgerInv, TurnInv, ClimbInv, NEW a \in Admitters, Upsert(a),
           admission[a].type = "run.ended"
    PROVE  \E r, t, w, row : CorrectsWith(a, r, t, w, row)
  <1>1. PICK adm, r, w : adm = admission[a] /\ r = adm.run /\ w = NextFor(r)
    OBVIOUS
  <1>2. CallerReads(a) /\ CallerTurn(a) /\ adm.pc = "upsert"
    BY <1>1 DEF LedgerInv, TurnInv, Upsert, At
  <1>3. /\ Replaces(a) /\ r \in Runs /\ Holds(lifecycle[r], a)
        /\ w \in Versions /\ adm.k = Ended(r, w) /\ adm.n \in 1..MaxMeaning
        /\ adm.n > subject[r].meaning /\ adm.row.deliveredAt = FALSE
    BY <1>1, <1>2 DEF CallerTurn, CallerReads, Replaces, Replacing
  <1>4. PICK state \in {"pending", "blocked"} : state = IF adm.url THEN "pending" ELSE "blocked"
    OBVIOUS
  <1>5. PICK waits \in Waits(adm) :
           outbox' = [outbox EXCEPT ![adm.k] =
              [state |-> state, meaning |-> adm.n, waits |-> waits,
               deliveredAt |-> adm.row.deliveredAt, superseded |-> FALSE]]
    BY <1>1, <1>4 DEF Upsert
  <1>6. PICK row : row = [state |-> state, meaning |-> adm.n, waits |-> waits,
                          deliveredAt |-> FALSE, superseded |-> FALSE]
    OBVIOUS
  <1>7. /\ TermRow(row) /\ Queued(row) /\ row.meaning = adm.n /\ row.deliveredAt = FALSE
        /\ outbox' = [outbox EXCEPT ![Ended(r, w)] = row]
    BY <1>3, <1>5, <1>6 DEF TermRow, IsRow, DeliveryStates, Queued
  <1>8. \A b \in Admitters : ~Files(b, r)
    BY <1>1, <1>2, <1>3, Alone DEF Files
  <1>9. PICK t \in 0..MaxVersion : StandsAt(r, t)
    BY <1>3 DEF LedgerInv, Stands
  <1>10. subject[r].version = t /\ subject[r].meaning = IF t = 0 THEN 0 ELSE Row(r, t).meaning
    BY <1>8, <1>9 DEF StandsAt
  <1>11. MaxVersion \in Nat /\ MaxMeaning \in Nat
    BY EndedIds
  <1>12. \/ w = t /\ t > 0 /\ ~Row(r, t).deliveredAt
         \/ w = t + 1 /\ (t > 0 => Row(r, t).deliveredAt)
    BY <1>1, <1>10 DEF NextFor
  <1>13. adm.n \in w..MaxMeaning
    <2>1. t > 0 => Row(r, t).meaning \in t..MaxMeaning
      BY <1>9, <1>11 DEF StandsAt
    <2>2. QED BY <1>3, <1>10, <1>11, <1>12, <2>1
  <1>14. ASSUME NEW v \in 1..t PROVE Row(r, v).meaning < adm.n
    <2>1. t > 0 /\ v \in Nat /\ v <= t /\ t \in 1..t
      BY <1>11
    <2>2. Row(r, t).meaning < adm.n /\ Row(r, t).meaning \in Nat /\ Row(r, v).meaning \in Nat
      BY <1>3, <1>9, <1>10, <1>11, <2>1 DEF StandsAt
    <2>3. v < t => Row(r, v).meaning < Row(r, t).meaning
      BY <1>9, <2>1 DEF StandsAt
    <2>4. QED BY <1>3, <1>11, <2>1, <2>2, <2>3
  <1>15. QED BY <1>1, <1>3, <1>7, <1>8, <1>9, <1>10, <1>12, <1>13, <1>14
         DEF CorrectsWith

LEMMA UpsertKeeps ==
    ASSUME LedgerInv, TurnInv, ClimbInv, NEW a \in Admitters, Upsert(a)
    PROVE  LedgerInv'
  <1>1. PICK adm : adm = admission[a]
    OBVIOUS
  <1>2. /\ IsAdmission(adm) /\ CallerClimbs(a) /\ CallerReads(a) /\ CallerTurn(a)
        /\ adm.pc = "upsert" /\ adm.type \in {"run.update", "run.ended"}
    BY <1>1 DEF ClimbInv, ClimbShapes, LedgerInv, TurnInv, Upsert, At, CallerClimbs
  <1>3. UNCHANGED <<subject, seen, lane, claim, entry>>
    BY DEF Upsert, Elsewhere, laneVars
  <1>4. PICK pc : /\ pc = IF adm.type = "run.ended" THEN "subject" ELSE "retire"
                  /\ admission' = [admission EXCEPT ![a] = [adm EXCEPT !.pc = pc]]
    BY <1>1 DEF Upsert, Goes, Becomes
  <1>5. PICK new : new = [adm EXCEPT !.pc = pc]
    OBVIOUS
  <1>6. /\ new.pc = pc /\ new.type = adm.type /\ new.run = adm.run /\ new.k = adm.k
        /\ new.n = adm.n /\ new.read = adm.read
    BY <1>2, <1>5 DEF IsAdmission
  <1>7. admission' = [admission EXCEPT ![a] = new]
    BY <1>4, <1>5
  <1>8. admission'[a] = new /\ \A b \in Admitters : b # a => admission'[b] = admission[b]
    BY <1>7 DEF ClimbInv, ClimbShapes
  <1>9. CASE adm.type = "run.update"
    <2>1. \E k, row : k.type # "run.ended" /\ outbox' = [outbox EXCEPT ![k] = row]
      <3>1. PICK c : adm.k = Update(adm.run, c)
        BY <1>1, <1>2, <1>9 DEF CallerClimbs
      <3>2. adm.k.type # "run.ended"
        BY <3>1 DEF Update, EventId
      <3>3. QED BY <1>1, <3>2 DEF Upsert
    <2>2. CallerReads(a)'
      BY <1>6, <1>8, <1>9, RestsReads
    <2>3. QED BY <1>1, <1>2, <1>3, <1>4, <1>6, <1>7, <1>9, <2>1, <2>2, CallerIdles
  <1>10. CASE adm.type = "run.ended"
    <2>1. PICK r, t, w, row : CorrectsWith(a, r, t, w, row)
      <3>1. admission[a].type = "run.ended"
        BY <1>1, <1>10
      <3>2. QED BY <3>1, UpsertWrites
    <2>2. /\ r \in Runs /\ t \in 0..MaxVersion /\ w \in Versions
          /\ r = adm.run /\ StandsAt(r, t) /\ Holds(lifecycle[r], a)
          /\ adm.k = Ended(r, w) /\ outbox' = [outbox EXCEPT ![Ended(r, w)] = row]
          /\ TermRow(row) /\ Queued(row) /\ row.meaning = adm.n /\ row.deliveredAt = FALSE
          /\ \/ w = t /\ t > 0 /\ ~Row(r, t).deliveredAt
             \/ w = t + 1 /\ (t > 0 => Row(r, t).deliveredAt)
          /\ adm.n \in w..MaxMeaning
          /\ \A v \in 1..t : Row(r, v).meaning < adm.n
          /\ subject[r].version = t /\ \A b \in Admitters : ~Files(b, r)
      BY <1>1, <2>1 DEF CorrectsWith
    <2>3. Replaces(a) /\ adm.n \in 1..MaxMeaning /\ adm.read = subject[r]
      BY <1>1, <1>2, <1>10, <2>2 DEF CallerReads, Replaces, Replacing
    <2>4. /\ Row(r, w)' = row
          /\ \A v \in Versions : v # w => Row(r, v)' = Row(r, v)
          /\ \A v \in Versions : TermRow(Row(r, v))'
          /\ \A s \in Runs : s # r => SameVersions(s)
      <3>1. /\ outbox'[Ended(r, w)] = row
            /\ \A s \in Runs, v \in Versions :
                  s # r \/ v # w => outbox'[Ended(s, v)] = outbox[Ended(s, v)]
            /\ \A s \in Runs, v \in Versions : TermRow(Row(s, v))'
            /\ UNCHANGED subject => \A s \in Runs : s # r => SameVersions(s)
        BY <2>2, OneVersion
      <3>2. UNCHANGED subject /\ r \in Runs
        BY <1>3, <2>2
      <3>3. QED BY <3>1, <3>2 DEF Row
    <2>5. \A b \in Admitters : Files(b, r)' <=> b = a
      BY <1>4, <1>6, <1>8, <1>10, <2>2 DEF Files
    <2>6. MaxVersion \in Nat /\ MaxMeaning \in Nat
      BY EndedIds
    <2>7. /\ w \in 0..MaxVersion /\ t <= w /\ w > 0
          /\ \A v \in 1..w : v \in Versions /\ (v = w \/ v \in 1..t)
      BY <2>2, <2>6 DEF Versions
    <2>8. StandsAt(r, w)'
      <3>1. \A v \in Versions : TermRow(Row(r, v))' /\ (Queued(Row(r, v))' <=> v <= w)
        <4>1. TAKE v \in Versions
        <4>2. Queued(Row(r, v)) <=> v <= t
          BY <2>2 DEF StandsAt
        <4>3. v # w => (Queued(Row(r, v))' <=> Queued(Row(r, v)))
          BY <2>4 DEF Queued
        <4>4. v # w => (v <= t <=> v <= w)
          BY <2>2, <2>6 DEF Versions
        <4>5. Queued(Row(r, w))' /\ w <= w
          BY <2>2, <2>4, <2>7 DEF Queued
        <4>6. QED BY <2>4, <4>2, <4>3, <4>4, <4>5
      <3>2. \A v \in 1..w : Row(r, v)'.meaning \in v..MaxMeaning
        <4>1. TAKE v \in 1..w
        <4>2. CASE v = w
          BY <2>2, <2>4, <4>2
        <4>3. CASE v # w
          BY <2>2, <2>4, <2>7, <4>3 DEF StandsAt
        <4>4. QED BY <4>2, <4>3
      <3>3. \A v, x \in 1..w : v < x => Row(r, v)'.deliveredAt /\ Row(r, v)'.meaning < Row(r, x)'.meaning
        <4>1. TAKE v, x \in 1..w
        <4>2. HAVE v < x
        <4>3. v < w /\ v # w /\ v \in 1..t /\ Row(r, v)' = Row(r, v)
          BY <2>4, <2>7, <4>2
        <4>4. Row(r, v).deliveredAt
          <5>1. CASE v = t
            BY <2>2, <2>7, <4>3, <5>1
          <5>2. CASE v # t
            <6>1. v < t /\ t \in 1..t
              BY <2>2, <2>6, <4>3, <5>2
            <6>2. QED BY <2>2, <4>3, <6>1 DEF StandsAt
          <5>3. QED BY <5>1, <5>2
        <4>5. CASE x = w
          BY <2>2, <2>4, <4>3, <4>4, <4>5
        <4>6. CASE x # w
          <5>1. x \in 1..t /\ Row(r, x)' = Row(r, x)
            BY <2>4, <2>7, <4>6
          <5>2. Row(r, v).meaning < Row(r, x).meaning
            BY <2>2, <4>2, <4>3, <5>1 DEF StandsAt
          <5>3. QED BY <4>3, <4>4, <5>1, <5>2
        <4>7. QED BY <4>5, <4>6
      <3>4. subject'[r].version \in 0..w
        BY <1>3, <2>2, <2>7
      <3>5. \A b \in Admitters : Files(b, r)' =>
               /\ w > 0 /\ admission'[b].k = Ended(r, w)
               /\ admission'[b].n = Row(r, w)'.meaning /\ ~Row(r, w)'.deliveredAt
        BY <1>6, <1>8, <2>2, <2>4, <2>5, <2>7
      <3>6. ~(\A b \in Admitters : ~Files(b, r)')
        BY <2>5
      <3>7. QED BY <3>1, <3>2, <3>3, <3>4, <3>5, <3>6 DEF StandsAt
    <2>9. Told(r)'
      <3>1. Told(r) /\ ~Records(r) /\ ~Records(r)'
        BY <1>3, <2>2, Alone, LanesAreNoCallers DEF LedgerInv, Records
      <3>2. \A v \in Versions : Row(r, v)'.deliveredAt => Row(r, v).deliveredAt
        BY <2>2, <2>4
      <3>3. QED BY <1>3, <3>1, <3>2 DEF Told
    <2>10. CallerReads(a)'
      BY <1>3, <1>4, <1>6, <1>8, <1>10, <2>2, <2>3 DEF CallerReads
    <2>11. /\ subject' = [s \in Runs |-> subject'[s]]
           /\ Stands(r)'
      BY <1>3, <2>7, <2>8 DEF LedgerInv, Stands
    <2>12. QED BY <1>1, <1>3, <1>6, <1>7, <2>2, <2>3, <2>4, <2>9, <2>10, <2>11, CallerActs
  <1>11. QED BY <1>2, <1>9, <1>10

LEMMA WriteSubjectKeeps ==
    ASSUME LedgerInv, TurnInv, ClimbInv, NEW a \in Admitters, WriteSubject(a)
    PROVE  LedgerInv'
  <1>1. PICK adm, r : adm = admission[a] /\ r = adm.run
    OBVIOUS
  <1>2. UNCHANGED <<seen, lane, claim, entry, outbox>> /\ adm.pc = "subject"
    BY <1>1 DEF WriteSubject, At, Elsewhere, laneVars
  <1>3. /\ Replaces(a) /\ r \in Runs /\ Holds(lifecycle[r], a)
        /\ adm.read = subject[r] /\ Files(a, r)
    <2>1. CallerTurn(a) /\ CallerReads(a)
      BY DEF TurnInv, LedgerInv
    <2>2. QED BY <1>1, <1>2, <2>1 DEF CallerTurn, CallerReads, Replaces, Replacing, Files
  <1>4. PICK t \in 0..MaxVersion : StandsAt(r, t)
    BY <1>3 DEF LedgerInv, Stands
  <1>5. t > 0 /\ adm.k = Ended(r, t) /\ adm.n = Row(r, t).meaning /\ adm.k.n = t
    BY <1>1, <1>3, <1>4, EndedIds DEF StandsAt
  <1>6. PICK rest : rest = [AtRest EXCEPT !.pc = "kick"]
    OBVIOUS
  <1>7. rest.pc = "kick" /\ admission' = [admission EXCEPT ![a] = rest]
    BY <1>6 DEF AtRest, WriteSubject, Finish, Becomes
  <1>8. admission'[a] = rest /\ \A b \in Admitters : b # a => admission'[b] = admission[b]
    BY <1>7 DEF ClimbInv, ClimbShapes
  <1>9. PICK sub : sub = [meaning |-> adm.n, version |-> adm.k.n, deliveredAt |-> adm.read.deliveredAt]
    OBVIOUS
  <1>10. /\ subject' = [subject EXCEPT ![r] = sub]
         /\ subject = [s \in Runs |-> subject[s]]
    BY <1>1, <1>9 DEF WriteSubject, LedgerInv
  <1>11. /\ subject'[r] = sub /\ subject' = [s \in Runs |-> subject'[s]]
         /\ \A s \in Runs : s # r => subject'[s] = subject[s]
    BY <1>3, <1>10
  <1>12. \A s \in Runs : s # r => SameVersions(s)
    <2>1. \A s \in Runs, v \in Versions : TermRow(Row(s, v))
      BY DEF LedgerInv, Stands, StandsAt
    <2>2. QED BY <1>2, <1>11, <2>1 DEF SameVersions, Row, TermRow, IsRow, Queued
  <1>13. \A b \in Admitters : ~Files(b, r)'
    <2>1. \A b \in Admitters : b # a => ~Files(b, r)
      BY <1>3, Alone
    <2>2. QED BY <1>7, <1>8, <2>1 DEF Files
  <1>14. \A v : Row(r, v)' = Row(r, v)
    BY <1>2 DEF Row
  <1>15. StandsAt(r, t)'
    <2>1. \A v \in Versions : TermRow(Row(r, v))' /\ (Queued(Row(r, v))' <=> v <= t)
      BY <1>4, <1>14 DEF StandsAt, TermRow, IsRow, Queued
    <2>2. /\ \A v \in 1..t : Row(r, v)'.meaning \in v..MaxMeaning
          /\ \A v, w \in 1..t :
                v < w => Row(r, v)'.deliveredAt /\ Row(r, v)'.meaning < Row(r, w)'.meaning
      BY <1>4, <1>14 DEF StandsAt
    <2>3. /\ subject'[r].version = t /\ subject'[r].version \in 0..t
          /\ subject'[r].meaning = IF t = 0 THEN 0 ELSE Row(r, t)'.meaning
      BY <1>5, <1>9, <1>11, <1>14
    <2>4. QED BY <1>13, <2>1, <2>2, <2>3 DEF StandsAt
  <1>16. Told(r)'
    <2>1. Told(r) /\ (Records(r)' <=> Records(r))
      BY <1>2, <1>3 DEF LedgerInv, Records
    <2>2. subject[r].deliveredAt => subject'[r].deliveredAt
      BY <1>3, <1>9, <1>11
    <2>3. QED BY <1>14, <2>1, <2>2 DEF Told
  <1>17. CallerReads(a)'
    BY <1>7, <1>8, RestsReads
  <1>18. Stands(r)'
    BY <1>15 DEF Stands
  <1>19. QED BY <1>1, <1>2, <1>3, <1>7, <1>11, <1>12, <1>16, <1>17, <1>18, CallerActs

-----------------------------------------------------------------------------
(* Lanes.                                                                  *)
LEMMA NotSending ==
    ASSUME NEW l \in Lanes, lane'[l] \notin Sending \/ claim'[l].type # "run.ended"
    PROVE  LaneReads(l)'
  BY DEF LaneReads, Sends

LEMMA LaneIdles ==
    ASSUME LedgerInv, TurnInv, ClimbInv, NEW l \in Lanes, UNCHANGED <<admission, subject, seen>>,
           \/ outbox' = outbox
           \/ \E k, row : k.type # "run.ended" /\ outbox' = [outbox EXCEPT ![k] = row],
           lane[l] \notin Recording,
           \A m \in Lanes : m # l =>
              \/ lane'[m] = lane[m] /\ claim'[m] = claim[m] /\ entry'[m] = entry[m]
              \/ lane[m] = "idle" /\ lane'[m] = "fetch",
           LaneReads(l)'
    PROVE  LedgerInv'
  <1>1. \A r \in Runs : SameVersions(r)
    BY RowsKept
  <1>2. ASSUME NEW m \in Lanes
        PROVE  \/ lane'[m] = lane[m] /\ claim'[m] = claim[m] /\ entry'[m] = entry[m]
               \/ LaneReads(m)' /\ lane[m] \notin Recording
    <2>1. CASE m = l
      BY <2>1
    <2>2. CASE m # l /\ lane[m] = "idle" /\ lane'[m] = "fetch"
      BY <2>2, NotSending DEF Sending, Recording
    <2>3. QED BY <2>1, <2>2
  <1>3. \A a \in Admitters : admission'[a] = admission[a]
    OBVIOUS
  <1>4. QED BY <1>1, <1>2, <1>3, LedgerIdle

(* A lane that goes on and takes nothing of a terminal with it.            *)
LEMMA MoveIdles ==
    ASSUME LedgerInv, TurnInv, ClimbInv, NEW l \in Lanes,
           UNCHANGED <<admission, subject, seen, claim>>, lane[l] \notin Recording,
           \/ outbox' = outbox
           \/ \E k, row : k.type # "run.ended" /\ outbox' = [outbox EXCEPT ![k] = row],
           \A m \in Lanes : m # l => entry'[m] = entry[m],
           NEW pc, Moves(l, pc), pc \notin Sending \/ claim[l].type # "run.ended"
    PROVE  LedgerInv'
  <1>1. lane \in [Lanes -> LaneStates]
    BY DEF ClimbInv, ClaimInv, LanesTyped
  <1>2. lane'[l] = pc /\ \A m \in Lanes : m # l => lane'[m] = lane[m] /\ claim'[m] = claim[m]
    BY <1>1 DEF Moves
  <1>3. LaneReads(l)'
    BY <1>2, NotSending
  <1>4. QED BY <1>2, <1>3, LaneIdles

LEMMA ClaimIdles ==
    ASSUME LedgerInv, TurnInv, ClimbInv, NEW l \in Lanes, NEW p, DeliverClaimed(l, p),
           UNCHANGED <<admission, subject, seen, outbox>>, lane[l] \notin Recording
    PROVE  LedgerInv'
  <1>1. /\ lane \in [Lanes -> LaneStates] /\ claim \in [Lanes -> EventIds \cup {NoKey}]
        /\ entry = [m \in Lanes |-> entry[m]]
    BY DEF ClimbInv, ClaimInv, LanesTyped, ClimbShapes
  <1>2. \A m \in Lanes : m # l =>
            lane'[m] = lane[m] /\ claim'[m] = claim[m] /\ entry'[m] = entry[m]
    BY <1>1 DEF DeliverClaimed, Moves
  <1>3. lane'[l] \notin Sending \/ claim'[l].type # "run.ended"
    BY <1>1 DEF DeliverClaimed, Moves, Sending
  <1>4. LaneReads(l)'
    BY <1>3, NotSending
  <1>5. QED BY <1>2, <1>4, LaneIdles

LEMMA PassIdles ==
    ASSUME LedgerInv, TurnInv, ClimbInv, NEW l \in Lanes,
           \/ Fetch(l) \/ TakeFirst(l) \/ TakeAll(l) \/ TakeNone(l) \/ TakeNext(l) \/ EndBatch(l)
    PROVE  LedgerInv'
  <1>1. UNCHANGED <<admission, subject, seen, outbox>> /\ lane[l] \notin Recording
    BY DEF Fetch, TakeFirst, TakeAll, TakeNone, TakeNext, EndBatch, Here, LaneAt, Recording
  <1>2. CASE \E p : DeliverClaimed(l, p)
    BY <1>1, <1>2, ClaimIdles
  <1>3. CASE TakeNext(l) /\ UNCHANGED <<lane, claim, entry>>
    <2>1. \A m \in Lanes : lane'[m] = lane[m] /\ claim'[m] = claim[m] /\ entry'[m] = entry[m]
      BY <1>3
    <2>2. lane'[l] \notin Sending
      BY <1>3 DEF TakeNext, LaneAt, Sending
    <2>3. LaneReads(l)'
      BY <2>2, NotSending
    <2>4. QED BY <1>1, <2>1, <2>3, LaneIdles
  <1>4. CASE Fetch(l) \/ TakeAll(l) \/ TakeNone(l) \/ EndBatch(l)
    <2>1. PICK pc \in {"fetched", "next", "fetch", "idle"} : Moves(l, pc)
      BY <1>4 DEF Fetch, TakeAll, TakeNone, EndBatch, EndPass
    <2>2. UNCHANGED claim /\ \A m \in Lanes : entry'[m] = entry[m]
      BY <1>4 DEF Fetch, TakeAll, TakeNone, EndBatch
    <2>3. pc \notin Sending
      BY DEF Sending
    <2>4. QED BY <1>1, <2>1, <2>2, <2>3, MoveIdles
  <1>5. QED BY <1>2, <1>3, <1>4 DEF TakeFirst, TakeNext

LEMMA ReleaseIdles ==
    ASSUME LedgerInv, TurnInv, ClimbInv, NEW l \in Lanes, Release(l)
    PROVE  LedgerInv'
  <1>1. /\ lane \in [Lanes -> LaneStates] /\ claim \in [Lanes -> EventIds \cup {NoKey}]
        /\ entry = [m \in Lanes |-> entry[m]]
        /\ claim' = [claim EXCEPT ![l] = NoKey] /\ entry' = [entry EXCEPT ![l] = NoRow]
        /\ UNCHANGED <<admission, subject, seen, outbox>> /\ lane[l] = "release"
    BY DEF ClimbInv, ClaimInv, LanesTyped, ClimbShapes, Release, Here, LaneAt
  <1>2. /\ lane'[l] \in {"next", "fetch", "idle"}
        /\ \A m \in Lanes : m # l => lane'[m] = lane[m] \/ (lane[m] = "idle" /\ lane'[m] = "fetch")
    BY <1>1 DEF Release, EndPass, Moves, Main, Anchor, Lanes
  <1>3. \A m \in Lanes : m # l => claim'[m] = claim[m] /\ entry'[m] = entry[m]
    BY <1>1
  <1>4. LaneReads(l)'
    BY <1>2, NotSending DEF Sending
  <1>5. lane[l] \notin Recording
    BY <1>1 DEF Recording
  <1>6. QED BY <1>1, <1>2, <1>3, <1>4, <1>5, LaneIdles

LEMMA BoundaryIdles ==
    ASSUME LedgerInv, TurnInv, ClimbInv, NEW l \in Lanes,
           ReconcileAtBoundary(l) \/ RetireAtBoundary(l) \/ LeaveBoundary(l)
    PROVE  LedgerInv'
  <1>1. LaneClimbs(l) /\ lane[l] \in {"update", "retire", "replace"}
    BY DEF ClimbInv, ReconcileAtBoundary, RetireAtBoundary, LeaveBoundary, LaneAt
  <1>2. UNCHANGED <<admission, subject, seen, claim>>
    BY DEF ReconcileAtBoundary, RetireAtBoundary, LeaveBoundary, Here, laneVars
  <1>3. claim[l].type = "run.update" /\ lane[l] \notin Recording
    BY <1>1 DEF LaneClimbs, Recording
  <1>4. CASE ReconcileAtBoundary(l) \/ LeaveBoundary(l)
    <2>1. PICK pc : Moves(l, pc)
      BY <1>4 DEF ReconcileAtBoundary, LeaveBoundary
    <2>2. UNCHANGED outbox
      BY <1>4 DEF ReconcileAtBoundary, LeaveBoundary
    <2>3. \A m \in Lanes : m # l => entry'[m] = entry[m]
      BY <1>4 DEF ReconcileAtBoundary, LeaveBoundary, ClimbInv, ClimbShapes
    <2>4. QED BY <1>2, <1>3, <2>1, <2>2, <2>3, MoveIdles
  <1>5. CASE RetireAtBoundary(l)
    <2>1. UNCHANGED <<lane, entry>> /\ lane[l] \in {"retire", "replace"}
      BY <1>5 DEF RetireAtBoundary, laneVars
    <2>2. PICK k \in retiring[l] : \E row : outbox' = [outbox EXCEPT ![k] = row]
      BY <1>5 DEF RetireAtBoundary
    <2>3. Covered(l, claim[l].run)
      BY <1>1, <2>1 DEF LaneClimbs
    <2>4. PICK n \in Levels : k = Update(claim[l].run, n)
      BY <2>2, <2>3 DEF Covered, Below
    <2>5. k.type # "run.ended"
      BY <2>4 DEF Update, EventId
    <2>6. LaneReads(l)'
      BY <1>2, <1>3, NotSending
    <2>7. \E j, row : j.type # "run.ended" /\ outbox' = [outbox EXCEPT ![j] = row]
      BY <2>2, <2>5
    <2>8. \A m \in Lanes : lane'[m] = lane[m] /\ claim'[m] = claim[m] /\ entry'[m] = entry[m]
      BY <1>2, <2>1
    <2>9. QED BY <1>2, <1>3, <2>6, <2>7, <2>8, LaneIdles
  <1>6. QED BY <1>4, <1>5

(* What a lane delivers of a start or of an update is nothing of a         *)
(* terminal.                                                               *)
LEMMA OpenIdles ==
    ASSUME LedgerInv, TurnInv, ClimbInv, NEW l \in Lanes, claim[l].type # "run.ended",
           Gate(l) \/ Post(l) \/ Receive(l) \/ Answered(l) \/ Refused(l) \/ Rejected(l)
    PROVE  LedgerInv'
  <1>1. UNCHANGED <<admission, subject, seen, claim, entry>>
    BY DEF Gate, Post, Receive, Answered, Refused, Rejected, Attempting, Here
  <1>2. lane[l] \notin Recording
    BY DEF Gate, Post, Receive, Answered, Refused, Rejected, LaneAt, Recording
  <1>3. \/ outbox' = outbox
        \/ \E row : outbox' = [outbox EXCEPT ![claim[l]] = row]
    BY DEF Gate, Post, Receive, Answered, Refused, Rejected, Give, Puts
  <1>4. \/ outbox' = outbox
        \/ \E k, row : k.type # "run.ended" /\ outbox' = [outbox EXCEPT ![k] = row]
    BY <1>3
  <1>5. PICK pc : Moves(l, pc)
    BY DEF Gate, Post, Receive, Answered, Refused, Rejected, Give
  <1>6. \A m \in Lanes : m # l => entry'[m] = entry[m]
    BY <1>1
  <1>7. QED BY <1>1, <1>2, <1>4, <1>5, <1>6, MoveIdles

(* The lane that holds the lock of a terminal's run reads the row that the *)
(* subject points at: an undelivered row is the last one.                  *)
LEMMA RereadKeeps ==
    ASSUME LedgerInv, TurnInv, ClimbInv, NEW l \in Lanes, Reread(l)
    PROVE  LedgerInv'
  <1>1. /\ UNCHANGED <<admission, subject, seen, claim, outbox>>
        /\ lane[l] = "locked" /\ lane[l] \notin Recording
    BY DEF Reread, Here, LaneAt, Recording
  <1>2. PICK k, row : k = claim[l] /\ row = outbox[k] /\ claim'[l] = k
    BY <1>1
  <1>3. entry = [m \in Lanes |-> entry[m]] /\ lane \in [Lanes -> LaneStates]
    BY DEF ClimbInv, ClimbShapes, ClaimInv, LanesTyped
  <1>4. \A m \in Lanes : m # l => entry'[m] = entry[m]
    BY <1>3 DEF Reread
  <1>5. k \in EventIds
    BY <1>1, <1>2 DEF ClimbInv, ClaimInv, LanesTyped, ClaimHeld, Claimed
  <1>6. CASE k.type # "run.ended" \/ ~StillDue(l)
    <2>1. PICK pc : Moves(l, pc) /\ (k.type = "run.ended" => pc = "release")
      BY <1>2, <1>6 DEF Reread
    <2>2. pc \notin Sending \/ claim[l].type # "run.ended"
      BY <1>2, <2>1 DEF Sending
    <2>3. QED BY <1>1, <1>4, <2>1, <2>2, MoveIdles
  <1>7. CASE k.type = "run.ended" /\ StillDue(l)
    <2>1. /\ Holds(lifecycle[k.run], l) /\ row.state \in DueStates
          /\ Moves(l, "gate") /\ entry' = [entry EXCEPT ![l] = row]
      BY <1>2, <1>7 DEF Reread, StillDue, Due, DueStates
    <2>2. PICK r \in Runs, v \in Versions : k = Ended(r, v) /\ k.run = r /\ k.n = v
      BY <1>5, <1>7, EndedIds
    <2>3. \A a \in Admitters : ~Files(a, r)
      <3>1. \A a \in Admitters : a # l
        BY LanesAreNoCallers
      <3>2. Holds(lifecycle[r], l)
        BY <2>1, <2>2
      <3>3. QED BY <3>1, <3>2, Alone
    <2>4. PICK t \in 0..MaxVersion : StandsAt(r, t)
      BY <2>2 DEF LedgerInv, Stands
    <2>5. subject[r].version = t /\ subject[r].meaning = IF t = 0 THEN 0 ELSE Row(r, t).meaning
      BY <2>3, <2>4 DEF StandsAt
    <2>6. row = Row(r, v) /\ TermRow(row) /\ Queued(row) /\ row.deliveredAt = FALSE
      <3>1. row = Row(r, v) /\ TermRow(row)
        BY <1>2, <2>2, <2>4 DEF Row, StandsAt
      <3>2. QED BY <2>1, <3>1 DEF TermRow, Queued, DueStates
    <2>7. v = t
      <3>1. t \in Nat /\ v \in 1..t
        BY <2>2, <2>4, <2>6, EndedIds DEF StandsAt, Versions
      <3>2. t \in 1..t
        BY <3>1
      <3>3. v < t => Row(r, v).deliveredAt
        BY <2>4, <3>1, <3>2 DEF StandsAt
      <3>4. QED BY <2>6, <3>1, <3>3
    <2>8. t # 0
      BY <2>2, <2>7 DEF Versions
    <2>9. lane'[l] = "gate" /\ entry'[l] = row
      BY <1>3, <2>1 DEF Moves
    <2>10. LaneReads(l)'
      <3>1. /\ k.n = subject'[r].version /\ row.meaning = subject'[r].meaning
            /\ outbox'[k].deliveredAt = FALSE
        BY <1>1, <1>2, <2>2, <2>5, <2>6, <2>7, <2>8
      <3>2. row.state \in DueStates /\ IsRow(row)
        BY <2>1, <2>6 DEF TermRow
      <3>3. QED BY <1>2, <2>2, <2>6, <2>9, <3>1, <3>2 DEF LaneReads, Recording, IsRow
    <2>11. \A m \in Lanes : m # l => lane'[m] = lane[m] /\ claim'[m] = claim[m]
      BY <1>1, <1>3, <2>1 DEF Moves
    <2>12. QED BY <1>1, <1>4, <2>10, <2>11, LaneIdles
  <1>8. QED BY <1>6, <1>7

(* A lane that delivers a terminal delivers the last version of its run.   *)
LEMMA SendsLast ==
    ASSUME LedgerInv, TurnInv, ClimbInv, NEW l \in Lanes, Sends(l)
    PROVE  \E r \in Runs, t \in Versions :
              /\ claim[l] = Ended(r, t) /\ claim[l] # NoKey /\ StandsAt(r, t)
              /\ Holds(lifecycle[r], l)
              /\ subject[r].version = t /\ subject[r].meaning = Row(r, t).meaning
              /\ entry[l].meaning = Row(r, t).meaning
              /\ \A a \in Admitters : ~Files(a, r)
  <1>1. claim[l] \in EventIds
    BY DEF ClimbInv, ClaimInv, LanesTyped, ClaimHeld, Sends, Sending, Claimed
  <1>2. PICK r \in Runs, v \in Versions : claim[l] = Ended(r, v) /\ claim[l].run = r /\ claim[l].n = v
    BY <1>1, EndedIds DEF Sends
  <1>3. Holds(lifecycle[r], l)
    BY <1>2 DEF TurnInv, LaneTurn
  <1>4. \A a \in Admitters : ~Files(a, r)
    BY <1>3, LanesAreNoCallers, Alone
  <1>5. PICK t \in 0..MaxVersion : StandsAt(r, t)
    BY DEF LedgerInv, Stands
  <1>6. subject[r].version = t /\ subject[r].meaning = IF t = 0 THEN 0 ELSE Row(r, t).meaning
    BY <1>4, <1>5 DEF StandsAt
  <1>7. v = t /\ entry[l].meaning = subject[r].meaning
    BY <1>2, <1>6 DEF LedgerInv, LaneReads
  <1>8. t # 0
    BY <1>2, <1>7 DEF Versions
  <1>9. claim[l] # NoKey
    BY <1>1, DispatchAssumption
  <1>10. QED BY <1>2, <1>3, <1>4, <1>5, <1>6, <1>7, <1>8, <1>9

LEMMA LaneMoves ==
    ASSUME ClimbInv, NEW l \in Lanes, NEW pc, Moves(l, pc)
    PROVE  lane'[l] = pc /\ \A m \in Lanes : m # l => lane'[m] = lane[m]
  BY DEF Moves, ClimbInv, ClaimInv, LanesTyped

(* Nothing of the terminal changes yet.                                    *)
LEMMA OnwardKeeps ==
    ASSUME LedgerInv, TurnInv, ClimbInv, NEW l \in Lanes, claim[l].type = "run.ended",
           \/ Post(l) \/ Receive(l) \/ (Gate(l) /\ UNCHANGED outbox)
    PROVE  LedgerInv'
  <1>1. UNCHANGED <<admission, subject, seen, claim, entry, outbox>>
    BY DEF Gate, Post, Receive, Attempting, Here
  <1>2. Sends(l) /\ lane[l] \notin Recording
    BY DEF Sends, Sending, Recording, Gate, Post, Receive, LaneAt
  <1>3. PICK pc \in {"release", "attempted", "post", "received"} : Moves(l, pc)
    BY DEF Gate, Post, Receive, Give
  <1>4. pc \notin Recording /\ lane'[l] = pc /\ \A m \in Lanes : m # l => lane'[m] = lane[m]
    BY <1>3, LaneMoves DEF Recording
  <1>5. LaneReads(l)'
    <2>1. LaneReads(l)
      BY DEF LedgerInv
    <2>2. pc # "write"
      BY <1>4 DEF Recording
    <2>3. QED BY <1>1, <1>2, <1>4, <2>1, <2>2 DEF LaneReads, IsRow
  <1>6. \A m \in Lanes : m # l =>
            lane'[m] = lane[m] /\ claim'[m] = claim[m] /\ entry'[m] = entry[m]
    BY <1>1, <1>4
  <1>7. QED BY <1>1, <1>2, <1>5, <1>6, LaneIdles

(* The row of an attempt that is not made, or that has failed, says what   *)
(* it said.                                                                *)
LEMMA AttemptRows ==
    ASSUME LedgerInv, TurnInv, ClimbInv, NEW l \in Lanes, Sends(l), lane[l] \notin Recording,
           UNCHANGED subject,
           NEW row, TermRow(row), Queued(row), ~row.deliveredAt, row.meaning = entry[l].meaning,
           Puts(l, row)
    PROVE  \A s \in Runs : SameVersions(s)
  <1>1. PICK r \in Runs, t \in Versions :
           /\ claim[l] = Ended(r, t) /\ StandsAt(r, t)
           /\ subject[r].version = t /\ subject[r].meaning = Row(r, t).meaning
           /\ entry[l].meaning = Row(r, t).meaning
    BY SendsLast
  <1>2. outbox' = [outbox EXCEPT ![Ended(r, t)] = row]
    BY <1>1 DEF Puts
  <1>3. /\ outbox'[Ended(r, t)] = row
        /\ \A v \in Versions : v # t => outbox'[Ended(r, v)] = outbox[Ended(r, v)]
        /\ \A s \in Runs, v \in Versions : TermRow(Row(s, v))'
        /\ \A s \in Runs : s # r => SameVersions(s)
    <2>1. /\ outbox'[Ended(r, t)] = row
          /\ \A s \in Runs, v \in Versions :
                s # r \/ v # t => outbox'[Ended(s, v)] = outbox[Ended(s, v)]
          /\ \A s \in Runs, v \in Versions : TermRow(Row(s, v))'
          /\ UNCHANGED subject => \A s \in Runs : s # r => SameVersions(s)
      BY <1>2, OneVersion
    <2>2. QED BY <2>1
  <1>4. LaneReads(l)
    BY DEF LedgerInv
  <1>5. /\ outbox[Ended(r, t)].deliveredAt = FALSE /\ Queued(outbox[Ended(r, t)])
        /\ row.deliveredAt = FALSE /\ row.meaning = outbox[Ended(r, t)].meaning
    <2>1. TermRow(Row(r, t)) /\ Queued(Row(r, t))
      BY <1>1, EndedIds DEF StandsAt, Versions
    <2>2. ~outbox[Ended(r, t)].deliveredAt
      BY <1>1, <1>4 DEF LaneReads
    <2>3. QED BY <1>1, <2>1, <2>2 DEF TermRow, Row
  <1>6. SameVersions(r)
    <2>1. ASSUME NEW v \in Versions
          PROVE  /\ TermRow(Row(r, v))' /\ (Queued(Row(r, v))' <=> Queued(Row(r, v)))
                 /\ outbox'[Ended(r, v)].meaning = outbox[Ended(r, v)].meaning
                 /\ outbox'[Ended(r, v)].deliveredAt = outbox[Ended(r, v)].deliveredAt
      <3>1. CASE v = t
        BY <1>3, <1>5, <3>1 DEF Row, Queued
      <3>2. CASE v # t
        BY <1>3, <3>2 DEF Row, Queued
      <3>3. QED BY <3>1, <3>2
    <2>2. QED BY <2>1 DEF SameVersions
  <1>7. QED BY <1>3, <1>6

LEMMA AttemptKeeps ==
    ASSUME LedgerInv, TurnInv, ClimbInv, NEW l \in Lanes, Sends(l), lane[l] \notin Recording,
           UNCHANGED <<admission, subject, seen, claim, entry>>,
           NEW row, TermRow(row), Queued(row), ~row.deliveredAt, row.meaning = entry[l].meaning,
           Puts(l, row), NEW pc, Moves(l, pc), pc \in {"release", "attempted"}
    PROVE  LedgerInv'
  <1>1. \A s \in Runs : SameVersions(s)
    BY AttemptRows
  <1>2. lane'[l] = pc /\ \A m \in Lanes : m # l => lane'[m] = lane[m]
    BY LaneMoves
  <1>3. LaneReads(l)'
    <2>1. outbox'[claim[l]].deliveredAt = FALSE
      <3>1. PICK r \in Runs, t \in Versions : claim[l] = Ended(r, t)
        BY SendsLast
      <3>2. outbox'[claim[l]] = row
        BY <3>1, EndedIds DEF Puts, ClimbInv, ClimbShapes
      <3>3. QED BY <3>2 DEF TermRow
    <2>2. LaneReads(l)
      BY DEF LedgerInv
    <2>3. QED BY <1>2, <2>1, <2>2 DEF LaneReads, Recording, IsRow
  <1>4. \A m \in Lanes :
            \/ lane'[m] = lane[m] /\ claim'[m] = claim[m] /\ entry'[m] = entry[m]
            \/ LaneReads(m)' /\ lane[m] \notin Recording
    BY <1>2, <1>3
  <1>5. \A a \in Admitters : admission'[a] = admission[a]
    OBVIOUS
  <1>6. QED BY <1>1, <1>4, <1>5, LedgerIdle

LEMMA GateRow ==
    ASSUME LedgerInv, TurnInv, ClimbInv, NEW l \in Lanes, claim[l].type = "run.ended",
           Gate(l) \/ Refused(l) \/ Rejected(l), ~(Gate(l) /\ UNCHANGED outbox)
    PROVE  \E row, pc :
              /\ TermRow(row) /\ Queued(row) /\ ~row.deliveredAt
              /\ row.meaning = entry[l].meaning
              /\ Puts(l, row) /\ Moves(l, pc) /\ pc \in {"release", "attempted"}
  <1>1. Sends(l) /\ lane[l] \notin Recording
    BY DEF Sends, Sending, Recording, Gate, Refused, Rejected, LaneAt
  <1>2. PICK old : old = entry[l] /\ IsRow(old) /\ old.state \in DueStates /\ old.deliveredAt = FALSE
    BY <1>1 DEF LedgerInv, LaneReads
  <1>3. ~Closed(claim[l])
    BY DEF Closed
  <1>4. PICK blocked, pending, retry :
           /\ blocked = [old EXCEPT !.state = "blocked", !.waits = FALSE]
           /\ pending = [old EXCEPT !.state = "pending", !.waits = TRUE]
           /\ retry = [old EXCEPT !.state = "retry", !.waits = TRUE]
    OBVIOUS
  <1>5. PICK row \in {old, blocked, pending, retry}, pc \in {"release", "attempted"} :
           Puts(l, row) /\ Moves(l, pc)
    <2>1. CASE Gate(l)
      BY <1>2, <1>3, <1>4, <2>1 DEF Gate, Give
    <2>2. CASE Refused(l)
      BY <1>2, <1>4, <2>2 DEF Refused, Give
    <2>3. CASE Rejected(l)
      BY <1>2, <1>4, <2>3 DEF Rejected, Give
    <2>4. QED BY <2>1, <2>2, <2>3
  <1>6. TermRow(row) /\ Queued(row) /\ ~row.deliveredAt /\ row.meaning = old.meaning
    <2>1. CASE row = old
      BY <1>2, <2>1 DEF TermRow, Queued, DueStates, DeliveryStates
    <2>2. CASE row \in {blocked, pending, retry}
      BY <1>2, <1>4, <2>2 DEF TermRow, IsRow, Queued, DeliveryStates
    <2>3. QED BY <1>5, <2>1, <2>2
  <1>7. QED BY <1>2, <1>5, <1>6

LEMMA GateKeeps ==
    ASSUME LedgerInv, TurnInv, ClimbInv, NEW l \in Lanes, claim[l].type = "run.ended",
           Gate(l) \/ Refused(l) \/ Rejected(l)
    PROVE  LedgerInv'
  <1>1. UNCHANGED <<admission, subject, seen, claim, entry>>
    BY DEF Gate, Refused, Rejected, Attempting, Here
  <1>2. Sends(l) /\ lane[l] \notin Recording
    BY DEF Sends, Sending, Recording, Gate, Refused, Rejected, LaneAt
  <1>3. CASE Gate(l) /\ UNCHANGED outbox
    BY <1>3, OnwardKeeps
  <1>4. CASE ~(Gate(l) /\ UNCHANGED outbox)
    <2>1. PICK row, pc :
             /\ TermRow(row) /\ Queued(row) /\ ~row.deliveredAt
             /\ row.meaning = entry[l].meaning
             /\ Puts(l, row) /\ Moves(l, pc) /\ pc \in {"release", "attempted"}
      BY <1>4, GateRow
    <2>2. QED BY <1>1, <1>2, <2>1, AttemptKeeps
  <1>5. QED BY <1>3, <1>4

(* The receiver has answered: the last version of the run is delivered.    *)
LEMMA AnsweredKeeps ==
    ASSUME LedgerInv, TurnInv, ClimbInv, NEW l \in Lanes, claim[l].type = "run.ended", Answered(l)
    PROVE  LedgerInv'
  <1>1. /\ UNCHANGED <<admission, subject, seen, claim, entry>>
        /\ lane[l] = "received" /\ Moves(l, "record")
    BY DEF Answered, Attempting, Here, LaneAt
  <1>2. Sends(l) /\ lane[l] \notin Recording
    BY <1>1 DEF Sends, Sending, Recording
  <1>3. PICK r \in Runs, t \in Versions :
           /\ claim[l] = Ended(r, t) /\ claim[l] # NoKey /\ StandsAt(r, t) /\ Holds(lifecycle[r], l)
           /\ subject[r].version = t /\ subject[r].meaning = Row(r, t).meaning
           /\ entry[l].meaning = Row(r, t).meaning
           /\ \A a \in Admitters : ~Files(a, r)
    BY <1>2, SendsLast
  <1>4. PICK old : old = entry[l] /\ IsRow(old)
    BY <1>2 DEF LedgerInv, LaneReads
  <1>5. PICK row : row = [old EXCEPT !.state = "delivered", !.waits = FALSE,
                                     !.deliveredAt = TRUE, !.superseded = FALSE]
    OBVIOUS
  <1>6. TermRow(row) /\ Queued(row) /\ row.deliveredAt = TRUE /\ row.meaning = old.meaning
    BY <1>4, <1>5 DEF TermRow, IsRow, Queued, DeliveryStates
  <1>7. outbox' = [outbox EXCEPT ![Ended(r, t)] = row]
    BY <1>3, <1>4, <1>5 DEF Answered, Puts
  <1>8. /\ Row(r, t)' = row
        /\ \A v \in Versions : v # t => Row(r, v)' = Row(r, v)
        /\ \A s \in Runs, v \in Versions : TermRow(Row(s, v))'
        /\ \A s \in Runs : s # r => SameVersions(s)
    <2>1. /\ outbox'[Ended(r, t)] = row
          /\ \A s \in Runs, v \in Versions :
                s # r \/ v # t => outbox'[Ended(s, v)] = outbox[Ended(s, v)]
          /\ \A s \in Runs, v \in Versions : TermRow(Row(s, v))'
          /\ UNCHANGED subject => \A s \in Runs : s # r => SameVersions(s)
      BY <1>6, <1>7, OneVersion
    <2>2. QED BY <1>1, <2>1 DEF Row
  <1>9. row.meaning = Row(r, t).meaning
    BY <1>3, <1>4, <1>6
  <1>10. \A v \in 1..t : v \in Versions
    BY EndedIds DEF Versions
  <1>11. \A v \in Versions : Row(r, v)'.meaning = Row(r, v).meaning
    BY <1>8, <1>9
  <1>12. StandsAt(r, t)'
    <2>1. \A v \in Versions : TermRow(Row(r, v))' /\ (Queued(Row(r, v))' <=> v <= t)
      <3>1. TAKE v \in Versions
      <3>2. CASE v = t
        <4>1. Queued(Row(r, t))' /\ t <= t
          BY <1>6, <1>8, EndedIds DEF Queued, Versions
        <4>2. QED BY <1>8, <3>2, <4>1
      <3>3. CASE v # t
        BY <1>3, <1>8, <3>3 DEF StandsAt, Queued
      <3>4. QED BY <3>2, <3>3
    <2>2. \A v \in 1..t : Row(r, v)'.meaning \in v..MaxMeaning
      BY <1>3, <1>10, <1>11 DEF StandsAt
    <2>3. \A v, w \in 1..t : v < w => Row(r, v)'.deliveredAt /\ Row(r, v)'.meaning < Row(r, w)'.meaning
      <3>1. TAKE v, w \in 1..t
      <3>2. HAVE v < w
      <3>3. v # t
        BY <3>2, EndedIds DEF Versions
      <3>4. Row(r, v).deliveredAt /\ Row(r, v).meaning < Row(r, w).meaning
        BY <1>3, <3>2 DEF StandsAt
      <3>5. QED BY <1>8, <1>10, <1>11, <3>3, <3>4
    <2>4. /\ subject'[r].version \in 0..t /\ subject'[r].version = t
          /\ subject'[r].meaning = IF t = 0 THEN 0 ELSE Row(r, t)'.meaning
      <3>1. t # 0 /\ t \in 0..t
        BY EndedIds DEF Versions
      <3>2. QED BY <1>1, <1>3, <1>11, <3>1
    <2>5. \A a \in Admitters : ~Files(a, r)'
      BY <1>1, <1>3 DEF Files
    <2>6. QED BY <2>1, <2>2, <2>3, <2>4, <2>5 DEF StandsAt
  <1>13. lane'[l] = "record" /\ \A m \in Lanes : m # l => lane'[m] = lane[m]
    BY <1>1, LaneMoves
  <1>14. claim[l].run = r
    BY <1>3, EndedIds
  <1>15. Told(r)'
    <2>1. Records(r)'
      BY <1>1, <1>13, <1>14 DEF Records, Recording
    <2>2. QED BY <2>1 DEF Told
  <1>16. LaneReads(l)'
    <2>1. LaneReads(l)
      BY DEF LedgerInv
    <2>2. outbox'[claim[l]].deliveredAt = TRUE
      BY <1>3, <1>6, <1>8 DEF Row
    <2>3. QED BY <1>1, <1>2, <1>13, <2>1, <2>2 DEF LaneReads, Recording
  <1>17. Stands(r)'
    <2>1. t \in 0..MaxVersion
      BY EndedIds DEF Versions
    <2>2. QED BY <1>12, <2>1 DEF Stands
  <1>18. subject' = [s \in Runs |-> subject'[s]] /\ seen' = [m \in Lanes |-> seen'[m]]
    BY <1>1 DEF LedgerInv
  <1>19. QED BY <1>1, <1>3, <1>8, <1>13, <1>14, <1>15, <1>16, <1>17, <1>18, LaneActs

LEMMA ReadRecordKeeps ==
    ASSUME LedgerInv, TurnInv, ClimbInv, NEW l \in Lanes, ReadRecord(l)
    PROVE  LedgerInv'
  <1>1. /\ UNCHANGED <<admission, subject, claim, entry, outbox>>
        /\ lane[l] = "record" /\ Moves(l, "write")
        /\ seen' = [seen EXCEPT ![l] = subject[claim[l].run]]
    BY DEF ReadRecord, Here, LaneAt
  <1>2. Sends(l) /\ claim[l].type = "run.ended" /\ lane[l] \in Recording
    BY <1>1 DEF TurnInv, LaneTurn, Sends, Sending, Recording
  <1>3. PICK r \in Runs, t \in Versions :
           /\ claim[l] = Ended(r, t) /\ claim[l] # NoKey /\ StandsAt(r, t) /\ Holds(lifecycle[r], l)
    BY <1>2, SendsLast
  <1>4. claim[l].run = r
    BY <1>3, EndedIds
  <1>5. lane'[l] = "write" /\ \A m \in Lanes : m # l => lane'[m] = lane[m]
    BY <1>1, LaneMoves
  <1>6. seen = [m \in Lanes |-> seen[m]]
    BY DEF LedgerInv
  <1>7. /\ seen' = [m \in Lanes |-> seen'[m]] /\ seen'[l] = subject[r]
        /\ \A m \in Lanes : m # l => seen'[m] = seen[m]
    BY <1>1, <1>4, <1>6
  <1>8. \A s \in Runs : SameVersions(s)
    BY <1>1, RowsKept
  <1>9. Stands(r)' /\ Told(r)'
    <2>1. \A a \in Admitters : Files(a, r)' <=> Files(a, r)
      BY <1>1 DEF Files
    <2>2. \A a \in Admitters : Files(a, r) =>
             admission'[a].k = admission[a].k /\ admission'[a].n = admission[a].n
      BY <1>1
    <2>3. Records(r)'
      BY <1>1, <1>4, <1>5 DEF Records, Recording
    <2>4. Stands(r) /\ Told(r)
      BY DEF LedgerInv
    <2>5. QED BY <1>8, <2>1, <2>2, <2>3, <2>4, StandsKept
  <1>10. LaneReads(l)'
    <2>1. LaneReads(l)
      BY DEF LedgerInv
    <2>2. QED BY <1>1, <1>2, <1>4, <1>5, <1>7, <2>1 DEF LaneReads, Recording
  <1>11. subject' = [s \in Runs |-> subject'[s]]
    BY <1>1 DEF LedgerInv
  <1>12. \A m \in Lanes : m # l =>
            lane'[m] = lane[m] /\ entry'[m] = entry[m] /\ seen'[m] = seen[m]
    BY <1>1, <1>5, <1>7
  <1>13. QED BY <1>1, <1>2, <1>3, <1>4, <1>7, <1>8, <1>9, <1>10, <1>11, <1>12, LaneActs

LEMMA WriteRecordKeeps ==
    ASSUME LedgerInv, TurnInv, ClimbInv, NEW l \in Lanes, WriteRecord(l)
    PROVE  LedgerInv'
  <1>1. /\ UNCHANGED <<admission, claim, entry, outbox>>
        /\ lane[l] = "write" /\ Moves(l, "release")
        /\ seen' = [seen EXCEPT ![l] = NoSubject]
    BY DEF WriteRecord, Here, LaneAt
  <1>2. Sends(l) /\ claim[l].type = "run.ended" /\ lane[l] \in Recording
    BY <1>1 DEF TurnInv, LaneTurn, Sends, Sending, Recording
  <1>3. PICK r \in Runs, t \in Versions :
           /\ claim[l] = Ended(r, t) /\ claim[l] # NoKey /\ StandsAt(r, t) /\ Holds(lifecycle[r], l)
           /\ subject[r].version = t /\ subject[r].meaning = Row(r, t).meaning
           /\ entry[l].meaning = Row(r, t).meaning
           /\ \A a \in Admitters : ~Files(a, r)
    BY <1>2, SendsLast
  <1>4. claim[l].run = r /\ claim[l].n = t /\ t \in Nat /\ t # 0 /\ t \in 0..MaxVersion
    BY <1>3, EndedIds DEF Versions
  <1>5. lane'[l] = "release" /\ \A m \in Lanes : m # l => lane'[m] = lane[m]
    BY <1>1, LaneMoves
  <1>6. /\ seen = [m \in Lanes |-> seen[m]] /\ subject = [s \in Runs |-> subject[s]]
        /\ LaneReads(l)
    BY DEF LedgerInv
  <1>7. seen[l] = subject[r]
    BY <1>1, <1>2, <1>4, <1>6 DEF LaneReads
  <1>8. PICK sub : sub = [meaning |-> entry[l].meaning, version |-> t, deliveredAt |-> TRUE]
    OBVIOUS
  <1>9. subject' = [subject EXCEPT ![r] = sub]
    <2>1. Recorded(seen[l], claim[l], entry[l]) = sub
      BY <1>3, <1>4, <1>7, <1>8 DEF Recorded
    <2>2. QED BY <1>4, <2>1 DEF WriteRecord
  <1>10. /\ subject'[r] = sub /\ subject' = [s \in Runs |-> subject'[s]]
         /\ \A s \in Runs : s # r => subject'[s] = subject[s]
         /\ seen' = [m \in Lanes |-> seen'[m]]
         /\ \A m \in Lanes : m # l => seen'[m] = seen[m]
    BY <1>1, <1>6, <1>9
  <1>11. \A s \in Runs : s # r => SameVersions(s)
    <2>1. \A s \in Runs, v \in Versions : TermRow(Row(s, v))
      BY DEF LedgerInv, Stands, StandsAt
    <2>2. QED BY <1>1, <1>10, <2>1 DEF SameVersions, Row, TermRow, IsRow, Queued
  <1>12. \A v : Row(r, v)' = Row(r, v)
    BY <1>1 DEF Row
  <1>13. StandsAt(r, t)'
    <2>1. \A v \in Versions : TermRow(Row(r, v))' /\ (Queued(Row(r, v))' <=> v <= t)
      BY <1>3, <1>12 DEF StandsAt, TermRow, IsRow, Queued
    <2>2. /\ \A v \in 1..t : Row(r, v)'.meaning \in v..MaxMeaning
          /\ \A v, w \in 1..t :
                v < w => Row(r, v)'.deliveredAt /\ Row(r, v)'.meaning < Row(r, w)'.meaning
      BY <1>3, <1>12 DEF StandsAt
    <2>3. /\ subject'[r].version = t /\ subject'[r].version \in 0..t
          /\ subject'[r].meaning = IF t = 0 THEN 0 ELSE Row(r, t)'.meaning
      BY <1>3, <1>4, <1>8, <1>10, <1>12
    <2>4. \A a \in Admitters : ~Files(a, r)'
      BY <1>1, <1>3 DEF Files
    <2>5. QED BY <2>1, <2>2, <2>3, <2>4 DEF StandsAt
  <1>14. Told(r)'
    BY <1>8, <1>10 DEF Told
  <1>15. Stands(r)'
    BY <1>4, <1>13 DEF Stands
  <1>16. LaneReads(l)'
    BY <1>5, NotSending DEF Sending
  <1>17. \A m \in Lanes : m # l =>
            lane'[m] = lane[m] /\ entry'[m] = entry[m] /\ seen'[m] = seen[m]
    BY <1>1, <1>5, <1>10
  <1>18. QED BY <1>1, <1>2, <1>3, <1>4, <1>10, <1>11, <1>14, <1>15, <1>16, <1>17, LaneActs

LEMMA QuietKeeps ==
    ASSUME LedgerInv, TurnInv, ClimbInv,
           \/ \E a \in Admitters : Kick(a)
           \/ TimerFires \/ Clock \/ StartDispatch \/ (Operator /\ ~Crash) \/ UNCHANGED vars
    PROVE  LedgerInv'
  <1>1. /\ UNCHANGED <<claim, entry, seen, subject>>
        /\ \/ UNCHANGED admission
           \/ \E a \in Admitters :
                 admission[a].pc = "kick" /\ admission' = [admission EXCEPT ![a] = AtRest]
        /\ \A l \in Lanes : lane'[l] = lane[l] \/ (lane[l] = "idle" /\ lane'[l] = "fetch")
        /\ UNCHANGED outbox \/ \E k \in EventIds : outbox' = [outbox EXCEPT ![k].waits = FALSE]
    BY QuietSteps
  <1>2. \A r \in Runs : SameVersions(r)
    BY <1>1, RowsKept
  <1>3. ASSUME NEW a \in Admitters
        PROVE  \/ admission'[a] = admission[a]
               \/ CallerReads(a)' /\ admission[a].pc # "subject" /\ admission'[a].pc # "subject"
    <2>1. CASE admission'[a] = admission[a]
      BY <2>1
    <2>2. CASE admission'[a] # admission[a]
      <3>1. admission[a].pc = "kick" /\ admission'[a] = AtRest
        BY <1>1, <2>2 DEF ClimbInv, ClimbShapes
      <3>2. admission'[a].pc = "idle"
        BY <3>1 DEF AtRest
      <3>3. QED BY <3>1, <3>2, RestsReads
    <2>3. QED BY <2>1, <2>2
  <1>4. ASSUME NEW l \in Lanes
        PROVE  \/ lane'[l] = lane[l] /\ claim'[l] = claim[l] /\ entry'[l] = entry[l]
               \/ LaneReads(l)' /\ lane[l] \notin Recording
    <2>1. lane[l] = "idle" /\ lane'[l] = "fetch" => LaneReads(l)' /\ lane[l] \notin Recording
      BY NotSending DEF Sending, Recording
    <2>2. QED BY <1>1, <2>1
  <1>5. QED BY <1>1, <1>2, <1>3, <1>4, LedgerIdle

LEMMA LedgerInit == Init => LedgerInv
  <1> SUFFICES ASSUME Init PROVE LedgerInv
    OBVIOUS
  <1>1. \A r \in Runs, v \in Versions :
           /\ IsRow(Row(r, v)) /\ Row(r, v).state = "absent" /\ Row(r, v).deliveredAt = FALSE
    <2>1. TAKE r \in Runs, v \in Versions
    <2>2. Ended(r, v) \in EventIds /\ Ended(r, v) \notin {Start(s) : s \in Started}
      <3>1. Ended(r, v) \in EventIds /\ Ended(r, v).type = "run.ended"
        BY EndedIds
      <3>2. \A s : Start(s).type # "run.ended"
        BY DEF Start, EventId
      <3>3. QED BY <3>1, <3>2
    <2>3. Row(r, v) = NoRow
      BY <2>2 DEF Init, Row
    <2>4. QED BY <2>3 DEF NoRow, IsRow
  <1>2. ASSUME NEW r \in Runs PROVE Stands(r) /\ Told(r)
    <2>1. subject[r].version = 0 /\ subject[r].meaning = 0
      BY DEF Init, NoSubject
    <2>2. \A a \in Admitters : ~Files(a, r)
      BY DEF Init, AtRest, Files
    <2>3. \A v \in Versions : TermRow(Row(r, v)) /\ ~Queued(Row(r, v)) /\ ~(v <= 0)
      <3>1. TAKE v \in Versions
      <3>2. ~(v <= 0)
        BY DEF Versions
      <3>3. TermRow(Row(r, v)) /\ ~Queued(Row(r, v))
        BY <1>1 DEF TermRow, Queued, DeliveryStates
      <3>4. QED BY <3>2, <3>3
    <2>4. StandsAt(r, 0)
      BY <2>1, <2>2, <2>3 DEF StandsAt
    <2>5. 0 \in 0..MaxVersion
      BY EndedIds
    <2>6. Told(r)
      BY <1>1 DEF Told
    <2>7. QED BY <2>4, <2>5, <2>6 DEF Stands
  <1>3. \A a \in Admitters : CallerReads(a)
    BY DEF Init, AtRest, CallerReads
  <1>4. \A l \in Lanes : LaneReads(l)
    BY DEF Init, LaneReads, Sends, Sending
  <1>5. subject = [r \in Runs |-> subject[r]] /\ seen = [l \in Lanes |-> seen[l]]
    BY DEF Init
  <1>6. QED BY <1>2, <1>3, <1>4, <1>5 DEF LedgerInv

LEMMA LedgerNext ==
    ASSUME LedgerInv, TurnInv, ClimbInv, "crash" \notin Faults, MaxMeaning <= MaxVersion,
           [Next]_vars
    PROVE  LedgerInv'
  <1>1. ASSUME \/ \E a \in Admitters : Kick(a)
               \/ TimerFires \/ Clock \/ StartDispatch \/ (Operator /\ ~Crash) \/ UNCHANGED vars
        PROVE  LedgerInv'
    BY <1>1, QuietKeeps
  <1>2. ASSUME NEW a \in Admitters, Admit(a) \/ Advance(a) PROVE LedgerInv'
    <2>1. CASE Admit(a)
      BY <2>1, AdmitIdles
    <2>2. CASE Kick(a)
      BY <1>1, <2>2
    <2>3. CASE Upsert(a)
      BY <2>3, UpsertKeeps
    <2>4. CASE WriteSubject(a)
      BY <2>4, WriteSubjectKeeps
    <2>5. CASE Retire(a)
      BY <2>5, RetireIdles
    <2>6. CASE \/ EnterLifecycle(a) \/ ReadSubject(a) \/ ReadStateEntry(a) \/ ReadExisting(a)
               \/ BeginUpdate(a) \/ Reconcile(a) \/ Retired(a)
      BY <2>6, CallerIdleSteps
    <2>7. QED BY <1>2, <2>1, <2>2, <2>3, <2>4, <2>5, <2>6 DEF Advance
  <1>3. ASSUME NEW l \in Lanes, Deliver(l) \/ Receive(l) \/ Refused(l) \/ Rejected(l)
        PROVE  LedgerInv'
    <2>1. CASE \/ Fetch(l) \/ TakeFirst(l) \/ TakeAll(l) \/ TakeNone(l) \/ TakeNext(l) \/ EndBatch(l)
      BY <2>1, PassIdles
    <2>2. CASE Reread(l)
      BY <2>2, RereadKeeps
    <2>3. CASE ReconcileAtBoundary(l) \/ RetireAtBoundary(l) \/ LeaveBoundary(l)
      BY <2>3, BoundaryIdles
    <2>4. CASE Gate(l) \/ Post(l) \/ Receive(l) \/ Answered(l) \/ Refused(l) \/ Rejected(l)
      <3>1. CASE claim[l].type # "run.ended"
        BY <2>4, <3>1, OpenIdles
      <3>2. CASE claim[l].type = "run.ended"
        BY <2>4, <3>2, OnwardKeeps, GateKeeps, AnsweredKeeps
      <3>3. QED BY <3>1, <3>2
    <2>5. CASE ReadRecord(l)
      BY <2>5, ReadRecordKeeps
    <2>6. CASE WriteRecord(l)
      BY <2>6, WriteRecordKeeps
    <2>7. CASE Release(l)
      BY <2>7, ReleaseIdles
    <2>8. QED BY <1>3, <2>1, <2>2, <2>3, <2>4, <2>5, <2>6, <2>7 DEF Deliver
  <1>4. CASE Next
    <2>1. ~Crash
      BY DEF Crash
    <2>2. QED BY <1>1, <1>2, <1>3, <1>4, <2>1 DEF Next
  <1>5. CASE UNCHANGED vars
    BY <1>1, <1>5
  <1>6. QED BY <1>4, <1>5

(* While the process lives, the rows of the terminals of a run are a       *)
(* ledger of versions that its subject points into, whatever the receiver  *)
(* answers and whenever the agent stops (queueRunEndedEventUnlocked,       *)
(* deliverUnlocked, recordRunEndedSubject).                                *)
THEOREM LedgerHolds ==
    ASSUME "crash" \notin Faults, MaxMeaning <= MaxVersion
    PROVE  Spec /\ [][Orderly]_vars => []LedgerInv
  <1>1. LedgerInv /\ TurnInv /\ ClimbInv /\ [Next]_vars => LedgerInv'
    BY LedgerNext
  <1>2. QED BY <1>1, LedgerInit, TurnsAreTaken, ClimbHolds, PTL DEF Spec

(* Between writes, the subject says what the row it points at says: its    *)
(* meaning, and that it is delivered (queueRunEndedEventUnlocked,          *)
(* recordRunEndedSubject).  Every version says more than the one before,   *)
(* so as many versions as meanings leave MaxVersion no run to cut short.   *)
THEOREM SubjectAlwaysMatches ==
    ASSUME "crash" \notin Faults, MaxMeaning <= MaxVersion
    PROVE  Spec /\ [][Orderly]_vars => []SubjectMatchesRow
  <1>1. LedgerInv /\ TurnInv => SubjectMatchesRow
    <2> SUFFICES ASSUME LedgerInv, TurnInv, NEW r \in Runs, Settled(r), subject[r].version > 0
                 PROVE  LET row == outbox[Ended(r, subject[r].version)] IN
                        /\ Queued(row)
                        /\ row.meaning = subject[r].meaning
                        /\ row.deliveredAt => subject[r].deliveredAt
      BY DEF SubjectMatchesRow
    <2>1. (\A a \in Admitters : ~Files(a, r)) /\ ~Records(r)
      BY DEF Settled, At, Files, Records, Recording
    <2>2. PICK t \in 0..MaxVersion : StandsAt(r, t)
      BY DEF LedgerInv, Stands
    <2>3. /\ subject[r].version = t /\ t # 0
          /\ subject[r].meaning = Row(r, t).meaning
      BY <2>1, <2>2 DEF StandsAt
    <2>4. t \in Versions /\ t <= t
      BY <2>3, EndedIds DEF Versions
    <2>5. Queued(Row(r, t))
      BY <2>2, <2>4 DEF StandsAt
    <2>6. Row(r, t).deliveredAt => subject[r].deliveredAt
      BY <2>1, <2>4 DEF LedgerInv, Told
    <2>7. QED BY <2>3, <2>5, <2>6 DEF Row
  <1>2. QED BY <1>1, LedgerHolds, TurnsAreTaken, PTL

-----------------------------------------------------------------------------
(* What the receiver took of a terminal is what its row says, and the row  *)
(* is delivered or its lane is about to say so.                            *)
TakenOnce ==
    \A p \in received : p[1].type = "run.ended" =>
        /\ p[2] = outbox[p[1]].meaning
        /\ outbox[p[1]].deliveredAt \/ \E l \in Lanes : lane[l] = "received" /\ claim[l] = p[1]

NoMore(l) ==
    lane[l] \in {"attempted", "post"} /\ claim[l].type # "run.ended" =>
        \A p \in received : p[1].type = "run.ended" => p[1].run # claim[l].run

TakenInv == TakenOnce /\ \A l \in Lanes : NoMore(l)

-----------------------------------------------------------------------------
LEMMA TakenFrame ==
    ASSUME ClimbInv, TakenInv, UNCHANGED received,
           \A k \in EventIds : k.type = "run.ended" =>
              \/ /\ outbox'[k].meaning = outbox[k].meaning
                 /\ outbox[k].deliveredAt => outbox'[k].deliveredAt
              \/ \A p \in received : p[1] # k,
           \A l \in Lanes : lane[l] = "received" /\ claim[l].type = "run.ended" =>
              \/ lane'[l] = "received" /\ claim'[l] = claim[l]
              \/ outbox'[claim[l]].deliveredAt,
           \A l \in Lanes : NoMore(l)' \/ (lane'[l] = lane[l] /\ claim'[l] = claim[l])
    PROVE  TakenInv'
  <1>1. ASSUME NEW p \in received, p[1].type = "run.ended"
        PROVE  /\ p[2] = outbox'[p[1]].meaning
               /\ outbox'[p[1]].deliveredAt \/ \E l \in Lanes : lane'[l] = "received" /\ claim'[l] = p[1]
    <2>1. p[1] \in EventIds
      BY DEF ClimbInv, KnownIsQueued
    <2>2. /\ outbox'[p[1]].meaning = outbox[p[1]].meaning
          /\ outbox[p[1]].deliveredAt => outbox'[p[1]].deliveredAt
      BY <1>1, <2>1
    <2>3. /\ p[2] = outbox[p[1]].meaning
          /\ outbox[p[1]].deliveredAt \/ \E l \in Lanes : lane[l] = "received" /\ claim[l] = p[1]
      BY <1>1 DEF TakenInv, TakenOnce
    <2>4. CASE \E l \in Lanes : lane[l] = "received" /\ claim[l] = p[1]
      <3>1. PICK l \in Lanes : lane[l] = "received" /\ claim[l] = p[1]
        BY <2>4
      <3>2. \/ lane'[l] = "received" /\ claim'[l] = p[1]
            \/ outbox'[p[1]].deliveredAt
        BY <1>1, <3>1
      <3>3. QED BY <2>2, <2>3, <3>2
    <2>5. QED BY <2>2, <2>3, <2>4
  <1>2. TakenOnce'
    BY <1>1 DEF TakenOnce
  <1>3. ASSUME NEW l \in Lanes, lane'[l] = lane[l], claim'[l] = claim[l] PROVE NoMore(l)'
    BY <1>3 DEF TakenInv, NoMore
  <1>4. QED BY <1>2, <1>3 DEF TakenInv

(* A step that touches no row of a terminal.                               *)
LEMMA TerminalsStay ==
    ASSUME ClimbInv, LedgerInv,
           \/ outbox' = outbox
           \/ \E k, row : k.type # "run.ended" /\ outbox' = [outbox EXCEPT ![k] = row]
           \/ \E k \in EventIds : outbox' = [outbox EXCEPT ![k].waits = FALSE]
    PROVE  \A k \in EventIds : k.type = "run.ended" =>
              /\ Queued(outbox'[k]) <=> Queued(outbox[k])
              /\ outbox'[k].meaning = outbox[k].meaning
              /\ outbox'[k].deliveredAt = outbox[k].deliveredAt
  <1>1. TAKE k \in EventIds
  <1>2. HAVE k.type = "run.ended"
  <1>3. outbox = [j \in EventIds |-> outbox[j]]
    BY DEF ClimbInv, ClimbShapes
  <1>4. CASE outbox' = outbox
    BY <1>4
  <1>5. CASE \E j, row : j.type # "run.ended" /\ outbox' = [outbox EXCEPT ![j] = row]
    BY <1>2, <1>3, <1>5
  <1>6. CASE \E j \in EventIds : outbox' = [outbox EXCEPT ![j].waits = FALSE]
    <2>1. PICK r \in Runs, v \in Versions : k = Ended(r, v)
      BY <1>2, EndedIds
    <2>2. PICK row : row = outbox[k] /\ IsRow(row)
      BY <2>1 DEF LedgerInv, Stands, StandsAt, TermRow, Row
    <2>3. outbox'[k] = row \/ outbox'[k] = [row EXCEPT !.waits = FALSE]
      BY <1>3, <1>6, <2>2
    <2>4. QED BY <2>2, <2>3 DEF IsRow, Queued
  <1>7. QED BY <1>4, <1>5, <1>6

LEMMA TakenLane ==
    ASSUME LedgerInv, ClimbInv, TakenInv, NEW l \in Lanes, UNCHANGED received,
           \/ outbox' = outbox
           \/ \E k, row : k.type # "run.ended" /\ outbox' = [outbox EXCEPT ![k] = row],
           lane[l] # "received" \/ claim[l].type # "run.ended",
           \A m \in Lanes : m # l =>
              /\ claim'[m] = claim[m]
              /\ lane'[m] = lane[m] \/ (lane[m] = "idle" /\ lane'[m] = "fetch"),
           NoMore(l)'
    PROVE  TakenInv'
  <1>1. \A k \in EventIds : k.type = "run.ended" =>
           /\ outbox'[k].meaning = outbox[k].meaning
           /\ outbox[k].deliveredAt => outbox'[k].deliveredAt
    BY TerminalsStay
  <1>2. \A m \in Lanes : lane[m] = "received" /\ claim[m].type = "run.ended" =>
           lane'[m] = "received" /\ claim'[m] = claim[m]
    OBVIOUS
  <1>3. ASSUME NEW m \in Lanes PROVE NoMore(m)' \/ (lane'[m] = lane[m] /\ claim'[m] = claim[m])
    <2>1. lane'[m] = "fetch" => NoMore(m)'
      BY DEF NoMore
    <2>2. QED BY <2>1
  <1>4. QED BY <1>1, <1>2, <1>3, TakenFrame

LEMMA TakenQuiet ==
    ASSUME LedgerInv, ClimbInv, TakenInv,
           \/ \E a \in Admitters : Kick(a)
           \/ TimerFires \/ Clock \/ StartDispatch \/ (Operator /\ ~Crash) \/ UNCHANGED vars
    PROVE  TakenInv'
  <1>1. /\ UNCHANGED <<claim, received>>
        /\ \A l \in Lanes : lane'[l] = lane[l] \/ (lane[l] = "idle" /\ lane'[l] = "fetch")
        /\ UNCHANGED outbox \/ \E k \in EventIds : outbox' = [outbox EXCEPT ![k].waits = FALSE]
    BY QuietSteps
  <1>2. \A k \in EventIds : k.type = "run.ended" =>
           /\ outbox'[k].meaning = outbox[k].meaning
           /\ outbox[k].deliveredAt => outbox'[k].deliveredAt
    BY <1>1, TerminalsStay
  <1>3. \A m \in Lanes : lane[m] = "received" /\ claim[m].type = "run.ended" =>
           lane'[m] = "received" /\ claim'[m] = claim[m]
    BY <1>1
  <1>4. ASSUME NEW m \in Lanes PROVE NoMore(m)' \/ (lane'[m] = lane[m] /\ claim'[m] = claim[m])
    <2>1. lane'[m] = "fetch" => NoMore(m)'
      BY DEF NoMore
    <2>2. QED BY <1>1, <2>1
  <1>5. QED BY <1>1, <1>2, <1>3, <1>4, TakenFrame

(* Of the steps of a caller, only an upsert touches a terminal.            *)
LEMMA CallerRows ==
    ASSUME ClimbInv, NEW a \in Admitters, Admit(a) \/ (Advance(a) /\ ~Kick(a))
    PROVE  \/ outbox' = outbox
           \/ \E k, row : k.type # "run.ended" /\ outbox' = [outbox EXCEPT ![k] = row]
           \/ Upsert(a) /\ admission[a].type = "run.ended"
  <1>1. CallerClimbs(a)
    BY DEF ClimbInv
  <1>2. CASE Admit(a)
    <2>1. CASE \E r \in Runs : QueueStart(a, r)
      <3>1. \A r : Start(r).type # "run.ended"
        BY DEF Start, EventId
      <3>2. QED BY <2>1, <3>1 DEF QueueStart
    <2>2. CASE SubmitUpdate(a) \/ SubmitTerminal(a)
      BY <2>2 DEF SubmitUpdate, SubmitTerminal, Submit
    <2>3. QED BY <1>2, <2>1, <2>2 DEF Admit
  <1>3. CASE Upsert(a) /\ admission[a].type # "run.ended"
    <2>1. PICK c : admission[a].k = Update(admission[a].run, c)
      BY <1>1, <1>3 DEF Upsert, At, CallerClimbs
    <2>2. admission[a].k.type # "run.ended"
      BY <2>1 DEF Update, EventId
    <2>3. \E row : outbox' = [outbox EXCEPT ![admission[a].k] = row]
      BY <1>3 DEF Upsert
    <2>4. QED BY <2>2, <2>3
  <1>4. CASE Retire(a)
    <2>1. PICK k \in retiring[a] : \E row : outbox' = [outbox EXCEPT ![k] = row]
      BY <1>4 DEF Retire
    <2>2. Covered(a, admission[a].run)
      BY <1>1, <1>4 DEF Retire, At, CallerClimbs
    <2>3. PICK n \in Levels : k = Update(admission[a].run, n)
      BY <2>1, <2>2 DEF Covered, Below
    <2>4. k.type # "run.ended"
      BY <2>3 DEF Update, EventId
    <2>5. QED BY <2>1, <2>4
  <1>5. CASE Advance(a) /\ ~Kick(a) /\ ~Upsert(a) /\ ~Retire(a)
    BY <1>5 DEF Advance, EnterLifecycle, ReadSubject, ReadStateEntry, ReadExisting,
                WriteSubject, BeginUpdate, Reconcile, Retired
  <1>6. QED BY <1>2, <1>3, <1>4, <1>5

(* Callers write a row that nobody has taken.                              *)
LEMMA TakenCaller ==
    ASSUME LedgerInv, TurnInv, ClimbInv, TakenInv, NEW a \in Admitters,
           Admit(a) \/ (Advance(a) /\ ~Kick(a))
    PROVE  TakenInv'
  <1>1. UNCHANGED <<received, lane, claim>>
    <2>1. CASE Admit(a)
      BY <2>1 DEF Admit, QueueStart, SubmitUpdate, SubmitTerminal, Submit, Elsewhere, laneVars
    <2>2. CASE Advance(a) /\ ~Kick(a)
      BY <2>2 DEF Advance, EnterLifecycle, ReadSubject, ReadStateEntry, ReadExisting, Upsert,
                  WriteSubject, BeginUpdate, Reconcile, Retire, Retired, Elsewhere, laneVars
    <2>3. QED BY <2>1, <2>2
  <1>2. CASE \/ outbox' = outbox
             \/ \E k, row : k.type # "run.ended" /\ outbox' = [outbox EXCEPT ![k] = row]
    <2>1. \A k \in EventIds : k.type = "run.ended" =>
             /\ outbox'[k].meaning = outbox[k].meaning
             /\ outbox[k].deliveredAt => outbox'[k].deliveredAt
      BY <1>2, TerminalsStay
    <2>2. QED BY <1>1, <2>1, TakenFrame
  <1>3. CASE Upsert(a) /\ admission[a].type = "run.ended"
    <2>1. PICK r, t, w, row : CorrectsWith(a, r, t, w, row)
      BY <1>3, UpsertWrites
    <2>2. PICK k : k = Ended(r, w)
      OBVIOUS
    <2>3. /\ r \in Runs /\ t \in 0..MaxVersion /\ w \in Versions
          /\ StandsAt(r, t) /\ Holds(lifecycle[r], a) /\ outbox' = [outbox EXCEPT ![k] = row]
          /\ \/ w = t /\ t > 0 /\ ~Row(r, t).deliveredAt
             \/ w = t + 1
      BY <2>1, <2>2 DEF CorrectsWith
    <2>4. \A l \in Lanes : Sends(l) => claim[l].run # r
      BY <2>3, Alone, LanesAreNoCallers
    <2>5. ~outbox[k].deliveredAt
      <3>1. TermRow(Row(r, w)) /\ (Queued(Row(r, w)) <=> w <= t)
        BY <2>3 DEF StandsAt
      <3>2. CASE w = t
        BY <2>2, <2>3, <3>2, EndedIds DEF Row
      <3>3. CASE w = t + 1
        <4>1. ~Queued(Row(r, w))
          BY <2>3, <3>1, <3>3, EndedIds DEF Versions
        <4>2. QED BY <2>2, <3>1, <4>1 DEF TermRow, Queued, Row
      <3>4. QED BY <2>3, <3>2, <3>3
    <2>6. k.run = r /\ k.type = "run.ended"
      BY <2>2, EndedIds
    <2>7. \A p \in received : p[1] # k
      BY <2>4, <2>5, <2>6 DEF TakenInv, TakenOnce, Sends, Sending
    <2>8. \A j \in EventIds : j # k => outbox'[j] = outbox[j]
      BY <2>3 DEF ClimbInv, ClimbShapes
    <2>9. \A j \in EventIds : j.type = "run.ended" =>
             \/ /\ outbox'[j].meaning = outbox[j].meaning
                /\ outbox[j].deliveredAt => outbox'[j].deliveredAt
             \/ \A p \in received : p[1] # j
      BY <2>7, <2>8
    <2>10. QED BY <1>1, <2>9, TakenFrame
  <1>4. QED BY <1>2, <1>3, CallerRows

(* Lanes that are not at an attempt.                                       *)
LEMMA LaneRows ==
    ASSUME ClimbInv, NEW l \in Lanes,
           \/ Fetch(l) \/ TakeFirst(l) \/ TakeAll(l) \/ TakeNone(l) \/ TakeNext(l) \/ EndBatch(l)
           \/ Reread(l) \/ ReconcileAtBoundary(l) \/ RetireAtBoundary(l) \/ LeaveBoundary(l)
           \/ ReadRecord(l) \/ WriteRecord(l) \/ Release(l)
    PROVE  \/ outbox' = outbox
           \/ \E k, row : k.type # "run.ended" /\ outbox' = [outbox EXCEPT ![k] = row]
  <1>1. CASE RetireAtBoundary(l)
    <2>1. PICK k \in retiring[l] : \E row : outbox' = [outbox EXCEPT ![k] = row]
      BY <1>1 DEF RetireAtBoundary
    <2>2. LaneClimbs(l)
      BY DEF ClimbInv
    <2>3. Covered(l, claim[l].run)
      BY <1>1, <2>2 DEF LaneClimbs, RetireAtBoundary
    <2>4. PICK n \in Levels : k = Update(claim[l].run, n)
      BY <2>1, <2>3 DEF Covered, Below
    <2>5. k.type # "run.ended"
      BY <2>4 DEF Update, EventId
    <2>6. QED BY <2>1, <2>5
  <1>2. CASE ~RetireAtBoundary(l)
    BY <1>2 DEF Fetch, TakeFirst, TakeAll, TakeNone, TakeNext, EndBatch, Reread,
                ReconcileAtBoundary, LeaveBoundary, ReadRecord, WriteRecord, Release
  <1>3. QED BY <1>1, <1>2

LEMMA TakenElsewhere ==
    ASSUME LedgerInv, ClimbInv, TakenInv, NEW l \in Lanes,
           \/ Fetch(l) \/ TakeFirst(l) \/ TakeAll(l) \/ TakeNone(l) \/ TakeNext(l) \/ EndBatch(l)
           \/ Reread(l) \/ ReconcileAtBoundary(l) \/ RetireAtBoundary(l) \/ LeaveBoundary(l)
           \/ ReadRecord(l) \/ WriteRecord(l) \/ Release(l)
    PROVE  TakenInv'
  <1>1. lane \in [Lanes -> LaneStates] /\ claim \in [Lanes -> EventIds \cup {NoKey}]
    BY DEF ClimbInv, ClaimInv, LanesTyped
  <1>2. /\ UNCHANGED received
        /\ lane[l] \in {"fetch", "fetched", "next", "locked", "update", "retire", "replace",
                        "record", "write", "release"}
    BY DEF Fetch, TakeFirst, TakeAll, TakeNone, TakeNext, EndBatch, Reread, ReconcileAtBoundary,
           RetireAtBoundary, LeaveBoundary, ReadRecord, WriteRecord, Release, LaneAt
  <1>3. \/ outbox' = outbox
        \/ \E k, row : k.type # "run.ended" /\ outbox' = [outbox EXCEPT ![k] = row]
    BY LaneRows
  <1>4. lane'[l] \notin {"attempted", "post"}
    <2>1. CASE Release(l)
      BY <1>1, <2>1 DEF Release, EndPass, Moves, Main, Anchor, Lanes
    <2>2. CASE TakeFirst(l) \/ TakeNext(l)
      BY <1>1, <1>2, <2>2 DEF TakeFirst, TakeNext, DeliverClaimed, Moves
    <2>3. CASE RetireAtBoundary(l)
      BY <1>2, <2>3 DEF RetireAtBoundary, laneVars
    <2>4. CASE ~Release(l) /\ ~TakeFirst(l) /\ ~TakeNext(l) /\ ~RetireAtBoundary(l)
      <3>1. PICK pc \in {"fetched", "next", "fetch", "idle", "release", "gate", "update", "retire",
                         "replace", "write"} : Moves(l, pc)
        BY <2>4 DEF Fetch, TakeAll, TakeNone, EndBatch, EndPass, Reread, ReconcileAtBoundary,
                    LeaveBoundary, ReadRecord, WriteRecord
      <3>2. QED BY <1>1, <3>1 DEF Moves
    <2>5. QED BY <2>1, <2>2, <2>3, <2>4
  <1>5. \A m \in Lanes : m # l =>
           /\ claim'[m] = claim[m]
           /\ lane'[m] = lane[m] \/ (lane[m] = "idle" /\ lane'[m] = "fetch")
    <2>1. CASE Release(l)
      BY <1>1, <2>1 DEF Release, EndPass, Moves, Main, Anchor, Lanes
    <2>2. CASE TakeFirst(l) \/ TakeNext(l)
      BY <1>1, <2>2 DEF TakeFirst, TakeNext, DeliverClaimed, Moves
    <2>3. CASE RetireAtBoundary(l)
      BY <2>3 DEF RetireAtBoundary, laneVars
    <2>4. CASE ~Release(l) /\ ~TakeFirst(l) /\ ~TakeNext(l) /\ ~RetireAtBoundary(l)
      <3>1. (\E pc : Moves(l, pc)) /\ UNCHANGED claim
        BY <2>4 DEF Fetch, TakeAll, TakeNone, EndBatch, EndPass, Reread, ReconcileAtBoundary,
                    LeaveBoundary, ReadRecord, WriteRecord
      <3>2. QED BY <1>1, <3>1 DEF Moves
    <2>5. QED BY <2>1, <2>2, <2>3, <2>4
  <1>6. NoMore(l)'
    BY <1>4 DEF NoMore
  <1>7. QED BY <1>2, <1>3, <1>5, <1>6, TakenLane

-----------------------------------------------------------------------------
(* A start or an update goes out only while no terminal of its run has     *)
(* been taken: a taken one is delivered, so its subject says so.           *)
LEMMA GateCloses ==
    ASSUME LedgerInv, ClimbInv, TakenInv, NEW l \in Lanes, lane[l] = "gate",
           claim[l].type \in {"run.start", "run.update"}, ~Closed(claim[l]),
           NEW p \in received, p[1].type = "run.ended", p[1].run = claim[l].run
    PROVE  FALSE
  <1>1. p[1] \in EventIds
    BY DEF ClimbInv, KnownIsQueued
  <1>2. PICK r \in Runs, v \in Versions : p[1] = Ended(r, v) /\ p[1].run = r
    BY <1>1, EndedIds
  <1>3. ~subject[r].deliveredAt
    BY <1>2 DEF Closed
  <1>4. claim[l] # NoKey /\ ClaimsApart /\ ClaimHeld
    BY DEF ClimbInv, ClaimInv, ClaimHeld, Claimed
  <1>5. \A m \in Lanes : lane[m] \in {"received", "record", "write"} => claim[m].run # r
    <2>1. TAKE m \in Lanes
    <2>2. HAVE lane[m] \in {"received", "record", "write"}
    <2>3. m # l /\ claim[m] # NoKey
      BY <1>4, <2>2 DEF ClaimHeld, Claimed
    <2>4. QED BY <1>2, <1>4, <2>3 DEF ClaimsApart
  <1>6. ~Records(r)
    BY <1>5 DEF Records, Recording
  <1>7. ~Row(r, v).deliveredAt
    BY <1>3, <1>6 DEF LedgerInv, Told
  <1>8. QED BY <1>2, <1>5, <1>7 DEF TakenInv, TakenOnce, Row

LEMMA TakenOpen ==
    ASSUME LedgerInv, ClimbInv, TakenInv, NEW l \in Lanes, claim[l].type # "run.ended",
           Gate(l) \/ Post(l) \/ Answered(l) \/ Refused(l) \/ Rejected(l)
    PROVE  TakenInv'
  <1>1. UNCHANGED <<received, claim>>
    BY DEF Gate, Post, Answered, Refused, Rejected, Attempting
  <1>2. \/ outbox' = outbox
        \/ \E row : outbox' = [outbox EXCEPT ![claim[l]] = row]
    BY DEF Gate, Post, Answered, Refused, Rejected, Give, Puts
  <1>3. \/ outbox' = outbox
        \/ \E k, row : k.type # "run.ended" /\ outbox' = [outbox EXCEPT ![k] = row]
    BY <1>2
  <1>4. PICK pc : /\ Moves(l, pc)
                  /\ pc = "attempted" => lane[l] = "gate" /\ ~Closed(claim[l])
                  /\ pc = "post" => lane[l] = "attempted"
    <2>1. CASE Gate(l)
      BY <2>1 DEF Gate, Give, Closed, LaneAt
    <2>2. CASE Post(l)
      BY <2>2 DEF Post, LaneAt
    <2>3. CASE Answered(l) \/ Refused(l) \/ Rejected(l)
      BY <2>3 DEF Answered, Refused, Rejected, Give
    <2>4. QED BY <2>1, <2>2, <2>3
  <1>5. lane'[l] = pc /\ \A m \in Lanes : m # l => lane'[m] = lane[m]
    BY <1>4, LaneMoves
  <1>6. NoMore(l)'
    <2>1. CASE pc = "attempted"
      <3>1. claim[l].type \in {"run.start", "run.update"}
        <4>1. claim[l] \in EventIds
          BY <1>4, <2>1 DEF ClimbInv, ClaimInv, LanesTyped, ClaimHeld, Claimed
        <4>2. QED BY <4>1 DEF EventIds, EventId, Start, Update, Ended
      <3>2. \A p \in received : p[1].type = "run.ended" => p[1].run # claim[l].run
        BY <1>4, <2>1, <3>1, GateCloses
      <3>3. QED BY <1>1, <3>2 DEF NoMore
    <2>2. CASE pc = "post"
      <3>1. NoMore(l)
        BY DEF TakenInv
      <3>2. QED BY <1>1, <1>4, <2>2, <3>1 DEF NoMore
    <2>3. CASE pc \notin {"attempted", "post"}
      BY <1>5, <2>3 DEF NoMore
    <2>4. QED BY <2>1, <2>2, <2>3
  <1>7. \A m \in Lanes : m # l => claim'[m] = claim[m] /\ lane'[m] = lane[m]
    BY <1>1, <1>5
  <1>8. QED BY <1>1, <1>3, <1>6, <1>7, TakenLane

LEMMA TakenPut ==
    ASSUME LedgerInv, TurnInv, ClimbInv, TakenInv, NEW l \in Lanes, claim[l].type = "run.ended",
           "lost" \notin Faults,
           Gate(l) \/ Post(l) \/ Answered(l) \/ Refused(l) \/ Rejected(l)
    PROVE  TakenInv'
  <1>1. UNCHANGED <<received, claim>>
    BY DEF Gate, Post, Answered, Refused, Rejected, Attempting
  <1>2. /\ lane[l] \in {"gate", "attempted", "post", "received"}
        /\ lane[l] = "received" => Answered(l)
    BY DEF Gate, Post, Answered, Refused, Rejected, LaneAt
  <1>3. Sends(l) /\ lane[l] \notin Recording
    BY <1>2 DEF Sends, Sending, Recording
  <1>4. PICK r \in Runs, t \in Versions :
           claim[l] = Ended(r, t) /\ entry[l].meaning = Row(r, t).meaning
    BY <1>3, SendsLast
  <1>5. PICK old : old = entry[l] /\ IsRow(old) /\ ~outbox[claim[l]].deliveredAt
    BY <1>3 DEF LedgerInv, LaneReads
  <1>6. PICK k : k = claim[l] /\ k \in EventIds
    BY <1>4, EndedIds
  <1>7. old.meaning = outbox[k].meaning /\ ~outbox[k].deliveredAt
    BY <1>4, <1>5, <1>6 DEF Row
  <1>8. \/ outbox' = outbox /\ ~Answered(l)
        \/ \E row : /\ outbox' = [outbox EXCEPT ![k] = row] /\ row.meaning = old.meaning
                    /\ Answered(l) => row.deliveredAt
    <2>1. PICK blocked, pending, retry, given :
             /\ blocked = [old EXCEPT !.state = "blocked", !.waits = FALSE]
             /\ pending = [old EXCEPT !.state = "pending", !.waits = TRUE]
             /\ retry = [old EXCEPT !.state = "retry", !.waits = TRUE]
             /\ given = [old EXCEPT !.state = "delivered", !.waits = FALSE,
                                    !.deliveredAt = TRUE, !.superseded = FALSE]
      OBVIOUS
    <2>2. /\ blocked.meaning = old.meaning /\ pending.meaning = old.meaning
          /\ retry.meaning = old.meaning /\ given.meaning = old.meaning /\ given.deliveredAt
      BY <1>5, <2>1 DEF IsRow
    <2>3. CASE Answered(l)
      <3>1. outbox' = [outbox EXCEPT ![k] = given]
        BY <1>5, <1>6, <2>1, <2>3 DEF Answered, Puts
      <3>2. QED BY <2>2, <3>1
    <2>4. CASE ~Answered(l)
      <3>1. \/ outbox' = outbox
            \/ \E row \in {old, blocked, pending, retry, given} : Puts(l, row)
        <4>1. CASE Gate(l)
          BY <1>5, <2>1, <4>1 DEF Gate, Give
        <4>2. CASE Refused(l)
          BY <1>5, <2>1, <4>2 DEF Refused, Give
        <4>3. CASE Rejected(l)
          BY <1>5, <2>1, <4>3 DEF Rejected, Give
        <4>4. CASE Post(l)
          BY <4>4 DEF Post
        <4>5. QED BY <2>4, <4>1, <4>2, <4>3, <4>4
      <3>2. CASE \E row \in {old, blocked, pending, retry, given} : Puts(l, row)
        BY <1>6, <2>2, <2>4, <3>2 DEF Puts
      <3>3. QED BY <2>4, <3>1, <3>2
    <2>5. QED BY <2>3, <2>4
  <1>9. /\ \A j \in EventIds : j # k => outbox'[j] = outbox[j]
        /\ outbox'[k].meaning = outbox[k].meaning
        /\ Answered(l) => outbox'[k].deliveredAt
    BY <1>6, <1>7, <1>8 DEF ClimbInv, ClimbShapes
  <1>10. \A j \in EventIds : j.type = "run.ended" =>
            /\ outbox'[j].meaning = outbox[j].meaning
            /\ outbox[j].deliveredAt => outbox'[j].deliveredAt
    BY <1>7, <1>9
  <1>11. PICK pc : Moves(l, pc)
    BY DEF Gate, Post, Answered, Refused, Rejected, Give
  <1>12. \A m \in Lanes : m # l => lane'[m] = lane[m]
    BY <1>11, LaneMoves
  <1>13. \A m \in Lanes : lane[m] = "received" /\ claim[m].type = "run.ended" =>
            \/ lane'[m] = "received" /\ claim'[m] = claim[m]
            \/ outbox'[claim[m]].deliveredAt
    BY <1>1, <1>2, <1>6, <1>9, <1>12
  <1>14. \A m \in Lanes : NoMore(m)' \/ (lane'[m] = lane[m] /\ claim'[m] = claim[m])
    BY <1>1, <1>12 DEF NoMore
  <1>15. QED BY <1>1, <1>10, <1>13, <1>14, TakenFrame

(* What is taken is what the last version of the run says.                 *)
LEMMA TakenReceive ==
    ASSUME LedgerInv, TurnInv, ClimbInv, TakenInv, NEW l \in Lanes, Receive(l)
    PROVE  TakenInv'
  <1>1. /\ UNCHANGED <<claim, outbox>> /\ lane[l] = "post" /\ Moves(l, "received")
        /\ received' = received \cup {<<claim[l], entry[l].meaning>>}
    BY DEF Receive, LaneAt
  <1>2. lane'[l] = "received" /\ \A m \in Lanes : m # l => lane'[m] = lane[m]
    BY <1>1, LaneMoves
  <1>3. claim[l].type = "run.ended" => entry[l].meaning = outbox[claim[l]].meaning
    <2>1. HAVE claim[l].type = "run.ended"
    <2>2. Sends(l)
      BY <1>1, <2>1 DEF Sends, Sending
    <2>3. PICK r \in Runs, t \in Versions :
             claim[l] = Ended(r, t) /\ entry[l].meaning = Row(r, t).meaning
      BY <2>2, SendsLast
    <2>4. QED BY <2>3 DEF Row
  <1>4. ASSUME NEW p \in received', p[1].type = "run.ended"
        PROVE  /\ p[2] = outbox'[p[1]].meaning
               /\ outbox'[p[1]].deliveredAt \/ \E m \in Lanes : lane'[m] = "received" /\ claim'[m] = p[1]
    <2>1. CASE p \in received
      <3>1. /\ p[2] = outbox[p[1]].meaning
            /\ outbox[p[1]].deliveredAt \/ \E m \in Lanes : lane[m] = "received" /\ claim[m] = p[1]
        BY <1>4, <2>1 DEF TakenInv, TakenOnce
      <3>2. \A m \in Lanes : lane[m] = "received" => lane'[m] = "received" /\ claim'[m] = claim[m]
        BY <1>1, <1>2
      <3>3. QED BY <1>1, <3>1, <3>2
    <2>2. CASE p = <<claim[l], entry[l].meaning>>
      BY <1>1, <1>2, <1>3, <1>4, <2>2
    <2>3. QED BY <1>1, <2>1, <2>2
  <1>5. TakenOnce'
    BY <1>4 DEF TakenOnce
  <1>6. ASSUME NEW m \in Lanes PROVE NoMore(m)'
    <2>1. CASE m = l
      BY <1>2, <2>1 DEF NoMore
    <2>2. CASE m # l
      <3>1. NoMore(m) /\ ClaimsApart /\ ClaimHeld
        BY DEF TakenInv, ClimbInv, ClaimInv
      <3>2. lane[m] \in {"attempted", "post"} => claim[m].run # claim[l].run
        BY <1>1, <2>2, <3>1 DEF ClaimHeld, ClaimsApart, Claimed
      <3>3. QED BY <1>1, <1>2, <2>2, <3>1, <3>2 DEF NoMore
    <2>3. QED BY <2>1, <2>2
  <1>7. QED BY <1>5, <1>6 DEF TakenInv

LEMMA TakenNext ==
    ASSUME LedgerInv, TurnInv, ClimbInv, TakenInv, Faults \cap {"crash", "lost"} = {}, [Next]_vars
    PROVE  TakenInv'
  <1>1. CASE \/ \E a \in Admitters : Kick(a)
             \/ TimerFires \/ Clock \/ StartDispatch \/ (Operator /\ ~Crash) \/ UNCHANGED vars
    BY <1>1, TakenQuiet
  <1>2. CASE \E a \in Admitters : Admit(a) \/ (Advance(a) /\ ~Kick(a))
    BY <1>2, TakenCaller
  <1>3. ASSUME NEW l \in Lanes, Deliver(l) \/ Receive(l) \/ Refused(l) \/ Rejected(l)
        PROVE  TakenInv'
    <2>1. CASE Gate(l) \/ Post(l) \/ Answered(l) \/ Refused(l) \/ Rejected(l)
      BY <2>1, TakenOpen, TakenPut
    <2>2. CASE Receive(l)
      BY <2>2, TakenReceive
    <2>3. CASE \/ Fetch(l) \/ TakeFirst(l) \/ TakeAll(l) \/ TakeNone(l) \/ TakeNext(l) \/ EndBatch(l)
               \/ Reread(l) \/ ReconcileAtBoundary(l) \/ RetireAtBoundary(l) \/ LeaveBoundary(l)
               \/ ReadRecord(l) \/ WriteRecord(l) \/ Release(l)
      BY <2>3, TakenElsewhere
    <2>4. QED BY <1>3, <2>1, <2>2, <2>3 DEF Deliver
  <1>4. ~Crash
    BY DEF Crash
  <1>5. QED BY <1>1, <1>2, <1>3, <1>4 DEF Next

(* The receiver has one meaning of each version, the one its row keeps,    *)
(* while no answer is lost and the process lives.                          *)
THEOREM TakenHolds ==
    ASSUME Faults \cap {"crash", "lost"} = {}, MaxMeaning <= MaxVersion
    PROVE  Spec /\ [][Orderly]_vars => []TakenInv
  <1>1. Init => TakenInv
    BY DEF Init, TakenInv, TakenOnce, NoMore
  <1>2. LedgerInv /\ TurnInv /\ ClimbInv /\ TakenInv /\ [Next]_vars => TakenInv'
    BY TakenNext
  <1>3. "crash" \notin Faults
    OBVIOUS
  <1>4. Spec /\ [][Orderly]_vars => []LedgerInv
    BY <1>3, LedgerHolds
  <1>5. QED BY <1>1, <1>2, <1>4, TurnsAreTaken, ClimbHolds, PTL DEF Spec

(* Once the receiver has taken a terminal of a run, no start and no update *)
(* of that run is posted (runEndedDeliveredForLifecycleSubject): a taken   *)
(* terminal is delivered before its run is claimed again.                  *)
THEOREM NothingFollowsATerminal ==
    ASSUME Faults \cap {"crash", "lost"} = {}, MaxMeaning <= MaxVersion
    PROVE  Spec /\ [][Orderly]_vars => []NothingAfterTerminal
  <1>1. TakenInv => NothingAfterTerminal
    BY DEF TakenInv, NoMore, NothingAfterTerminal
  <1>2. QED BY <1>1, TakenHolds, PTL

(* The receiver sees one meaning of each version of a terminal, and more   *)
(* in a later version than in an earlier one (eventIdFor of subject and    *)
(* version, monotonicRunEndedRevision).                                    *)
THEOREM VersionsAlwaysClimb ==
    ASSUME Faults \cap {"crash", "lost"} = {}, MaxMeaning <= MaxVersion
    PROVE  Spec /\ [][Orderly]_vars => []VersionsClimb
  <1>1. LedgerInv /\ TurnInv /\ ClimbInv /\ TakenInv => VersionsClimb
    <2> SUFFICES ASSUME LedgerInv, TurnInv, ClimbInv, TakenInv,
                        NEW p \in received, NEW q \in received,
                        p[1].type = "run.ended", q[1].type = "run.ended",
                        p[1].run = q[1].run, p[1].n <= q[1].n
                 PROVE  IF p[1] = q[1] THEN p[2] = q[2] ELSE p[2] < q[2]
      BY DEF VersionsClimb
    <2>1. p[2] = outbox[p[1]].meaning /\ q[2] = outbox[q[1]].meaning
      BY DEF TakenInv, TakenOnce
    <2>2. PICK r \in Runs, v \in Versions, w \in Versions : p[1] = Ended(r, v) /\ q[1] = Ended(r, w) /\ v <= w
      <3>1. p[1] \in EventIds /\ q[1] \in EventIds
        BY DEF ClimbInv, KnownIsQueued
      <3>2. QED BY <3>1, EndedIds
    <2>3. PICK t \in 0..MaxVersion : StandsAt(r, t)
      BY DEF LedgerInv, Stands
    <2>4. w <= t
      <3>1. CASE outbox[q[1]].deliveredAt
        <4>1. Queued(Row(r, w))
          BY <2>2, <2>3, <3>1 DEF StandsAt, TermRow, Queued, Row
        <4>2. QED BY <2>3, <4>1 DEF StandsAt
      <3>2. CASE \E l \in Lanes : lane[l] = "received" /\ claim[l] = q[1]
        <4>1. PICK l \in Lanes : lane[l] = "received" /\ claim[l] = q[1]
          BY <3>2
        <4>2. Sends(l)
          BY <4>1 DEF Sends, Sending
        <4>3. PICK s \in Runs, u \in Versions : claim[l] = Ended(s, u) /\ StandsAt(s, u)
          BY <4>2, SendsLast
        <4>4. s = r /\ u = w
          <5>1. Ended(s, u) = Ended(r, w)
            BY <2>2, <4>1, <4>3
          <5>2. Ended(s, u).run = s /\ Ended(s, u).n = u /\ Ended(r, w).run = r /\ Ended(r, w).n = w
            BY EndedIds
          <5>3. QED BY <5>1, <5>2
        <4>5. Queued(Row(r, w))
          BY <4>3, <4>4, EndedIds DEF StandsAt, Versions
        <4>6. QED BY <2>3, <4>5 DEF StandsAt
      <3>3. QED BY <3>1, <3>2 DEF TakenInv, TakenOnce
    <2>5. v \in 1..t /\ w \in 1..t
      BY <2>2, <2>3, <2>4, EndedIds DEF Versions
    <2>6. CASE v = w
      BY <2>1, <2>2, <2>6
    <2>7. CASE v # w
      <3>1. v < w /\ p[1] # q[1]
        BY <2>2, <2>7, EndedIds DEF Versions
      <3>2. Row(r, v).meaning < Row(r, w).meaning
        BY <2>3, <2>5, <3>1 DEF StandsAt
      <3>3. QED BY <2>1, <2>2, <3>1, <3>2 DEF Row
    <2>8. QED BY <2>6, <2>7
  <1>2. "crash" \notin Faults
    OBVIOUS
  <1>3. Spec /\ [][Orderly]_vars => []LedgerInv
    BY <1>2, LedgerHolds
  <1>4. QED BY <1>1, <1>3, TakenHolds, TurnsAreTaken, ClimbHolds, PTL

-----------------------------------------------------------------------------
(* The rows of a run as a ledger of versions.                              *)
Entry(row) == [meaning |-> row.meaning, delivered |-> row.deliveredAt]

Log(box, r) ==
    [v \in 1..Cardinality({w \in 1..MaxVersion : Queued(box[Ended(r, w)])}) |->
        Entry(box[Ended(r, v)])]

LEMMA LedgerIsLogs ==
    /\ LedgerOf = [r \in Runs |-> Log(outbox, r)]
    /\ LedgerOf' = [r \in Runs |-> Log(outbox', r)]
  BY DEF LedgerOf, VersionsOf, Log, Entry

LEMMA LogIs ==
    ASSUME NEW box, NEW r, NEW t \in 0..MaxVersion,
           \A v \in Versions : Queued(box[Ended(r, v)]) <=> v <= t
    PROVE  Log(box, r) = [v \in 1..t |-> Entry(box[Ended(r, v)])]
  <1>1. {w \in 1..MaxVersion : Queued(box[Ended(r, w)])} = 1..t
    BY EndedIds DEF Versions
  <1>2. Cardinality(1..t) = t
    BY FS_Interval, EndedIds
  <1>3. QED BY <1>1, <1>2 DEF Log

(* Rows that say the same make the same ledger.                            *)
LEMMA LogKept ==
    ASSUME NEW r, NEW t \in 0..MaxVersion, StandsAt(r, t),
           \A v \in Versions :
              /\ Queued(outbox'[Ended(r, v)]) <=> Queued(outbox[Ended(r, v)])
              /\ outbox'[Ended(r, v)].meaning = outbox[Ended(r, v)].meaning
              /\ outbox'[Ended(r, v)].deliveredAt = outbox[Ended(r, v)].deliveredAt
    PROVE  Log(outbox', r) = Log(outbox, r)
  <1>1. \A v \in Versions : Queued(outbox[Ended(r, v)]) <=> v <= t
    BY DEF StandsAt, Row
  <1>2. PICK box : box = outbox'
    OBVIOUS
  <1>3. \A v \in Versions : Queued(box[Ended(r, v)]) <=> v <= t
    BY <1>1, <1>2
  <1>4. /\ Log(outbox, r) = [v \in 1..t |-> Entry(outbox[Ended(r, v)])]
        /\ Log(box, r) = [v \in 1..t |-> Entry(box[Ended(r, v)])]
    BY <1>1, <1>3, LogIs
  <1>5. \A v \in 1..t : Entry(box[Ended(r, v)]) = Entry(outbox[Ended(r, v)])
    BY <1>2, EndedIds DEF Entry, Versions
  <1>6. QED BY <1>2, <1>4, <1>5

LEMMA LedgerStays ==
    ASSUME LedgerInv, ClimbInv,
           \/ outbox' = outbox
           \/ \E k, row : k.type # "run.ended" /\ outbox' = [outbox EXCEPT ![k] = row]
           \/ \E k \in EventIds : outbox' = [outbox EXCEPT ![k].waits = FALSE]
           \/ \A r \in Runs : SameVersions(r)
    PROVE  LedgerOf' = LedgerOf
  <1>1. ASSUME NEW r \in Runs PROVE Log(outbox', r) = Log(outbox, r)
    <2>1. PICK t \in 0..MaxVersion : StandsAt(r, t)
      BY DEF LedgerInv, Stands
    <2>2. \A v \in Versions : Ended(r, v) \in EventIds /\ Ended(r, v).type = "run.ended"
      BY EndedIds
    <2>3. \A v \in Versions :
             /\ Queued(outbox'[Ended(r, v)]) <=> Queued(outbox[Ended(r, v)])
             /\ outbox'[Ended(r, v)].meaning = outbox[Ended(r, v)].meaning
             /\ outbox'[Ended(r, v)].deliveredAt = outbox[Ended(r, v)].deliveredAt
      <3>1. CASE \A s \in Runs : SameVersions(s)
        BY <3>1 DEF SameVersions, Row, Queued
      <3>2. CASE ~\A s \in Runs : SameVersions(s)
        BY <2>2, <3>2, TerminalsStay
      <3>3. QED BY <3>1, <3>2
    <2>4. QED BY <2>1, <2>3, LogKept
  <1>2. QED BY <1>1, LedgerIsLogs

(* The log of one run changes, and how.                                    *)
OnlyLog(r, t, w, row) ==
    /\ LedgerOf[r] = [v \in 1..t |-> Entry(Row(r, v))]
    /\ LedgerOf' = [LedgerOf EXCEPT ![r] =
                       [v \in 1..w |-> IF v = w THEN Entry(row) ELSE Entry(Row(r, v))]]

LEMMA OneLog ==
    ASSUME LedgerInv, ClimbInv, NEW r \in Runs, NEW w \in Versions, NEW row, TermRow(row),
           Queued(row), outbox' = [outbox EXCEPT ![Ended(r, w)] = row],
           NEW t \in 0..MaxVersion, StandsAt(r, t), w \in {t, t + 1}
    PROVE  OnlyLog(r, t, w, row)
  <1>1. PICK box : box = outbox'
    OBVIOUS
  <1>2. /\ box[Ended(r, w)] = row
        /\ \A s \in Runs, v \in Versions :
              s # r \/ v # w => box[Ended(s, v)] = outbox[Ended(s, v)]
    <2>1. /\ outbox'[Ended(r, w)] = row
          /\ \A s \in Runs, v \in Versions :
                s # r \/ v # w => outbox'[Ended(s, v)] = outbox[Ended(s, v)]
          /\ \A s \in Runs, v \in Versions : TermRow(Row(s, v))'
          /\ UNCHANGED subject => \A s \in Runs : s # r => SameVersions(s)
      BY OneVersion
    <2>2. QED BY <1>1, <2>1
  <1>3. MaxVersion \in Nat /\ Versions = 1..MaxVersion
    BY EndedIds DEF Versions
  <1>4. \A v \in Versions : Queued(outbox[Ended(r, v)]) <=> v <= t
    BY DEF StandsAt, Row
  <1>5. Log(outbox, r) = [v \in 1..t |-> Entry(outbox[Ended(r, v)])]
    BY <1>4, LogIs
  <1>6. Log(box, r) = [v \in 1..w |-> Entry(box[Ended(r, v)])]
    <2>1. w \in 0..MaxVersion
      BY <1>3
    <2>2. ASSUME NEW v \in Versions PROVE Queued(box[Ended(r, v)]) <=> v <= w
      <3>1. CASE v = w
        BY <1>2, <1>3, <3>1
      <3>2. CASE v # w
        <4>1. v <= t <=> v <= w
          BY <1>3, <3>2
        <4>2. QED BY <1>2, <1>4, <3>2, <4>1
      <3>3. QED BY <3>1, <3>2
    <2>3. QED BY <2>1, <2>2, LogIs
  <1>7. \A v \in 1..w : Entry(box[Ended(r, v)]) = IF v = w THEN Entry(row) ELSE Entry(Row(r, v))
    BY <1>2, <1>3 DEF Row
  <1>8. Log(box, r) = [v \in 1..w |-> IF v = w THEN Entry(row) ELSE Entry(Row(r, v))]
    BY <1>6, <1>7
  <1>9. ASSUME NEW s \in Runs, s # r PROVE Log(box, s) = Log(outbox, s)
    <2>1. PICK u \in 0..MaxVersion : StandsAt(s, u)
      BY DEF LedgerInv, Stands
    <2>2. \A v \in Versions : outbox'[Ended(s, v)] = outbox[Ended(s, v)]
      BY <1>1, <1>2, <1>9
    <2>3. QED BY <1>1, <2>1, <2>2, LogKept
  <1>10. LedgerOf[r] = Log(outbox, r) /\ LedgerOf' = [LedgerOf EXCEPT ![r] = Log(box, r)]
    BY <1>1, <1>9, LedgerIsLogs
  <1>11. QED BY <1>5, <1>8, <1>10 DEF OnlyLog, Row

LEMMA LogLength ==
    ASSUME NEW r, NEW t \in 0..MaxVersion, NEW log, log = [v \in 1..t |-> Entry(Row(r, v))]
    PROVE  Len(log) = t /\ (log # <<>> <=> t > 0) /\ \E S : log \in Seq(S)
  <1>1. t \in Nat
    BY EndedIds
  <1>2. PICK S : S = {Entry(Row(r, v)) : v \in 1..t}
    OBVIOUS
  <1>3. log \in [1..t -> S]
    BY <1>2
  <1>4. log \in Seq(S) /\ Len(log) = t
    BY <1>1, <1>3
  <1>5. log # <<>> <=> t > 0
    BY <1>1, <1>4
  <1>6. QED BY <1>4, <1>5

LEMMA LogGrows ==
    ASSUME NEW S, NEW log \in Seq(S), NEW new
    PROVE  Append(log, new) =
              [v \in 1..(Len(log) + 1) |-> IF v = Len(log) + 1 THEN new ELSE log[v]]
  <1>1. PICK T, n, longer :
           /\ T = S \cup {new} /\ n = Len(log)
           /\ longer = [v \in 1..(n + 1) |-> IF v = n + 1 THEN new ELSE log[v]]
    OBVIOUS
  <1>2. n \in Nat /\ log \in Seq(T) /\ \A v \in 1..n : log[v] \in T
    BY <1>1
  <1>3. longer \in [1..(n + 1) -> T]
    BY <1>1, <1>2
  <1>4. longer \in Seq(T) /\ Len(longer) = n + 1
    BY <1>2, <1>3
  <1>5. /\ Append(log, new) \in Seq(T) /\ Len(Append(log, new)) = n + 1
        /\ \A v \in 1..n : Append(log, new)[v] = log[v]
        /\ Append(log, new)[n + 1] = new
    BY <1>1, <1>2, AppendProperties
  <1>6. \A v \in 1..(n + 1) : longer[v] = Append(log, new)[v]
    BY <1>1, <1>2, <1>5
  <1>7. longer = Append(log, new)
    BY <1>4, <1>5, <1>6, SeqEqual
  <1>8. QED BY <1>1, <1>7

(* An upsert revises the last version, or opens one after a delivered one. *)
LEMMA UpsertRecords ==
    ASSUME LedgerInv, TurnInv, ClimbInv, NEW a \in Admitters, Upsert(a),
           admission[a].type = "run.ended"
    PROVE  Ledger!LedgerNext
  <1>1. PICK r, t, w, row : CorrectsWith(a, r, t, w, row)
    BY UpsertWrites
  <1>2. PICK m : m = row.meaning
    OBVIOUS
  <1>3. /\ r \in Runs /\ t \in 0..MaxVersion /\ w \in Versions /\ StandsAt(r, t)
        /\ outbox' = [outbox EXCEPT ![Ended(r, w)] = row]
        /\ TermRow(row) /\ Queued(row) /\ row.deliveredAt = FALSE
        /\ \/ w = t /\ t > 0 /\ ~Row(r, t).deliveredAt
           \/ w = t + 1 /\ (t > 0 => Row(r, t).deliveredAt)
        /\ m \in w..MaxMeaning /\ \A v \in 1..t : Row(r, v).meaning < m
    BY <1>1, <1>2 DEF CorrectsWith
  <1>4. MaxVersion \in Nat /\ MaxMeaning \in Nat /\ Versions = 1..MaxVersion
    BY EndedIds DEF Versions
  <1>5. PICK new : new = [meaning |-> m, delivered |-> FALSE]
    OBVIOUS
  <1>6. Entry(row) = new /\ m \in 1..MaxMeaning
    <2>1. Entry(row) = new
      BY <1>2, <1>3, <1>5 DEF Entry
    <2>2. m \in 1..MaxMeaning
      BY <1>3, <1>4
    <2>3. QED BY <2>1, <2>2
  <1>7. PICK log, log2 :
           /\ log = [v \in 1..t |-> Entry(Row(r, v))]
           /\ log2 = [v \in 1..w |-> IF v = w THEN new ELSE Entry(Row(r, v))]
           /\ LedgerOf[r] = log /\ LedgerOf' = [LedgerOf EXCEPT ![r] = log2]
    <2>1. PICK log, log2 :
             /\ log = [v \in 1..t |-> Entry(Row(r, v))]
             /\ log2 = [v \in 1..w |-> IF v = w THEN Entry(row) ELSE Entry(Row(r, v))]
      OBVIOUS
    <2>2. w \in {t, t + 1}
      BY <1>3
    <2>3. OnlyLog(r, t, w, row)
      BY <1>3, <2>2, OneLog
    <2>4. log2 = [v \in 1..w |-> IF v = w THEN new ELSE Entry(Row(r, v))]
      BY <1>6, <2>1
    <2>5. QED BY <2>1, <2>3, <2>4 DEF OnlyLog
  <1>8. Len(log) = t /\ (log # <<>> <=> t > 0)
    <2>1. log = [v \in 1..t |-> Entry(Row(r, v))]
      BY <1>7
    <2> QED BY <1>3, <2>1, LogLength
  <1>9. t > 0 => /\ log[t].meaning < m
                 /\ log[t].delivered = Row(r, t).deliveredAt
    BY <1>3, <1>4, <1>7 DEF Entry
  <1>10. CASE w = t
    <2>1. t > 0 /\ ~Row(r, t).deliveredAt
      BY <1>3, <1>4, <1>10
    <2>2. log2 = [log EXCEPT ![t].meaning = m]
      <3>1. t \in 1..t /\ log[t] = Entry(Row(r, t))
        BY <1>3, <1>4, <1>7, <2>1
      <3>2. TermRow(Row(r, t))
        BY <1>3, <1>10 DEF StandsAt
      <3>3. PICK last : last = log[t]
        OBVIOUS
      <3>4. last = [meaning |-> Row(r, t).meaning, delivered |-> FALSE]
        BY <2>1, <3>1, <3>2, <3>3 DEF Entry, TermRow
      <3>5. PICK revised : revised = [last EXCEPT !.meaning = m]
        OBVIOUS
      <3>6. /\ revised.meaning = m /\ revised.delivered = FALSE
            /\ DOMAIN revised = {"meaning", "delivered"}
        BY <3>4, <3>5
      <3>7. revised = [f \in DOMAIN revised |-> revised[f]]
        BY <3>5
      <3>8. revised = new
        BY <1>5, <3>6, <3>7
      <3>9. QED BY <1>7, <1>10, <3>1, <3>3, <3>5, <3>8
    <2>3. Ledger!Open(r)
      BY <1>7, <1>8, <1>9, <2>1 DEF Ledger!Open, Ledger!Last
    <2>4. LedgerOf' = [LedgerOf EXCEPT ![r][Len(LedgerOf[r])].meaning = m]
      BY <1>7, <1>8, <2>2
    <2>5. Ledger!Revise(r, m)
      BY <1>7, <1>8, <1>9, <2>1, <2>3, <2>4 DEF Ledger!Revise, Ledger!Last
    <2>6. QED BY <1>3, <1>6, <2>5 DEF Ledger!LedgerNext
  <1>11. CASE w = t + 1
    <2>1. t > 0 => Row(r, t).deliveredAt
      BY <1>3, <1>4, <1>11
    <2>2. log2 = Append(log, new)
      <3>1. PICK S : log \in Seq(S)
        BY <1>3, <1>7, LogLength
      <3>2. Append(log, new) = [v \in 1..(t + 1) |-> IF v = t + 1 THEN new ELSE log[v]]
        BY <1>8, <3>1, LogGrows
      <3>3. \A v \in 1..(t + 1) : v # t + 1 => log[v] = Entry(Row(r, v))
        BY <1>3, <1>4, <1>7
      <3>4. QED BY <1>7, <1>11, <3>2, <3>3
    <2>3. ~Ledger!Open(r)
      BY <1>7, <1>8, <1>9, <2>1 DEF Ledger!Open, Ledger!Last
    <2>4. Ledger!Correct(r, m)
      BY <1>5, <1>7, <1>8, <1>9, <2>2, <2>3 DEF Ledger!Correct, Ledger!Last
    <2>5. QED BY <1>3, <1>6, <2>4 DEF Ledger!LedgerNext
  <1>12. QED BY <1>3, <1>10, <1>11

(* An answer publishes the last version.                                   *)
LEMMA AnsweredRecords ==
    ASSUME LedgerInv, TurnInv, ClimbInv, NEW l \in Lanes, claim[l].type = "run.ended", Answered(l)
    PROVE  Ledger!LedgerNext
  <1>1. Sends(l) /\ lane[l] \notin Recording
    BY DEF Answered, LaneAt, Sends, Sending, Recording
  <1>2. PICK r \in Runs, t \in Versions :
           /\ claim[l] = Ended(r, t) /\ StandsAt(r, t) /\ entry[l].meaning = Row(r, t).meaning
    BY <1>1, SendsLast
  <1>3. PICK old : old = entry[l] /\ IsRow(old) /\ ~Row(r, t).deliveredAt
    BY <1>1, <1>2 DEF LedgerInv, LaneReads, Row
  <1>4. PICK row : row = [old EXCEPT !.state = "delivered", !.waits = FALSE,
                                     !.deliveredAt = TRUE, !.superseded = FALSE]
    OBVIOUS
  <1>5. TermRow(row) /\ Queued(row) /\ row.deliveredAt = TRUE /\ row.meaning = Row(r, t).meaning
    BY <1>2, <1>3, <1>4 DEF TermRow, IsRow, Queued, DeliveryStates
  <1>6. outbox' = [outbox EXCEPT ![Ended(r, t)] = row]
    BY <1>2, <1>3, <1>4 DEF Answered, Puts
  <1>7. MaxVersion \in Nat /\ Versions = 1..MaxVersion /\ t \in 0..MaxVersion
    BY EndedIds DEF Versions
  <1>8. PICK log, log2 :
           /\ log = [v \in 1..t |-> Entry(Row(r, v))]
           /\ log2 = [v \in 1..t |-> IF v = t THEN Entry(row) ELSE Entry(Row(r, v))]
           /\ LedgerOf[r] = log /\ LedgerOf' = [LedgerOf EXCEPT ![r] = log2]
    <2>1. PICK log, log2 :
             /\ log = [v \in 1..t |-> Entry(Row(r, v))]
             /\ log2 = [v \in 1..t |-> IF v = t THEN Entry(row) ELSE Entry(Row(r, v))]
      OBVIOUS
    <2>2. t \in {t, t + 1}
      OBVIOUS
    <2>3. OnlyLog(r, t, t, row)
      BY <1>2, <1>5, <1>6, <1>7, <2>2, OneLog
    <2>4. QED BY <2>1, <2>3 DEF OnlyLog
  <1>9. Len(log) = t /\ log # <<>> /\ ~log[t].delivered
    <2>1. Len(log) = t /\ (log # <<>> <=> t > 0)
      BY <1>7, <1>8, LogLength
    <2>2. t > 0 /\ log[t] = Entry(Row(r, t))
      BY <1>7, <1>8
    <2>3. QED BY <1>3, <2>1, <2>2 DEF Entry
  <1>10. log2 = [log EXCEPT ![t].delivered = TRUE]
    <2>1. t \in 1..t /\ log[t] = Entry(Row(r, t))
      BY <1>7, <1>8
    <2>2. PICK last : last = log[t]
      OBVIOUS
    <2>3. last = [meaning |-> Row(r, t).meaning, delivered |-> Row(r, t).deliveredAt]
      BY <2>1, <2>2 DEF Entry
    <2>4. PICK told : told = [last EXCEPT !.delivered = TRUE]
      OBVIOUS
    <2>5. /\ told.meaning = Row(r, t).meaning /\ told.delivered = TRUE
          /\ DOMAIN told = {"meaning", "delivered"}
      BY <2>3, <2>4
    <2>6. told = [f \in DOMAIN told |-> told[f]]
      BY <2>4
    <2>7. told = [meaning |-> Row(r, t).meaning, delivered |-> TRUE]
      BY <2>5, <2>6
    <2>8. Entry(row) = [meaning |-> Row(r, t).meaning, delivered |-> TRUE]
      BY <1>5 DEF Entry
    <2>9. QED BY <1>8, <2>1, <2>2, <2>4, <2>7, <2>8
  <1>11. LedgerOf' = [LedgerOf EXCEPT ![r][Len(LedgerOf[r])].delivered = TRUE]
    BY <1>8, <1>9, <1>10
  <1>12. Ledger!Publish(r)
    BY <1>8, <1>9, <1>11 DEF Ledger!Publish, Ledger!Open, Ledger!Last
  <1>13. QED BY <1>2, <1>12 DEF Ledger!LedgerNext

(* Every other step leaves the ledger as it is.                            *)
LEMMA StepRecords ==
    ASSUME LedgerInv, TurnInv, ClimbInv, "crash" \notin Faults, [Next]_vars
    PROVE  Ledger!LedgerNext \/ LedgerOf' = LedgerOf
  <1>1. CASE \/ \E a \in Admitters : Kick(a)
             \/ TimerFires \/ Clock \/ StartDispatch \/ (Operator /\ ~Crash) \/ UNCHANGED vars
    BY <1>1, QuietSteps, LedgerStays
  <1>2. ASSUME NEW a \in Admitters, Admit(a) \/ (Advance(a) /\ ~Kick(a))
        PROVE  Ledger!LedgerNext \/ LedgerOf' = LedgerOf
    BY <1>2, CallerRows, UpsertRecords, LedgerStays
  <1>3. ASSUME NEW l \in Lanes, Deliver(l) \/ Receive(l) \/ Refused(l) \/ Rejected(l)
        PROVE  Ledger!LedgerNext \/ LedgerOf' = LedgerOf
    <2>1. CASE \/ Fetch(l) \/ TakeFirst(l) \/ TakeAll(l) \/ TakeNone(l) \/ TakeNext(l) \/ EndBatch(l)
               \/ Reread(l) \/ ReconcileAtBoundary(l) \/ RetireAtBoundary(l) \/ LeaveBoundary(l)
               \/ ReadRecord(l) \/ WriteRecord(l) \/ Release(l)
      BY <2>1, LaneRows, LedgerStays
    <2>2. CASE Post(l) \/ Receive(l)
      <3>1. outbox' = outbox
        BY <2>2 DEF Post, Receive
      <3>2. QED BY <3>1, LedgerStays
    <2>3. CASE (Gate(l) \/ Answered(l) \/ Refused(l) \/ Rejected(l)) /\ claim[l].type # "run.ended"
      <3>1. outbox' = outbox \/ \E row : outbox' = [outbox EXCEPT ![claim[l]] = row]
        BY <2>3 DEF Gate, Answered, Refused, Rejected, Give, Puts
      <3>2. QED BY <2>3, <3>1, LedgerStays
    <2>4. CASE Answered(l) /\ claim[l].type = "run.ended"
      BY <2>4, AnsweredRecords
    <2>5. CASE (Gate(l) \/ Refused(l) \/ Rejected(l)) /\ claim[l].type = "run.ended"
      <3>1. CASE Gate(l) /\ UNCHANGED outbox
        BY <3>1, LedgerStays
      <3>2. CASE ~(Gate(l) /\ UNCHANGED outbox)
        <4>1. PICK row, pc :
                 /\ TermRow(row) /\ Queued(row) /\ ~row.deliveredAt
                 /\ row.meaning = entry[l].meaning
                 /\ Puts(l, row) /\ Moves(l, pc) /\ pc \in {"release", "attempted"}
          BY <2>5, <3>2, GateRow
        <4>2. UNCHANGED subject /\ Sends(l) /\ lane[l] \notin Recording
          BY <2>5 DEF Gate, Refused, Rejected, Attempting, LaneAt, Sends, Sending, Recording
        <4>3. \A s \in Runs : SameVersions(s)
          BY <4>1, <4>2, AttemptRows
        <4>4. QED BY <4>3, LedgerStays
      <3>3. QED BY <3>1, <3>2
    <2>6. QED BY <1>3, <2>1, <2>2, <2>3, <2>4, <2>5 DEF Deliver
  <1>4. ~Crash
    BY DEF Crash
  <1>5. QED BY <1>1, <1>2, <1>3, <1>4 DEF Next

(* The dispatch implements the ledger of terminals (RunEndedLedger): each  *)
(* version is opened in turn, revised only towards more and only until it  *)
(* is delivered, and published once (queueRunEndedEventUnlocked,           *)
(* deliverUnlocked, recordRunEndedSubject).                                *)
THEOREM DispatchKeepsLedger ==
    ASSUME "crash" \notin Faults, MaxMeaning <= MaxVersion
    PROVE  Spec /\ [][Orderly]_vars => KeepsLedger
  <1>1. Init => Ledger!LedgerInit
    <2> SUFFICES ASSUME Init PROVE Ledger!LedgerInit
      OBVIOUS
    <2>1. ASSUME NEW r \in Runs PROVE Log(outbox, r) = <<>>
      <3>1. 0 \in 0..MaxVersion /\ \A v \in Versions : ~(v <= 0)
        BY EndedIds DEF Versions
      <3>2. \A v \in Versions : ~Queued(outbox[Ended(r, v)])
        <4>1. PICK t \in 0..MaxVersion : StandsAt(r, t)
          BY LedgerInit DEF LedgerInv, Stands
        <4>2. subject[r].version = 0 /\ \A a \in Admitters : ~Files(a, r)
          BY DEF Init, NoSubject, AtRest, Files
        <4>3. t = 0
          BY <4>1, <4>2 DEF StandsAt
        <4>4. QED BY <3>1, <4>1, <4>3 DEF StandsAt, Row
      <3>3. Log(outbox, r) = [v \in 1..0 |-> Entry(outbox[Ended(r, v)])]
        BY <3>1, <3>2, LogIs
      <3>4. QED BY <3>3
    <2>2. QED BY <2>1, LedgerIsLogs DEF Ledger!LedgerInit
  <1>2. LedgerInv /\ TurnInv /\ ClimbInv /\ [Next]_vars => [Ledger!LedgerNext]_LedgerOf
    BY StepRecords
  <1>3. QED BY <1>1, <1>2, LedgerHolds, TurnsAreTaken, ClimbHolds, PTL
            DEF Spec, KeepsLedger, Ledger!LedgerSpec

-----------------------------------------------------------------------------
(* Where no update is ever submitted, none can be in flight.               *)
LEMMA AloneTheyTakeTurns ==
    ASSUME MaxLevel = 0
    PROVE  Spec => [][Orderly]_vars
  <1>1. \A k \in EventIds : k.type # "run.update"
    BY DEF EventIds, Start, Ended, EventId
  <1>2. ClimbInv => Orderly
    BY <1>1 DEF ClimbInv, ClaimInv, LanesTyped, DeliveringUpdate, Orderly
  <1>3. QED BY <1>2, ClimbHolds, PTL

(* So a dispatch of terminals alone, whose receiver refuses, rejects or    *)
(* takes them and which stops and starts as it pleases, keeps subject and  *)
(* row in step, has the receiver see each version in one meaning and in    *)
(* order, and keeps the ledger                                             *)
(* (queueRunEndedEventAdmission, deliverUnlocked, recordRunEndedSubject).  *)
THEOREM TerminalsAloneAreSafe ==
    ASSUME MaxLevel = 0, Faults \cap {"crash", "lost"} = {}, MaxMeaning <= MaxVersion
    PROVE  Spec => /\ [](SubjectMatchesRow /\ VersionsClimb)
                   /\ KeepsLedger
  <1>1. "crash" \notin Faults
    OBVIOUS
  <1>2. Spec => [][Orderly]_vars
    BY AloneTheyTakeTurns
  <1>3. Spec /\ [][Orderly]_vars => []SubjectMatchesRow
    BY <1>1, SubjectAlwaysMatches
  <1>4. Spec /\ [][Orderly]_vars => KeepsLedger
    BY <1>1, DispatchKeepsLedger
  <1>5. Spec /\ [][Orderly]_vars => []VersionsClimb
    BY VersionsAlwaysClimb
  <1>6. QED BY <1>2, <1>3, <1>4, <1>5, PTL

-----------------------------------------------------------------------------
(* The storage worker's order only removes behaviours.                     *)
LEMMA ServeIsNext ==
    ASSUME NEW p \in Lanes \cup Admitters, Serve(p)
    PROVE  Next
  <1>1. CASE p \in Lanes
    BY <1>1 DEF Serve, Next
  <1>2. CASE p \notin Lanes
    BY <1>2 DEF Serve, Next
  <1>3. QED BY <1>1, <1>2

LEMMA OrderedStepIsStep == [OrderedNext]_<<vars, calls>> => [Next]_vars
  <1> SUFFICES ASSUME [OrderedNext]_<<vars, calls>> PROVE [Next]_vars
    OBVIOUS
  <1>1. CASE \E p \in Lanes \cup Admitters : Serve(p)
    BY <1>1, ServeIsNext
  <1>2. CASE \E a \in Admitters : Admit(a) /\ Requeue(a)
    BY <1>2 DEF Next
  <1>3. CASE \E l \in Lanes : (Receive(l) \/ Refused(l) \/ Rejected(l)) /\ Requeue(l)
    BY <1>3 DEF Next
  <1>4. CASE TimerFires \/ Clock \/ StartDispatch \/ Operator
    BY <1>4 DEF Next
  <1>5. CASE UNCHANGED <<vars, calls>>
    BY <1>5
  <1>6. QED BY <1>1, <1>2, <1>3, <1>4, <1>5 DEF OrderedNext

(* A dispatch whose worker (agent-storage worker.ts) answers in order is     *)
(* a dispatch whose answers come in any order.                             *)
THEOREM OrderedImplementsDispatch == OrderedSpec => Spec
  <1>1. OrderedInit => Init
    BY DEF OrderedInit
  <1>2. QED BY <1>1, OrderedStepIsStep, PTL DEF OrderedSpec, Spec

(* On the worker, too, no run has two requests under way                    *)
(* (inFlightLifecycleSubjects in deliverClaimed).                          *)
THEOREM OrderedAttemptsAreSerial == OrderedSpec => []OneAttemptPerRun
  BY OrderedImplementsDispatch, AttemptsAreSerial, PTL

(* Nor is its receiver sent a snapshot behind an earlier one                *)
(* (reconcileRunUpdateAtDeliveryBoundary).                                 *)
THEOREM OrderedUpdatesClimb == OrderedSpec => []UpdatesClimb
  BY OrderedImplementsDispatch, UpdatesAlwaysClimb, PTL

(* And with the worker's order, too, nothing of a run follows its terminal *)
(* while terminals take turns (runEndedDeliveredForLifecycleSubject).      *)
THEOREM OrderedNothingFollows ==
    ASSUME Faults \cap {"crash", "lost"} = {}, MaxMeaning <= MaxVersion
    PROVE  OrderedSpec /\ [][Orderly]_vars => []NothingAfterTerminal
  <1>1. Spec /\ [][Orderly]_vars => []NothingAfterTerminal
    BY NothingFollowsATerminal
  <1>2. QED BY <1>1, OrderedImplementsDispatch, PTL
=============================================================================
