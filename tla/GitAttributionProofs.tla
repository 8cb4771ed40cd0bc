------------------------- MODULE GitAttributionProofs -------------------------
(***************************************************************************)
(* Proofs about the attribution of queries to commits: what the ledger of   *)
(* claims stores passes its own assertions and its statuses agree with its  *)
(* claims, and the claims behave as FirstClaim says, for any queries,       *)
(* commits, evidence, prices, crashes and interleavings of the jobs with    *)
(* the scanner, the tracker and the run ledger.                             *)
(***************************************************************************)
EXTENDS GitAttribution, WellFoundedInduction, TLAPS

(*---------------------- one attribution of the ledger -------------------*)

IsPrice(price) == price # NoCost => price \in Int

IsAllocation(x) ==
    /\ x = [commit |-> x.commit, episode |-> x.episode, status |-> x.status, pairs |-> x.pairs,
            cost |-> x.cost, at |-> x.at, since |-> x.since, retracted |-> x.retracted]
    /\ x.commit \in Commits /\ x.at \in 0 .. MaxNow /\ IsPrice(x.cost)

LiveIn(t) == {x \in t.allocations : Live(x)}

Agrees(t) ==
    /\ t.status = "attributed" <=> \E x \in LiveIn(t) : x.status = "active"
    /\ t.status = "rewrite_pending" <=> \E x \in LiveIn(t) : x.status = "rewrite_pending"

(* The inductive invariant of the ledger, of one attribution.               *)
Sound(t) ==
    /\ t = [status |-> t.status, cost |-> t.cost, allocations |-> t.allocations]
    /\ IsPrice(t.cost)
    /\ \A x \in t.allocations : IsAllocation(x)
    /\ Writable(t)
    /\ Agrees(t)

(* The claim of one attribution, and the steps that FirstClaim allows it.   *)
ClaimIn(t) ==
    IF LiveIn(t) = {} THEN [kind |-> "free"]
    ELSE LET x == CHOOSE x \in LiveIn(t) : TRUE
         IN  [kind |-> IF x.status = "active" THEN "held" ELSE "rewriting",
              commit |-> x.commit, at |-> x.at]

MayTake(t, c, at) ==
    \A x \in LiveIn(t) : x.commit # c /\ (x.status = "active" => x.at < at)

Settles(t, u) ==
    \/ ClaimIn(u) = ClaimIn(t)
    \/ LiveIn(u) = {}
    \/ \E x \in LiveIn(t), y \in LiveIn(u) :
          /\ x.status = "active" /\ y.status = "rewrite_pending"
          /\ x.commit = y.commit /\ x.at = y.at
    \/ \E y \in LiveIn(u) : y.status = "active" /\ MayTake(t, y.commit, y.at)

LEMMA OneLive ==
    ASSUME NEW t, Sound(t), NEW x \in LiveIn(t)
    PROVE  /\ LiveIn(t) = {x} /\ x.status \in {"active", "rewrite_pending"} /\ IsAllocation(x)
           /\ ClaimIn(t) = [kind |-> IF x.status = "active" THEN "held" ELSE "rewriting",
                            commit |-> x.commit, at |-> x.at]
           /\ AtMost(x.cost, t.cost)
           /\ x.status = "active" => t.status = "attributed"
           /\ x.status = "rewrite_pending" => t.status = "rewrite_pending"
<1>1. \A y \in LiveIn(t) : y = x
  BY DEF Sound, Writable, LiveIn
<1>2. LiveIn(t) = {x}
  BY <1>1
<1>3. x \in t.allocations /\ Live(x)
  BY DEF LiveIn
<1>4. (CHOOSE y \in LiveIn(t) : TRUE) = x
  BY <1>2
<1>5. x.status = "active" => t.status = "attributed"
  BY DEF Sound, Agrees
<1>6. x.status = "rewrite_pending" => t.status = "rewrite_pending"
  BY DEF Sound, Agrees
<1>7. AtMost(x.cost, t.cost)
  BY DEF Sound, Writable, LiveIn
<1>8. ClaimIn(t) = [kind |-> IF x.status = "active" THEN "held" ELSE "rewriting",
                    commit |-> x.commit, at |-> x.at]
  BY <1>2, <1>4 DEF ClaimIn
<1> QED BY <1>2, <1>3, <1>5, <1>6, <1>7, <1>8 DEF Sound, Live

(* What the operations of the ledger make of one attribution.               *)
MovedTo(t, c, m) ==
    [t EXCEPT !.status = "attributed",
              !.allocations = {IF Live(y) /\ y.commit = c THEN Ended(y) ELSE y : y \in @} \cup {m}]

JudgedBy(t, v) ==
    [t EXCEPT !.status = IF LiveIn(t) # {} /\ v.kind = "revoked" THEN "rejected" ELSE @,
              !.allocations = {Judged(z, v) : z \in @}]

Rewritable(z, commits) == z.status = "active" /\ z.commit \in commits
Awaiting(z, at) == [z EXCEPT !.status = "rewrite_pending", !.since = at]
Waiting(z, commits, at) == IF Rewritable(z, commits) THEN Awaiting(z, at) ELSE z
Marked(t, commits, at) ==
    [t EXCEPT !.status = IF \E z \in t.allocations : Rewritable(z, commits)
                         THEN "rewrite_pending" ELSE @,
              !.allocations = {Waiting(z, commits, at) : z \in @}]

Overdue(z, before) == z.status = "rewrite_pending" /\ z.since <= before
Lapsed(z, before) == IF Overdue(z, before) THEN Ended(z) ELSE z
ExpiredBy(t, before) ==
    [t EXCEPT !.status = IF \E z \in t.allocations : Overdue(z, before) THEN "expired" ELSE @,
              !.allocations = {Lapsed(z, before) : z \in @}]

PricedAt(z, price) == IF z.status = "active" THEN [z EXCEPT !.cost = price] ELSE z

(* A claim of a query without one.                                          *)
LEMMA Claiming ==
    ASSUME NEW t, Sound(t), LiveIn(t) = {}, NEW n, IsAllocation(n), n.status = "active",
           NEW m, m = [n EXCEPT !.cost = t.cost],
           NEW u, u = [t EXCEPT !.status = "attributed", !.allocations = @ \cup {m}]
    PROVE  Sound(u) /\ LiveIn(u) = {m} /\ u.cost = t.cost
<1>1. /\ IsAllocation(m) /\ m.status = "active" /\ m.cost = t.cost
  BY DEF IsAllocation, Sound
<1>2. /\ u = [status |-> u.status, cost |-> u.cost, allocations |-> u.allocations]
      /\ u.status = "attributed" /\ u.cost = t.cost /\ u.allocations = t.allocations \cup {m}
  BY DEF Sound
<1>3. LiveIn(u) = {m}
  BY <1>1, <1>2 DEF LiveIn, Live
<1>4. AtMost(m.cost, u.cost)
  BY <1>1, <1>2 DEF AtMost, Sound, IsPrice
<1>5. Writable(u)
  BY <1>3, <1>4 DEF Writable, LiveIn
<1> QED BY <1>1, <1>2, <1>3, <1>5 DEF Sound, Agrees

(* A claim moves from commit c.                                             *)
LEMMA Moving ==
    ASSUME NEW t, Sound(t), NEW c, NEW x \in LiveIn(t), x.commit = c,
           NEW n, IsAllocation(n), n.status = "active",
           NEW m, m = [n EXCEPT !.cost = t.cost],
           NEW u, u = MovedTo(t, c, m)
    PROVE  Sound(u) /\ LiveIn(u) = {m} /\ u.cost = t.cost
<1> DEFINE Rest == {IF Live(y) /\ y.commit = c THEN Ended(y) ELSE y : y \in t.allocations}
<1>1. /\ IsAllocation(m) /\ m.status = "active" /\ m.cost = t.cost
  BY DEF IsAllocation, Sound
<1>2. /\ u = [status |-> u.status, cost |-> u.cost, allocations |-> u.allocations]
      /\ u.status = "attributed" /\ u.cost = t.cost /\ u.allocations = Rest \cup {m}
  BY DEF Sound, MovedTo
<1>3. \A z \in Rest : IsAllocation(z) /\ ~Live(z)
  <2> SUFFICES ASSUME NEW y \in t.allocations,
                      NEW z, z = IF Live(y) /\ y.commit = c THEN Ended(y) ELSE y
               PROVE  IsAllocation(z) /\ ~Live(z)
    OBVIOUS
  <2>1. IsAllocation(y)
    BY DEF Sound
  <2>2. CASE Live(y)
    <3>1. y = x
      BY <2>2 DEF Sound, Writable, LiveIn
    <3>2. z = Ended(y)
      BY <2>2, <3>1
    <3>3. IsAllocation(z) /\ z.status = "superseded"
      BY <2>1, <3>2 DEF Ended, IsAllocation
    <3> QED BY <3>3 DEF Live
  <2>3. CASE ~Live(y)
    BY <2>1, <2>3
  <2> QED BY <2>2, <2>3
<1> HIDE DEF Rest
<1>4. LiveIn(u) = {m}
  BY <1>1, <1>2, <1>3 DEF LiveIn, Live
<1>5. AtMost(m.cost, u.cost)
  BY <1>1, <1>2 DEF AtMost, Sound, IsPrice
<1>6. Writable(u)
  BY <1>4, <1>5 DEF Writable, LiveIn
<1> QED BY <1>1, <1>2, <1>3, <1>4, <1>6 DEF Sound, Agrees

(* What ends none of the claims or all of them, and keeps the rest of each. *)
LEMMA Same ==
    ASSUME NEW t, Sound(t), NEW u, ClaimIn(u) = ClaimIn(t)
    PROVE  Settles(t, u)
  BY DEF Settles

(* The one live claim of t becomes y, or ends; the others stay ended.       *)
LEMMA LiveChanges ==
    ASSUME NEW t, Sound(t), NEW x \in LiveIn(t), NEW y, IsAllocation(y),
           NEW u, u = [status |-> u.status, cost |-> u.cost, allocations |-> u.allocations],
           IsPrice(u.cost),
           y \in u.allocations,
           \A z \in u.allocations : z = y \/ (z \in t.allocations /\ z # x),
           Live(y) => AtMost(y.cost, u.cost),
           y.status = "active" <=> u.status = "attributed",
           y.status = "rewrite_pending" <=> u.status = "rewrite_pending"
    PROVE  Sound(u) /\ LiveIn(u) = IF Live(y) THEN {y} ELSE {}
<1>1. \A z \in t.allocations : z # x => ~Live(z)
  BY DEF Sound, Writable, LiveIn
<1>2. x \in t.allocations
  BY DEF LiveIn
<1>3. LiveIn(u) = IF Live(y) THEN {y} ELSE {}
  BY <1>1, <1>2 DEF LiveIn
<1>4. \A z \in u.allocations : IsAllocation(z)
  BY DEF Sound
<1>5. Writable(u)
  BY <1>3 DEF Writable, LiveIn
<1>6. Agrees(u)
  BY <1>3 DEF Agrees, Live
<1> QED BY <1>3, <1>4, <1>5, <1>6 DEF Sound

(* A native rejection judges the live claim.                                *)
LEMMA Judging ==
    ASSUME NEW t, Sound(t), NEW v, v.kind \in {"kept", "revalidated", "revoked"},
           LiveIn(t) = {} => v.kind = "kept",
           NEW u, u = JudgedBy(t, v)
    PROVE  Sound(u) /\ Settles(t, u) /\ u.cost = t.cost
<1>1. /\ u = [status |-> u.status, cost |-> u.cost, allocations |-> u.allocations]
      /\ u.status = IF LiveIn(t) # {} /\ v.kind = "revoked" THEN "rejected" ELSE t.status
      /\ u.cost = t.cost /\ u.allocations = {Judged(z, v) : z \in t.allocations}
      /\ IsPrice(u.cost)
  BY DEF Sound, JudgedBy
<1>2. CASE LiveIn(t) = {}
  <2>1. \A z \in t.allocations : Judged(z, v) = z
    BY <1>2 DEF Judged, LiveIn
  <2>2. u.allocations = t.allocations /\ u.status = t.status
    BY <1>1, <1>2, <2>1
  <2>3. u = t
    BY <1>1, <2>2 DEF Sound
  <2> QED BY <2>3 DEF Settles
<1>3. CASE LiveIn(t) # {}
  <2>1. PICK x \in LiveIn(t) : TRUE
    BY <1>3
  <2>2. /\ LiveIn(t) = {x} /\ IsAllocation(x) /\ AtMost(x.cost, t.cost) /\ Live(x)
        /\ ClaimIn(t) = [kind |-> IF x.status = "active" THEN "held" ELSE "rewriting",
                         commit |-> x.commit, at |-> x.at]
        /\ x.status \in {"active", "rewrite_pending"}
        /\ x.status = "active" => t.status = "attributed"
        /\ x.status = "rewrite_pending" => t.status = "rewrite_pending"
    BY <2>1, OneLive DEF LiveIn
  <2> DEFINE y == Judged(x, v)
  <2>3. \A z \in t.allocations : Judged(z, v) = IF z = x THEN y ELSE z
    BY <2>2 DEF Judged, LiveIn
  <2>4. y \in u.allocations /\ \A z \in u.allocations : z = y \/ (z \in t.allocations /\ z # x)
    BY <1>1, <2>1, <2>3 DEF LiveIn
  <2>5. CASE v.kind = "revoked"
    <3>1. y = [Ended(x) EXCEPT !.retracted = TRUE]
      BY <2>2, <2>5 DEF Judged
    <3>2. IsAllocation(y) /\ y.status = "superseded"
      BY <2>2, <3>1 DEF Ended, IsAllocation
    <3>3. u.status = "rejected"
      BY <1>1, <1>3, <2>5
    <3> HIDE DEF y
    <3>5. ~Live(y) /\ y.status # "active" /\ y.status # "rewrite_pending"
      BY <3>2 DEF Live
    <3>6. u.status # "attributed" /\ u.status # "rewrite_pending"
      BY <3>3
    <3>4. Sound(u) /\ LiveIn(u) = {}
      <4>1. Live(y) => AtMost(y.cost, u.cost)
        BY <3>5
      <4>2. /\ y.status = "active" <=> u.status = "attributed"
            /\ y.status = "rewrite_pending" <=> u.status = "rewrite_pending"
        BY <3>5, <3>6
      <4>3. IsAllocation(y) /\ IsPrice(u.cost) /\ u = [status |-> u.status, cost |-> u.cost, allocations |-> u.allocations]
        BY <1>1, <3>2
      <4>4. Sound(u) /\ LiveIn(u) = IF Live(y) THEN {y} ELSE {}
         BY <2>1, <2>4, <4>1, <4>2, <4>3, LiveChanges
      <4> QED BY <4>4, <3>5
    <3> QED BY <1>1, <3>4 DEF Settles
  <2>6. CASE v.kind # "revoked"
    <3>1. y = x \/ y = [x EXCEPT !.pairs = v.pairs]
      BY <2>2, <2>6 DEF Judged
    <3>2. /\ IsAllocation(y) /\ y.status = x.status /\ y.commit = x.commit /\ y.at = x.at /\ y.cost = x.cost
      BY <2>2, <3>1 DEF IsAllocation
    <3>3. u.status = t.status
      BY <1>1, <2>6
    <3>5. /\ y.status = "active" <=> u.status = "attributed"
          /\ y.status = "rewrite_pending" <=> u.status = "rewrite_pending"
      BY <2>2, <3>2, <3>3
    <3> HIDE DEF y
    <3>4. Sound(u) /\ LiveIn(u) = {y}
      <4>1. AtMost(y.cost, u.cost) /\ Live(y)
        BY <1>1, <2>2, <3>2 DEF Live
      <4>2. IsAllocation(y) /\ IsPrice(u.cost)
            /\ u = [status |-> u.status, cost |-> u.cost, allocations |-> u.allocations]
        BY <1>1, <3>2
      <4>4. Live(y) => AtMost(y.cost, u.cost)
        BY <4>1
      <4>3. Sound(u) /\ LiveIn(u) = IF Live(y) THEN {y} ELSE {}
        BY <2>1, <2>4, <3>5, <4>2, <4>4, LiveChanges
      <4> QED BY <4>1, <4>3
    <3>6. ClaimIn(u) = ClaimIn(t)
      <4>1. ClaimIn(u) = [kind |-> IF y.status = "active" THEN "held" ELSE "rewriting",
                          commit |-> y.commit, at |-> y.at]
        BY <3>4, OneLive
      <4> QED BY <2>2, <3>2, <4>1
    <3> QED BY <1>1, <3>4, <3>6 DEF Settles
  <2> QED BY <2>5, <2>6
<1> QED BY <1>2, <1>3

LEMMA AwaitingKeeps ==
    ASSUME NEW z, IsAllocation(z), NEW at, NEW y, y = Awaiting(z, at)
    PROVE  /\ IsAllocation(y) /\ y.status = "rewrite_pending"
           /\ y.commit = z.commit /\ y.at = z.at /\ y.cost = z.cost
  BY DEF IsAllocation, Awaiting

LEMMA EndedKeeps ==
    ASSUME NEW z, IsAllocation(z), NEW y, y = Ended(z)
    PROVE  IsAllocation(y) /\ y.status = "superseded"
  BY DEF IsAllocation, Ended

(* A rewrite makes the live claims on some commits wait.                    *)
LEMMA Marking ==
    ASSUME NEW t, Sound(t), NEW commits, NEW at,
           NEW u, u = Marked(t, commits, at)
    PROVE  Sound(u) /\ Settles(t, u) /\ u.cost = t.cost
<1>1. /\ u = [status |-> u.status, cost |-> u.cost, allocations |-> u.allocations]
      /\ u.status = IF \E z \in t.allocations : Rewritable(z, commits) THEN "rewrite_pending" ELSE t.status
      /\ u.cost = t.cost /\ u.allocations = {Waiting(z, commits, at) : z \in t.allocations}
      /\ IsPrice(u.cost)
  BY DEF Sound, Marked
<1>2. CASE \A z \in t.allocations : ~Rewritable(z, commits)
  <2>1. \A z \in t.allocations : Waiting(z, commits, at) = z
    BY <1>2 DEF Waiting
  <2>2. u.allocations = t.allocations /\ u.status = t.status
    BY <1>1, <1>2, <2>1
  <2>3. u = t
    BY <1>1, <2>2 DEF Sound
  <2> QED BY <2>3 DEF Settles
<1>3. CASE \E z \in t.allocations : Rewritable(z, commits)
  <2>1. PICK x \in t.allocations : Rewritable(x, commits)
    BY <1>3
  <2>2. x \in LiveIn(t) /\ x.status = "active"
    BY <2>1 DEF LiveIn, Live, Rewritable
  <2>3. LiveIn(t) = {x} /\ IsAllocation(x) /\ AtMost(x.cost, t.cost)
    BY <2>2, OneLive
  <2>20. PICK y : y = Awaiting(x, at)
    OBVIOUS
  <2>4. /\ IsAllocation(y) /\ y.status = "rewrite_pending" /\ y.commit = x.commit /\ y.at = x.at
        /\ y.cost = x.cost
    BY <2>3, <2>20, AwaitingKeeps
  <2>5. \A z \in t.allocations : Waiting(z, commits, at) = IF z = x THEN y ELSE z
    BY <2>1, <2>3, <2>20 DEF LiveIn, Live, Waiting, Rewritable
  <2>6. y \in u.allocations /\ \A z \in u.allocations : z = y \/ (z \in t.allocations /\ z # x)
    BY <1>1, <2>1, <2>5
  <2>7. u.status = "rewrite_pending"
    BY <1>1, <1>3
  <2>8. /\ Live(y) /\ (Live(y) => AtMost(y.cost, u.cost))
        /\ y.status = "active" <=> u.status = "attributed"
        /\ y.status = "rewrite_pending" <=> u.status = "rewrite_pending"
    BY <1>1, <2>3, <2>4, <2>7 DEF Live
  <2>9. Sound(u) /\ LiveIn(u) = IF Live(y) THEN {y} ELSE {}
    <3>1. IsAllocation(y) /\ x \in LiveIn(t) /\ IsPrice(u.cost)
      BY <1>1, <2>2, <2>4
    <3>2. u = [status |-> u.status, cost |-> u.cost, allocations |-> u.allocations]
      BY <1>1
    <3>3. /\ y.status = "active" <=> u.status = "attributed"
          /\ y.status = "rewrite_pending" <=> u.status = "rewrite_pending"
      BY <2>8
    <3>4. Live(y) => AtMost(y.cost, u.cost)
      BY <2>8
    <3> QED BY <2>6, <3>1, <3>2, <3>3, <3>4, LiveChanges
  <2>10. Settles(t, u)
    <3>1. x \in LiveIn(t) /\ y \in LiveIn(u)
      BY <2>2, <2>8, <2>9
    <3> QED BY <2>2, <2>4, <3>1 DEF Settles
  <2> QED BY <1>1, <2>9, <2>10
<1> QED BY <1>2, <1>3

(* A claim that waited too long for its rewrite ends.                       *)
LEMMA Expiring ==
    ASSUME NEW t, Sound(t), NEW before,
           NEW u, u = ExpiredBy(t, before)
    PROVE  Sound(u) /\ Settles(t, u) /\ u.cost = t.cost
<1>1. /\ u = [status |-> u.status, cost |-> u.cost, allocations |-> u.allocations]
      /\ u.status = IF \E z \in t.allocations : Overdue(z, before) THEN "expired" ELSE t.status
      /\ u.cost = t.cost /\ u.allocations = {Lapsed(z, before) : z \in t.allocations}
      /\ IsPrice(u.cost)
  BY DEF Sound, ExpiredBy
<1>2. CASE \A z \in t.allocations : ~Overdue(z, before)
  <2>1. \A z \in t.allocations : Lapsed(z, before) = z
    BY <1>2 DEF Lapsed
  <2>2. u.allocations = t.allocations /\ u.status = t.status
    BY <1>1, <1>2, <2>1
  <2>3. u = t
    BY <1>1, <2>2 DEF Sound
  <2> QED BY <2>3 DEF Settles
<1>3. CASE \E z \in t.allocations : Overdue(z, before)
  <2>1. PICK x \in t.allocations : Overdue(x, before)
    BY <1>3
  <2>2. x \in LiveIn(t) /\ x.status = "rewrite_pending"
    BY <2>1 DEF LiveIn, Live, Overdue
  <2>3. LiveIn(t) = {x} /\ IsAllocation(x)
    BY <2>2, OneLive
  <2>20. PICK y : y = Ended(x)
    OBVIOUS
  <2>4. IsAllocation(y) /\ y.status = "superseded"
    BY <2>3, <2>20, EndedKeeps
  <2>5. \A z \in t.allocations : Lapsed(z, before) = IF z = x THEN y ELSE z
    BY <2>1, <2>3, <2>20 DEF LiveIn, Live, Lapsed, Overdue
  <2>6. y \in u.allocations /\ \A z \in u.allocations : z = y \/ (z \in t.allocations /\ z # x)
    BY <1>1, <2>1, <2>5
  <2>7. u.status = "expired"
    BY <1>1, <1>3
  <2>8. /\ ~Live(y) /\ (Live(y) => AtMost(y.cost, u.cost))
        /\ y.status = "active" <=> u.status = "attributed"
        /\ y.status = "rewrite_pending" <=> u.status = "rewrite_pending"
    BY <2>4, <2>7 DEF Live
  <2>9. Sound(u) /\ LiveIn(u) = IF Live(y) THEN {y} ELSE {}
    <3>1. IsAllocation(y) /\ x \in LiveIn(t) /\ IsPrice(u.cost)
      BY <1>1, <2>2, <2>4
    <3>2. u = [status |-> u.status, cost |-> u.cost, allocations |-> u.allocations]
      BY <1>1
    <3>3. /\ y.status = "active" <=> u.status = "attributed"
          /\ y.status = "rewrite_pending" <=> u.status = "rewrite_pending"
      BY <2>8
    <3>4. Live(y) => AtMost(y.cost, u.cost)
      BY <2>8
    <3> QED BY <2>6, <3>1, <3>2, <3>3, <3>4, LiveChanges
  <2> QED BY <1>1, <2>8, <2>9 DEF Settles
<1> QED BY <1>2, <1>3

(* Only what the ledger can store is stored, and it keeps the claim.        *)
LEMMA Repricing ==
    ASSUME NEW t, Sound(t), NEW price, IsPrice(price), NEW u, u = Repriced(t, price), Writable(u)
    PROVE  Sound(u) /\ Settles(t, u)
<1>1. /\ u = [status |-> u.status, cost |-> u.cost, allocations |-> u.allocations]
      /\ u.status = t.status /\ u.cost = price
  BY DEF Sound, Repriced
<1>7. u.allocations = {PricedAt(z, price) : z \in t.allocations}
  BY DEF Sound, Repriced, PricedAt
<1>2. \A z \in t.allocations : /\ IsAllocation(PricedAt(z, price)) /\ PricedAt(z, price).status = z.status
                              /\ PricedAt(z, price).commit = z.commit /\ PricedAt(z, price).at = z.at
  BY DEF Sound, IsAllocation, PricedAt
<1>3. Agrees(u)
  <2>1. \A s : (\E z \in LiveIn(u) : z.status = s) <=> (\E z \in LiveIn(t) : z.status = s)
    BY <1>2, <1>7 DEF LiveIn, Live
  <2> QED BY <1>1, <2>1 DEF Sound, Agrees
<1>4. Sound(u)
  BY <1>1, <1>2, <1>3, <1>7 DEF Sound
<1>5. CASE LiveIn(t) = {}
  <2>1. LiveIn(u) = {}
    BY <1>2, <1>5, <1>7 DEF LiveIn, Live
  <2> QED BY <1>4, <2>1 DEF Settles
<1>6. CASE LiveIn(t) # {}
  <2>1. PICK x \in LiveIn(t) : TRUE
    BY <1>6
  <2>2. PricedAt(x, price) \in LiveIn(u)
    BY <1>2, <1>7, <2>1 DEF LiveIn, Live
  <2>3. x \in t.allocations
    BY DEF LiveIn
  <2>4. ClaimIn(u) = ClaimIn(t)
    <3>1. ClaimIn(t) = [kind |-> IF x.status = "active" THEN "held" ELSE "rewriting",
                        commit |-> x.commit, at |-> x.at]
      BY OneLive
    <3> DEFINE y == PricedAt(x, price)
    <3>2. y \in LiveIn(u) /\ y.status = x.status /\ y.commit = x.commit /\ y.at = x.at
      BY <1>2, <2>2, <2>3
    <3> HIDE DEF y
    <3>3. ClaimIn(u) = [kind |-> IF y.status = "active" THEN "held" ELSE "rewriting",
                        commit |-> y.commit, at |-> y.at]
      BY <1>4, <3>2, OneLive
    <3> QED BY <3>1, <3>2, <3>3
  <2> QED BY <1>4, <2>4 DEF Settles
<1> QED BY <1>5, <1>6

(*----------------------- the operations of the ledger -------------------*)

Ledger ==
    /\ attributions = [q \in Queries |-> attributions[q]]
    /\ \A q \in Queries : Sound(attributions[q])

LedgerKeeps ==
    /\ Ledger'
    /\ \A q \in Queries : Settles(attributions[q], attributions'[q])

LEMMA MarkKeeps ==
    ASSUME Ledger, NEW commits, NEW at, MarkRewritePending(commits, at)
    PROVE  LedgerKeeps
<1>1. ASSUME NEW q \in Queries
      PROVE  Sound(attributions'[q]) /\ Settles(attributions[q], attributions'[q])
  <2>1. PICK t : t = attributions[q]
    OBVIOUS
  <2>2. PICK u : u = attributions'[q]
    OBVIOUS
  <2>3. u = Marked(t, commits, at)
    BY <2>1, <2>2 DEF MarkRewritePending, Marked, Rewritable, Waiting, Awaiting
  <2>4. Sound(t)
    BY <2>1 DEF Ledger
  <2>5. Sound(u) /\ Settles(t, u)
    BY <2>3, <2>4, Marking
  <2> QED BY <2>1, <2>2, <2>5
<1>2. attributions' = [q \in Queries |-> attributions'[q]]
  BY DEF MarkRewritePending
<1> QED BY <1>1, <1>2 DEF Ledger, LedgerKeeps

LEMMA ExpireKeeps ==
    ASSUME Ledger, NEW before, ExpireRewritePending(before)
    PROVE  LedgerKeeps
<1>1. ASSUME NEW q \in Queries
      PROVE  Sound(attributions'[q]) /\ Settles(attributions[q], attributions'[q])
  <2>1. PICK t : t = attributions[q]
    OBVIOUS
  <2>2. PICK u : u = attributions'[q]
    OBVIOUS
  <2>3. u = ExpiredBy(t, before)
    BY <2>1, <2>2 DEF ExpireRewritePending, ExpiredBy, Overdue, Lapsed
  <2>4. Sound(t)
    BY <2>1 DEF Ledger
  <2>5. Sound(u) /\ Settles(t, u)
    BY <2>3, <2>4, Expiring
  <2> QED BY <2>1, <2>2, <2>5
<1>2. attributions' = [q \in Queries |-> attributions'[q]]
  BY DEF ExpireRewritePending
<1> QED BY <1>1, <1>2 DEF Ledger, LedgerKeeps

LEMMA NativeKeeps ==
    ASSUME Ledger, NEW verdict, ReconcileNative(verdict),
           \A q \in Queries :
               /\ verdict[q].kind \in {"kept", "revalidated", "revoked"}
               /\ ~HasActiveFirstClaim(attributions, q) => verdict[q].kind = "kept"
    PROVE  LedgerKeeps
<1>1. ASSUME NEW q \in Queries
      PROVE  Sound(attributions'[q]) /\ Settles(attributions[q], attributions'[q])
  <2>1. PICK t : t = attributions[q]
    OBVIOUS
  <2>2. PICK u : u = attributions'[q]
    OBVIOUS
  <2>3. PICK v : v = verdict[q]
    OBVIOUS
  <2>4. HasActiveFirstClaim(attributions, q) <=> LiveIn(t) # {}
    BY <2>1 DEF HasActiveFirstClaim, LiveOf, LiveIn
  <2>5. u = JudgedBy(t, v)
    <3>1. attributions'[q] =
            [attributions[q] EXCEPT
                !.status = IF HasActiveFirstClaim(attributions, q) /\ verdict[q].kind = "revoked"
                           THEN "rejected" ELSE @,
                !.allocations = {Judged(x, verdict[q]) : x \in @}]
      BY DEF ReconcileNative, NativeReconciled
    <3>2. u = [t EXCEPT !.status = IF HasActiveFirstClaim(attributions, q) /\ v.kind = "revoked"
                                   THEN "rejected" ELSE @,
                        !.allocations = {Judged(x, v) : x \in @}]
      BY <2>1, <2>2, <2>3, <3>1
    <3>3. CASE LiveIn(t) # {}
      BY <2>4, <3>2, <3>3 DEF JudgedBy
    <3>4. CASE LiveIn(t) = {}
      BY <2>4, <3>2, <3>4 DEF JudgedBy
    <3> QED BY <3>3, <3>4
  <2>6. Sound(t) /\ v.kind \in {"kept", "revalidated", "revoked"} /\ (LiveIn(t) = {} => v.kind = "kept")
    BY <2>1, <2>3, <2>4 DEF Ledger
  <2>7. Sound(u) /\ Settles(t, u)
    BY <2>5, <2>6, Judging
  <2> QED BY <2>1, <2>2, <2>7
<1>2. attributions' = [q \in Queries |-> attributions'[q]]
  BY DEF ReconcileNative, NativeReconciled
<1> QED BY <1>1, <1>2 DEF Ledger, LedgerKeeps

LEMMA CostKeeps ==
    ASSUME Ledger, NEW q \in Queries, NEW price, IsPrice(price), UpsertCost(q, price)
    PROVE  LedgerKeeps
<1>1. /\ attributions' = [attributions EXCEPT ![q] = Repriced(attributions[q], price)]
      /\ Writable(Repriced(attributions[q], price))
  BY DEF UpsertCost
<1>2. attributions' = [other \in Queries |-> attributions'[other]]
  BY <1>1 DEF Ledger
<1>3. Sound(attributions'[q]) /\ Settles(attributions[q], attributions'[q])
  <2>1. attributions'[q] = Repriced(attributions[q], price)
    BY <1>1 DEF Ledger
  <2> QED BY <1>1, <2>1, Repricing DEF Ledger
<1>4. ASSUME NEW other \in Queries, other # q
      PROVE  Sound(attributions'[other]) /\ Settles(attributions[other], attributions'[other])
  <2>1. attributions'[other] = attributions[other]
    BY <1>1, <1>4 DEF Ledger
  <2> QED BY <2>1 DEF Ledger, Settles
<1> QED BY <1>2, <1>3, <1>4 DEF Ledger, LedgerKeeps

LEMMA StatusKeeps ==
    ASSUME Ledger, NEW q \in Queries, WithoutClaim(attributions[q].status), NEW status, UpsertStatus(q, status),
           status \in {"unattributed", "expired", "pending_evidence"}
    PROVE  LedgerKeeps
<1>1. attributions' = [attributions EXCEPT ![q] = [attributions[q] EXCEPT !.status = status]]
  BY DEF UpsertStatus
<1>2. attributions' = [other \in Queries |-> attributions'[other]]
  BY <1>1 DEF Ledger
<1>3. Sound(attributions'[q]) /\ Settles(attributions[q], attributions'[q])
  <2>1. PICK t : t = attributions[q]
    OBVIOUS
  <2>2. PICK u : u = attributions'[q]
    OBVIOUS
  <2>3. WithoutClaim(t.status) /\ u = [t EXCEPT !.status = status] /\ Sound(t)
    BY <1>1, <2>1, <2>2 DEF Ledger
  <2>4. /\ u = [status |-> u.status, cost |-> u.cost, allocations |-> u.allocations]
        /\ u.status = status /\ u.cost = t.cost /\ u.allocations = t.allocations
    BY <2>3 DEF Sound
  <2>5. LiveIn(u) = LiveIn(t) /\ ClaimIn(u) = ClaimIn(t) /\ Writable(u)
    BY <2>3, <2>4 DEF LiveIn, ClaimIn, Sound, Writable
  <2>6. Agrees(u)
    BY <2>3, <2>4, <2>5 DEF Agrees, Sound, WithoutClaim
  <2>7. Sound(u) /\ Settles(t, u)
    BY <2>3, <2>4, <2>5, <2>6 DEF Sound, Settles
  <2> QED BY <2>1, <2>2, <2>7
<1>4. ASSUME NEW other \in Queries, other # q
      PROVE  Sound(attributions'[other]) /\ Settles(attributions[other], attributions'[other])
  <2>1. attributions'[other] = attributions[other]
    BY <1>1, <1>4 DEF Ledger
  <2> QED BY <2>1 DEF Ledger, Settles
<1> QED BY <1>2, <1>3, <1>4 DEF Ledger, LedgerKeeps

(* A claim of several queries leaves those with a claim as they are.        *)
LEMMA ClaimKeeps ==
    ASSUME Ledger, NEW qs, NEW new, TryFirstClaim(qs, new),
           \A q \in Queries : IsAllocation(new[q]) /\ new[q].status = "active"
    PROVE  /\ LedgerKeeps
           /\ \A q \in Queries : LiveIn(attributions[q]) # {} => attributions'[q] = attributions[q]
<1>1. ASSUME NEW q \in Queries
      PROVE  /\ Sound(attributions'[q]) /\ Settles(attributions[q], attributions'[q])
             /\ LiveIn(attributions[q]) # {} => attributions'[q] = attributions[q]
  <2>1. PICK t : t = attributions[q]
    OBVIOUS
  <2>2. PICK u : u = attributions'[q]
    OBVIOUS
  <2>10. PICK n : n = new[q]
    OBVIOUS
  <2>11. IsAllocation(n) /\ n.status = "active"
    BY <2>10
  <2>3. PICK m : m = [n EXCEPT !.cost = t.cost]
    OBVIOUS
  <2>12. m.status = "active" /\ m.commit = n.commit /\ m.at = n.at
    BY <2>3, <2>11 DEF IsAllocation
  <2>4. HasActiveFirstClaim(attributions, q) <=> LiveIn(t) # {}
    BY <2>1 DEF HasActiveFirstClaim, LiveOf, LiveIn
  <2>5. \/ u = t
        \/ LiveIn(t) = {} /\ u = [t EXCEPT !.status = "attributed", !.allocations = @ \cup {m}]
    BY <2>1, <2>2, <2>3, <2>4, <2>10 DEF TryFirstClaim, FirstClaimed
  <2>6. Sound(t)
    BY <2>1 DEF Ledger
  <2>7. CASE u = t
    BY <2>1, <2>2, <2>6, <2>7 DEF Settles
  <2>8. CASE LiveIn(t) = {} /\ u = [t EXCEPT !.status = "attributed", !.allocations = @ \cup {m}]
    <3>1. Sound(u) /\ LiveIn(u) = {m}
      BY <2>3, <2>6, <2>8, <2>11, Claiming
    <3>3. MayTake(t, m.commit, m.at)
      BY <2>8 DEF MayTake
    <3> QED BY <2>1, <2>2, <2>8, <2>12, <3>1, <3>3 DEF Settles
  <2> QED BY <2>5, <2>7, <2>8
<1>2. attributions' = [q \in Queries |-> attributions'[q]]
  BY DEF TryFirstClaim, FirstClaimed
<1> QED BY <1>1, <1>2 DEF Ledger, LedgerKeeps

(* A transfer from c takes the claims that may be taken, and no others.     *)
LEMMA TransferKeeps ==
    ASSUME Ledger, NEW qs, NEW c, NEW new, TransferFirstClaim(qs, c, new),
           \A q \in Queries : IsAllocation(new[q]) /\ new[q].status = "active",
           \A q \in Queries : q \in qs /\ HasClaimOf(attributions, q, c) =>
                                 MayTake(attributions[q], new[q].commit, new[q].at)
    PROVE  /\ LedgerKeeps
           /\ \A q \in Queries :
                 \/ attributions'[q] = attributions[q]
                 \/ /\ q \in qs /\ HasClaimOf(attributions, q, c)
                    /\ \E y : LiveIn(attributions'[q]) = {y} /\ y.commit = new[q].commit
<1>1. ASSUME NEW q \in Queries
      PROVE  /\ Sound(attributions'[q]) /\ Settles(attributions[q], attributions'[q])
             /\ \/ attributions'[q] = attributions[q]
                \/ /\ q \in qs /\ HasClaimOf(attributions, q, c)
                   /\ \E y : LiveIn(attributions'[q]) = {y} /\ y.commit = new[q].commit
  <2>1. PICK t : t = attributions[q]
    OBVIOUS
  <2>2. PICK u : u = attributions'[q]
    OBVIOUS
  <2>10. PICK n : n = new[q]
    OBVIOUS
  <2>11. IsAllocation(n) /\ n.status = "active"
    BY <2>10
  <2>3. PICK m : m = [n EXCEPT !.cost = t.cost]
    OBVIOUS
  <2>12. m.status = "active" /\ m.commit = n.commit /\ m.at = n.at
    BY <2>3, <2>11 DEF IsAllocation
  <2>6. Sound(t)
    BY <2>1 DEF Ledger
  <2>7. CASE ~(q \in qs /\ HasClaimOf(attributions, q, c))
    <3>1. attributions'[q] = attributions[q]
      BY <2>7 DEF TransferFirstClaim, Transferred
    <3> QED BY <2>1, <2>6, <3>1 DEF Settles
  <2>8. CASE q \in qs /\ HasClaimOf(attributions, q, c)
    <3>1. PICK x \in LiveIn(t) : x.commit = c
      BY <2>1, <2>8 DEF HasClaimOf, LiveOf, LiveIn
    <3>2. u = MovedTo(t, c, m)
      BY <2>1, <2>2, <2>3, <2>8, <2>10 DEF TransferFirstClaim, Transferred, MovedTo
    <3>3. Sound(u) /\ LiveIn(u) = {m}
      BY <2>3, <2>6, <2>11, <3>1, <3>2, Moving
    <3>5. MayTake(t, m.commit, m.at)
      BY <2>1, <2>8, <2>10, <2>12
    <3>6. Settles(t, u)
      BY <2>12, <3>3, <3>5 DEF Settles
    <3> QED BY <2>1, <2>2, <2>8, <2>10, <2>12, <3>3, <3>6
  <2> QED BY <2>7, <2>8
<1>2. attributions' = [q \in Queries |-> attributions'[q]]
  BY DEF TransferFirstClaim, Transferred
<1> QED BY <1>1, <1>2 DEF Ledger, LedgerKeeps

LEMMA UnchangedKeeps == Ledger /\ UNCHANGED attributions => LedgerKeeps
  BY DEF Ledger, LedgerKeeps, Settles

(*------------------------- the inductive invariant ----------------------*)

IsCandidate(r) ==
    /\ r = [seq |-> r.seq, at |-> r.at, decision |-> r.decision]
    /\ r.seq \in Nat /\ r.at \in 0 .. MaxNow

AreCandidates(f) ==
    /\ f = [c \in Commits |-> f[c]]
    /\ \A c \in Commits : f[c] = NoCandidate \/ IsCandidate(f[c])

Shared ==
    /\ now \in 0 .. MaxNow
    /\ epoch = [head |-> epoch.head, seq |-> epoch.seq] /\ epoch.seq \in Nat
    /\ AreCandidates(candidates)
    /\ cost = [q \in Queries |-> cost[q]]
    /\ \A q \in Queries : IsPrice(cost[q])

IsJob(j) ==
    j = [stage |-> j.stage, rewrite |-> j.rewrite, costs |-> j.costs, unpriced |-> j.unpriced,
         repriced |-> j.repriced, all |-> j.all, unreachable |-> j.unreachable, candidates |-> j.candidates,
         episodes |-> j.episodes, known |-> j.known, active |-> j.active, revoked |-> j.revoked,
         todo |-> j.todo, tried |-> j.tried, reported |-> j.reported, plan |-> j.plan,
         claimed |-> j.claimed]

(* The claim that the job read is still there, or the job has moved it to   *)
(* another commit.                                                          *)
Stands(read, now_) ==
    LiveIn(read) # {} =>
        \/ LiveIn(now_) = LiveIn(read)
        \/ /\ LiveIn(now_) # {}
           /\ \A x \in LiveIn(now_), y \in LiveIn(read) : x.commit # y.commit

Deciding ==
    /\ AreCandidates(job.candidates)
    /\ \A c \in job.todo : c \in Commits /\ IsCandidate(job.candidates[c])
    /\ \A q \in Queries : Sound(job.known[q]) /\ Stands(job.known[q], attributions[q])

(* What the plan moves, the job has read as movable.                        *)
MovesSettle ==
    \A q \in Queries, d \in Commits : <<q, d>> \in job.plan.moves =>
        /\ d # Current
        /\ \E x \in LiveIn(job.known[q]) :
              x.commit = d /\ (x.status = "active" => x.at < Candidate.at)

Planned ==
    /\ job.plan = [episode |-> job.plan.episode, new |-> job.plan.new, moves |-> job.plan.moves]
    /\ \A q \in Queries :
          /\ IsAllocation(job.plan.new[q]) /\ job.plan.new[q].status = "active"
          /\ job.plan.new[q].commit = Current /\ job.plan.new[q].at = Candidate.at
    /\ \A move \in job.plan.moves : move = <<move[1], move[2]>>
    /\ MovesSettle

AtStage ==
    /\ job.stage = "costs" => \A q \in Queries : IsPrice(job.costs[q])
    /\ job.stage \in {"native", "retract", "statuses"} => AreCandidates(job.candidates)
    /\ job.stage = "retract" => \A c \in job.todo : c \in Commits /\ IsCandidate(job.candidates[c])
    /\ job.stage = "statuses" =>
          \A q \in job.unpriced : q \in Queries /\ WithoutClaim(attributions[q].status)
    /\ job.stage \in {"candidates", "transfer"} => Deciding
    /\ job.stage = "transfer" => Planned

AttributionInv == Shared /\ Ledger /\ IsJob(job) /\ AtStage

(* Whose turn it is depends on what the job has read, and on nothing else.  *)
TurnOf(todo, read) == CHOOSE c \in todo : \A other \in todo : read[c].seq <= read[other].seq

LEMMA CurrentTurn ==
    /\ Current = TurnOf(job.todo, job.candidates) /\ Candidate = job.candidates[Current]
    /\ Current' = TurnOf(job'.todo, job'.candidates) /\ Candidate' = job'.candidates[Current']
<1>1. Current = TurnOf(job.todo, job.candidates)
  BY DEF Current, TurnOf
<1>2. Current' = TurnOf(job'.todo, job'.candidates)
  BY DEF Current, TurnOf
<1> QED BY <1>1, <1>2 DEF Candidate

LEMMA CurrentIsDue ==
    ASSUME Deciding, job.todo # {}
    PROVE  Current \in job.todo /\ Current \in Commits /\ IsCandidate(Candidate)
<1> DEFINE Seqs == {job.candidates[c].seq : c \in job.todo}
<1>1. Seqs \subseteq Nat /\ Seqs # {}
  BY DEF Deciding, IsCandidate
<1> HIDE DEF Seqs
<1>2. \E n \in Seqs : \A m \in Seqs : ~(<<m, n>> \in OpToRel(<, Nat))
  BY <1>1, NatLessThanWellFounded, WFMin
<1>3. \E n \in Seqs : \A m \in Seqs : n <= m
  <2>1. PICK n \in Seqs : \A m \in Seqs : ~(<<m, n>> \in OpToRel(<, Nat))
    BY <1>2
  <2>2. \A m \in Seqs : ~(m < n)
    BY <1>1, <2>1, Zenon DEF OpToRel
  <2> QED BY <1>1, <2>2
<1>4. \E c \in job.todo : \A other \in job.todo : job.candidates[c].seq <= job.candidates[other].seq
  BY <1>3 DEF Seqs
<1>5. Current \in job.todo
  BY <1>4 DEF Current
<1> QED BY <1>5 DEF Deciding, Candidate

LEMMA JobStays ==
    ASSUME AttributionInv, UNCHANGED <<attributions, job>>, Shared'
    PROVE  AttributionInv' /\ LedgerKeeps
<1>1. Current' = Current /\ Candidate' = Candidate
  BY CurrentTurn
<1>2. LedgerKeeps /\ Ledger'
  BY UnchangedKeeps DEF AttributionInv, LedgerKeeps
<1>3. IsJob(job)' /\ AtStage'
  BY <1>1 DEF AttributionInv, IsJob, AtStage, Deciding, Planned, MovesSettle
<1> QED BY <1>2, <1>3 DEF AttributionInv

LEMMA JobEnds ==
    ASSUME AttributionInv, LedgerKeeps, job' = NoJob, Shared'
    PROVE  AttributionInv'
<1>1. IsJob(job') /\ job'.stage = "idle"
  BY DEF NoJob, IsJob
<1> QED BY <1>1 DEF AttributionInv, AtStage, LedgerKeeps

LEMMA AttributionInit == Init => AttributionInv
<1> SUFFICES ASSUME Init PROVE AttributionInv
  OBVIOUS
<1>1. Shared
  BY AttributionAssumption DEF Init, Shared, IsPrice, AreCandidates
<1>2. Ledger
  <2>1. Sound(NoAttribution)
    BY DEF Sound, NoAttribution, IsPrice, Writable, Agrees, LiveIn
  <2> QED BY <2>1 DEF Init, Ledger
<1>3. IsJob(job) /\ job.stage = "idle"
  BY DEF Init, NoJob, IsJob
<1> QED BY <1>1, <1>2, <1>3 DEF AttributionInv, AtStage

LEMMA EnvironmentKeeps ==
    ASSUME AttributionInv, Environment
    PROVE  AttributionInv' /\ LedgerKeeps
<1> USE DEF AttributionInv
<1>1. UNCHANGED attributions
  BY DEF Environment, Tick, Crash, RunStarts, RunActive, EvidenceBound, Price, CommitObserved,
         RewriteObserved, Stored
<1>2. CASE Tick
  <2>1. Shared' /\ UNCHANGED <<attributions, job>>
    BY <1>2, AttributionAssumption DEF Tick, Shared, AreCandidates
  <2> QED BY <2>1, JobStays
<1>3. CASE \E q \in Queries : RunStarts(q) \/ RunActive(q) \/ EvidenceBound(q)
  <2>1. Shared' /\ UNCHANGED <<attributions, job>>
    BY <1>3 DEF RunStarts, RunActive, EvidenceBound, Shared, AreCandidates
  <2> QED BY <2>1, JobStays
<1>4. ASSUME NEW q \in Queries, Price(q) PROVE AttributionInv' /\ LedgerKeeps
  <2>1. PICK price \in Costs[q] : cost' = [cost EXCEPT ![q] = price]
    BY <1>4 DEF Price
  <2>2. IsPrice(price)
    BY AttributionAssumption DEF IsPrice
  <2>3. UNCHANGED <<now, epoch, candidates, attributions, job>>
    BY <1>4 DEF Price
  <2>4. Shared'
    BY <2>1, <2>2, <2>3 DEF Shared, AreCandidates
  <2> QED BY <2>3, <2>4, JobStays
<1>5. ASSUME NEW c \in Commits, Stored(c) PROVE AttributionInv' /\ LedgerKeeps
  <2> DEFINE new == [seq |-> epoch.seq + 1, at |-> now, decision |-> "pending_evidence"]
  <2>1. /\ UNCHANGED <<now, cost, attributions, job>>
        /\ epoch' = [head |-> c, seq |-> epoch.seq + 1]
        /\ candidates' = [candidates EXCEPT ![c] = new]
    BY <1>5 DEF Stored
  <2>2. IsCandidate(new)
    BY DEF Shared, IsCandidate
  <2>3. epoch' = [head |-> epoch'.head, seq |-> epoch'.seq] /\ epoch'.seq \in Nat
    BY <2>1 DEF Shared
  <2> HIDE DEF new
  <2>4. candidates' = [d \in Commits |-> candidates'[d]] /\ AreCandidates(candidates')
    BY <2>1, <2>2 DEF Shared, AreCandidates
  <2>5. Shared'
    BY <2>1, <2>3, <2>4 DEF Shared
  <2> QED BY <2>1, <2>5, JobStays
<1>6. CASE Crash
  <2>1. Shared' /\ job' = NoJob
    BY <1>6 DEF Crash, Shared, AreCandidates
  <2> QED BY <1>1, <2>1, UnchangedKeeps, JobEnds
<1> QED BY <1>2, <1>3, <1>4, <1>5, <1>6 DEF Environment, CommitObserved, RewriteObserved

(*------------------------- the steps of the jobs ------------------------*)

LEMMA SharedStays == Shared /\ UNCHANGED <<now, epoch, candidates, cost>> => Shared'
  BY DEF Shared, AreCandidates

(* The steps before a job has read anything.                                *)
LEMMA BeforeReading ==
    ASSUME AttributionInv,
           \/ ReconcilePersistedState \/ RewriteHandled \/ Reopen
           \/ \E q \in Queries : ObserveRunCompleted(q)
           \/ \E q \in Queries : SynchronizeCost(q) \/ CostRefused(q)
    PROVE  AttributionInv' /\ LedgerKeeps
<1> USE DEF AttributionInv
<1>1. Shared'
  BY SharedStays DEF ReconcilePersistedState, ObserveRunCompleted, Synchronize, RewriteHandled, Reopen,
     SynchronizeCost, CostRefused, shared
<1>2. ASSUME NEW queries, NEW all, Synchronize(queries, all) PROVE AttributionInv' /\ LedgerKeeps
  <2>1. /\ job' = [NoJob EXCEPT !.stage = "costs", !.costs = cost, !.unpriced = queries, !.all = all]
        /\ UNCHANGED attributions
    BY <1>2 DEF Synchronize
  <2>2. IsJob(job') /\ job'.stage = "costs" /\ job'.costs = cost
    BY <2>1 DEF NoJob, IsJob
  <2>3. AtStage'
    BY <2>2 DEF AtStage, Shared
  <2> QED BY <1>1, <2>1, <2>2, <2>3, UnchangedKeeps DEF LedgerKeeps
<1>3. CASE RewriteHandled
  <2>1. LedgerKeeps
    BY <1>3, MarkKeeps DEF RewriteHandled
  <2>2. IsJob(job') /\ job'.stage \in {"read", "reopen"}
    BY <1>3 DEF RewriteHandled, NoJob, IsJob
  <2> QED BY <1>1, <2>1, <2>2 DEF LedgerKeeps, AtStage
<1>4. CASE Reopen
  <2>1. IsJob(job') /\ job'.stage = "read" /\ UNCHANGED attributions
    BY <1>4 DEF Reopen, IsJob
  <2> QED BY <1>1, <2>1, UnchangedKeeps DEF LedgerKeeps, AtStage
<1>5. ASSUME NEW q \in Queries, SynchronizeCost(q) PROVE AttributionInv' /\ LedgerKeeps
  <2>1. job.stage = "costs" /\ IsPrice(job.costs[q]) /\ UpsertCost(q, job.costs[q])
    BY <1>5 DEF SynchronizeCost, NextGroup, AtStage
  <2>2. LedgerKeeps
    BY <2>1, CostKeeps
  <2>3. IsJob(job') /\ job'.stage \in {"costs", "read"} /\ job'.costs = job.costs
    BY <1>5, <2>1 DEF SynchronizeCost, IsJob
  <2>4. AtStage'
    BY <2>1, <2>3 DEF AtStage
  <2> QED BY <1>1, <2>2, <2>3, <2>4 DEF LedgerKeeps
<1>6. CASE \E q \in Queries : CostRefused(q)
  BY <1>1, <1>6, UnchangedKeeps, JobEnds DEF CostRefused
<1> QED BY <1>2, <1>3, <1>4, <1>5, <1>6 DEF ReconcilePersistedState, ObserveRunCompleted

(* A native verdict keeps, revalidates or revokes, and judges only claims.  *)
LEMMA VerdictKinds ==
    ASSUME NEW q \in Queries
    PROVE  /\ Verdicts[q].kind \in {"kept", "revalidated", "revoked"}
           /\ ~HasActiveFirstClaim(attributions, q) => Verdicts[q].kind = "kept"
<1>1. \A c, pairs, records : Verdict(c, pairs, records).kind \in {"kept", "revalidated", "revoked"}
  BY DEF Verdict
<1>2. \A x : VerdictOn(x).kind \in {"kept", "revalidated", "revoked"}
  BY <1>1 DEF VerdictOn
<1> QED BY <1>2 DEF Verdicts

(* A job begins to read, judges the claims by the native rejections, and    *)
(* brings candidates and statuses up to date.                               *)
LEMMA Reading ==
    ASSUME AttributionInv,
           \/ Reconcile \/ Read \/ ReconcileNativeRejections \/ Retracted \/ Prepared
           \/ \E c \in Commits : Retract(c)
           \/ \E q \in Queries : SynchronizeStatus(q)
    PROVE  AttributionInv' /\ LedgerKeeps
<1> USE DEF AttributionInv
<1>1. CASE Reconcile \/ Read
  <2>1. Begin
    BY <1>1 DEF Reconcile, Read
  <2>2. Shared'
    BY <2>1, SharedStays DEF Begin, shared
  <2>3. LedgerKeeps
    BY <2>1, ExpireKeeps DEF Begin
  <2>4. IsJob(job') /\ job'.stage = "native" /\ job'.candidates = candidates
    BY <2>1 DEF Begin, IsJob
  <2>5. AtStage'
    BY <2>4 DEF AtStage, Shared, AreCandidates
  <2> QED BY <2>2, <2>3, <2>4, <2>5 DEF LedgerKeeps
<1>2. CASE ReconcileNativeRejections
  <2>1. Shared' /\ job.stage = "native" /\ AreCandidates(job.candidates)
    BY <1>2, SharedStays DEF ReconcileNativeRejections, shared, AtStage
  <2>2. LedgerKeeps
    BY <1>2, NativeKeeps, VerdictKinds DEF ReconcileNativeRejections
  <2>3. PICK revoked : revoked = UNION {LiveCommits(q) : q \in {q \in Queries : Verdicts[q].kind # "kept"}}
    OBVIOUS
  <2>4. job' = [job EXCEPT !.stage = "retract", !.revoked = revoked, !.todo = {c \in revoked : Lost(c)}]
    BY <1>2, <2>3 DEF ReconcileNativeRejections
  <2>5. IsJob(job') /\ job'.stage = "retract" /\ job'.candidates = job.candidates /\ job'.todo = {c \in revoked : Lost(c)}
    BY <2>4 DEF IsJob
  <2>6. revoked \subseteq Commits
    <3>1. ASSUME NEW q \in Queries, NEW c \in LiveCommits(q) PROVE c \in Commits
      <4>1. PICK x \in attributions[q].allocations : c = x.commit
        BY <3>1 DEF LiveCommits, LiveOf
      <4> QED BY <4>1 DEF Ledger, Sound, IsAllocation
    <3> QED BY <2>3, <3>1
  <2>7. \A c \in job'.todo : c \in Commits /\ IsCandidate(job.candidates[c])
    BY <2>1, <2>5, <2>6 DEF Lost, AreCandidates
  <2>8. AtStage'
    BY <2>1, <2>5, <2>7 DEF AtStage, AreCandidates
  <2> QED BY <2>1, <2>2, <2>5, <2>8 DEF LedgerKeeps
<1>3. ASSUME NEW c \in Commits, Retract(c) PROVE AttributionInv' /\ LedgerKeeps
  <2>1. job.stage = "retract" /\ AreCandidates(job.candidates) /\ IsCandidate(job.candidates[c])
    BY <1>3 DEF Retract, AtStage
  <2>2. IsCandidate(Pended(c))
    BY <2>1 DEF IsCandidate, Pended
  <2>3. Shared'
    <3>1. /\ UNCHANGED <<now, epoch, cost>>
          /\ candidates' = [candidates EXCEPT ![c] = Pended(c)] \/ UNCHANGED candidates
      BY <1>3 DEF Retract
    <3>2. AreCandidates(candidates') /\ candidates' = [d \in Commits |-> candidates'[d]]
      BY <2>2, <3>1 DEF Shared, AreCandidates
    <3> QED BY <3>1, <3>2 DEF Shared
  <2>4. UNCHANGED attributions /\ LedgerKeeps
    BY <1>3, UnchangedKeeps DEF Retract
  <2>5. PICK read : read = [job.candidates EXCEPT ![c] = Pended(c)]
    OBVIOUS
  <2>6. job' = [job EXCEPT !.candidates = read, !.todo = @ \ {c}]
    BY <1>3, <2>5 DEF Retract
  <2>7. IsJob(job') /\ job'.stage = "retract" /\ job'.candidates = read /\ job'.todo = job.todo \ {c}
    BY <2>1, <2>6 DEF IsJob
  <2>8. \A d : d \in job.todo \ {c} => d \in Commits /\ read[d] = job.candidates[d] /\ IsCandidate(read[d])
    BY <2>1, <2>5 DEF AtStage
  <2>9. AreCandidates(read)
    BY <2>1, <2>2, <2>5 DEF AreCandidates
  <2>10. AtStage'
    BY <2>7, <2>8, <2>9 DEF AtStage, AreCandidates
  <2> QED BY <2>3, <2>4, <2>7, <2>10 DEF LedgerKeeps
<1>4. CASE Retracted
  <2>1. Shared' /\ UNCHANGED attributions /\ LedgerKeeps /\ AreCandidates(job.candidates)
    BY <1>4, SharedStays, UnchangedKeeps DEF Retracted, shared, AtStage
  <2>2. job' = [job EXCEPT !.stage = "statuses", !.unpriced = {q \in Queries : Outdated(q)}]
    BY <1>4 DEF Retracted
  <2>3. /\ IsJob(job') /\ job'.stage = "statuses" /\ job'.candidates = job.candidates
        /\ job'.unpriced = {q \in Queries : Outdated(q)}
    BY <2>2 DEF IsJob
  <2>4. AtStage'
    BY <2>1, <2>3 DEF AtStage, AreCandidates, Outdated
  <2> QED BY <2>1, <2>3, <2>4 DEF LedgerKeeps
<1>5. ASSUME NEW q \in Queries, SynchronizeStatus(q) PROVE AttributionInv' /\ LedgerKeeps
  <2>1. /\ Shared' /\ AreCandidates(job.candidates) /\ WithoutClaim(attributions[q].status)
        /\ UpsertStatus(q, StatusOf(q)) /\ job.stage = "statuses"
    BY <1>5, SharedStays DEF SynchronizeStatus, shared, AtStage
  <2>2. StatusOf(q) \in {"unattributed", "expired", "pending_evidence"}
    BY DEF StatusOf
  <2>3. LedgerKeeps
    BY <2>1, <2>2, StatusKeeps
  <2>4. /\ IsJob(job') /\ job'.stage = "statuses" /\ job'.candidates = job.candidates
        /\ job'.unpriced = job.unpriced \ {q}
    BY <1>5, <2>1 DEF SynchronizeStatus, IsJob
  <2>5. \A other \in Queries : other # q => attributions'[other] = attributions[other]
    BY <2>1 DEF UpsertStatus, Ledger
  <2>6. \A other \in job'.unpriced : other \in Queries /\ WithoutClaim(attributions'[other].status)
    BY <2>1, <2>4, <2>5 DEF AtStage
  <2>7. AtStage'
    BY <2>1, <2>4, <2>6 DEF AtStage, AreCandidates
  <2> QED BY <2>1, <2>3, <2>4, <2>7 DEF LedgerKeeps
<1>6. CASE Prepared
  <2>1. Shared' /\ UNCHANGED attributions /\ LedgerKeeps /\ AreCandidates(job.candidates)
    BY <1>6, SharedStays, UnchangedKeeps DEF Prepared, shared, AtStage
  <2>2. /\ IsJob(job') /\ job'.stage = "candidates" /\ job'.candidates = job.candidates
        /\ job'.known = attributions'
        /\ job'.todo = {c \in Commits : job.candidates[c].decision \in {"pending_evidence", "reportable"}}
    BY <1>6, <2>1 DEF Prepared, IsJob
  <2>3. \A c \in job'.todo : c \in Commits /\ IsCandidate(job.candidates[c])
    BY <2>1, <2>2 DEF AreCandidates, NoCandidate
  <2>4. \A q \in Queries : Sound(attributions'[q]) /\ Stands(attributions'[q], attributions'[q])
    BY <2>1 DEF LedgerKeeps, Ledger, Stands
  <2>5. Deciding'
    BY <2>1, <2>2, <2>3, <2>4 DEF Deciding, AreCandidates
  <2> QED BY <2>1, <2>2, <2>5 DEF AtStage, LedgerKeeps
<1> QED BY <1>1, <1>2, <1>3, <1>4, <1>5, <1>6

(* An episode claims the candidate: the plan of the job moves only claims   *)
(* that it has read as movable.                                             *)
LEMMA ClaimStep ==
    ASSUME AttributionInv, NEW e, Claim(e)
    PROVE  AttributionInv' /\ LedgerKeeps
<1> USE DEF AttributionInv
<1>1. Shared' /\ Deciding /\ job.todo # {} /\ job.stage = "candidates"
  BY SharedStays DEF Claim, shared, AtStage
<1>2. Current \in Commits /\ IsCandidate(Candidate)
  BY <1>1, CurrentIsDue
<1>3. PICK new : new = NewAllocations(e, Evaluation(e))
  OBVIOUS
<1>4. \A q \in Queries : /\ IsAllocation(new[q]) /\ new[q].status = "active"
                        /\ new[q].commit = Current /\ new[q].at = Candidate.at
  BY <1>2, <1>3 DEF NewAllocations, IsAllocation, IsCandidate, IsPrice
<1>5. PICK regular : TryFirstClaim(regular, new)
  BY <1>3 DEF Claim
<1>6. /\ LedgerKeeps
      /\ \A q \in Queries : LiveIn(attributions[q]) # {} => attributions'[q] = attributions[q]
  BY <1>4, <1>5, ClaimKeeps
<1>7. PICK moves, fresh :
        /\ job' = [job EXCEPT !.stage = "transfer",
                              !.plan = [episode |-> e, new |-> new, moves |-> moves],
                              !.claimed = fresh]
        /\ \A q, d : <<q, d>> \in moves => <<q, d>> \in Supersedable(e) \/ \E qs : <<q, d>> \in Rewritten(qs)
        /\ \A move \in moves : move = <<move[1], move[2]>>
  <2> DEFINE result == Evaluation(e)
             rewritten == Rewritten(result.queries)
             superseded == {group \in Supersedable(e) : group[1] \in result.queries}
             regular2 == result.queries \ QueriesOf(rewritten \cup superseded)
             fresh == {q \in regular2 : ~HasActiveFirstClaim(attributions, q)}
             allowed == fresh # {} \/ ActivitySinceClaim(job.episodes[e])
             moves == rewritten \cup IF allowed THEN superseded ELSE {}
  <2>1. job' = [job EXCEPT !.stage = "transfer",
                           !.plan = [episode |-> e, new |-> new, moves |-> moves],
                           !.claimed = fresh]
    BY <1>3 DEF Claim
  <2>2. \A q, d : <<q, d>> \in moves => <<q, d>> \in Supersedable(e) \/ \E qs : <<q, d>> \in Rewritten(qs)
    OBVIOUS
  <2>3. \A move \in moves : move = <<move[1], move[2]>>
    <3>1. \A move \in Supersedable(e) : move = <<move[1], move[2]>>
      BY DEF Supersedable
    <3>2. \A move \in rewritten : move = <<move[1], move[2]>>
      BY DEF Rewritten
    <3> QED BY <3>1, <3>2
  <2> HIDE DEF moves, fresh
  <2> QED BY <2>1, <2>2, <2>3
<1>8. /\ IsJob(job') /\ job'.stage = "transfer" /\ job'.candidates = job.candidates
      /\ job'.todo = job.todo /\ job'.known = job.known
      /\ job'.plan = [episode |-> e, new |-> new, moves |-> moves]
  BY <1>7 DEF IsJob
<1>9. Current' = Current /\ Candidate' = Candidate
  BY <1>8, CurrentTurn
<1>10. Deciding'
  <2>1. \A q \in Queries : Sound(job.known[q]) /\ Stands(job.known[q], attributions'[q])
    BY <1>1, <1>6 DEF Deciding, Stands
  <2> QED BY <1>1, <1>8, <2>1 DEF Deciding, AreCandidates
<1>11. ASSUME NEW q \in Queries, NEW d \in Commits, <<q, d>> \in moves
       PROVE  /\ d # Current
              /\ \E x \in LiveIn(job.known[q]) :
                    x.commit = d /\ (x.status = "active" => x.at < Candidate.at)
  <2>1. CASE <<q, d>> \in Supersedable(e)
    <3>1. /\ d # Current
          /\ \E x \in job.known[q].allocations :
                x.status = "active" /\ x.commit = d /\ x.at < Candidate.at
      BY <2>1 DEF Supersedable
    <3> QED BY <3>1 DEF LiveIn, Live
  <2>2. CASE \E qs : <<q, d>> \in Rewritten(qs)
    <3>1. /\ d # Current
          /\ \E x \in job.known[q].allocations : x.status = "rewrite_pending" /\ x.commit = d
      BY <2>2 DEF Rewritten
    <3> QED BY <3>1 DEF LiveIn, Live
  <2> QED BY <1>7, <1>11, <2>1, <2>2
<1>12. Planned'
  <2>1. job'.plan.new = new /\ job'.plan.moves = moves /\ job'.plan.episode = e
    BY <1>8
  <2>2. MovesSettle'
    BY <1>8, <1>9, <1>11, <2>1 DEF MovesSettle
  <2>3. \A move \in job'.plan.moves : move = <<move[1], move[2]>>
    BY <1>7, <2>1
  <2> QED BY <1>4, <1>8, <1>9, <2>1, <2>2, <2>3 DEF Planned
<1> QED BY <1>1, <1>6, <1>8, <1>10, <1>12 DEF AtStage, LedgerKeeps

(* A transfer takes a query from the commit the job read, or, when the      *)
(* claim is elsewhere by now, nothing.                                      *)
LEMMA TransferStep ==
    ASSUME AttributionInv, NEW d \in Commits, Transfer(d)
    PROVE  AttributionInv' /\ LedgerKeeps
<1> USE DEF AttributionInv
<1>1. Shared' /\ Deciding /\ Planned
  BY SharedStays DEF Transfer, shared, AtStage
<1>2. PICK group : /\ group = {move \in job.plan.moves : move[2] = d}
                   /\ TransferFirstClaim(QueriesOf(group), d, job.plan.new)
                   /\ \E claimed : job' = [job EXCEPT !.plan.moves = @ \ group, !.claimed = claimed]
                   /\ job.stage = "transfer"
  BY DEF Transfer
<1>3. ASSUME NEW q \in Queries, q \in QueriesOf(group)
      PROVE  /\ d # Current
             /\ \E x \in LiveIn(job.known[q]) :
                   x.commit = d /\ (x.status = "active" => x.at < Candidate.at)
  <2>1. PICK move \in job.plan.moves : move[2] = d /\ move[1] = q
    BY <1>2, <1>3 DEF QueriesOf
  <2>2. <<q, d>> \in job.plan.moves
    BY <1>1, <2>1 DEF Planned
  <2> QED BY <1>1, <2>2 DEF Planned, MovesSettle
<1>4. ASSUME NEW q \in Queries, q \in QueriesOf(group), HasClaimOf(attributions, q, d)
      PROVE  MayTake(attributions[q], job.plan.new[q].commit, job.plan.new[q].at)
  <2>1. PICK x \in LiveIn(attributions[q]) : x.commit = d
    BY <1>4 DEF HasClaimOf, LiveOf, LiveIn
  <2>2. PICK y \in LiveIn(job.known[q]) : y.commit = d /\ (y.status = "active" => y.at < Candidate.at)
    BY <1>3, <1>4
  <2>3. LiveIn(attributions[q]) = {x}
    BY <2>1, OneLive DEF Ledger
  <2>4. LiveIn(attributions[q]) = LiveIn(job.known[q])
    BY <1>1, <2>1, <2>2 DEF Deciding, Stands
  <2>5. y = x
    BY <2>2, <2>3, <2>4
  <2> QED BY <1>1, <1>3, <1>4, <2>1, <2>2, <2>3, <2>5 DEF MayTake, Planned
<1>5. /\ LedgerKeeps
      /\ \A q \in Queries :
            \/ attributions'[q] = attributions[q]
            \/ /\ q \in QueriesOf(group) /\ HasClaimOf(attributions, q, d)
               /\ \E y : LiveIn(attributions'[q]) = {y} /\ y.commit = job.plan.new[q].commit
  <2>1. PICK qs, new : qs = QueriesOf(group) /\ new = job.plan.new
    OBVIOUS
  <2>2. TransferFirstClaim(qs, d, new) /\ Ledger
    BY <1>2, <2>1
  <2>3. \A q \in Queries : IsAllocation(new[q]) /\ new[q].status = "active" /\ new[q].commit = Current
    BY <1>1, <2>1 DEF Planned
  <2>4. \A q \in Queries : q \in qs /\ HasClaimOf(attributions, q, d) =>
                              MayTake(attributions[q], new[q].commit, new[q].at)
    BY <1>4, <2>1
  <2>5. /\ LedgerKeeps
        /\ \A q \in Queries :
              \/ attributions'[q] = attributions[q]
              \/ /\ q \in qs /\ HasClaimOf(attributions, q, d)
                 /\ \E y : LiveIn(attributions'[q]) = {y} /\ y.commit = new[q].commit
    BY <2>2, <2>3, <2>4, TransferKeeps
  <2> QED BY <2>1, <2>5
<1>6. /\ IsJob(job') /\ job'.stage = "transfer" /\ job'.candidates = job.candidates
      /\ job'.todo = job.todo /\ job'.known = job.known
      /\ job'.plan = [job.plan EXCEPT !.moves = @ \ group]
  BY <1>2 DEF IsJob
<1>7. Current' = Current /\ Candidate' = Candidate
  BY <1>6, CurrentTurn
<1>8. ASSUME NEW q \in Queries PROVE Stands(job.known[q], attributions'[q])
  <2>1. CASE attributions'[q] = attributions[q]
    BY <1>1, <2>1 DEF Deciding
  <2>2. CASE attributions'[q] # attributions[q]
    <3>1. PICK y : LiveIn(attributions'[q]) = {y} /\ y.commit = Current
      BY <1>1, <1>5, <2>2 DEF Planned
    <3>2. q \in QueriesOf(group)
      BY <1>5, <2>2
    <3>3. d # Current /\ \E x \in LiveIn(job.known[q]) : x.commit = d
      BY <1>3, <3>2
    <3>4. \A z \in LiveIn(job.known[q]) : z.commit = d
      BY <1>1, <3>3, OneLive DEF Deciding
    <3> QED BY <3>1, <3>3, <3>4 DEF Stands
  <2> QED BY <2>1, <2>2
<1>9. Deciding'
  BY <1>1, <1>6, <1>8 DEF Deciding, AreCandidates
<1>10. Planned'
  <2>1. /\ job'.plan.new = job.plan.new /\ job'.plan.moves = job.plan.moves \ group
        /\ job'.plan = [episode |-> job'.plan.episode, new |-> job'.plan.new, moves |-> job'.plan.moves]
    BY <1>1, <1>6 DEF Planned
  <2>2. MovesSettle'
    BY <1>1, <1>6, <1>7, <2>1 DEF Planned, MovesSettle
  <2>3. \A move \in job'.plan.moves : move = <<move[1], move[2]>>
    BY <1>1, <2>1 DEF Planned
  <2> QED BY <1>1, <1>7, <2>1, <2>2, <2>3 DEF Planned
<1> QED BY <1>1, <1>5, <1>6, <1>9, <1>10 DEF AtStage, LedgerKeeps

(* An episode is done with, a candidate decided, and the job over.          *)
LEMMA Concluding ==
    ASSUME AttributionInv, Claimed \/ Decide \/ Finish
    PROVE  AttributionInv' /\ LedgerKeeps
<1> USE DEF AttributionInv
<1>1. UNCHANGED attributions /\ LedgerKeeps
  BY UnchangedKeeps DEF Claimed, Decide, Finish
<1>2. CASE Claimed
  <2>1. Shared' /\ Deciding
    BY <1>2, SharedStays DEF Claimed, shared, AtStage
  <2>2. /\ IsJob(job') /\ job'.stage = "candidates" /\ job'.candidates = job.candidates
        /\ job'.todo = job.todo /\ job'.known = job.known
    BY <1>2 DEF Claimed, IsJob
  <2>3. Deciding'
    BY <1>1, <2>1, <2>2 DEF Deciding, AreCandidates
  <2> QED BY <1>1, <2>1, <2>2, <2>3 DEF AtStage, LedgerKeeps
<1>3. CASE Decide
  <2>1. Deciding /\ job.stage = "candidates" /\ job.todo # {}
    BY <1>3 DEF Decide, AtStage
  <2>2. Current \in Commits /\ IsCandidate(Candidate)
    BY <2>1, CurrentIsDue
  <2>3. Shared'
    <3>1. /\ UNCHANGED <<now, epoch, cost>>
          /\ \/ candidates' = [candidates EXCEPT ![Current] = [Candidate EXCEPT !.decision = Decision]]
             \/ UNCHANGED candidates
      BY <1>3 DEF Decide
    <3>2. IsCandidate([Candidate EXCEPT !.decision = Decision])
      BY <2>2 DEF IsCandidate
    <3>3. AreCandidates(candidates') /\ candidates' = [c \in Commits |-> candidates'[c]]
      BY <2>2, <3>1, <3>2 DEF Shared, AreCandidates
    <3> QED BY <3>1, <3>3 DEF Shared
  <2>4. /\ IsJob(job') /\ job'.stage = "candidates" /\ job'.candidates = job.candidates
        /\ job'.todo = job.todo \ {Current} /\ job'.known = job.known
    BY <1>3 DEF Decide, IsJob
  <2>5. Deciding'
    BY <1>1, <2>1, <2>4 DEF Deciding, AreCandidates
  <2> QED BY <1>1, <2>3, <2>4, <2>5 DEF AtStage, LedgerKeeps
<1>4. CASE Finish
  BY <1>1, <1>4, SharedStays, JobEnds DEF Finish
<1> QED BY <1>2, <1>3, <1>4

LEMMA AttributionStep == AttributionInv /\ [Next]_vars => AttributionInv' /\ LedgerKeeps
<1> SUFFICES ASSUME AttributionInv, [Next]_vars PROVE AttributionInv' /\ LedgerKeeps
  OBVIOUS
<1>1. CASE UNCHANGED vars
  BY <1>1, SharedStays, JobStays DEF vars, shared, AttributionInv
<1>2. CASE Environment
  BY <1>2, EnvironmentKeeps
<1>3. CASE Asked
  BY <1>3, BeforeReading, Reading DEF Asked
<1>4. CASE JobStep
  BY <1>4, BeforeReading, Reading, ClaimStep, TransferStep, Concluding DEF JobStep
<1>5. CASE Dispatcher
  BY <1>5, SharedStays, JobStays DEF Dispatcher, Turn, ReconcileCommitEvents, shared, AttributionInv
<1> QED BY <1>1, <1>2, <1>3, <1>4, <1>5 DEF Next

(*------------------------- what no rejection took -----------------------*)

(* A commit has a claim that no native rejection took back.                 *)
Upheld(a, c) == \E q \in Queries : \E x \in a[q].allocations : x.commit = c /\ ~x.retracted

Honest(t) == \A x \in t.allocations : Live(x) => ~x.retracted

(* Every operation but the native rejections leaves of each allocation one  *)
(* on the same commit, taken back no more than it was.                      *)
Follows(t, u) ==
    /\ \A x \in t.allocations : \E y \in u.allocations :
          y.commit = x.commit /\ y.retracted = x.retracted
    /\ Honest(t) => Honest(u)

LedgerFollows == \A q \in Queries : Follows(attributions[q], attributions'[q])

LEMMA UpheldStays ==
    ASSUME LedgerFollows, NEW c, Upheld(attributions, c)
    PROVE  Upheld(attributions', c)
  BY DEF LedgerFollows, Follows, Upheld

LEMMA UnchangedFollows == UNCHANGED attributions => LedgerFollows
  BY DEF LedgerFollows, Follows

LEMMA MarkFollows ==
    ASSUME Ledger, NEW commits, NEW at, MarkRewritePending(commits, at)
    PROVE  LedgerFollows
<1> SUFFICES ASSUME NEW q \in Queries PROVE Follows(attributions[q], attributions'[q])
  BY DEF LedgerFollows
<1>1. PICK t, u : t = attributions[q] /\ u = attributions'[q]
  OBVIOUS
<1>2. u = Marked(t, commits, at)
  BY <1>1 DEF MarkRewritePending, Marked, Rewritable, Waiting, Awaiting
<1>3. Sound(t)
  BY <1>1 DEF Ledger
<1>4. u.allocations = {Waiting(z, commits, at) : z \in t.allocations}
  BY <1>2, <1>3 DEF Sound, Marked
<1>5. ASSUME NEW z \in t.allocations
      PROVE  /\ Waiting(z, commits, at).commit = z.commit
             /\ Waiting(z, commits, at).retracted = z.retracted
             /\ Live(Waiting(z, commits, at)) => Live(z)
  BY <1>3 DEF Sound, IsAllocation, Waiting, Rewritable, Awaiting, Live
<1>6. Follows(t, u)
  BY <1>4, <1>5 DEF Follows, Honest
<1> QED BY <1>1, <1>6

LEMMA ExpireFollows ==
    ASSUME Ledger, NEW before, ExpireRewritePending(before)
    PROVE  LedgerFollows
<1> SUFFICES ASSUME NEW q \in Queries PROVE Follows(attributions[q], attributions'[q])
  BY DEF LedgerFollows
<1>1. PICK t, u : t = attributions[q] /\ u = attributions'[q]
  OBVIOUS
<1>2. u = ExpiredBy(t, before)
  BY <1>1 DEF ExpireRewritePending, ExpiredBy, Overdue, Lapsed
<1>3. Sound(t)
  BY <1>1 DEF Ledger
<1>4. u.allocations = {Lapsed(z, before) : z \in t.allocations}
  BY <1>2, <1>3 DEF Sound, ExpiredBy
<1>5. ASSUME NEW z \in t.allocations
      PROVE  /\ Lapsed(z, before).commit = z.commit
             /\ Lapsed(z, before).retracted = z.retracted
             /\ Live(Lapsed(z, before)) => Live(z)
  BY <1>3 DEF Sound, IsAllocation, Lapsed, Overdue, Ended, Live
<1>6. Follows(t, u)
  BY <1>4, <1>5 DEF Follows, Honest
<1> QED BY <1>1, <1>6

LEMMA CostFollows ==
    ASSUME Ledger, NEW q \in Queries, NEW price, UpsertCost(q, price)
    PROVE  LedgerFollows
<1> SUFFICES ASSUME NEW other \in Queries PROVE Follows(attributions[other], attributions'[other])
  BY DEF LedgerFollows
<1>1. CASE other # q
  BY <1>1 DEF UpsertCost, Ledger, Follows
<1>2. CASE other = q
  <2>1. PICK t, u : t = attributions[q] /\ u = attributions'[q]
    OBVIOUS
  <2>2. u = Repriced(t, price) /\ Sound(t)
    BY <2>1 DEF UpsertCost, Ledger
  <2>3. u.allocations = {PricedAt(z, price) : z \in t.allocations}
    BY <2>2 DEF Sound, Repriced, PricedAt
  <2>4. ASSUME NEW z \in t.allocations
        PROVE  /\ PricedAt(z, price).commit = z.commit
               /\ PricedAt(z, price).retracted = z.retracted
               /\ Live(PricedAt(z, price)) => Live(z)
    BY <2>2 DEF Sound, IsAllocation, PricedAt, Live
  <2>5. Follows(t, u)
    BY <2>3, <2>4 DEF Follows, Honest
  <2> QED BY <1>2, <2>1, <2>5
<1> QED BY <1>1, <1>2

LEMMA StatusFollows ==
    ASSUME Ledger, NEW q \in Queries, NEW status, UpsertStatus(q, status)
    PROVE  /\ LedgerFollows
           /\ \A other \in Queries : attributions'[other].allocations = attributions[other].allocations
<1>1. ASSUME NEW other \in Queries PROVE attributions'[other].allocations = attributions[other].allocations
  <2>1. PICK t, u : t = attributions[other] /\ u = attributions'[other]
    OBVIOUS
  <2>2. Sound(t) /\ (u = t \/ u = [t EXCEPT !.status = status])
    BY <2>1 DEF UpsertStatus, Ledger
  <2>3. u.allocations = t.allocations
    BY <2>2 DEF Sound
  <2> QED BY <2>1, <2>3
<1> QED BY <1>1 DEF LedgerFollows, Follows, Honest

(* A claim takes each query that has none.                                  *)
LEMMA ClaimFollows ==
    ASSUME Ledger, NEW qs, NEW new, TryFirstClaim(qs, new),
           \A q \in Queries : IsAllocation(new[q]) /\ ~new[q].retracted
    PROVE  /\ LedgerFollows
           /\ \A q \in Queries : q \in qs /\ ~HasActiveFirstClaim(attributions, q) =>
                 \E x \in attributions'[q].allocations : x.commit = new[q].commit /\ ~x.retracted
<1> SUFFICES ASSUME NEW q \in Queries
             PROVE  /\ Follows(attributions[q], attributions'[q])
                    /\ q \in qs /\ ~HasActiveFirstClaim(attributions, q) =>
                          \E x \in attributions'[q].allocations : x.commit = new[q].commit /\ ~x.retracted
  BY DEF LedgerFollows
<1>1. PICK t, u, n : t = attributions[q] /\ u = attributions'[q] /\ n = new[q]
  OBVIOUS
<1>2. PICK m : m = [n EXCEPT !.cost = t.cost]
  OBVIOUS
<1>7. IsAllocation(n) /\ ~n.retracted
  BY <1>1
<1>3. m.commit = n.commit /\ ~m.retracted
  BY <1>2, <1>7 DEF IsAllocation
<1>4. Sound(t)
  BY <1>1 DEF Ledger
<1>5. CASE ~(q \in qs /\ ~HasActiveFirstClaim(attributions, q))
  <2>1. attributions'[q] = attributions[q]
    BY <1>5 DEF TryFirstClaim, FirstClaimed
  <2> QED BY <1>5, <2>1 DEF Follows
<1>6. CASE q \in qs /\ ~HasActiveFirstClaim(attributions, q)
  <2>1. u = [t EXCEPT !.status = "attributed", !.allocations = @ \cup {m}]
    BY <1>1, <1>2, <1>6 DEF TryFirstClaim, FirstClaimed
  <2>2. u.allocations = t.allocations \cup {m}
    BY <1>4, <2>1 DEF Sound
  <2>3. Follows(t, u)
    BY <1>3, <2>2 DEF Follows, Honest
  <2> QED BY <1>1, <1>3, <2>2, <2>3
<1> QED BY <1>5, <1>6

(* A transfer takes each query that has a claim on c.                       *)
LEMMA TransferFollows ==
    ASSUME Ledger, NEW qs, NEW c, NEW new, TransferFirstClaim(qs, c, new),
           \A q \in Queries : IsAllocation(new[q]) /\ ~new[q].retracted
    PROVE  /\ LedgerFollows
           /\ \A q \in Queries : q \in qs /\ HasClaimOf(attributions, q, c) =>
                 \E x \in attributions'[q].allocations : x.commit = new[q].commit /\ ~x.retracted
<1> SUFFICES ASSUME NEW q \in Queries
             PROVE  /\ Follows(attributions[q], attributions'[q])
                    /\ q \in qs /\ HasClaimOf(attributions, q, c) =>
                          \E x \in attributions'[q].allocations : x.commit = new[q].commit /\ ~x.retracted
  BY DEF LedgerFollows
<1>1. PICK t, u, n : t = attributions[q] /\ u = attributions'[q] /\ n = new[q]
  OBVIOUS
<1>2. PICK m : m = [n EXCEPT !.cost = t.cost]
  OBVIOUS
<1>7. IsAllocation(n) /\ ~n.retracted
  BY <1>1
<1>3. m.commit = n.commit /\ ~m.retracted
  BY <1>2, <1>7 DEF IsAllocation
<1>4. Sound(t)
  BY <1>1 DEF Ledger
<1>5. CASE ~(q \in qs /\ HasClaimOf(attributions, q, c))
  <2>1. attributions'[q] = attributions[q]
    BY <1>5 DEF TransferFirstClaim, Transferred
  <2> QED BY <1>5, <2>1 DEF Follows
<1>6. CASE q \in qs /\ HasClaimOf(attributions, q, c)
  <2> DEFINE Left(y) == IF Live(y) /\ y.commit = c THEN Ended(y) ELSE y
  <2>1. u = MovedTo(t, c, m)
    BY <1>1, <1>2, <1>6 DEF TransferFirstClaim, Transferred, MovedTo
  <2>2. u.allocations = {Left(y) : y \in t.allocations} \cup {m}
    BY <1>4, <2>1 DEF Sound, MovedTo
  <2>3. ASSUME NEW z \in t.allocations
        PROVE  Left(z).commit = z.commit /\ Left(z).retracted = z.retracted /\ (Live(Left(z)) => Live(z))
    BY <1>4 DEF Sound, IsAllocation, Ended, Live
  <2> HIDE DEF Left
  <2>4. Follows(t, u)
    <3>1. \A x \in t.allocations : \E y \in u.allocations : y.commit = x.commit /\ y.retracted = x.retracted
      BY <2>2, <2>3
    <3>2. Honest(t) => Honest(u)
      BY <1>3, <2>2, <2>3 DEF Honest
    <3> QED BY <3>1, <3>2 DEF Follows
  <2> QED BY <1>1, <1>3, <2>2, <2>4
<1> QED BY <1>5, <1>6

(*------------------------------- episodes -------------------------------*)

IsEpisode(x) ==
    /\ x = [session |-> x.session, queries |-> x.queries, started |-> x.started,
            lastQuery |-> x.lastQuery, lastActivity |-> x.lastActivity, status |-> x.status,
            claimedBy |-> x.claimedBy, claimedAt |-> x.claimedAt, evidence |-> x.evidence]
    /\ x.queries \subseteq Queries /\ x.status \in {"open", "stale", "claimed"}

AreEpisodes(f) == \A e \in Episodes : f[e] = NoEpisode \/ IsEpisode(f[e])

(* The stages of a job that has read candidates and episodes.               *)
ReadStages == {"native", "retract", "statuses", "candidates", "transfer"}

(* Episodes are of known queries, and one that a job has read stays.        *)
EpisodeInv ==
    /\ episodes = [e \in Episodes |-> episodes[e]] /\ AreEpisodes(episodes)
    /\ job.stage \in ReadStages =>
          /\ AreEpisodes(job.episodes)
          /\ \A e \in Episodes : job.episodes[e] # NoEpisode => Exists(e)
    /\ job.stage = "transfer" =>
          /\ job.plan.episode \in Episodes /\ Exists(job.plan.episode)
          /\ \A move \in job.plan.moves : move[1] \in Queries

EpisodesKeep ==
    /\ episodes' = [e \in Episodes |-> episodes'[e]] /\ AreEpisodes(episodes')
    /\ \A e \in Episodes : Exists(e) => Exists(e)'

LEMMA EpisodeIsSome ==
    ASSUME NEW x, IsEpisode(x)
    PROVE  x # NoEpisode
<1>1. x = NoEpisode => x.status = "none"
  BY DEF NoEpisode
<1> QED BY <1>1 DEF IsEpisode

(* A write of the episodes is one of each.                                  *)
LEMMA EachKeeps ==
    ASSUME EpisodeInv, NEW f, episodes' = [e \in Episodes |-> f[e]],
           \A e \in Episodes : f[e] = episodes[e] \/ IsEpisode(f[e])
    PROVE  EpisodesKeep
<1>1. \A e \in Episodes : episodes'[e] = f[e]
  OBVIOUS
<1>2. AreEpisodes(episodes')
  BY <1>1 DEF EpisodeInv, AreEpisodes
<1>3. \A e \in Episodes : Exists(e) => Exists(e)'
  BY <1>1, EpisodeIsSome DEF Exists
<1>4. episodes' = [e \in Episodes |-> episodes'[e]]
  BY <1>1
<1> QED BY <1>2, <1>3, <1>4 DEF EpisodesKeep

LEMMA StaledIsEpisode ==
    ASSUME EpisodeInv, NEW e \in Episodes, NEW at
    PROVE  Staled(e, at) = episodes[e] \/ IsEpisode(Staled(e, at))
<1>1. CASE Exists(e)
  <2>1. PICK x : x = episodes[e]
    OBVIOUS
  <2>2. IsEpisode(x)
    BY <1>1, <2>1 DEF EpisodeInv, AreEpisodes, Exists
  <2>3. IsEpisode([x EXCEPT !.status = "stale"])
    BY <2>2 DEF IsEpisode
  <2> QED BY <2>1, <2>3 DEF Staled
<1> QED BY <1>1 DEF Staled

LEMMA ObservingKeeps ==
    ASSUME EpisodeInv, NEW q \in Queries, NEW started_, NEW at, ObserveRun(q, started_, at)
    PROVE  EpisodesKeep
<1>1. CASE at - started_ > StaleAfter
  <2> DEFINE f == [e \in Episodes |-> Staled(e, started_)]
  <2>1. episodes' = [e \in Episodes |-> f[e]]
    BY <1>1 DEF ObserveRun
  <2>2. \A e \in Episodes : f[e] = episodes[e] \/ IsEpisode(f[e])
    BY StaledIsEpisode
  <2> HIDE DEF f
  <2> QED BY <2>1, <2>2, EachKeeps
<1>2. CASE ~(at - started_ > StaleAfter)
  <2>1. PICK e \in Episodes :
          episodes' = [other \in Episodes |->
            IF other # e THEN Staled(other, started_)
            ELSE Extended(IF Exists(e) THEN episodes[e] ELSE Created(q, started_), q, at)]
    BY <1>2 DEF ObserveRun, First, Joinable, Unused
  <2>2. PICK x : x = IF Exists(e) THEN episodes[e] ELSE Created(q, started_)
    OBVIOUS
  <2>3. IsEpisode(x)
    <3>1. CASE Exists(e)
      BY <2>2, <3>1 DEF EpisodeInv, AreEpisodes, Exists
    <3>2. CASE ~Exists(e)
      BY <2>2, <3>2 DEF Created, IsEpisode
    <3> QED BY <3>1, <3>2
  <2>7. PICK y : y = Extended(x, q, at)
    OBVIOUS
  <2>4. IsEpisode(y)
    <3>1. PICK queries, one, two : y = [x EXCEPT !.queries = queries, !.lastQuery = one, !.lastActivity = two]
                                   /\ queries = x.queries \cup {q}
      BY <2>7 DEF Extended
    <3> QED BY <2>3, <3>1 DEF IsEpisode
  <2> DEFINE f == [other \in Episodes |-> IF other # e THEN Staled(other, started_) ELSE y]
  <2>5. episodes' = [other \in Episodes |-> f[other]]
    BY <2>1, <2>2, <2>7
  <2>6. \A other \in Episodes : f[other] = episodes[other] \/ IsEpisode(f[other])
    BY <2>4, StaledIsEpisode
  <2> HIDE DEF f
  <2> QED BY <2>5, <2>6, EachKeeps
<1> QED BY <1>1, <1>2

LEMMA BindingKeeps ==
    ASSUME EpisodeInv, NEW q \in Queries, NEW evidence, NEW at, ObserveWorkspaceEvidence(q, evidence, at)
    PROVE  EpisodesKeep
<1>1. CASE UNCHANGED episodes
  BY <1>1 DEF EpisodeInv, EpisodesKeep, Exists
<1>2. CASE ~UNCHANGED episodes
  <2> DEFINE OfQuery == {e \in Episodes : Exists(e) /\ q \in episodes[e].queries}
  <2>10. PICK e \in First(OfQuery) :
           episodes' = [episodes EXCEPT ![e] =
                            [Bound(episodes[e], q, evidence) EXCEPT !.lastActivity = Later(@, at)]]
    BY <1>2 DEF ObserveWorkspaceEvidence
  <2>1. e \in Episodes /\ Exists(e)
    BY DEF First
  <2>2. PICK x : x = episodes[e]
    OBVIOUS
  <2>3. IsEpisode(x)
    BY <2>1, <2>2 DEF EpisodeInv, AreEpisodes, Exists
  <2>4. PICK y : y = Bound(x, q, evidence)
    OBVIOUS
  <2>5. IsEpisode(y)
    BY <2>3, <2>4 DEF Bound, IsEpisode
  <2>6. PICK z : z = [y EXCEPT !.lastActivity = Later(@, at)]
    OBVIOUS
  <2>7. IsEpisode(z)
    BY <2>5, <2>6 DEF IsEpisode
  <2> DEFINE f == [episodes EXCEPT ![e] = z]
  <2>11. episodes' = [episodes EXCEPT ![e] = [y EXCEPT !.lastActivity = Later(@, at)]]
    BY <2>2, <2>4, <2>10, Zenon
  <2>12. episodes' = f
    BY <2>6, <2>11, Zenon
  <2>8. episodes' = [other \in Episodes |-> f[other]]
    BY <2>1, <2>12 DEF EpisodeInv
  <2>9. \A other \in Episodes : f[other] = episodes[other] \/ IsEpisode(f[other])
    BY <2>7 DEF EpisodeInv
  <2> HIDE DEF f
  <2> QED BY <2>8, <2>9, EachKeeps
<1> QED BY <1>1, <1>2

LEMMA MarkClaimedKeeps ==
    ASSUME EpisodeInv, NEW e \in Episodes, Exists(e), NEW c, NEW at, MarkClaimed(e, c, at)
    PROVE  EpisodesKeep
<1>1. PICK x : x = episodes[e]
  OBVIOUS
<1>2. IsEpisode(x)
  BY <1>1 DEF EpisodeInv, AreEpisodes, Exists
<1>3. PICK z : z = [x EXCEPT !.status = "claimed", !.claimedBy = c, !.claimedAt = at]
  OBVIOUS
<1>4. IsEpisode(z)
  BY <1>2, <1>3 DEF IsEpisode
<1> DEFINE f == [episodes EXCEPT ![e] = z]
<1>5. episodes' = [other \in Episodes |-> f[other]]
  BY <1>1, <1>3 DEF EpisodeInv, MarkClaimed
<1>6. \A other \in Episodes : f[other] = episodes[other] \/ IsEpisode(f[other])
  BY <1>4 DEF EpisodeInv
<1> HIDE DEF f
<1> QED BY <1>5, <1>6, EachKeeps

LEMMA ReopeningKeeps ==
    ASSUME EpisodeInv, NEW commits, ReopenSupersededCommits(commits)
    PROVE  EpisodesKeep
<1> DEFINE f == [e \in Episodes |->
                    IF Exists(e) /\ episodes[e].claimedBy \in commits
                    THEN [episodes[e] EXCEPT !.status = "open", !.claimedBy = NoCommit, !.claimedAt = -1]
                    ELSE episodes[e]]
<1>1. episodes' = [e \in Episodes |-> f[e]]
  BY DEF ReopenSupersededCommits
<1>2. ASSUME NEW e \in Episodes PROVE f[e] = episodes[e] \/ IsEpisode(f[e])
  <2>1. CASE Exists(e)
    <3>1. PICK x : x = episodes[e]
      OBVIOUS
    <3>2. IsEpisode(x)
      BY <2>1, <3>1 DEF EpisodeInv, AreEpisodes, Exists
    <3>3. PICK y, never : y = [x EXCEPT !.status = "open", !.claimedBy = NoCommit, !.claimedAt = never] /\ never = -1
      OBVIOUS
    <3>4. IsEpisode(y)
      BY <3>2, <3>3 DEF IsEpisode
    <3> QED BY <3>1, <3>3, <3>4
  <2> QED BY <2>1
<1> HIDE DEF f
<1> QED BY <1>1, <1>2, EachKeeps

(* What an evaluation may claim are queries of the episode.                 *)
LEMMA EvaluationKnown ==
    ASSUME EpisodeInv, job.stage \in ReadStages, NEW e \in Episodes, job.episodes[e] # NoEpisode
    PROVE  job.episodes[e].queries \subseteq Queries /\ Evaluation(e).queries \subseteq Queries
<1>1. job.episodes[e].queries \subseteq Queries
  BY DEF EpisodeInv, AreEpisodes, IsEpisode
<1>2. \A c, candidate, episode, active, own :
        episode.queries \subseteq Queries =>
            Evaluate(c, candidate, episode, active, own).queries \subseteq Queries
  BY DEF Evaluate, ProvenAnchors, Inheriting
<1> QED BY <1>1, <1>2 DEF Evaluation

(* What a claim of episode e writes and plans.                              *)
Plans(e, new, moves, regular, fresh) ==
    /\ e \in Episodes /\ job.episodes[e] # NoEpisode
    /\ TryFirstClaim(regular, new)
    /\ job' = [job EXCEPT !.stage = "transfer",
                          !.plan = [episode |-> e, new |-> new, moves |-> moves],
                          !.claimed = fresh]
    /\ fresh = {q \in regular : ~HasActiveFirstClaim(attributions, q)} /\ regular \subseteq Queries
    /\ \A q \in Queries : /\ IsAllocation(new[q]) /\ new[q].status = "active"
                          /\ new[q].commit = Current /\ ~new[q].retracted
    /\ \A move \in moves : move[1] \in Queries

LEMMA ClaimPlans ==
    ASSUME AttributionInv, EpisodeInv, NEW e, Claim(e)
    PROVE  \E new, moves, regular, fresh : Plans(e, new, moves, regular, fresh)
<1>1. Deciding /\ job.todo # {} /\ job.stage = "candidates"
  BY DEF Claim, AtStage, AttributionInv
<1>2. Current \in Commits /\ IsCandidate(Candidate)
  BY <1>1, CurrentIsDue
<1>3. e \in Episodes /\ job.episodes[e] # NoEpisode
  BY DEF Claim, NextClaim, Claimable, Relevant
<1>4. job.episodes[e].queries \subseteq Queries /\ Evaluation(e).queries \subseteq Queries
  BY <1>1, <1>3, EvaluationKnown DEF ReadStages
<1> DEFINE new == NewAllocations(e, Evaluation(e))
           result == Evaluation(e)
           rewritten == Rewritten(result.queries)
           superseded == {group \in Supersedable(e) : group[1] \in result.queries}
           regular == result.queries \ QueriesOf(rewritten \cup superseded)
           fresh == {q \in regular : ~HasActiveFirstClaim(attributions, q)}
           allowed == fresh # {} \/ ActivitySinceClaim(job.episodes[e])
           moves == rewritten \cup IF allowed THEN superseded ELSE {}
<1>5. \A q \in Queries : /\ IsAllocation(new[q]) /\ new[q].status = "active"
                        /\ new[q].commit = Current /\ ~new[q].retracted
  BY <1>2 DEF NewAllocations, IsAllocation, IsCandidate, IsPrice
<1>6. /\ TryFirstClaim(regular, new)
      /\ job' = [job EXCEPT !.stage = "transfer",
                            !.plan = [episode |-> e, new |-> new, moves |-> moves],
                            !.claimed = fresh]
  BY DEF Claim
<1>7. regular \subseteq Queries
  BY <1>4
<1>8. \A move \in moves : move[1] \in Queries
  <2>1. \A move \in superseded : move[1] \in Queries
    BY <1>4
  <2>2. \A move \in rewritten : move[1] \in Queries
    BY <1>4 DEF Rewritten
  <2> QED BY <2>1, <2>2
<1>9. fresh = {q \in regular : ~HasActiveFirstClaim(attributions, q)}
  OBVIOUS
<1> HIDE DEF new, moves, regular, fresh
<1>10. Plans(e, new, moves, regular, fresh)
  BY <1>3, <1>5, <1>6, <1>7, <1>8, <1>9 DEF Plans
<1> QED BY <1>10

LEMMA EpisodesStay ==
    ASSUME EpisodeInv, EpisodesKeep, IsJob(job), UNCHANGED job
    PROVE  EpisodeInv'
  BY DEF EpisodeInv, EpisodesKeep, AreEpisodes, Exists

LEMMA SameEpisodesKeep == EpisodeInv /\ UNCHANGED episodes => EpisodesKeep
  BY DEF EpisodeInv, EpisodesKeep, Exists

LEMMA EpisodesInit == Init => EpisodeInv
  BY DEF Init, EpisodeInv, AreEpisodes, NoJob, ReadStages

(* A job begins with the costs of some queries, or of all.                  *)
Synchronizing == \E queries, all : Synchronize(queries, all)

LEMMA AskedFor == Asked => Reconcile \/ Synchronizing \/ RewriteHandled
  BY DEF Asked, Synchronizing, ReconcilePersistedState, ObserveRunCompleted

LEMMA EpisodesStep ==
    ASSUME AttributionInv, EpisodeInv, [Next]_vars
    PROVE  EpisodeInv'
<1>100. IsJob(job)
  BY DEF AttributionInv
<1>1. CASE UNCHANGED vars
  BY <1>1, <1>100, SameEpisodesKeep, EpisodesStay DEF vars
<1>2. CASE Environment
  <2>1. CASE Tick \/ (\E q \in Queries : Price(q)) \/ \E c \in Commits : CommitObserved(c) \/ RewriteObserved(c)
    <3>1. UNCHANGED <<episodes, job>>
      BY <2>1 DEF Tick, Price, CommitObserved, RewriteObserved, Stored
    <3> QED BY <1>100, <3>1, SameEpisodesKeep, EpisodesStay
  <2>2. CASE Crash
    BY <2>2 DEF Crash, EpisodeInv, NoJob, ReadStages, AreEpisodes
  <2>3. ASSUME NEW q \in Queries, RunStarts(q) \/ RunActive(q) \/ EvidenceBound(q)
        PROVE  EpisodeInv'
    <3>1. UNCHANGED job
      BY <2>3 DEF RunStarts, RunActive, EvidenceBound
    <3>2. EpisodesKeep
      BY <2>3, ObservingKeeps, BindingKeeps DEF RunStarts, RunActive, EvidenceBound
    <3> QED BY <1>100, <3>1, <3>2, EpisodesStay
  <2> QED BY <1>2, <2>1, <2>2, <2>3 DEF Environment
<1>3. CASE Synchronizing \/ RewriteHandled \/ Finish \/ \E q \in Queries : SynchronizeCost(q) \/ CostRefused(q)
  <2>1. UNCHANGED episodes
    BY <1>3 DEF Synchronizing, Synchronize, RewriteHandled, Finish, SynchronizeCost, CostRefused
  <2>2. job'.stage \in {"idle", "costs", "read", "reopen"}
    <3>1. CASE Synchronizing \/ RewriteHandled
      BY <3>1 DEF Synchronizing, Synchronize, RewriteHandled, NoJob
    <3>2. CASE Finish \/ \E q \in Queries : CostRefused(q)
      BY <3>2 DEF Finish, CostRefused, NoJob
    <3>3. ASSUME NEW q \in Queries, SynchronizeCost(q) PROVE job'.stage \in {"costs", "read"}
      BY <1>100, <3>3 DEF SynchronizeCost, NextGroup, IsJob
    <3> QED BY <1>3, <3>1, <3>2, <3>3
  <2> QED BY <2>1, <2>2 DEF EpisodeInv, AreEpisodes, ReadStages
<1>4. CASE Reopen
  <2>1. EpisodesKeep
    BY <1>4, ReopeningKeeps DEF Reopen
  <2>2. job'.stage = "read"
    BY <1>4, <1>100 DEF Reopen, IsJob
  <2> QED BY <2>1, <2>2 DEF EpisodeInv, EpisodesKeep, ReadStages, AreEpisodes
<1>5. CASE Reconcile \/ Read
  <2>1. job'.stage = "native" /\ job'.episodes = episodes /\ UNCHANGED episodes
    BY <1>5, <1>100 DEF Reconcile, Read, Begin, IsJob
  <2> QED BY <2>1 DEF EpisodeInv, AreEpisodes, Exists
<1>6. CASE \/ ReconcileNativeRejections \/ Retracted \/ Prepared \/ Decide
           \/ \E c \in Commits : Retract(c)
           \/ \E q \in Queries : SynchronizeStatus(q)
  <2>1. /\ UNCHANGED episodes /\ job'.episodes = job.episodes
        /\ job.stage \in ReadStages /\ job'.stage \in {"retract", "statuses", "candidates"}
    BY <1>6, <1>100 DEF ReconcileNativeRejections, Retract, Retracted, SynchronizeStatus, Prepared, Decide, IsJob,
                        ReadStages
  <2> QED BY <2>1 DEF EpisodeInv, AreEpisodes, Exists
<1>7. ASSUME NEW e, Claim(e) PROVE EpisodeInv'
  <2>1. PICK new, moves, regular, fresh : Plans(e, new, moves, regular, fresh)
    BY <1>7, ClaimPlans
  <2>2. UNCHANGED episodes /\ job.stage \in ReadStages
    BY <1>7 DEF Claim, ReadStages
  <2>3. /\ job'.stage = "transfer" /\ job'.episodes = job.episodes
        /\ job'.plan = [episode |-> e, new |-> new, moves |-> moves]
    BY <1>100, <2>1 DEF IsJob, Plans
  <2>4. e \in Episodes /\ Exists(e) /\ \A move \in moves : move[1] \in Queries
    BY <2>1, <2>2 DEF Plans, EpisodeInv
  <2> QED BY <2>2, <2>3, <2>4 DEF EpisodeInv, AreEpisodes, Exists
<1>8. ASSUME NEW c \in Commits, Transfer(c) PROVE EpisodeInv'
  <2>1. PICK group, claimed :
          /\ job' = [job EXCEPT !.plan.moves = @ \ group, !.claimed = claimed]
          /\ job.stage = "transfer" /\ UNCHANGED episodes
    BY <1>8 DEF Transfer
  <2>2. job.plan = [episode |-> job.plan.episode, new |-> job.plan.new, moves |-> job.plan.moves]
    BY <2>1 DEF AttributionInv, AtStage, Planned
  <2>3. /\ job'.stage = "transfer" /\ job'.episodes = job.episodes
        /\ job'.plan.episode = job.plan.episode /\ job'.plan.moves = job.plan.moves \ group
    BY <1>100, <2>1, <2>2 DEF IsJob
  <2> QED BY <2>1, <2>3 DEF EpisodeInv, AreEpisodes, Exists, ReadStages
<1>9. CASE Claimed
  <2>1. /\ job'.stage = "candidates" /\ job'.episodes = job.episodes /\ job.stage = "transfer"
    BY <1>9, <1>100 DEF Claimed, IsJob
  <2>2. EpisodesKeep
    <3>1. job.plan.episode \in Episodes /\ Exists(job.plan.episode)
      BY <2>1 DEF EpisodeInv
    <3> QED BY <1>9, <3>1, MarkClaimedKeeps, SameEpisodesKeep DEF Claimed
  <2> QED BY <2>1, <2>2 DEF EpisodeInv, EpisodesKeep, AreEpisodes, Exists, ReadStages
<1>10. CASE Dispatcher
  <2>1. UNCHANGED <<episodes, job>>
    BY <1>10 DEF Dispatcher, Turn, ReconcileCommitEvents
  <2> QED BY <1>100, <2>1, SameEpisodesKeep, EpisodesStay
<1> QED BY <1>1, <1>2, <1>3, <1>4, <1>5, <1>6, <1>7, <1>8, <1>9, <1>10, AskedFor DEF Next, JobStep

(*--------------------- what commits are reported for --------------------*)

(* A rejection has taken the last claim of c, and its candidate is about to *)
(* be stored as pending.                                                    *)
Doomed(c) == job.stage = "retract" /\ c \in job.todo

Backed(c) == Upheld(attributions, c) \/ Doomed(c)

ShownIsBacked == \A c \in Commits : candidates[c].decision = "reportable" => Backed(c)

(* A job stores candidates as it read them.                                 *)
ReadIsBacked ==
    job.stage \in ReadStages =>
        \A c \in Commits : job.candidates[c].decision = "reportable" => Backed(c)

(* What is shown as reportable before a rejection is stored, the job has    *)
(* read as reportable.                                                      *)
ShownIsRead ==
    job.stage \in {"native", "retract"} =>
        \A c \in Commits : candidates[c].decision = "reportable" => job.candidates[c].decision = "reportable"

(* What has claimed a query for the candidate whose turn it is.             *)
TurnIsBacked ==
    /\ job.claimed # {} => job.stage = "transfer"
    /\ job.reported \/ job.claimed # {} =>
          job.stage \in {"candidates", "transfer"} /\ Upheld(attributions, Current)

Reported == ShownIsBacked /\ ReadIsBacked /\ ShownIsRead /\ TurnIsBacked

AllHonest == \A q \in Queries : Honest(attributions[q])

PlanIsHonest == job.stage = "transfer" => \A q \in Queries : ~job.plan.new[q].retracted

ReportInv ==
    /\ crashes \in Nat /\ job.reported \in BOOLEAN
    /\ AllHonest /\ PlanIsHonest
    /\ crashes = 0 => Reported

(* Only the native rejections take a claim back.                            *)
LEMMA OthersFollow ==
    ASSUME AttributionInv, EpisodeInv, PlanIsHonest, [Next]_vars, ~ReconcileNativeRejections
    PROVE  LedgerFollows
<1>0. Ledger /\ IsJob(job)
  BY DEF AttributionInv
<1>1. CASE UNCHANGED attributions
  BY <1>1, UnchangedFollows
<1>2. CASE RewriteHandled
  BY <1>0, <1>2, MarkFollows DEF RewriteHandled
<1>3. CASE Reconcile \/ Read
  BY <1>0, <1>3, ExpireFollows DEF Reconcile, Read, Begin
<1>4. ASSUME NEW q \in Queries, SynchronizeCost(q) PROVE LedgerFollows
  BY <1>0, <1>4, CostFollows DEF SynchronizeCost
<1>5. ASSUME NEW q \in Queries, SynchronizeStatus(q) PROVE LedgerFollows
  BY <1>0, <1>5, StatusFollows DEF SynchronizeStatus
<1>6. ASSUME NEW e, Claim(e) PROVE LedgerFollows
  <2>1. PICK new, moves, regular, fresh : Plans(e, new, moves, regular, fresh)
    BY <1>6, ClaimPlans
  <2>2. TryFirstClaim(regular, new) /\ \A q \in Queries : IsAllocation(new[q]) /\ ~new[q].retracted
    BY <2>1 DEF Plans
  <2> QED BY <1>0, <2>2, ClaimFollows
<1>7. ASSUME NEW d \in Commits, Transfer(d) PROVE LedgerFollows
  <2>1. PICK qs, new : TransferFirstClaim(qs, d, new) /\ new = job.plan.new /\ job.stage = "transfer"
    BY <1>7 DEF Transfer
  <2>2. \A q \in Queries : IsAllocation(new[q]) /\ ~new[q].retracted
    BY <2>1 DEF AttributionInv, AtStage, Planned, PlanIsHonest
  <2> QED BY <1>0, <2>1, <2>2, TransferFollows
<1>8. CASE UNCHANGED vars \/ Environment \/ Dispatcher \/ Synchronizing
  BY <1>1, <1>8 DEF vars, Environment, Tick, Crash, RunStarts, RunActive, EvidenceBound, Price, CommitObserved,
         RewriteObserved, Stored, Synchronizing, Synchronize, Dispatcher, Turn, ReconcileCommitEvents
<1>9. CASE Reopen \/ Retracted \/ Prepared \/ Claimed \/ Decide \/ Finish \/ \E q \in Queries : CostRefused(q)
  BY <1>1, <1>9 DEF Reopen, Retracted, Prepared, Claimed, Decide, Finish, CostRefused
<1>10. ASSUME NEW c \in Commits, Retract(c) PROVE LedgerFollows
  BY <1>1, <1>10 DEF Retract
<1> QED BY <1>2, <1>3, <1>4, <1>5, <1>6, <1>7, <1>8, <1>9, <1>10, AskedFor DEF Next, JobStep

LEMMA LiveIsUpheld ==
    ASSUME AllHonest, NEW c, HasLiveAllocation(attributions, c)
    PROVE  Upheld(attributions, c)
  BY DEF AllHonest, Honest, HasLiveAllocation, HasClaimOf, LiveOf, Upheld

(* What a native rejection takes back is noted, if it has a candidate.      *)
LEMMA RejectionIsNoted ==
    ASSUME AttributionInv, ReconcileNativeRejections
    PROVE  /\ AllHonest => AllHonest'
           /\ \A c \in Commits : Upheld(attributions, c) =>
                 Upheld(attributions', c) \/ (c \in job'.revoked /\ job.candidates[c] # NoCandidate)
<1>1. ASSUME NEW q \in Queries
      PROVE  attributions'[q].allocations = {Judged(x, Verdicts[q]) : x \in attributions[q].allocations}
  <2>1. PICK t, u, v : t = attributions[q] /\ u = attributions'[q] /\ v = Verdicts[q]
    OBVIOUS
  <2>2. PICK status : u = [t EXCEPT !.status = status, !.allocations = {Judged(x, v) : x \in @}]
    BY <2>1 DEF ReconcileNativeRejections, ReconcileNative, NativeReconciled
  <2>3. Sound(t)
    BY <2>1 DEF AttributionInv, Ledger
  <2>4. u.allocations = {Judged(x, v) : x \in t.allocations}
    BY <2>2, <2>3 DEF Sound
  <2> QED BY <2>1, <2>4
<1>2. ASSUME NEW q \in Queries, NEW x \in attributions[q].allocations
      PROVE  LET y == Judged(x, Verdicts[q])
             IN  /\ y.commit = x.commit /\ (Live(y) => Live(x) /\ y.retracted = x.retracted)
                 /\ y.retracted = x.retracted \/ (Live(x) /\ Verdicts[q].kind = "revoked")
  <2>1. PICK v, y : v = Verdicts[q] /\ y = Judged(x, v)
    OBVIOUS
  <2>2. IsAllocation(x)
    BY DEF AttributionInv, Ledger, Sound
  <2>3. /\ y.commit = x.commit /\ (Live(y) => Live(x) /\ y.retracted = x.retracted)
        /\ y.retracted = x.retracted \/ (Live(x) /\ v.kind = "revoked")
    <3>1. CASE ~Live(x)
      BY <2>1, <3>1 DEF Judged
    <3>2. CASE Live(x) /\ v.kind = "revoked"
      <4>1. y = [Ended(x) EXCEPT !.retracted = TRUE]
        BY <2>1, <3>2 DEF Judged
      <4>2. y.commit = x.commit /\ y.status = "superseded"
        BY <2>2, <4>1 DEF Ended, IsAllocation
      <4> QED BY <3>2, <4>2 DEF Live
    <3>3. CASE Live(x) /\ v.kind # "revoked"
      <4>1. y = x \/ y = [x EXCEPT !.pairs = v.pairs]
        BY <2>1, <3>3 DEF Judged
      <4>2. y.commit = x.commit /\ y.retracted = x.retracted
        BY <2>2, <4>1 DEF IsAllocation
      <4> QED BY <3>3, <4>2
    <3> QED BY <3>1, <3>2, <3>3
  <2> QED BY <2>1, <2>3
<1>3. AllHonest => AllHonest'
  BY <1>1, <1>2 DEF AllHonest, Honest
<1>4. ASSUME NEW q \in Queries, NEW x \in attributions[q].allocations, Live(x), Verdicts[q].kind = "revoked"
      PROVE  x.commit \in job'.revoked /\ job.candidates[x.commit] # NoCandidate
  <2>1. x \in LiveOf(attributions, q) /\ HasActiveFirstClaim(attributions, q)
    BY <1>4 DEF LiveOf, HasActiveFirstClaim
  <2>2. LiveOf(attributions, q) = {x}
    BY <2>1, OneLive DEF AttributionInv, Ledger, LiveIn, LiveOf
  <2>3. Verdicts[q] = VerdictOn(x)
    <3>1. (CHOOSE y \in LiveOf(attributions, q) : TRUE) = x
      BY <2>2
    <3> QED BY <2>1, <3>1 DEF Verdicts
  <2>4. job.candidates[x.commit] # NoCandidate
    BY <1>4, <2>3 DEF VerdictOn
  <2>5. x.commit \in LiveCommits(q)
    BY <2>1 DEF LiveCommits
  <2>6. job'.revoked = UNION {LiveCommits(r) : r \in {r \in Queries : Verdicts[r].kind # "kept"}}
    BY DEF ReconcileNativeRejections, AttributionInv, IsJob
  <2>7. Verdicts[q].kind # "kept"
    BY <1>4
  <2> QED BY <2>4, <2>5, <2>6, <2>7
<1>5. ASSUME NEW c \in Commits, Upheld(attributions, c)
      PROVE  Upheld(attributions', c) \/ (c \in job'.revoked /\ job.candidates[c] # NoCandidate)
  <2>4. PICK q \in Queries : \E x \in attributions[q].allocations : x.commit = c /\ ~x.retracted
    BY <1>5 DEF Upheld
  <2>1. PICK x \in attributions[q].allocations : x.commit = c /\ ~x.retracted
    BY <2>4
  <2>2. CASE Live(x) /\ Verdicts[q].kind = "revoked"
    BY <1>4, <2>1, <2>2
  <2>3. CASE ~(Live(x) /\ Verdicts[q].kind = "revoked")
    <3>1. PICK y : y = Judged(x, Verdicts[q])
      OBVIOUS
    <3>2. y.commit = c /\ ~y.retracted
      BY <1>2, <2>1, <2>3, <3>1
    <3>3. y \in attributions'[q].allocations
      BY <1>1, <2>1, <3>1
    <3> QED BY <3>2, <3>3 DEF Upheld
  <2> QED BY <2>2, <2>3
<1> QED BY <1>3, <1>5

LEMMA BackedStays ==
    ASSUME LedgerFollows, job.stage # "retract" \/ job.todo = {}, NEW c, Backed(c)
    PROVE  Upheld(attributions', c) /\ Backed(c)'
<1>1. Upheld(attributions, c)
  BY DEF Backed, Doomed
<1>2. Upheld(attributions', c)
  BY <1>1, UpheldStays
<1> QED BY <1>2 DEF Backed

(* The steps that leave the job and the claims alone.                       *)
LEMMA ReportStays ==
    ASSUME AttributionInv, Reported, UNCHANGED <<attributions, job>>,
           \A c \in Commits : candidates'[c].decision = "reportable" => candidates[c].decision = "reportable"
    PROVE  Reported'
<1>1. Current' = Current
  BY CurrentTurn
<1>2. \A c : Backed(c) => Backed(c)'
  BY DEF Backed, Doomed, Upheld
<1>3. ShownIsBacked'
  BY <1>2 DEF Reported, ShownIsBacked
<1>4. ReadIsBacked' /\ ShownIsRead'
  BY <1>2 DEF Reported, ReadIsBacked, ShownIsRead
<1>5. TurnIsBacked'
  BY <1>1 DEF Reported, TurnIsBacked, Upheld
<1> QED BY <1>3, <1>4, <1>5 DEF Reported

(* The steps outside the stages at which a job has read the candidates.     *)
LEMMA UnreadReport ==
    ASSUME Reported, LedgerFollows, UNCHANGED candidates, job.stage # "retract",
           job'.stage \notin ReadStages, ~job'.reported, job'.claimed = {}
    PROVE  Reported'
<1>1. ShownIsBacked'
  BY BackedStays DEF Reported, ShownIsBacked
<1>2. ReadIsBacked' /\ ShownIsRead' /\ TurnIsBacked'
  BY DEF ReadIsBacked, ShownIsRead, ReadStages, TurnIsBacked
<1> QED BY <1>1, <1>2 DEF Reported

(* The steps of a job that decides.                                         *)
LEMMA DecidingReport ==
    ASSUME Reported, LedgerFollows, job.stage \in {"candidates", "transfer"},
           job'.stage \in {"candidates", "transfer"}, job'.candidates = job.candidates,
           \A c \in Commits : candidates'[c].decision = "reportable" =>
               candidates[c].decision = "reportable" \/ Upheld(attributions, c),
           job'.claimed # {} => job'.stage = "transfer",
           job'.reported \/ job'.claimed # {} => Upheld(attributions', Current')
    PROVE  Reported'
<1>1. ASSUME NEW c \in Commits, candidates'[c].decision = "reportable"
      PROVE  Backed(c)'
  <2>1. CASE candidates[c].decision = "reportable"
    BY <2>1, BackedStays DEF Reported, ShownIsBacked
  <2>2. CASE Upheld(attributions, c)
    BY <2>2, UpheldStays DEF Backed
  <2> QED BY <1>1, <2>1, <2>2
<1>2. ShownIsBacked'
  BY <1>1 DEF ShownIsBacked
<1>3. ReadIsBacked' /\ ShownIsRead'
  BY BackedStays DEF Reported, ReadIsBacked, ShownIsRead, ReadStages
<1>4. TurnIsBacked'
  BY DEF TurnIsBacked
<1> QED BY <1>2, <1>3, <1>4 DEF Reported

LEMMA EnvironmentReport ==
    ASSUME AttributionInv, Reported, Environment, ~Crash
    PROVE  Reported'
<1>1. CASE UNCHANGED <<candidates, attributions, job>>
  BY <1>1, ReportStays
<1>2. ASSUME NEW d \in Commits, Stored(d) PROVE Reported'
  <2> DEFINE new == [seq |-> epoch.seq + 1, at |-> now, decision |-> "pending_evidence"]
  <2>1. UNCHANGED <<attributions, job>> /\ candidates' = [candidates EXCEPT ![d] = new]
    BY <1>2 DEF Stored
  <2>3. new.decision = "pending_evidence"
    OBVIOUS
  <2> HIDE DEF new
  <2>2. \A c \in Commits : candidates'[c].decision = "reportable" => candidates[c].decision = "reportable"
    BY <2>1, <2>3 DEF AttributionInv, Shared
  <2> QED BY <2>1, <2>2, ReportStays
<1> QED BY <1>1, <1>2 DEF Environment, Tick, RunStarts, RunActive, EvidenceBound, Price, CommitObserved,
          RewriteObserved

LEMMA UnreadStep ==
    ASSUME AttributionInv, Reported, job.reported \in BOOLEAN, LedgerFollows,
           \/ Synchronizing \/ RewriteHandled \/ Reopen \/ Finish
           \/ \E q \in Queries : SynchronizeCost(q) \/ CostRefused(q)
    PROVE  Reported'
<1>0. IsJob(job)
  BY DEF AttributionInv
<1>1. UNCHANGED candidates /\ job.stage # "retract"
  <2>1. CASE Synchronizing \/ RewriteHandled
    <3>1. Idle /\ UNCHANGED candidates
      <4>1. CASE RewriteHandled
        BY <4>1 DEF RewriteHandled, MayBegin, shared
      <4>2. CASE Synchronizing
        BY <4>2 DEF Synchronizing, Synchronize, MayBegin, shared
      <4> QED BY <2>1, <4>1, <4>2
    <3> QED BY <3>1 DEF Idle, NoJob
  <2>2. CASE Reopen \/ Finish
    BY <2>2 DEF Reopen, Finish, shared
  <2>3. CASE \E q \in Queries : SynchronizeCost(q) \/ CostRefused(q)
    BY <2>3 DEF SynchronizeCost, CostRefused, NextGroup, shared
  <2> QED BY <2>1, <2>2, <2>3
<1>2. CASE Synchronizing \/ RewriteHandled
  <2>1. job'.stage \in {"costs", "read", "reopen"} /\ ~job'.reported /\ job'.claimed = {}
    BY <1>2 DEF Synchronizing, Synchronize, RewriteHandled, NoJob
  <2> QED BY <1>1, <2>1, UnreadReport DEF ReadStages
<1>3. CASE Finish \/ \E q \in Queries : CostRefused(q)
  <2>1. job'.stage = "idle" /\ ~job'.reported /\ job'.claimed = {}
    BY <1>3 DEF Finish, CostRefused, NoJob
  <2> QED BY <1>1, <2>1, UnreadReport DEF ReadStages
<1>4. CASE Reopen \/ \E q \in Queries : SynchronizeCost(q)
  <2>1. /\ job.stage \in {"reopen", "costs"} /\ job'.stage \in {"read", "costs"}
        /\ job'.reported = job.reported /\ job'.claimed = job.claimed
    BY <1>0, <1>4 DEF Reopen, SynchronizeCost, NextGroup, IsJob
  <2>2. ~job.reported /\ job.claimed = {}
    BY <2>1 DEF Reported, TurnIsBacked
  <2> QED BY <1>1, <2>1, <2>2, UnreadReport DEF ReadStages
<1> QED BY <1>2, <1>3, <1>4

(* A job begins to read.                                                    *)
LEMMA BeginReport ==
    ASSUME AttributionInv, Reported, job.reported \in BOOLEAN, LedgerFollows, Reconcile \/ Read
    PROVE  Reported'
<1>1. /\ job.stage \in {"idle", "read"} /\ job'.stage = "native" /\ job'.candidates = candidates
      /\ job'.reported = job.reported /\ job'.claimed = job.claimed /\ UNCHANGED candidates
  <2>1. Begin /\ job.stage \in {"idle", "read"}
    BY DEF Reconcile, Read, MayBegin, Idle, NoJob
  <2> QED BY <2>1 DEF Begin, AttributionInv, IsJob, shared
<1>2. \A c \in Commits : candidates[c].decision = "reportable" => Backed(c)'
  BY <1>1, BackedStays DEF Reported, ShownIsBacked
<1>3. ~job.reported /\ job.claimed = {}
  BY <1>1 DEF Reported, TurnIsBacked
<1>4. ShownIsBacked' /\ ReadIsBacked' /\ ShownIsRead'
  BY <1>1, <1>2 DEF ShownIsBacked, ReadIsBacked, ShownIsRead
<1>5. TurnIsBacked'
  BY <1>1, <1>3 DEF TurnIsBacked
<1> QED BY <1>4, <1>5 DEF Reported

(* A commit whose last claim is taken back is doomed.                       *)
LEMMA NativeReport ==
    ASSUME AttributionInv, Reported, job.reported \in BOOLEAN, AllHonest, ReconcileNativeRejections
    PROVE  Reported'
<1>1. /\ job.stage = "native" /\ job'.stage = "retract" /\ job'.candidates = job.candidates
      /\ job'.reported = job.reported /\ job'.claimed = job.claimed /\ UNCHANGED candidates
      /\ job'.todo = {c \in job'.revoked : Lost(c)}
  BY DEF ReconcileNativeRejections, AttributionInv, IsJob, shared
<1>2. ASSUME NEW c \in Commits, Backed(c) PROVE Backed(c)'
  <2>1. Upheld(attributions, c)
    BY <1>1, <1>2 DEF Backed, Doomed
  <2>2. CASE Upheld(attributions', c)
    BY <2>2 DEF Backed
  <2>3. CASE ~Upheld(attributions', c)
    <3>1. c \in job'.revoked /\ job.candidates[c] # NoCandidate
      BY <2>1, <2>3, RejectionIsNoted
    <3>2. ~HasLiveAllocation(attributions', c)
      <4>1. AllHonest'
        BY RejectionIsNoted
      <4> QED BY <2>3, <4>1 DEF AllHonest, Honest, HasLiveAllocation, HasClaimOf, LiveOf, Upheld
    <3> QED BY <1>1, <3>1, <3>2 DEF Backed, Doomed, Lost
  <2> QED BY <2>2, <2>3
<1>3. ~job.reported /\ job.claimed = {}
  BY <1>1 DEF Reported, TurnIsBacked
<1>4. ShownIsBacked'
  BY <1>1, <1>2 DEF Reported, ShownIsBacked
<1>5. ReadIsBacked' /\ ShownIsRead'
  BY <1>1, <1>2 DEF Reported, ReadIsBacked, ShownIsRead, ReadStages
<1>6. TurnIsBacked'
  BY <1>1, <1>3 DEF TurnIsBacked
<1> QED BY <1>4, <1>5, <1>6 DEF Reported

(* A doomed candidate becomes pending.                                      *)
LEMMA RetractReport ==
    ASSUME AttributionInv, Reported, NEW c \in Commits, Retract(c)
    PROVE  Reported'
<1>1. /\ job.stage = "retract" /\ job'.stage = "retract" /\ job'.todo = job.todo \ {c}
      /\ job'.candidates = [job.candidates EXCEPT ![c] = Pended(c)]
      /\ job'.reported = job.reported /\ job'.claimed = job.claimed /\ UNCHANGED attributions
  BY DEF Retract, AttributionInv, IsJob
<1>2. IsCandidate(job.candidates[c]) /\ candidates = [d \in Commits |-> candidates[d]]
  BY <1>1 DEF Retract, AttributionInv, AtStage, Shared, AreCandidates
<1>3. Pended(c).decision = "pending_evidence"
  BY <1>2 DEF IsCandidate, Pended
<1>4. job'.candidates[c].decision # "reportable"
  <2>1. job.candidates = [d \in Commits |-> job.candidates[d]]
    BY <1>1 DEF AttributionInv, AtStage, AreCandidates
  <2>2. job'.candidates[c] = Pended(c)
    BY <1>1, <2>1
  <2> QED BY <1>3, <2>2
<1>5. candidates'[c].decision # "reportable"
  <2>1. CASE candidates' = [candidates EXCEPT ![c] = Pended(c)]
    BY <1>2, <1>3, <2>1
  <2>2. CASE Pended(c) = job.candidates[c] /\ UNCHANGED candidates
    BY <1>1, <1>3, <2>2 DEF Reported, ShownIsRead
  <2> QED BY <2>1, <2>2 DEF Retract
<1>6. \A d \in Commits : d # c => candidates'[d] = candidates[d] /\ job'.candidates[d] = job.candidates[d]
  BY <1>1, <1>2 DEF Retract
<1>7. \A d : d # c /\ Backed(d) => Backed(d)'
  BY <1>1 DEF Backed, Doomed, Upheld
<1>8. ShownIsBacked' /\ ShownIsRead'
  BY <1>1, <1>5, <1>6, <1>7 DEF Reported, ShownIsBacked, ShownIsRead
<1>9. ReadIsBacked'
  BY <1>1, <1>4, <1>6, <1>7 DEF Reported, ReadIsBacked, ReadStages
<1>10. TurnIsBacked'
  BY <1>1 DEF Reported, TurnIsBacked
<1> QED BY <1>8, <1>9, <1>10 DEF Reported

(* Nothing is doomed any more once the candidates are stored.               *)
LEMMA StatusReport ==
    ASSUME AttributionInv, Reported, Retracted \/ Prepared \/ \E q \in Queries : SynchronizeStatus(q)
    PROVE  Reported'
<1>1. /\ job.stage \in {"retract", "statuses"} /\ (job.stage = "retract" => job.todo = {})
      /\ job'.stage \in {"statuses", "candidates"} /\ job'.candidates = job.candidates
      /\ job'.reported = job.reported /\ job'.claimed = job.claimed /\ UNCHANGED candidates
  BY DEF Retracted, Prepared, SynchronizeStatus, AttributionInv, IsJob, shared
<1>2. LedgerFollows
  <2>1. CASE Retracted \/ Prepared
    BY <2>1, UnchangedFollows DEF Retracted, Prepared
  <2>2. CASE \E q \in Queries : SynchronizeStatus(q)
    BY <2>2, StatusFollows DEF SynchronizeStatus, AttributionInv
  <2> QED BY <2>1, <2>2
<1>3. ShownIsBacked'
  BY <1>1, <1>2, BackedStays DEF Reported, ShownIsBacked
<1>4. ReadIsBacked' /\ ShownIsRead'
  BY <1>1, <1>2, BackedStays DEF Reported, ReadIsBacked, ShownIsRead, ReadStages
<1>5. TurnIsBacked'
  BY <1>1 DEF Reported, TurnIsBacked
<1> QED BY <1>3, <1>4, <1>5 DEF Reported

LEMMA DecidingStep ==
    ASSUME AttributionInv, EpisodeInv, Reported, job.reported \in BOOLEAN, PlanIsHonest,
           \/ Claimed \/ Decide
           \/ \E e \in Episodes : Claim(e)
           \/ \E d \in Commits : Transfer(d)
    PROVE  Reported'
<1>0. IsJob(job) /\ Ledger
  BY DEF AttributionInv
<1>1. ASSUME NEW e \in Episodes, Claim(e) PROVE Reported'
  <2>1. PICK new, moves, regular, fresh : Plans(e, new, moves, regular, fresh)
    BY <1>1, ClaimPlans
  <2>2. /\ job.stage = "candidates" /\ job'.stage = "transfer" /\ job'.candidates = job.candidates
        /\ job'.reported = job.reported /\ job'.claimed = fresh /\ job'.todo = job.todo
        /\ UNCHANGED candidates
    BY <1>0, <1>1, <2>1 DEF Claim, Plans, IsJob, shared
  <2>3. Current' = Current
    BY <2>2, CurrentTurn
  <2>4. /\ LedgerFollows
        /\ \A q \in fresh : \E x \in attributions'[q].allocations : x.commit = new[q].commit /\ ~x.retracted
    <3>1. TryFirstClaim(regular, new) /\ \A q \in Queries : IsAllocation(new[q]) /\ ~new[q].retracted
      BY <2>1 DEF Plans
    <3>2. \A q \in fresh : q \in Queries /\ q \in regular /\ ~HasActiveFirstClaim(attributions, q)
      BY <2>1 DEF Plans
    <3> QED BY <1>0, <3>1, <3>2, ClaimFollows
  <2>5. fresh # {} => Upheld(attributions', Current)
    BY <2>1, <2>4 DEF Plans, Upheld
  <2>6. job.reported => Upheld(attributions', Current)
    BY <2>4, UpheldStays DEF Reported, TurnIsBacked
  <2> QED BY <2>2, <2>3, <2>4, <2>5, <2>6, DecidingReport
<1>2. ASSUME NEW d \in Commits, Transfer(d) PROVE Reported'
  <2>1. PICK group, taken :
          /\ TransferFirstClaim(QueriesOf(group), d, job.plan.new)
          /\ group \subseteq job.plan.moves
          /\ taken = {q \in QueriesOf(group) : HasClaimOf(attributions, q, d)}
          /\ job' = [job EXCEPT !.plan.moves = @ \ group, !.claimed = @ \cup taken]
          /\ job.stage = "transfer" /\ UNCHANGED candidates
    <3> DEFINE group == {move \in job.plan.moves : move[2] = d}
    <3>1. /\ TransferFirstClaim(QueriesOf(group), d, job.plan.new)
          /\ job' = [job EXCEPT !.plan.moves = @ \ group,
                                !.claimed = @ \cup {q \in QueriesOf(group) : HasClaimOf(attributions, q, d)}]
          /\ job.stage = "transfer" /\ UNCHANGED candidates
      BY <1>2 DEF Transfer, shared
    <3>2. group \subseteq job.plan.moves
      OBVIOUS
    <3> HIDE DEF group
    <3> QED BY <3>1, <3>2
  <2>2. /\ job'.stage = "transfer" /\ job'.candidates = job.candidates
        /\ job'.reported = job.reported /\ job'.claimed = job.claimed \cup taken /\ job'.todo = job.todo
    BY <1>0, <2>1 DEF IsJob
  <2>3. Current' = Current
    BY <2>2, CurrentTurn
  <2>4. PICK new : new = job.plan.new
    OBVIOUS
  <2>5. \A q \in Queries : IsAllocation(new[q]) /\ ~new[q].retracted /\ new[q].commit = Current
    BY <2>1, <2>4 DEF AttributionInv, AtStage, Planned, PlanIsHonest
  <2>6. \A q \in taken : q \in Queries /\ q \in QueriesOf(group) /\ HasClaimOf(attributions, q, d)
    BY <2>1 DEF EpisodeInv, QueriesOf
  <2>7. /\ LedgerFollows
        /\ \A q \in taken : \E x \in attributions'[q].allocations : x.commit = new[q].commit /\ ~x.retracted
    BY <1>0, <2>1, <2>4, <2>5, <2>6, TransferFollows
  <2>8. taken # {} => Upheld(attributions', Current)
    BY <2>5, <2>6, <2>7 DEF Upheld
  <2>9. job.reported \/ job.claimed # {} => Upheld(attributions', Current)
    BY <2>7, UpheldStays DEF Reported, TurnIsBacked
  <2> QED BY <2>1, <2>2, <2>3, <2>7, <2>8, <2>9, DecidingReport
<1>3. CASE Claimed
  <2>1. /\ job.stage = "transfer" /\ job'.stage = "candidates" /\ job'.candidates = job.candidates
        /\ job'.todo = job.todo /\ job'.claimed = {} /\ UNCHANGED <<candidates, attributions>>
        /\ job'.reported <=> job.reported \/ job.claimed # {}
    BY <1>0, <1>3 DEF Claimed, IsJob, shared
  <2>2. Current' = Current
    BY <2>1, CurrentTurn
  <2>3. LedgerFollows
    BY <2>1, UnchangedFollows
  <2>4. job'.reported => Upheld(attributions', Current')
    BY <2>1, <2>2 DEF Reported, TurnIsBacked
  <2> QED BY <2>1, <2>3, <2>4, DecidingReport
<1>4. CASE Decide
  <2>1. /\ job.stage = "candidates" /\ job'.stage = "candidates" /\ job'.candidates = job.candidates
        /\ job'.reported = FALSE /\ job'.claimed = job.claimed /\ UNCHANGED attributions
        /\ job.todo # {}
        /\ \/ candidates' = [candidates EXCEPT ![Current] = [Candidate EXCEPT !.decision = Decision]]
           \/ UNCHANGED candidates
    BY <1>0, <1>4 DEF Decide, IsJob
  <2>2. LedgerFollows
    BY <2>1, UnchangedFollows
  <2>3. job.claimed = {}
    BY <2>1 DEF Reported, TurnIsBacked
  <2>4. Current \in Commits /\ IsCandidate(Candidate)
    BY <2>1, CurrentIsDue DEF AttributionInv, AtStage
  <2>5. Decision = "reportable" => Upheld(attributions, Current)
    <3>1. CASE job.reported
      BY <3>1 DEF Reported, TurnIsBacked
    <3>2. CASE Candidate.decision = "reportable"
      BY <2>1, <2>4, <3>2 DEF Reported, ReadIsBacked, ReadStages, Candidate, Backed, Doomed
    <3>3. CASE ~job.reported /\ Candidate.decision # "reportable"
      BY <3>3 DEF Decision
    <3> QED BY <3>1, <3>2, <3>3
  <2>6. [Candidate EXCEPT !.decision = Decision].decision = Decision
    BY <2>4 DEF IsCandidate
  <2>7. \A c \in Commits : candidates'[c].decision = "reportable" =>
               candidates[c].decision = "reportable" \/ Upheld(attributions, c)
    BY <2>1, <2>4, <2>5, <2>6 DEF AttributionInv, Shared, AreCandidates
  <2> QED BY <2>1, <2>2, <2>3, <2>7, DecidingReport
<1> QED BY <1>1, <1>2, <1>3, <1>4

LEMMA ReportInit == Init => ReportInv
<1> SUFFICES ASSUME Init PROVE ReportInv
  OBVIOUS
<1>1. /\ crashes \in Nat /\ job.reported \in BOOLEAN
      /\ job.stage = "idle" /\ ~job.reported /\ job.claimed = {}
      /\ \A c \in Commits : candidates[c].decision = "none"
      /\ \A q \in Queries : attributions[q].allocations = {}
  BY DEF Init, NoJob, NoCandidate, NoAttribution
<1> QED BY <1>1 DEF ReportInv, AllHonest, Honest, PlanIsHonest, Reported, ShownIsBacked, ReadIsBacked, ReadStages,
          ShownIsRead, TurnIsBacked

LEMMA PlansStayHonest ==
    ASSUME AttributionInv, EpisodeInv, ReportInv, [Next]_vars
    PROVE  PlanIsHonest' /\ job'.reported \in BOOLEAN
<1>0. IsJob(job) /\ job.reported \in BOOLEAN /\ PlanIsHonest
  BY DEF AttributionInv, ReportInv
<1>1. CASE UNCHANGED job
  BY <1>0, <1>1 DEF PlanIsHonest
<1>2. ASSUME NEW e, Claim(e) PROVE PlanIsHonest' /\ job'.reported \in BOOLEAN
  <2>1. PICK new, moves, regular, fresh : Plans(e, new, moves, regular, fresh)
    BY <1>2, ClaimPlans
  <2>2. /\ job'.plan = [episode |-> e, new |-> new, moves |-> moves] /\ job'.reported = job.reported
        /\ \A q \in Queries : ~new[q].retracted
    BY <1>0, <2>1 DEF Plans, IsJob
  <2> QED BY <1>0, <2>2 DEF PlanIsHonest
<1>3. ASSUME NEW d \in Commits, Transfer(d) PROVE PlanIsHonest' /\ job'.reported \in BOOLEAN
  <2>1. PICK group, claimed :
          job' = [job EXCEPT !.plan.moves = @ \ group, !.claimed = claimed] /\ job.stage = "transfer"
    BY <1>3 DEF Transfer
  <2>2. job.plan = [episode |-> job.plan.episode, new |-> job.plan.new, moves |-> job.plan.moves]
    BY <2>1 DEF AttributionInv, AtStage, Planned
  <2>3. job'.plan.new = job.plan.new /\ job'.reported = job.reported
    BY <1>0, <2>1, <2>2 DEF IsJob
  <2> QED BY <1>0, <2>1, <2>3 DEF PlanIsHonest
<1>4. CASE \/ Claimed \/ Decide \/ Finish \/ ReconcileNativeRejections \/ Retracted \/ Prepared
           \/ \E c \in Commits : Retract(c)
           \/ \E q \in Queries : SynchronizeStatus(q)
  <2>1. job'.stage # "transfer" /\ job'.reported \in BOOLEAN
    <3>1. CASE Claimed
      <4>1. job'.stage = "candidates" /\ job'.reported = (job.reported \/ job.claimed # {})
        BY <1>0, <3>1 DEF Claimed, IsJob
      <4> QED BY <4>1
    <3>2. CASE \/ Decide \/ ReconcileNativeRejections \/ Retracted \/ Prepared
               \/ \E c \in Commits : Retract(c)
               \/ \E q \in Queries : SynchronizeStatus(q)
      BY <1>0, <3>2 DEF Decide, ReconcileNativeRejections, Retract, Retracted, SynchronizeStatus, Prepared, IsJob
    <3>3. CASE Finish
      BY <3>3 DEF Finish, NoJob
    <3> QED BY <1>4, <3>1, <3>2, <3>3
  <2> QED BY <2>1 DEF PlanIsHonest
<1>5. CASE Reconcile \/ Read \/ Reopen \/ \E q \in Queries : SynchronizeCost(q)
  <2>1. job'.stage # "transfer" /\ job'.reported = job.reported
    BY <1>0, <1>5 DEF Reconcile, Read, Begin, Reopen, SynchronizeCost, NextGroup, IsJob
  <2> QED BY <1>0, <2>1 DEF PlanIsHonest
<1>6. CASE RewriteHandled \/ Synchronizing \/ Crash \/ \E q \in Queries : CostRefused(q)
  <2>1. job'.stage # "transfer" /\ job'.reported = FALSE
    <3>1. CASE RewriteHandled \/ Synchronizing
      BY <3>1 DEF RewriteHandled, Synchronizing, Synchronize, NoJob
    <3>2. CASE Crash \/ \E q \in Queries : CostRefused(q)
      BY <3>2 DEF Crash, CostRefused, NoJob
    <3> QED BY <1>6, <3>1, <3>2
  <2> QED BY <2>1 DEF PlanIsHonest
<1>7. CASE UNCHANGED vars \/ Dispatcher \/ (Environment /\ ~Crash)
  <2>1. UNCHANGED job
    BY <1>7 DEF vars, Environment, Tick, RunStarts, RunActive, EvidenceBound, Price, CommitObserved,
           RewriteObserved, Stored, Dispatcher, Turn, ReconcileCommitEvents
  <2> QED BY <1>1, <2>1
<1> QED BY <1>2, <1>3, <1>4, <1>5, <1>6, <1>7, AskedFor DEF Next, JobStep, Environment

LEMMA ReportStep ==
    ASSUME AttributionInv, EpisodeInv, ReportInv, [Next]_vars
    PROVE  ReportInv'
<1>0. AllHonest /\ PlanIsHonest /\ job.reported \in BOOLEAN /\ crashes \in Nat
  BY DEF ReportInv
<1>1. AllHonest'
  <2>1. CASE ReconcileNativeRejections
    BY <1>0, <2>1, RejectionIsNoted
  <2>2. CASE ~ReconcileNativeRejections
    BY <1>0, <2>2, OthersFollow DEF LedgerFollows, Follows, AllHonest
  <2> QED BY <2>1, <2>2
<1>2. CASE Crash
  <2>1. crashes' \in Nat /\ crashes' # 0
    BY <1>0, <1>2 DEF Crash
  <2> QED BY <1>1, <2>1, PlansStayHonest DEF ReportInv
<1>3. CASE ~Crash
  <2>1. crashes' = crashes
    BY <1>3, AskedFor DEF vars, shared, Next, Environment, JobStep, Tick, RunStarts, RunActive, EvidenceBound, Price,
           CommitObserved, RewriteObserved, Stored, Synchronizing, Synchronize, RewriteHandled, Reconcile, Read, Begin,
           Reopen, ReconcileNativeRejections, Retract, Retracted, SynchronizeStatus, Prepared, Claim, Transfer,
           Claimed, Decide, Finish, SynchronizeCost, CostRefused, Dispatcher, Turn, ReconcileCommitEvents
  <2>2. ASSUME Reported PROVE Reported'
    <3>1. CASE UNCHANGED vars
      <4>1. UNCHANGED <<attributions, job, candidates>>
        BY <3>1 DEF vars, shared
      <4> QED BY <2>2, <4>1, ReportStays
    <3>2. CASE Environment
      BY <1>3, <2>2, <3>2, EnvironmentReport
    <3>3. CASE Reconcile \/ Synchronizing \/ RewriteHandled
      <4>1. LedgerFollows
        <5>1. ~ReconcileNativeRejections
          <6>1. Idle
            BY <3>3 DEF Reconcile, Synchronizing, Synchronize, RewriteHandled, MayBegin
          <6> QED BY <6>1 DEF Idle, ReconcileNativeRejections, NoJob
        <5> QED BY <1>0, <5>1, OthersFollow
      <4> QED BY <1>0, <2>2, <3>3, <4>1, BeginReport, UnreadStep
    <3>4. CASE ReconcileNativeRejections
      BY <1>0, <2>2, <3>4, NativeReport
    <3>5. CASE \/ Retracted \/ Prepared \/ \E c \in Commits : Retract(c)
               \/ \E q \in Queries : SynchronizeStatus(q)
      BY <2>2, <3>5, RetractReport, StatusReport
    <3>6. CASE Claimed \/ Decide \/ (\E e \in Episodes : Claim(e)) \/ \E d \in Commits : Transfer(d)
      BY <1>0, <2>2, <3>6, DecidingStep
    <3>7. CASE ~ReconcileNativeRejections /\ (Read \/ Reopen \/ Finish \/ \E q \in Queries : SynchronizeCost(q) \/ CostRefused(q))
      <4>1. LedgerFollows
        BY <1>0, <3>7, OthersFollow
      <4> QED BY <1>0, <2>2, <3>7, <4>1, BeginReport, UnreadStep
    <3>8. CASE Dispatcher
      <4>1. UNCHANGED <<attributions, job, candidates>>
        BY <3>8 DEF Dispatcher, Turn, ReconcileCommitEvents, shared
      <4> QED BY <2>2, <4>1, ReportStays
    <3> QED BY <3>1, <3>2, <3>3, <3>4, <3>5, <3>6, <3>7, <3>8, AskedFor DEF Next, JobStep
  <2> QED BY <1>0, <1>1, <2>1, <2>2, PlansStayHonest DEF ReportInv
<1> QED BY <1>2, <1>3

(*------------------------- what commits publish -------------------------*)

(* The confirmed claims on c are published on it, with their costs.         *)
UpToDate(a, p, c) ==
    \A q \in Queries : \A x \in a[q].allocations :
        x.status = "active" /\ x.commit = c => <<q, x.cost>> \in p[c]

(* The commits that the job has yet to tell.                                *)
Owed == job.repriced \cup IF job.stage = "transfer" /\ job.claimed # {} THEN {Current} ELSE {}

(* The commits that the lane has heard of and not compared since.           *)
Told(c) == c \in news.turn \cup news.latest \cup news.replaced \/ news.restart

IsNews ==
    /\ news = [turn |-> news.turn, latest |-> news.latest, replaced |-> news.replaced, restart |-> news.restart]
    /\ news.turn = {} => news.latest = {}

PublishInv ==
    /\ IsNews
    /\ \A c \in Commits : UpToDate(attributions, published, c) \/ c \in Owed \/ Told(c)

(* A job whose repricing of a query is refused has repriced none before.    *)
RefusedFirst == \A q \in Queries : CostRefused(q) => job.repriced = {}

(* No confirmed claim but those of t.                                       *)
NoneAdded(t, u) ==
    \A y \in u.allocations : y.status = "active" =>
        \E x \in t.allocations : x.status = "active" /\ x.commit = y.commit /\ x.cost = y.cost

LedgerAddsNone == \A q \in Queries : NoneAdded(attributions[q], attributions'[q])

LEMMA UpToDateStays ==
    ASSUME LedgerAddsNone, NEW p, NEW c, UpToDate(attributions, p, c)
    PROVE  UpToDate(attributions', p, c)
  BY DEF LedgerAddsNone, NoneAdded, UpToDate

LEMMA UnchangedAddsNone == UNCHANGED attributions => LedgerAddsNone
  BY DEF LedgerAddsNone, NoneAdded

LEMMA MarkAddsNone ==
    ASSUME Ledger, NEW commits, NEW at, MarkRewritePending(commits, at)
    PROVE  LedgerAddsNone
<1> SUFFICES ASSUME NEW q \in Queries PROVE NoneAdded(attributions[q], attributions'[q])
  BY DEF LedgerAddsNone
<1>1. PICK t, u : t = attributions[q] /\ u = attributions'[q]
  OBVIOUS
<1>2. u = Marked(t, commits, at)
  BY <1>1 DEF MarkRewritePending, Marked, Rewritable, Waiting, Awaiting
<1>3. Sound(t)
  BY <1>1 DEF Ledger
<1>4. u.allocations = {Waiting(z, commits, at) : z \in t.allocations}
  BY <1>2, <1>3 DEF Sound, Marked
<1>5. ASSUME NEW z \in t.allocations
      PROVE  Waiting(z, commits, at) = z \/ Waiting(z, commits, at).status # "active"
  BY <1>3 DEF Sound, IsAllocation, Waiting, Awaiting
<1>6. NoneAdded(t, u)
  BY <1>4, <1>5 DEF NoneAdded
<1> QED BY <1>1, <1>6

LEMMA ExpireAddsNone ==
    ASSUME Ledger, NEW before, ExpireRewritePending(before)
    PROVE  LedgerAddsNone
<1> SUFFICES ASSUME NEW q \in Queries PROVE NoneAdded(attributions[q], attributions'[q])
  BY DEF LedgerAddsNone
<1>1. PICK t, u : t = attributions[q] /\ u = attributions'[q]
  OBVIOUS
<1>2. u = ExpiredBy(t, before)
  BY <1>1 DEF ExpireRewritePending, ExpiredBy, Overdue, Lapsed
<1>3. Sound(t)
  BY <1>1 DEF Ledger
<1>4. u.allocations = {Lapsed(z, before) : z \in t.allocations}
  BY <1>2, <1>3 DEF Sound, ExpiredBy
<1>5. ASSUME NEW z \in t.allocations
      PROVE  Lapsed(z, before) = z \/ Lapsed(z, before).status # "active"
  BY <1>3 DEF Sound, IsAllocation, Lapsed, Ended
<1>6. NoneAdded(t, u)
  BY <1>4, <1>5 DEF NoneAdded
<1> QED BY <1>1, <1>6

LEMMA StatusAddsNone ==
    ASSUME Ledger, NEW q \in Queries, NEW status, UpsertStatus(q, status)
    PROVE  LedgerAddsNone
  BY StatusFollows DEF LedgerAddsNone, NoneAdded

LEMMA RejectionAddsNone ==
    ASSUME Ledger, NEW verdict, ReconcileNative(verdict)
    PROVE  LedgerAddsNone
<1> SUFFICES ASSUME NEW q \in Queries PROVE NoneAdded(attributions[q], attributions'[q])
  BY DEF LedgerAddsNone
<1>1. PICK t, u, v : t = attributions[q] /\ u = attributions'[q] /\ v = verdict[q]
  OBVIOUS
<1>2. PICK status : u = [t EXCEPT !.status = status, !.allocations = {Judged(x, v) : x \in @}]
  BY <1>1 DEF ReconcileNative, NativeReconciled
<1>3. Sound(t)
  BY <1>1 DEF Ledger
<1>4. u.allocations = {Judged(x, v) : x \in t.allocations}
  BY <1>2, <1>3 DEF Sound
<1>5. ASSUME NEW z \in t.allocations
      PROVE  LET y == Judged(z, v)
             IN  y.status = "active" =>
                    z.status = "active" /\ z.commit = y.commit /\ z.cost = y.cost
  <2>1. IsAllocation(z)
    BY <1>3 DEF Sound
  <2>2. PICK y : y = Judged(z, v)
    OBVIOUS
  <2>3. \/ y = z
        \/ y = [z EXCEPT !.pairs = v.pairs]
        \/ y = [Ended(z) EXCEPT !.retracted = TRUE]
    BY <2>2 DEF Judged
  <2>4. CASE y = [Ended(z) EXCEPT !.retracted = TRUE]
    <3>1. y.status = "superseded"
      BY <2>1, <2>4 DEF Ended, IsAllocation
    <3> QED BY <2>2, <3>1
  <2>5. CASE y = z \/ y = [z EXCEPT !.pairs = v.pairs]
    <3>1. y.status = z.status /\ y.commit = z.commit /\ y.cost = z.cost
      BY <2>1, <2>5 DEF IsAllocation
    <3> QED BY <2>2, <3>1
  <2> QED BY <2>3, <2>4, <2>5
<1>6. NoneAdded(t, u)
  BY <1>4, <1>5 DEF NoneAdded
<1> QED BY <1>1, <1>6

(* A claim and a transfer add claims on the commits of the new allocations. *)
LEMMA ClaimAdds ==
    ASSUME Ledger, NEW qs, NEW new, TryFirstClaim(qs, new),
           \A q \in Queries : IsAllocation(new[q])
    PROVE  \A q \in Queries :
              \/ attributions'[q] = attributions[q]
              \/ /\ q \in qs /\ ~HasActiveFirstClaim(attributions, q)
                 /\ \A y \in attributions'[q].allocations :
                       y \in attributions[q].allocations \/ y.commit = new[q].commit
<1> SUFFICES ASSUME NEW q \in Queries, q \in qs, ~HasActiveFirstClaim(attributions, q)
             PROVE  \A y \in attributions'[q].allocations :
                       y \in attributions[q].allocations \/ y.commit = new[q].commit
  BY DEF TryFirstClaim, FirstClaimed
<1>1. PICK t, u, n : t = attributions[q] /\ u = attributions'[q] /\ n = new[q]
  OBVIOUS
<1>2. PICK m : m = [n EXCEPT !.cost = t.cost]
  OBVIOUS
<1>3. IsAllocation(n)
  BY <1>1
<1>4. m.commit = n.commit
  BY <1>2, <1>3 DEF IsAllocation
<1>5. Sound(t)
  BY <1>1 DEF Ledger
<1>6. u = [t EXCEPT !.status = "attributed", !.allocations = @ \cup {m}]
  BY <1>1, <1>2 DEF TryFirstClaim, FirstClaimed
<1>7. u.allocations = t.allocations \cup {m}
  BY <1>5, <1>6 DEF Sound
<1> QED BY <1>1, <1>4, <1>7

LEMMA TransferAdds ==
    ASSUME Ledger, NEW qs, NEW c, NEW new, TransferFirstClaim(qs, c, new),
           \A q \in Queries : IsAllocation(new[q])
    PROVE  \A q \in Queries :
              \/ attributions'[q] = attributions[q]
              \/ /\ q \in qs /\ HasClaimOf(attributions, q, c)
                 /\ \A y \in attributions'[q].allocations :
                       \/ y \in attributions[q].allocations
                       \/ y.status # "active"
                       \/ y.commit = new[q].commit
<1> SUFFICES ASSUME NEW q \in Queries, q \in qs, HasClaimOf(attributions, q, c)
             PROVE  \A y \in attributions'[q].allocations :
                       \/ y \in attributions[q].allocations
                       \/ y.status # "active"
                       \/ y.commit = new[q].commit
  BY DEF TransferFirstClaim, Transferred
<1>1. PICK t, u, n : t = attributions[q] /\ u = attributions'[q] /\ n = new[q]
  OBVIOUS
<1>2. PICK m : m = [n EXCEPT !.cost = t.cost]
  OBVIOUS
<1>3. IsAllocation(n)
  BY <1>1
<1>4. m.commit = n.commit
  BY <1>2, <1>3 DEF IsAllocation
<1>5. Sound(t)
  BY <1>1 DEF Ledger
<1> DEFINE Left(y) == IF Live(y) /\ y.commit = c THEN Ended(y) ELSE y
<1>6. u = MovedTo(t, c, m)
  BY <1>1, <1>2 DEF TransferFirstClaim, Transferred, MovedTo
<1>7. u.allocations = {Left(y) : y \in t.allocations} \cup {m}
  BY <1>5, <1>6 DEF Sound, MovedTo
<1>8. ASSUME NEW z \in t.allocations PROVE Left(z) = z \/ Left(z).status # "active"
  BY <1>5 DEF Sound, IsAllocation, Ended
<1> HIDE DEF Left
<1> QED BY <1>1, <1>4, <1>7, <1>8

(* What is published of a commit covers its confirmed claims.               *)
LEMMA CostsCover ==
    ASSUME NEW a, \A q \in Queries : Sound(a[q]), NEW p, NEW c, p[c] = CostsOn(a, c)
    PROVE  UpToDate(a, p, c)
<1> SUFFICES ASSUME NEW q \in Queries, NEW x \in a[q].allocations, x.status = "active", x.commit = c
             PROVE  <<q, x.cost>> \in CostsOn(a, c)
  BY DEF UpToDate
<1>1. Live(x) /\ x \in LiveIn(a[q])
  BY DEF Live, LiveIn
<1>2. a[q].status = "attributed"
  BY <1>1 DEF Sound, Agrees
<1> DEFINE item == <<q, x>>
<1>3. item[1] = q /\ item[2] = x
  OBVIOUS
<1>4. item \in UNION {{r} \X a[r].allocations : r \in Queries}
  OBVIOUS
<1> HIDE DEF item
<1>5. item \in Published(a, c)
  BY <1>2, <1>3, <1>4 DEF Published
<1>6. <<item[1], item[2].cost>> \in CostsOn(a, c)
  BY <1>1, <1>3, <1>5 DEF CostsOn
<1> QED BY <1>3, <1>6

LEMMA PublishedStays ==
    ASSUME PublishInv, LedgerAddsNone, UNCHANGED <<published, news>>, Owed \subseteq Owed'
    PROVE  PublishInv'
<1>1. IsNews' /\ \A c : Told(c) => Told(c)'
  BY DEF PublishInv, IsNews, Told
<1> QED BY <1>1, UpToDateStays DEF PublishInv

(* The lane forgets no commit that it was told of or is told of.            *)
LEMMA Telling ==
    ASSUME IsNews, NEW targets, {} \in targets => targets = {{}}, Tell(targets)
    PROVE  /\ UNCHANGED published /\ IsNews'
           /\ \A c : Told(c) \/ c \in UNION targets => Told(c)'
<1> DEFINE Heard == IsNews' /\ \A c : Told(c) \/ c \in UNION targets => Told(c)'
<1>1. ASSUME targets = {}, UNCHANGED news PROVE Heard
  BY <1>1 DEF IsNews, Told
<1>2. ASSUME news.turn # {}, NEW last \in targets,
             news' = [news EXCEPT !.latest = last,
                                  !.replaced = (news.replaced \cup news.latest \cup UNION targets) \ last]
      PROVE  Heard
  <2>1. news' = [turn |-> news.turn, latest |-> last,
                 replaced |-> (news.replaced \cup news.latest \cup UNION targets) \ last,
                 restart |-> news.restart]
    BY <1>2 DEF IsNews
  <2>2. IsNews'
    BY <1>2, <2>1 DEF IsNews
  <2>3. ASSUME NEW c, Told(c) \/ c \in UNION targets PROVE Told(c)'
    BY <2>1, <2>3 DEF Told
  <2> QED BY <2>2, <2>3
<1>3. ASSUME news.turn = {}, NEW first \in targets, NEW last \in targets,
             news' = [news EXCEPT !.turn = first, !.latest = last \ first,
                                  !.replaced = (news.replaced \cup UNION targets) \ (first \cup last)]
      PROVE  Heard
  <2>1. news' = [turn |-> first, latest |-> last \ first,
                 replaced |-> (news.replaced \cup UNION targets) \ (first \cup last),
                 restart |-> news.restart]
    BY <1>3 DEF IsNews
  <2>2. first = {} => last = {}
    BY <1>3
  <2>3. IsNews'
    BY <2>1, <2>2 DEF IsNews
  <2>4. ASSUME NEW c, Told(c) \/ c \in UNION targets PROVE Told(c)'
    BY <1>3, <2>1, <2>4 DEF Told, IsNews
  <2> QED BY <2>3, <2>4
<1> QED BY <1>1, <1>2, <1>3 DEF Tell

LEMMA Publishing ==
    ASSUME PublishInv, LedgerAddsNone, NEW targets, {} \in targets => targets = {{}}, Tell(targets),
           \A c \in Commits : c \in Owed => c \in Owed' \/ c \in UNION targets
    PROVE  PublishInv'
<1>1. UNCHANGED published /\ IsNews' /\ \A c : Told(c) \/ c \in UNION targets => Told(c)'
  BY Telling DEF PublishInv
<1> SUFFICES ASSUME NEW c \in Commits, c \notin Owed', ~Told(c)'
             PROVE  UpToDate(attributions', published', c)
  BY <1>1 DEF PublishInv
<1>2. UpToDate(attributions, published, c)
  BY <1>1 DEF PublishInv
<1>3. UpToDate(attributions', published, c)
  BY <1>2, UpToDateStays
<1> QED BY <1>1, <1>3

LEMMA SynchronizePublish ==
    ASSUME AttributionInv, PublishInv, NEW q \in Queries, SynchronizeCost(q)
    PROVE  PublishInv'
<1>1. /\ job.stage = "costs" /\ UpsertCost(q, job.costs[q]) /\ UNCHANGED <<published, news>>
      /\ job'.repriced = job.repriced \cup (IF attributions'[q] # attributions[q] THEN LiveCommits(q) ELSE {})
  BY DEF SynchronizeCost, NextGroup, AttributionInv, IsJob, publication
<1>90. IsNews' /\ \A c : Told(c)' <=> Told(c)
  BY <1>1 DEF PublishInv, IsNews, Told
<1> SUFFICES ASSUME NEW c \in Commits, c \notin Owed', ~Told(c)
             PROVE  UpToDate(attributions', published', c)
  BY <1>90 DEF PublishInv
<1>2. c \notin job'.repriced /\ c \notin job.repriced
  BY <1>1 DEF Owed
<1>3. UpToDate(attributions, published, c)
  BY <1>1, <1>2 DEF PublishInv, Owed
<1>4. ASSUME NEW other \in Queries, NEW y \in attributions'[other].allocations, y.status = "active", y.commit = c
      PROVE  <<other, y.cost>> \in published[c]
  <2>1. CASE attributions'[other] = attributions[other]
    BY <1>3, <1>4, <2>1 DEF UpToDate
  <2>2. CASE attributions'[other] # attributions[other]
    <3>1. other = q
      BY <1>1, <2>2 DEF UpsertCost, AttributionInv, Ledger
    <3>2. PICK t, u, price : t = attributions[q] /\ u = attributions'[q] /\ price = job.costs[q]
      OBVIOUS
    <3>3. u = Repriced(t, price) /\ Sound(t)
      BY <1>1, <3>2 DEF UpsertCost, AttributionInv, Ledger
    <3>4. u.allocations = {PricedAt(z, price) : z \in t.allocations}
      BY <3>3 DEF Sound, Repriced, PricedAt
    <3>5. PICK z \in t.allocations : y = PricedAt(z, price)
      BY <1>4, <3>1, <3>2, <3>4
    <3>6. z.status = "active" /\ z.commit = c
      BY <1>4, <3>3, <3>5 DEF Sound, IsAllocation, PricedAt
    <3>7. c \in LiveCommits(q)
      BY <3>2, <3>6 DEF LiveCommits, LiveOf, Live
    <3> QED BY <1>1, <1>2, <2>2, <3>1, <3>7
  <2> QED BY <2>1, <2>2
<1> QED BY <1>1, <1>4 DEF UpToDate

LEMMA ClaimPublish ==
    ASSUME AttributionInv, EpisodeInv, PublishInv, NEW e, Claim(e)
    PROVE  PublishInv'
<1>0. IsJob(job) /\ Ledger
  BY DEF AttributionInv
<1>1. PICK new, moves, regular, fresh : Plans(e, new, moves, regular, fresh)
  BY ClaimPlans
<1>2. /\ job.stage = "candidates" /\ job'.stage = "transfer" /\ job'.candidates = job.candidates
      /\ job'.claimed = fresh /\ job'.todo = job.todo /\ job'.repriced = job.repriced /\ UNCHANGED <<published, news>>
  BY <1>0, <1>1 DEF Claim, Plans, IsJob, publication
<1>3. Current' = Current
  BY <1>2, CurrentTurn
<1>90. IsNews' /\ \A c : Told(c)' <=> Told(c)
  BY <1>1, <1>2 DEF PublishInv, IsNews, Told
<1> SUFFICES ASSUME NEW c \in Commits, c \notin Owed', ~Told(c)
             PROVE  UpToDate(attributions', published', c)
  BY <1>90 DEF PublishInv
<1>4. c \notin job.repriced /\ (fresh # {} => c # Current)
  BY <1>2, <1>3 DEF Owed
<1>5. UpToDate(attributions, published, c)
  BY <1>2, <1>4 DEF PublishInv, Owed
<1>6. \A q \in Queries :
        \/ attributions'[q] = attributions[q]
        \/ /\ q \in fresh
           /\ \A y \in attributions'[q].allocations : y \in attributions[q].allocations \/ y.commit = Current
  <2>1. TryFirstClaim(regular, new) /\ \A q \in Queries : IsAllocation(new[q]) /\ new[q].commit = Current
    BY <1>1 DEF Plans
  <2>2. fresh = {q \in regular : ~HasActiveFirstClaim(attributions, q)}
    BY <1>1 DEF Plans
  <2> QED BY <1>0, <2>1, <2>2, ClaimAdds
<1> QED BY <1>2, <1>4, <1>5, <1>6 DEF UpToDate

LEMMA TransferPublish ==
    ASSUME AttributionInv, PublishInv, NEW d \in Commits, Transfer(d)
    PROVE  PublishInv'
<1>0. IsJob(job) /\ Ledger
  BY DEF AttributionInv
<1>1. PICK group, taken :
        /\ TransferFirstClaim(QueriesOf(group), d, job.plan.new)
        /\ taken = {q \in QueriesOf(group) : HasClaimOf(attributions, q, d)}
        /\ job' = [job EXCEPT !.plan.moves = @ \ group, !.claimed = @ \cup taken]
        /\ job.stage = "transfer" /\ UNCHANGED <<published, news>>
  <2> DEFINE group == {move \in job.plan.moves : move[2] = d}
  <2>1. /\ TransferFirstClaim(QueriesOf(group), d, job.plan.new)
        /\ job' = [job EXCEPT !.plan.moves = @ \ group,
                              !.claimed = @ \cup {q \in QueriesOf(group) : HasClaimOf(attributions, q, d)}]
        /\ job.stage = "transfer" /\ UNCHANGED <<published, news>>
    BY DEF Transfer, publication
  <2> HIDE DEF group
  <2> QED BY <2>1
<1>2. /\ job'.stage = "transfer" /\ job'.candidates = job.candidates
      /\ job'.claimed = job.claimed \cup taken /\ job'.todo = job.todo /\ job'.repriced = job.repriced
  BY <1>0, <1>1 DEF IsJob
<1>3. Current' = Current
  BY <1>2, CurrentTurn
<1>90. IsNews' /\ \A c : Told(c)' <=> Told(c)
  BY <1>1, <1>2 DEF PublishInv, IsNews, Told
<1> SUFFICES ASSUME NEW c \in Commits, c \notin Owed', ~Told(c)
             PROVE  UpToDate(attributions', published', c)
  BY <1>90 DEF PublishInv
<1>4. c \notin Owed /\ (taken # {} => c # Current)
  BY <1>1, <1>2, <1>3 DEF Owed
<1>5. UpToDate(attributions, published, c)
  BY <1>4 DEF PublishInv
<1>6. PICK new : new = job.plan.new
  OBVIOUS
<1>7. \A q \in Queries : IsAllocation(new[q]) /\ new[q].commit = Current
  BY <1>1, <1>6 DEF AttributionInv, AtStage, Planned
<1>8. \A q \in Queries :
        \/ attributions'[q] = attributions[q]
        \/ /\ q \in taken
           /\ \A y \in attributions'[q].allocations :
                 y \in attributions[q].allocations \/ y.status # "active" \/ y.commit = Current
  BY <1>0, <1>1, <1>6, <1>7, TransferAdds
<1> QED BY <1>1, <1>4, <1>5, <1>8 DEF UpToDate

(* The steps that end or go on with a job, or begin one.                    *)
LEMMA JobPublish ==
    ASSUME AttributionInv, AttributionInv', EpisodeInv, PublishInv,
           \/ Reopen \/ Read \/ Reconcile \/ Synchronizing \/ RewriteHandled
           \/ ReconcileNativeRejections \/ Retracted \/ Prepared \/ Claimed \/ Decide \/ Finish
           \/ \E c \in Commits : Retract(c)
           \/ \E q \in Queries : SynchronizeStatus(q)
    PROVE  PublishInv'
<1> USE DEF publication
<1>0. IsJob(job) /\ Ledger /\ Ledger'
  BY DEF AttributionInv
<1>1. CASE Reopen
  <2>1. LedgerAddsNone /\ job.stage = "reopen" /\ job'.repriced = job.repriced
    BY <1>0, <1>1, UnchangedAddsNone DEF Reopen, IsJob
  <2>2. PICK c \in job.unreachable : Tell({{c}})
    BY <1>1 DEF Reopen
  <2> QED BY <2>1, <2>2, Publishing DEF Owed
<1>2. CASE Read \/ Reconcile
  <2>1. /\ LedgerAddsNone /\ job.stage \in {"read", "idle"} /\ job'.repriced = job.repriced
        /\ UNCHANGED <<published, news>>
    <3>1. Begin /\ job.stage \in {"read", "idle"}
      BY <1>2 DEF Read, Reconcile, MayBegin, Idle, NoJob
    <3>2. LedgerAddsNone
      BY <1>0, <3>1, ExpireAddsNone DEF Begin
    <3> QED BY <1>0, <3>1, <3>2 DEF Begin, IsJob
  <2> QED BY <2>1, PublishedStays DEF Owed
<1>3. CASE Synchronizing
  <2>1. Idle /\ UNCHANGED <<attributions, published, news>>
    BY <1>3 DEF Synchronizing, Synchronize, MayBegin
  <2>2. LedgerAddsNone /\ Owed = {}
    BY <2>1, UnchangedAddsNone DEF Idle, NoJob, Owed
  <2> QED BY <2>1, <2>2, PublishedStays
<1>4. CASE RewriteHandled
  <2>1. LedgerAddsNone
    BY <1>0, <1>4, MarkAddsNone DEF RewriteHandled
  <2>2. Idle /\ UNCHANGED <<published, news>>
    BY <1>4 DEF RewriteHandled, MayBegin
  <2>3. Owed = {}
    BY <2>2 DEF Idle, NoJob, Owed
  <2> QED BY <2>1, <2>2, <2>3, PublishedStays
<1>5. CASE ReconcileNativeRejections
  <2>1. LedgerAddsNone
    BY <1>0, <1>5, RejectionAddsNone DEF ReconcileNativeRejections
  <2>2. job.stage = "native" /\ job'.repriced = job.repriced /\ UNCHANGED <<published, news>>
    BY <1>0, <1>5 DEF ReconcileNativeRejections, IsJob
  <2> QED BY <2>1, <2>2, PublishedStays DEF Owed
<1>6. CASE Retracted
  <2>1. LedgerAddsNone /\ job.stage = "retract" /\ job'.repriced = job.repriced
    BY <1>0, <1>6, UnchangedAddsNone DEF Retracted, IsJob
  <2>2. PICK targets : Tell(targets) /\ {} \notin targets
    BY <1>6 DEF Retracted
  <2> QED BY <2>1, <2>2, Publishing DEF Owed
<1>7. CASE Claimed
  <2>1. LedgerAddsNone /\ job'.repriced = job.repriced
    BY <1>0, <1>7, UnchangedAddsNone DEF Claimed, IsJob
  <2>2. CASE job.claimed = {}
    <3>1. UNCHANGED <<published, news>>
      BY <1>7, <2>2 DEF Claimed
    <3> QED BY <2>1, <2>2, <3>1, PublishedStays DEF Owed
  <2>3. CASE job.claimed # {}
    <3>1. Tell({{Current}})
      BY <1>7, <2>3 DEF Claimed
    <3> QED BY <2>1, <3>1, Publishing DEF Owed
  <2> QED BY <2>2, <2>3
<1>8. CASE Decide \/ Prepared
  <2>1. /\ LedgerAddsNone /\ job.stage \in {"candidates", "statuses"} /\ job'.repriced = job.repriced
        /\ UNCHANGED <<published, news>>
    BY <1>0, <1>8, UnchangedAddsNone DEF Decide, Prepared, IsJob
  <2> QED BY <2>1, PublishedStays DEF Owed
<1>9. CASE Finish
  <2>1. PICK targets : Tell(targets) /\ targets = IF job.all THEN {Commits} ELSE {{c} : c \in job.repriced}
    BY <1>9 DEF Finish
  <2>2. LedgerAddsNone /\ job.stage = "candidates"
    BY <1>9, UnchangedAddsNone DEF Finish
  <2>3. \A c \in Commits : c \in Owed => c \in UNION targets
    <3>1. Owed = job.repriced
      BY <2>2 DEF Owed
    <3>2. CASE job.all
      BY <2>1, <3>2
    <3>3. CASE ~job.all
      BY <2>1, <3>1, <3>3
    <3> QED BY <3>2, <3>3
  <2>4. {} \in targets => targets = {{}}
    BY <2>1
  <2> QED BY <2>1, <2>2, <2>3, <2>4, Publishing
<1>10. ASSUME NEW c \in Commits, Retract(c) PROVE PublishInv'
  <2>1. /\ LedgerAddsNone /\ job.stage = "retract" /\ job'.repriced = job.repriced
        /\ UNCHANGED <<published, news>>
    BY <1>0, <1>10, UnchangedAddsNone DEF Retract, IsJob
  <2> QED BY <2>1, PublishedStays DEF Owed
<1>11. ASSUME NEW q \in Queries, SynchronizeStatus(q) PROVE PublishInv'
  <2>1. /\ LedgerAddsNone /\ job.stage = "statuses" /\ job'.repriced = job.repriced
        /\ UNCHANGED <<published, news>>
    BY <1>0, <1>11, StatusAddsNone DEF SynchronizeStatus, IsJob
  <2> QED BY <2>1, PublishedStays DEF Owed
<1> QED BY <1>1, <1>2, <1>3, <1>4, <1>5, <1>6, <1>7, <1>8, <1>9, <1>10, <1>11

(* A turn of the lane, or a comparison of all commits.                      *)
LEMMA DispatcherPublish ==
    ASSUME AttributionInv, PublishInv, Dispatcher
    PROVE  PublishInv'
<1>0. /\ UNCHANGED <<attributions, job>> /\ IsNews
      /\ \A q \in Queries : Sound(attributions[q])
  BY DEF Dispatcher, Turn, ReconcileCommitEvents, PublishInv, AttributionInv, Ledger
<1>1. Owed' = Owed
  BY <1>0, CurrentTurn DEF Owed
<1>2. CASE Turn
  <2>1. /\ published' = [c \in Commits |-> IF c \in news.turn THEN CostsOn(attributions, c) ELSE published[c]]
        /\ news' = [turn |-> news.latest, latest |-> {}, replaced |-> news.replaced \ news.turn,
                    restart |-> news.restart]
    BY <1>0, <1>2 DEF Turn, IsNews
  <2>2. IsNews'
    BY <2>1 DEF IsNews
  <2>3. ASSUME NEW c \in Commits, c \notin Owed', ~Told(c)'
        PROVE  UpToDate(attributions', published', c)
    <3>1. CASE c \in news.turn
      <4>1. published'[c] = CostsOn(attributions, c)
        BY <2>1, <3>1
      <4>2. UpToDate(attributions, published', c)
        BY <1>0, <4>1, CostsCover
      <4> QED BY <1>0, <4>2
    <3>2. CASE c \notin news.turn
      <4>1. published'[c] = published[c] /\ ~Told(c)
        BY <2>1, <2>3, <3>2 DEF Told
      <4>2. UpToDate(attributions, published, c)
        BY <1>1, <2>3, <4>1 DEF PublishInv
      <4> QED BY <1>0, <4>1, <4>2 DEF UpToDate
    <3> QED BY <3>1, <3>2
  <2> QED BY <2>2, <2>3 DEF PublishInv
<1>3. CASE ReconcileCommitEvents
  <2>1. /\ published' = [c \in Commits |-> CostsOn(attributions, c)]
        /\ news' = [turn |-> news.turn, latest |-> news.latest, replaced |-> {}, restart |-> FALSE]
    BY <1>0, <1>3 DEF ReconcileCommitEvents, IsNews
  <2>2. IsNews'
    BY <1>0, <2>1 DEF IsNews
  <2>3. ASSUME NEW c \in Commits PROVE UpToDate(attributions', published', c)
    <3>1. published'[c] = CostsOn(attributions, c)
      BY <2>1
    <3>2. UpToDate(attributions, published', c)
      BY <1>0, <3>1, CostsCover
    <3> QED BY <1>0, <3>2
  <2> QED BY <2>2, <2>3 DEF PublishInv
<1> QED BY <1>2, <1>3 DEF Dispatcher

LEMMA PublishInit == Init => PublishInv
  BY DEF Init, PublishInv, IsNews, NoNews, UpToDate, NoAttribution

LEMMA PublishStep ==
    ASSUME AttributionInv, EpisodeInv, PublishInv, [Next]_vars, [RefusedFirst]_vars
    PROVE  PublishInv'
<1>1. CASE UNCHANGED <<attributions, job, published, news>>
  <2>1. Owed' = Owed
    <3>1. Current' = Current
      BY <1>1, CurrentTurn
    <3> QED BY <1>1, <3>1 DEF Owed
  <2> QED BY <1>1, <2>1, UnchangedAddsNone, PublishedStays
<1>2. CASE Crash
  <2>1. news' = [turn |-> {}, latest |-> {}, replaced |-> {}, restart |-> TRUE]
    BY <1>2 DEF Crash, NoNews
  <2> QED BY <2>1 DEF PublishInv, IsNews, Told
<1>3. ASSUME NEW q \in Queries, CostRefused(q) PROVE PublishInv'
  <2>1. job.stage = "costs" /\ job' = NoJob /\ UNCHANGED <<attributions, published, news>>
    BY <1>3 DEF CostRefused, NextGroup, publication
  <2>2. job' # job
    BY <2>1 DEF NoJob
  <2>3. job.repriced = {}
    BY <1>3, <2>2 DEF RefusedFirst, vars
  <2> QED BY <2>1, <2>3, UnchangedAddsNone, PublishedStays DEF Owed
<1>4. CASE \/ Reopen \/ Read \/ Reconcile \/ Synchronizing \/ RewriteHandled
           \/ ReconcileNativeRejections \/ Retracted \/ Prepared \/ Claimed \/ Decide \/ Finish
           \/ \E c \in Commits : Retract(c)
           \/ \E q \in Queries : SynchronizeStatus(q)
  BY <1>4, AttributionStep, JobPublish
<1>5. CASE UNCHANGED vars \/ (Environment /\ ~Crash)
  <2>1. UNCHANGED <<attributions, job, published, news>>
    BY <1>5 DEF vars, Environment, Tick, RunStarts, RunActive, EvidenceBound, Price, CommitObserved,
           RewriteObserved, Stored, publication
  <2> QED BY <1>1, <2>1
<1>6. CASE \/ \E q \in Queries : SynchronizeCost(q)
           \/ \E c \in Commits : Transfer(c)
           \/ \E e \in Episodes : Claim(e)
  BY <1>6, SynchronizePublish, TransferPublish, ClaimPublish
<1>7. CASE Dispatcher
  BY <1>7, DispatcherPublish
<1> QED BY <1>2, <1>3, <1>4, <1>5, <1>6, <1>7, AskedFor DEF Next, JobStep, Environment

(*------------------------- prices that never fall -----------------------*)

(* The ledger of claims has no higher price of a query than the run ledger, *)
(* and none higher than what a job is about to write.                       *)
CostsReach ==
    /\ \A q \in Queries : AtMost(attributions[q].cost, cost[q])
    /\ job.stage = "costs" =>
          \A q \in Queries : AtMost(attributions[q].cost, job.costs[q]) /\ AtMost(job.costs[q], cost[q])

LedgerKeepsCosts == \A q \in Queries : attributions'[q].cost = attributions[q].cost

LEMMA AtMostIsAnOrder ==
    /\ \A a : IsPrice(a) => AtMost(a, a)
    /\ \A a, b, c : IsPrice(a) /\ IsPrice(b) /\ IsPrice(c) /\ AtMost(a, b) /\ AtMost(b, c) => AtMost(a, c)
  BY DEF IsPrice, AtMost

(* Only a repricing changes what the ledger knows of the costs.             *)
LEMMA CostsStay ==
    ASSUME Ledger,
           \/ UNCHANGED attributions
           \/ \E commits, at : MarkRewritePending(commits, at)
           \/ \E before : ExpireRewritePending(before)
           \/ \E verdict : ReconcileNative(verdict)
           \/ \E q \in Queries : \E status : UpsertStatus(q, status)
           \/ \E qs, new : TryFirstClaim(qs, new)
           \/ \E qs, c, new : TransferFirstClaim(qs, c, new)
    PROVE  LedgerKeepsCosts
<1> SUFFICES ASSUME NEW q \in Queries PROVE attributions'[q].cost = attributions[q].cost
  BY DEF LedgerKeepsCosts
<1>1. PICK t, u : t = attributions[q] /\ u = attributions'[q]
  OBVIOUS
<1>2. Sound(t)
  BY <1>1 DEF Ledger
<1>3. CASE \E r \in Queries : \E status : UpsertStatus(r, status)
  <2>1. \E status : u = t \/ u = [t EXCEPT !.status = status]
    BY <1>1, <1>3 DEF UpsertStatus, Ledger
  <2> QED BY <1>1, <1>2, <2>1 DEF Sound
<1>4. CASE ~\E r \in Queries : \E status : UpsertStatus(r, status)
  <2>1. PICK status, allocations : u = t \/ u = [t EXCEPT !.status = status, !.allocations = allocations]
    <3>1. CASE UNCHANGED attributions
      BY <1>1, <3>1
    <3>2. CASE \E commits, at : MarkRewritePending(commits, at)
      <4>1. PICK commits, at : MarkRewritePending(commits, at)
        BY <3>2
      <4>2. u = Marked(t, commits, at)
        BY <1>1, <4>1 DEF MarkRewritePending, Marked, Rewritable, Waiting, Awaiting
      <4> QED BY <4>2 DEF Marked
    <3>3. CASE \E before : ExpireRewritePending(before)
      <4>1. PICK before : ExpireRewritePending(before)
        BY <3>3
      <4>2. u = ExpiredBy(t, before)
        BY <1>1, <4>1 DEF ExpireRewritePending, ExpiredBy, Overdue, Lapsed
      <4> QED BY <4>2 DEF ExpiredBy
    <3>4. CASE \E verdict : ReconcileNative(verdict)
      <4>1. PICK verdict : ReconcileNative(verdict)
        BY <3>4
      <4> DEFINE Status == IF HasActiveFirstClaim(attributions, q) /\ verdict[q].kind = "revoked"
                           THEN "rejected" ELSE t.status
                 Left == {Judged(x, verdict[q]) : x \in t.allocations}
      <4>2. u = [t EXCEPT !.status = Status, !.allocations = Left]
        BY <1>1, <4>1 DEF ReconcileNative, NativeReconciled
      <4> HIDE DEF Status, Left
      <4> QED BY <4>2
    <3>5. CASE \E qs, new : TryFirstClaim(qs, new)
      BY <1>1, <3>5 DEF TryFirstClaim, FirstClaimed
    <3>6. CASE \E qs, c, new : TransferFirstClaim(qs, c, new)
      BY <1>1, <3>6 DEF TransferFirstClaim, Transferred
    <3> QED BY <1>4, <3>1, <3>2, <3>3, <3>4, <3>5, <3>6
  <2> QED BY <1>1, <1>2, <2>1 DEF Sound
<1> QED BY <1>3, <1>4

LEMMA ReachInit == Init => CostsReach
  BY DEF Init, CostsReach, NoAttribution, AtMost, NoJob

LEMMA ReachStep ==
    ASSUME AttributionInv, CostsReach, ~MayFall, [Next]_vars
    PROVE  CostsReach'
<1>0. /\ IsJob(job) /\ Ledger
      /\ \A q \in Queries : IsPrice(attributions[q].cost) /\ IsPrice(cost[q])
      /\ job.stage = "costs" => \A q \in Queries : IsPrice(job.costs[q])
  BY DEF AttributionInv, Ledger, Sound, Shared, AtStage
<1>1. ASSUME NEW q \in Queries, Price(q) PROVE CostsReach'
  <2>1. PICK price \in Costs[q] : AtMost(cost[q], price) /\ cost' = [cost EXCEPT ![q] = price]
    BY <1>1 DEF Price
  <2>2. IsPrice(price)
    BY AttributionAssumption DEF IsPrice
  <2>3. UNCHANGED <<attributions, job>>
    BY <1>1 DEF Price
  <2>4. \A other \in Queries : AtMost(cost[other], cost'[other]) /\ IsPrice(cost'[other])
    BY <1>0, <2>1, <2>2, AtMostIsAnOrder DEF AttributionInv, Shared
  <2> QED BY <1>0, <2>3, <2>4, AtMostIsAnOrder DEF CostsReach
<1>2. ASSUME NEW q \in Queries, SynchronizeCost(q) PROVE CostsReach'
  <2>1. /\ job.stage = "costs" /\ job'.costs = job.costs /\ UNCHANGED cost
        /\ attributions' = [attributions EXCEPT ![q] = Repriced(attributions[q], job.costs[q])]
    BY <1>0, <1>2 DEF SynchronizeCost, NextGroup, IsJob, shared, UpsertCost
  <2>2. Repriced(attributions[q], job.costs[q]).cost = job.costs[q]
    BY <1>0 DEF Ledger, Sound, Repriced
  <2>3. \A other \in Queries : attributions'[other].cost \in {attributions[other].cost, job.costs[other]}
    BY <1>0, <2>1, <2>2 DEF Ledger
  <2> QED BY <1>0, <2>1, <2>3, AtMostIsAnOrder DEF CostsReach
<1>3. CASE Synchronizing
  <2>1. job'.costs = cost /\ UNCHANGED <<attributions, cost>>
    BY <1>3 DEF Synchronizing, Synchronize, NoJob, shared
  <2> QED BY <1>0, <2>1, AtMostIsAnOrder DEF CostsReach
<1>4. ASSUME LedgerKeepsCosts, UNCHANGED cost, job'.stage # "costs" \/ UNCHANGED job
      PROVE  CostsReach'
  BY <1>4 DEF CostsReach, LedgerKeepsCosts
<1>5. CASE UNCHANGED vars \/ Dispatcher \/ (Environment /\ ~(\E q \in Queries : Price(q)))
  <2>1. UNCHANGED <<attributions, cost>> /\ (UNCHANGED job \/ job' = NoJob)
    BY <1>5 DEF vars, shared, Environment, Tick, Crash, RunStarts, RunActive, EvidenceBound, CommitObserved,
           RewriteObserved, Stored, Dispatcher, Turn, ReconcileCommitEvents
  <2> QED BY <1>4, <2>1 DEF LedgerKeepsCosts, NoJob
<1>6. CASE Reconcile \/ Read \/ RewriteHandled
  <2>1. LedgerKeepsCosts
    <3>1. CASE RewriteHandled
      BY <1>0, <3>1, CostsStay DEF RewriteHandled
    <3>2. CASE Reconcile \/ Read
      BY <1>0, <3>2, CostsStay DEF Reconcile, Read, Begin
    <3> QED BY <1>6, <3>1, <3>2
  <2>2. UNCHANGED cost
    BY <1>6 DEF Reconcile, Read, RewriteHandled, Begin, shared
  <2>3. job'.stage # "costs"
    BY <1>0, <1>6 DEF Reconcile, Read, RewriteHandled, Begin, IsJob, NoJob
  <2> QED BY <1>4, <2>1, <2>2, <2>3
<1>7. CASE Reopen \/ Retracted \/ Prepared \/ Claimed \/ Decide \/ \E c \in Commits : Retract(c)
  <2>1. UNCHANGED <<attributions, cost>>
    BY <1>7 DEF Reopen, Retracted, Prepared, Claimed, Decide, Retract, shared
  <2>2. job'.stage # "costs"
    BY <1>0, <1>7 DEF Reopen, Retracted, Prepared, Claimed, Decide, Retract, IsJob
  <2> QED BY <1>4, <2>1, <2>2 DEF LedgerKeepsCosts
<1>8. CASE Finish \/ \E q \in Queries : CostRefused(q)
  <2>1. UNCHANGED <<attributions, cost>> /\ job' = NoJob
    BY <1>8 DEF Finish, CostRefused
  <2> QED BY <1>4, <2>1 DEF LedgerKeepsCosts, NoJob
<1>9. CASE ReconcileNativeRejections \/ \E q \in Queries : SynchronizeStatus(q)
  <2>1. LedgerKeepsCosts
    <3>1. CASE ReconcileNativeRejections
      BY <1>0, <3>1, CostsStay DEF ReconcileNativeRejections
    <3>2. CASE \E q \in Queries : SynchronizeStatus(q)
      BY <1>0, <3>2, CostsStay DEF SynchronizeStatus
    <3> QED BY <1>9, <3>1, <3>2
  <2>2. UNCHANGED cost /\ job'.stage # "costs"
    BY <1>0, <1>9 DEF ReconcileNativeRejections, SynchronizeStatus, IsJob, shared
  <2> QED BY <1>4, <2>1, <2>2
<1>10. ASSUME NEW e, Claim(e) PROVE CostsReach'
  <2>1. PICK qs, new, plan, claimed :
          /\ TryFirstClaim(qs, new)
          /\ job' = [job EXCEPT !.stage = "transfer", !.plan = plan, !.claimed = claimed]
          /\ UNCHANGED cost
    BY <1>10 DEF Claim, shared
  <2>2. LedgerKeepsCosts
    BY <1>0, <2>1, CostsStay
  <2>3. job'.stage # "costs"
    BY <1>0, <2>1 DEF IsJob
  <2> QED BY <1>4, <2>1, <2>2, <2>3
<1>11. ASSUME NEW d \in Commits, Transfer(d) PROVE CostsReach'
  <2>1. PICK qs, new, group, claimed :
          /\ TransferFirstClaim(qs, d, new)
          /\ job' = [job EXCEPT !.plan.moves = @ \ group, !.claimed = claimed]
          /\ job.stage = "transfer" /\ UNCHANGED cost
    BY <1>11 DEF Transfer, shared
  <2>2. LedgerKeepsCosts
    BY <1>0, <2>1, CostsStay
  <2>3. job'.stage # "costs"
    BY <1>0, <2>1 DEF IsJob
  <2> QED BY <1>4, <2>1, <2>2, <2>3
<1> QED BY <1>1, <1>2, <1>3, <1>5, <1>6, <1>7, <1>8, <1>9, <1>10, <1>11, AskedFor DEF Next, JobStep

(* No repricing is refused while the prices do not fall.                    *)
LEMMA RefusalNeedsAFall ==
    ASSUME AttributionInv, CostsReach, NEW q \in Queries, CostRefused(q)
    PROVE  FALSE
<1>1. job.stage = "costs" /\ ~Writable(Repriced(attributions[q], job.costs[q]))
  BY DEF CostRefused, NextGroup
<1>2. PICK t, price, u : t = attributions[q] /\ price = job.costs[q] /\ u = Repriced(t, price)
  OBVIOUS
<1>3. Sound(t) /\ IsPrice(price) /\ AtMost(t.cost, price) /\ ~Writable(u)
  BY <1>1, <1>2 DEF AttributionInv, Ledger, AtStage, CostsReach
<1>4. u.cost = price /\ u.allocations = {PricedAt(z, price) : z \in t.allocations}
  BY <1>2, <1>3 DEF Sound, Repriced, PricedAt
<1>5. ASSUME NEW z \in t.allocations, Live(PricedAt(z, price))
      PROVE  z \in LiveIn(t) /\ AtMost(PricedAt(z, price).cost, price)
  <2>1. IsAllocation(z)
    BY <1>3 DEF Sound
  <2>2. CASE z.status = "active"
    <3>1. PricedAt(z, price).cost = price
      BY <2>1, <2>2 DEF PricedAt, IsAllocation
    <3> QED BY <1>3, <2>2, <3>1, AtMostIsAnOrder DEF LiveIn, Live
  <2>3. CASE z.status # "active"
    <3>1. PricedAt(z, price) = z
      BY <2>3 DEF PricedAt
    <3>2. z \in LiveIn(t)
      BY <1>5, <3>1 DEF LiveIn
    <3>3. AtMost(z.cost, t.cost) /\ IsPrice(z.cost) /\ IsPrice(t.cost)
      BY <1>3, <2>1, <3>2 DEF Sound, Writable, LiveIn, IsAllocation
    <3>4. AtMost(z.cost, price)
      BY <1>3, <3>3, AtMostIsAnOrder
    <3> QED BY <3>1, <3>2, <3>4
  <2> QED BY <2>2, <2>3
<1>6. \A x, y \in LiveIn(t) : x = y
  BY <1>3 DEF Sound, Writable, LiveIn
<1>7. Writable(u)
  BY <1>4, <1>5, <1>6 DEF Writable
<1> QED BY <1>3, <1>7

(*-------------------------------- theorems ------------------------------*)

(* What the ledger of claims stores passes its own assertions, for any      *)
(* queries, commits, evidence, prices and interleavings: a query's cost is  *)
(* allocated to one commit at most, and never more of it than it cost       *)
(* (commitAttributionLedger.ts: every upsert asserts it).                   *)
THEOREM LedgerStaysWritable == Spec => []StoredIsWritable
<1>1. AttributionInv => StoredIsWritable
  BY DEF AttributionInv, Ledger, Sound, StoredIsWritable
<1> QED BY <1>1, AttributionInit, AttributionStep, PTL DEF Spec

(* The status of a query agrees with its claims, whichever of the claims,   *)
(* transfers, rewrites, expiries, repricings and retractions came last      *)
(* (commitAttributionLedger.ts stores the two together).                    *)
THEOREM StatusesAlwaysAgree == Spec => []StatusAgrees
<1>1. AttributionInv => StatusAgrees
  <2> SUFFICES ASSUME AttributionInv, NEW q \in Queries
               PROVE  LET live == {x.status : x \in LiveOf(attributions, q)}
                      IN  /\ attributions[q].status = "attributed" <=> "active" \in live
                          /\ attributions[q].status = "rewrite_pending" <=> "rewrite_pending" \in live
    BY DEF StatusAgrees
  <2>1. Agrees(attributions[q]) /\ LiveOf(attributions, q) = LiveIn(attributions[q])
    BY DEF AttributionInv, Ledger, Sound, LiveOf, LiveIn
  <2> QED BY <2>1 DEF Agrees
<1> QED BY <1>1, AttributionInit, AttributionStep, PTL DEF Spec

(* The step of a claim that FirstClaim allows.                              *)
LEMMA ClaimMoves ==
    ASSUME AttributionInv, LedgerKeeps
    PROVE  FirstClaims!Next
<1>1. \A q \in Queries : ClaimOf(q) = ClaimIn(attributions[q]) /\ ClaimOf(q)' = ClaimIn(attributions'[q])
  BY DEF ClaimOf, ClaimIn, HasActiveFirstClaim, LiveOf, LiveIn
<1> DEFINE claim == [q \in Queries |-> ClaimOf(q)]
<1> SUFFICES ASSUME NEW q \in Queries
             PROVE  \/ claim'[q] = claim[q]
                    \/ \E c \in Commits, at \in 0 .. MaxNow : FirstClaims!Take(q, c, at)
                    \/ FirstClaims!Unsettle(q)
                    \/ FirstClaims!Drop(q)
  BY DEF FirstClaims!Next
<1>2. claim[q] = ClaimIn(attributions[q]) /\ claim'[q] = ClaimIn(attributions'[q])
  BY <1>1
<1>3. PICK t, u : t = attributions[q] /\ u = attributions'[q]
  OBVIOUS
<1>4. Sound(t) /\ Sound(u) /\ Settles(t, u)
  BY <1>3 DEF AttributionInv, LedgerKeeps, Ledger
<1>5. claim[q] = ClaimIn(t) /\ claim'[q] = ClaimIn(u)
  BY <1>2, <1>3
<1> HIDE DEF claim
<1>6. CASE LiveIn(u) = {}
  <2>1. claim'[q] = [kind |-> "free"]
    BY <1>5, <1>6 DEF ClaimIn
  <2> QED BY <2>1 DEF FirstClaims!Drop, FirstClaims!Free, claim
<1>7. ASSUME NEW x \in LiveIn(t), NEW y \in LiveIn(u), x.status = "active", y.status = "rewrite_pending",
             x.commit = y.commit, x.at = y.at
      PROVE  FirstClaims!Unsettle(q)
  <2>1. /\ claim[q] = [kind |-> "held", commit |-> x.commit, at |-> x.at]
        /\ claim'[q] = [kind |-> "rewriting", commit |-> y.commit, at |-> y.at]
    BY <1>4, <1>5, <1>7, OneLive
  <2> QED BY <1>7, <2>1 DEF FirstClaims!Unsettle, FirstClaims!Rewriting, claim
<1>8. ASSUME NEW y \in LiveIn(u), y.status = "active", MayTake(t, y.commit, y.at)
      PROVE  \E c \in Commits, at \in 0 .. MaxNow : FirstClaims!Take(q, c, at)
  <2>1. /\ claim'[q] = [kind |-> "held", commit |-> y.commit, at |-> y.at]
        /\ y.commit \in Commits /\ y.at \in 0 .. MaxNow
    BY <1>4, <1>5, <1>8, OneLive DEF IsAllocation
  <2>2. \/ claim[q] = [kind |-> "free"]
        \/ claim[q].kind = "held" /\ claim[q].commit # y.commit /\ claim[q].at < y.at
        \/ claim[q].kind = "rewriting" /\ claim[q].commit # y.commit
    <3>1. CASE LiveIn(t) = {}
      BY <1>5, <3>1 DEF ClaimIn
    <3>2. CASE LiveIn(t) # {}
      <4>1. PICK x \in LiveIn(t) : TRUE
        BY <3>2
      <4>2. /\ claim[q] = [kind |-> IF x.status = "active" THEN "held" ELSE "rewriting",
                           commit |-> x.commit, at |-> x.at]
            /\ x.commit # y.commit /\ (x.status = "active" => x.at < y.at)
        BY <1>4, <1>5, <1>8, <4>1, OneLive DEF MayTake
      <4> QED BY <4>2
    <3> QED BY <3>1, <3>2
  <2>3. FirstClaims!Take(q, y.commit, y.at)
    BY <2>1, <2>2 DEF FirstClaims!Take, FirstClaims!Free, FirstClaims!Held, claim
  <2> QED BY <2>1, <2>3
<1> QED BY <1>4, <1>5, <1>6, <1>7, <1>8 DEF Settles

(* The claims behave as FirstClaim says, whatever the scanner, the tracker, *)
(* the run ledger and crashes do between the transactions of a job: one     *)
(* commit at a time holds the claim of a query, a confirmed claim moves     *)
(* only to a commit observed later, and only a rewritten one to any other   *)
(* (gitAttribution.ts plans the transfers from what it read once).          *)
THEOREM ClaimsAlwaysSettle == Spec => ClaimsSettle
<1>1. Init => FirstClaims!Init
  BY DEF Init, FirstClaims!Init, FirstClaims!Free, ClaimOf, HasActiveFirstClaim, LiveOf, NoAttribution
<1>2. AttributionInv /\ [Next]_vars => [FirstClaims!Next]_([q \in Queries |-> ClaimOf(q)])
  BY AttributionStep, ClaimMoves
<1> QED BY <1>1, <1>2, AttributionInit, AttributionStep, PTL DEF Spec, ClaimsSettle, FirstClaims!Spec

(* A commit that is shown as reportable has, once no job runs and before    *)
(* any crash, a claim that no native rejection took back: though the        *)
(* rejection, the claim, the transfer and the decision are steps of their   *)
(* own, and the decision is stored from a copy that a job made of the       *)
(* candidates long before (gitAttribution.ts:                               *)
(* reconcileNativeRejectedCandidateStates and the loop over candidates).    *)
THEOREM ReportableStaysClaimed == Spec => []ReportableIsClaimed
<1>1. ReportInv => ReportableIsClaimed
  BY DEF ReportInv, Reported, ShownIsBacked, Backed, Doomed, Upheld, ReportableIsClaimed, Idle, NoJob
<1> QED BY <1>1, AttributionInit, AttributionStep, EpisodesInit, EpisodesStep, ReportInit, ReportStep,
           PTL DEF Spec

(* Once neither a job nor the dispatcher has anything to do, every confirmed *)
(* claim is published on its commit, with its cost, unless later work has   *)
(* replaced the comparison of the commit: after claims, transfers,          *)
(* repricings, rewrites, revocations and crashes in any order, as long as   *)
(* no job whose repricing is refused had repriced another query before      *)
(* (gitAttribution.ts: synchronizePersistedCosts throws, and the commits it *)
(* has already changed are not told).                                       *)
THEOREM ClaimsStayPublished == Spec /\ [][RefusedFirst]_vars => []ClaimsArePublished
<1>1. PublishInv => ClaimsArePublished
  <2> SUFFICES ASSUME PublishInv, Rests PROVE ClaimsArePublished
    BY DEF ClaimsArePublished
  <2>1. Owed = {}
    BY DEF Owed, Rests, Idle, NoJob
  <2>2. \A c \in Commits \ news.replaced : ~Told(c)
    BY DEF Told, Rests, PublishInv, IsNews
  <2> QED BY <2>1, <2>2 DEF PublishInv, UpToDate, ClaimsArePublished
<1> QED BY <1>1, AttributionInit, AttributionStep, EpisodesInit, EpisodesStep, PublishInit, PublishStep,
           PTL DEF Spec

(* While the prices of queries do not fall, no repricing is refused, and    *)
(* every confirmed claim is published with its cost once job and dispatcher *)
(* rest (gitAttribution.ts: synchronizePersistedCosts and its callers;      *)
(* index.ts: handleVerifiedAttributionChange).                              *)
THEOREM RisingPricesArePublished == ~MayFall /\ Spec => []ClaimsArePublished
<1> SUFFICES ASSUME ~MayFall PROVE Spec => []ClaimsArePublished
  OBVIOUS
<1>1. AttributionInv /\ CostsReach /\ [Next]_vars => CostsReach' /\ [RefusedFirst]_vars
  BY ReachStep, RefusalNeedsAFall DEF RefusedFirst
<1>2. Spec => [][RefusedFirst]_vars
  BY <1>1, AttributionInit, AttributionStep, ReachInit, PTL DEF Spec
<1> QED BY <1>2, ClaimsStayPublished, PTL

=============================================================================
