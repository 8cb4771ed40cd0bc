------------------------------ MODULE FirstClaim ------------------------------
(***************************************************************************)
(* What attribution promises about the claim on a query: one commit at a    *)
(* time holds it; a confirmed claim only moves to a commit observed later;  *)
(* one whose commit was rewritten away moves to any other; and both may be  *)
(* dropped.                                                                *)
(***************************************************************************)
EXTENDS Integers

CONSTANTS Queries, Commits, Times

VARIABLE claim      \* [Queries -> [kind, commit, at]]

Free == [kind |-> "free"]
Held(c, t) == [kind |-> "held", commit |-> c, at |-> t]
Rewriting(c, t) == [kind |-> "rewriting", commit |-> c, at |-> t]

Init == claim = [q \in Queries |-> Free]

Take(q, c, t) ==
    /\ \/ claim[q] = Free
       \/ claim[q].kind = "held" /\ claim[q].commit # c /\ claim[q].at < t
       \/ claim[q].kind = "rewriting" /\ claim[q].commit # c
    /\ claim'[q] = Held(c, t)

Unsettle(q) == claim[q].kind = "held" /\ claim'[q] = Rewriting(claim[q].commit, claim[q].at)

Drop(q) == claim[q] # Free /\ claim'[q] = Free

Next == \A q \in Queries :
            \/ claim'[q] = claim[q]
            \/ \E c \in Commits, t \in Times : Take(q, c, t)
            \/ Unsettle(q)
            \/ Drop(q)

Spec == Init /\ [][Next]_claim
===============================================================================
