--------------------------- MODULE MCGitAttribution ---------------------------
(* Commit c1 has the write of q1 and c3, its child, that of q2; c2 is c1      *)
(* amended.  The permission that q1 had for its write may turn out denied.   *)
EXTENDS GitAttribution, TLC

CONSTANTS w1, w2, c1, c2, c3

MCParent == c1 :> NoCommit @@ c2 :> NoCommit @@ c3 :> c1
MCContent == c1 :> {w1} @@ c2 :> {w1, w2} @@ c3 :> {w2}
MCArtifact == w1 :> w1 @@ w2 :> w2
MCSession == [q \in Queries |-> 1]
MCCosts == [q \in Queries |-> IF q = 1 THEN {1, 2} ELSE {1}]
MCNoPrices == [q \in Queries |-> {}]
MCDeliveries ==
    1 :> {[writes |-> {w1}, complete |-> TRUE, causal |-> {w1}, rejected |-> {}],
          [writes |-> {w1, w2}, complete |-> TRUE, causal |-> {w2}, rejected |-> {w1}]}
    @@ 2 :> {}
===============================================================================
