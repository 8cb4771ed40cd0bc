--------------------------- MODULE RunEndedLedger ---------------------------
(***************************************************************************)
(* What the dispatch promises of the terminals of each run: a sequence of  *)
(* versions.  The last may be revised, and only towards more, until it is  *)
(* delivered; a correction after that opens the next version; a delivered  *)
(* version never changes again, and none is delivered out of turn.         *)
(***************************************************************************)
EXTENDS Naturals, Sequences

CONSTANTS Runs, MaxMeaning  \* bound, a natural number: meanings of a terminal

VARIABLE ledger

Version == [meaning : 1..MaxMeaning, delivered : BOOLEAN]

LedgerInit == ledger = [r \in Runs |-> <<>>]

Last(r) == ledger[r][Len(ledger[r])]

Open(r) == ledger[r] # <<>> /\ ~Last(r).delivered

Correct(r, m) ==
    /\ ~Open(r)
    /\ ledger[r] # <<>> => m > Last(r).meaning
    /\ ledger' = [ledger EXCEPT ![r] = Append(@, [meaning |-> m, delivered |-> FALSE])]

Revise(r, m) ==
    /\ Open(r)
    /\ m > Last(r).meaning
    /\ ledger' = [ledger EXCEPT ![r][Len(ledger[r])].meaning = m]

Publish(r) ==
    /\ Open(r)
    /\ ledger' = [ledger EXCEPT ![r][Len(ledger[r])].delivered = TRUE]

LedgerNext ==
    \E r \in Runs :
        \/ \E m \in 1..MaxMeaning : Correct(r, m) \/ Revise(r, m)
        \/ Publish(r)

LedgerSpec == LedgerInit /\ [][LedgerNext]_ledger
=============================================================================
