---------------------------- MODULE ObservationMerge ----------------------------
(* What the storage worker keeps when an observation tells it again of a usage *)
(* atom, an activity or a query occurrence it already holds                    *)
(* (packages/agent-storage/src/worker.ts, appendSafeObservation). Times are    *)
(* integers, Never where the field is absent; None is any other absent field.  *)
EXTENDS Integers, FiniteSets

CONSTANT None

Never == -1

(* Ownership of an atom only grows more disputed: two owners, or a dispute on  *)
(* either side, leave the atom unowned with every claimant as a witness (the   *)
(* code keeps the first eight).                                                *)
KeptAtom(old, new) ==
    LET owners    == {old.owner, new.owner} \ {None}
        witnesses == old.conflicts \cup new.conflicts
    IN  IF witnesses # {} \/ Cardinality(owners) = 2
        THEN [new EXCEPT !.owner = None, !.conflicts = witnesses \cup owners]
        ELSE [new EXCEPT !.owner = IF @ # None THEN @ ELSE old.owner]

(* A native permission rejection is not undone by a later generic outcome.     *)
KeptActivity(old, new) == IF old.native /\ ~new.native THEN old ELSE new

Outcomes == {"failure", "success", "unknown"}

OutcomeRank(outcome) ==
    CASE outcome = "failure" -> 3 [] outcome = "success" -> 2 [] outcome = "unknown" -> 1
      [] OTHER -> 0

EvidenceRank(evidence) ==
    CASE evidence \in {"stop_hook", "session_hook"} -> 3
      [] evidence \in {"closed_root_span", "provider_completed_event"} -> 2
      [] evidence = "inactivity" -> 1
      [] OTHER -> 0

SourceRank(source) ==
    CASE source = "submission_hook" -> 5 [] source = "provider_root_span" -> 4
      [] source = "provider_prompt_id" -> 3
      [] source \in {"provider_user_prompt_event", "provider_user_message_event"} -> 2
      [] OTHER -> 1

Moment(o) == IF o.completed # Never THEN o.completed ELSE o.start

(* The occurrence whose completion is believed when one has an outcome: by its *)
(* outcome, then its evidence, then the later.                                 *)
Weaker(old, new) ==
    LET rank(o) == <<OutcomeRank(o.outcome), EvidenceRank(o.evidence), Moment(o)>>
        a == rank(old)
        b == rank(new)
    IN  \/ a[1] < b[1]
        \/ a[1] = b[1] /\ a[2] < b[2]
        \/ a[1] = b[1] /\ a[2] = b[2] /\ a[3] <= b[3]

Completion(old, new) ==
    IF old.outcome # None \/ new.outcome # None
    THEN IF Weaker(old, new) THEN new ELSE old
    ELSE IF old.completed <= new.completed THEN new ELSE old

(* a plausible slip: the ending told last wins                                 *)
SlipKeptOccurrence(old, new) == IF new.completed # Never THEN new ELSE [new EXCEPT
    !.completed = old.completed, !.evidence = old.evidence, !.outcome = old.outcome]

KeptOccurrence(old, new) ==
    LET done == Completion(old, new)
    IN  [new EXCEPT !.source    = IF SourceRank(@) >= SourceRank(old.source) THEN @ ELSE old.source,
                    !.internal  = @ \/ old.internal,
                    !.start     = IF old.start < @ THEN old.start ELSE @,
                    !.parent    = IF @ # None THEN @ ELSE old.parent,
                    !.completed = done.completed,
                    !.evidence  = done.evidence,
                    !.outcome   = done.outcome]
=================================================================================
