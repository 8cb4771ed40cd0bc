------------------------ MODULE MCRepositoryObservation -----------------------
EXTENDS RepositoryObservation

(* a is installed; b and d follow it on two branches, c follows b.           *)
MCCommits == {"a", "b", "c", "d"}
MCParent == [k \in MCCommits |-> IF k = "a" THEN "none" ELSE IF k = "c" THEN "b" ELSE "a"]
MCStart == [r \in {"main", "topic"} |-> IF r = "main" THEN "a" ELSE "none"]
=============================================================================
