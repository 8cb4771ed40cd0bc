------------------------- MODULE MCOrderedDispatch -------------------------
(* Instances of the dispatch on its storage worker for TLC.                 *)
EXTENDS OrderedDispatch

Symmetry == Permutations(Admitters)
=============================================================================
