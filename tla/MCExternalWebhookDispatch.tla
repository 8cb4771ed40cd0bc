--------------------- MODULE MCExternalWebhookDispatch ---------------------
(* Instances of the dispatch for TLC.  Callers are interchangeable; lanes  *)
(* are not, nor are runs: a start may have been delivered for one only.    *)
EXTENDS ExternalWebhookDispatch, TLC

Symmetry == Permutations(Admitters)
=============================================================================
