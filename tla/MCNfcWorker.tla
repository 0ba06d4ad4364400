----------------------------- MODULE MCNfcWorker -----------------------------
(* Two threads that call the worker, two tags, two runs.                   *)
EXTENDS NfcWorker, TLC

Symmetry == Permutations(Callers) \cup Permutations(Identities)
=============================================================================
