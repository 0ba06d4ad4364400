---------------------------- MODULE MCTagDebounce ----------------------------
(* Two tags with two contents each, every sequence of up to MaxPolls       *)
(* results.  Tags are interchangeable, and so are contents.                *)
EXTENDS TagDebounce, TLC

Symmetry == Permutations(Identities) \cup Permutations(Contents)
=============================================================================
