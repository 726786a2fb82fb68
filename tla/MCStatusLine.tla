---------------------------- MODULE MCStatusLine ----------------------------
(* StatusLine with a few runs, and the symmetry TLC may use. *)
EXTENDS StatusLine, TLC

Symmetry == Permutations(Runs) \cup Permutations(Lines)
=============================================================================
