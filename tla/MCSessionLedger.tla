--------------------------- MODULE MCSessionLedger ---------------------------
(* SessionLedger on a few processes, with the symmetry TLC may use. *)
EXTENDS SessionLedger, TLC

Symmetry == Permutations(Runs) \cup Permutations(Deleters)
=============================================================================
