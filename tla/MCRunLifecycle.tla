--------------------------- MODULE MCRunLifecycle ---------------------------
(* RunLifecycle for TLC, with the symmetry of the two signals. *)
EXTENDS RunLifecycle, TLC

Symmetry == Permutations(Signals)
=============================================================================
