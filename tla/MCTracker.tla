------------------------------- MODULE MCTracker ------------------------------
(* Tracker for TLC: the threads of the traced program are interchangeable. *)
EXTENDS Tracker, TLC

Symmetry == Permutations(Thread)

===============================================================================
