--------------------------- MODULE MCSleepWakeup ---------------------------
(* Model checking of SleepWakeup on small instances. *)
EXTENDS SleepWakeup, TLC

Symmetry == Permutations(Proc)
=============================================================================
