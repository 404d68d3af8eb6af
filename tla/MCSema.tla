------------------------------- MODULE MCSema -------------------------------
(* Model checking of Sema on small instances. *)
EXTENDS Sema, TLC

(* Processes other than sched are interchangeable. *)
Symmetry == Permutations(Proc \ {sched})
=============================================================================
