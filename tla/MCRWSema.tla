------------------------------ MODULE MCRWSema ------------------------------
(* Model checking of RWSema on small instances. *)
EXTENDS RWSema, TLC
=============================================================================
