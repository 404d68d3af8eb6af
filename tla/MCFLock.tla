------------------------------ MODULE MCFLock ------------------------------
(* Model checking of FLock: one process asks for every range of a file of  *)
(* three bytes, two others for the byte in the middle; two files have to   *)
(* share the only header.                                                  *)
EXTENDS FLock, TLC

CONSTANTS p1, p2, p3, f1, f2

EveryRange == {r \in (0 .. MaxEnd) \X (0 .. MaxEnd) : r[1] < r[2]}
MCAsks == [p \in Proc |-> IF p = p1 THEN EveryRange ELSE {<<1, 2>>}]

Symmetry == Permutations({p2, p3}) \cup Permutations({f1, f2})
=============================================================================
