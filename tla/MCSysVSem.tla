----------------------------- MODULE MCSysVSem -----------------------------
(* Instances of SysVSem for TLC. *)
EXTENDS SysVSem, TLC

CONSTANTS p1, p2

MCOp(n, o, u, w) == [num |-> n, op |-> o, undo |-> u, nowait |-> w]

(* Take and give one unit, both undone at exit; take two semaphores, where *)
(* the second may fail; wait for zero and take it.                         *)
Take == <<MCOp(0, -1, TRUE, FALSE)>>
Give == <<MCOp(0, 1, TRUE, TRUE)>>
GiveForGood == <<MCOp(0, 2, FALSE, TRUE)>>
TakeBoth == <<MCOp(0, -1, TRUE, TRUE), MCOp(1, -1, TRUE, TRUE)>>
ZeroThenSet == <<MCOp(0, 0, FALSE, FALSE), MCOp(0, 1, TRUE, FALSE)>>

MCOpLists == {Take, Give, GiveForGood, TakeBoth, ZeroThenSet}
MCSymmetry == Permutations(Proc)
=============================================================================
