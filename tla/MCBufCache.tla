---------------------------- MODULE MCBufCache -----------------------------
(* Model checking of BufCache: two buffers, two blocks, each read ahead    *)
(* with the other, and three processes, of which one only reads.           *)
EXTENDS BufCache, TLC

CONSTANTS p1, p2, p3, b1, b2, k1, k2

MCCalls == [p \in Proc |-> IF p = p3 THEN {"bread"} ELSE Functions]
MCAhead == [k \in Blk |-> IF k = k1 THEN k2 ELSE k1]
Symmetry == Permutations({p1, p2}) \cup Permutations(Buf)
=============================================================================
