SPECIFICATION Spec
CONSTANTS
  p1 = p1
  p2 = p2
  p3 = p3
  b1 = b1
  b2 = b2
  k1 = k1
  k2 = k2
  Proc = {p1, p2, p3}
  Buf = {b1, b2}
  Blk = {k1, k2}
  Ahead <- MCAhead
  Calls <- MCCalls
  None = None
SYMMETRY Symmetry
INVARIANTS
  OneOwner
  OneBuffer
  ReadsCurrent
  NoLostWrite
  NoFreeBufMissed
PROPERTIES
  FlushWrites
