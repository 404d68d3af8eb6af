\* Set 0 is waited for, removed and made again.
CONSTANTS
  p1 = p1
  p2 = p2
  None = None
  Proc = {p1, p2}
  semmni = 2
  semmns = 2
  semmap = 3
  semmnu = 1
  semume = 1
  semvmx = 1
  semaem = 1
  OpLists <- MCOpLists
  Sizes = {1}
  Removable = {0}
  Waiting = {0}
  Reused = {0, 1}
  Values = {0, 1}
  MaxSeq = 1
SPECIFICATION Spec
SYMMETRY MCSymmetry
INVARIANT SemsDisjoint
CHECK_DEADLOCK FALSE
