\* Two processes and three slots: sets 0 and 2 may be removed, operations
\* wait on set 0, which is not made again after it is removed.
CONSTANTS
  p1 = p1
  p2 = p2
  None = None
  Proc = {p1, p2}
  semmni = 3
  semmns = 3
  semmap = 3
  semmnu = 1
  semume = 1
  semvmx = 2
  semaem = 2
  OpLists <- MCOpLists
  Sizes = {1, 2}
  Removable = {0, 2}
  Waiting = {0}
  Reused = {1, 2}
  Values = {0, 1}
  MaxSeq = 1
SPECIFICATION Spec
SYMMETRY MCSymmetry
INVARIANTS TypeOK  SleepersWait SemsDisjoint
PROPERTY AllOrNothing
CHECK_DEADLOCK FALSE
