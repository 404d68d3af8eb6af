SPECIFICATION Spec
CONSTANTS
  Proc = {p1, p2, p3}
  Chan = {c1, c2}
  Soft = {c1}
  None = None
SYMMETRY Symmetry
INVARIANTS
  WokenOnce
  WakeupNotSignal
  WakesAllAlone
CHECK_DEADLOCK FALSE
