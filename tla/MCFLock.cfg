SPECIFICATION Spec
CONSTANTS
  p1 = p1
  p2 = p2
  p3 = p3
  f1 = f1
  f2 = f2
  Proc = {p1, p2, p3}
  File = {f1, f2}
  Flino = {h}
  Recs = 4
  MaxEnd = 3
  Asks <- MCAsks
  None = None
SYMMETRY Symmetry
INVARIANTS
  TypeOK
  SleepersBlocked
  NoSleepCycle
  HeaderStays

  
CHECK_DEADLOCK FALSE
