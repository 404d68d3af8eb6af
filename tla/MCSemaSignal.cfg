SPECIFICATION Spec
CONSTANTS
  runout = runout
  sched = sched
  None = None
  Proc = {p1, p2}
  Intr = {i1, i2}
  Sema = {s, runout}
  Lock = {l}
  Mutex = {}
  Event = {}
  Swappable = {}
  Wakers = {i1}
  Signallers = {i2}
  MaxCount = 1
SYMMETRY Symmetry
INVARIANTS
  CountMatchesQueue
  HardSleepUninterrupted
  SignalNotSlept
  CallersLockHeld
PROPERTIES
  ReturnsUnlocked
CHECK_DEADLOCK FALSE
