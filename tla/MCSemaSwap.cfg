SPECIFICATION Spec
CONSTANTS
  runout = runout
  sched = sched
  None = None
  Proc = {p1, sched}
  Intr = {i1, i2}
  Sema = {s, e, runout}
  Lock = {}
  Mutex = {}
  Event = {e}
  Swappable = {p1}
  Wakers = {i1}
  Signallers = {i2}
  MaxCount = 2
INVARIANTS
  TypeOK
  RunQueueSound
  SleeperInOnePlace
CHECK_DEADLOCK FALSE
