SPECIFICATION FairSpec
CONSTANTS
  runout = runout
  sched = sched
  None = None
  Proc = {p1, p2, sched}
  Intr = {i1}
  Sema = {m, runout}
  Lock = {}
  Mutex = {m}
  Event = {}
  Swappable = {p1}
  Wakers = {}
  Signallers = {}
  MaxCount = 1
INVARIANTS
  MutexUnits

  
CHECK_DEADLOCK FALSE
