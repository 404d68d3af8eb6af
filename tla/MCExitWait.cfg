CONSTANTS
  NPROC = 4
  Parents = {1, 2}
  Stoppable = {3}
  Options <- MCOptions
SPECIFICATION FairSpec
INVARIANTS
  Family
  ZombieSeen
  NoStoppedOrphan
  TopInUse
PROPERTIES
  WaitReturns
