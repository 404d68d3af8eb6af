SPECIFICATION FairSpec
CONSTANTS
  Proc = {p1, p2, p3}
  Lock = {l}
  None = None
  Swappable = {p1, p2, p3}
INVARIANTS
  CountMatchesHolders
  NobodyForgotten
  WokenOnce
PROPERTIES
  WriterServed
  AbstractFairSpec
CHECK_DEADLOCK FALSE
