\* Two runs of the agent, from one directory or from two.
SPECIFICATION FairSpec
CONSTANTS
  Agents = {a1, a2}
  Dirs = {d1, d2}
INVARIANTS
  TypeOK
  HolderHasLock
  StaleLockNeedsFailure
PROPERTY OwnHelperEnds
CHECK_DEADLOCK FALSE
