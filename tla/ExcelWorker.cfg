\* Two documents: one holds the lock, one waits; either or both time out.
SPECIFICATION FairSpec
CONSTANT Docs = {d1, d2}
INVARIANTS
  TypeOK
  LockConservation
  ExclusiveUntilRebuild
  BookBelongsInside
  RebuildConverges
PROPERTIES
  GateRefinement
  JobsRefinement
  WaiterEnds
CHECK_DEADLOCK FALSE
