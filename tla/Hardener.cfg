\* Every sequence of three of four requests, two of which allow a repeat.
SPECIFICATION FairSpec
CONSTANTS
  Dests <- MCDests
  Top = "XLSTART"
  Queues <- MCQueues
INVARIANTS
  TypeOK
  ReplacedStaysClean
PROPERTIES
  RepeatsAreAllowed
  QueueDrains
CHECK_DEADLOCK FALSE
