\* One replaced path is enough.
SPECIFICATION Spec
CONSTANTS
  Dests <- MCDests
  Top = "XLSTART"
  Queues <- MCQueues
INVARIANT ReplacedIsReadOnly
CHECK_DEADLOCK FALSE
