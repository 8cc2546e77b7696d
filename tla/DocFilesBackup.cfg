\* A single request whose backup fails is enough.
SPECIFICATION Spec
CONSTANTS
  Paths = {p1, p2}
  Workbooks <- MCWorkbooks
  Solutions <- MCSolutions
  MaxReqs = 2
INVARIANT BackedUpBeforeRemediation
CHECK_DEADLOCK FALSE
