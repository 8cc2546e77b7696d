\* One disconnected session is enough.
SPECIFICATION Spec
CONSTANTS
  Sessions = {s0, s1, s2}
  None = None
  Special = {s0}
  MaxMeasures = 2
  MaxChanges = 2
INVARIANT DisconnectedIsFound
CHECK_DEADLOCK FALSE
