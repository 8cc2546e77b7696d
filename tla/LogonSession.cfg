\* Sessions in every order and every state; two measures beside the helper's start.
SPECIFICATION Spec
CONSTANTS
  Sessions = {s0, s1, s2}
  None = None
  Special = {s0}
  MaxMeasures = 2
  MaxChanges = 2
INVARIANTS
  TypeOK
  FirstActiveIsChosen
  OneUserUnlessDisturbed
CHECK_DEADLOCK FALSE
