\* Queues of two slots fill with the first double detection.
SPECIFICATION FairSpec
CONSTANTS
  f1 = f1
  f2 = f2
  Files <- MCFiles
  Inputs <- MCInputs
  Rules <- MCRules
  Matches <- MCMatches
  Cap = 2
INVARIANTS
  AgentTypeOK
  ClosesOnce
  ListIsExact
  ErrRaceNeedsFailure
  InfectedAreSent
PROPERTIES
  StreamRefinement
  HardenSendCompletes
  EndsOrWedged
CHECK_DEADLOCK FALSE
