\* Two connections: the agent's and another client's, or those of two other
\* clients. Messages enough for a document, a quit and a second quit or a refusal.
SPECIFICATION SessionSpec
CONSTANTS
  Conns = {1, 2}
  d1 = d1
  d2 = d2
  Docs <- MCDocs
  Queues <- MCQueues
  ClientKinds = {"bad", "malformed", "quit"}
  MaxSent = 2
  MaxBeside = 1
INVARIANTS
  SessionTypeOK
  GracefulStopDrains
  PanicNeedsRace
  StopTellsEveryone
  HandlersNeverBlock
  NothingIsSanitized
PROPERTIES
  StopCompletes
  SanitizerReturns
CHECK_DEADLOCK FALSE
