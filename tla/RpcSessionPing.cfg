\* One ping is enough to block the agent.
SPECIFICATION SessionSpec
CONSTANTS
  Conns = {1}
  d1 = d1
  d2 = d2
  Docs <- MCDocs
  Queues <- MCQueues
  ClientKinds = {}
  MaxSent = 0
  MaxBeside = 0
PROPERTY PingReturns
CHECK_DEADLOCK FALSE
