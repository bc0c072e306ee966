SPECIFICATION Spec
CONSTANTS
  MaxConversations = 1
  MaxTurns = 1
  MaxOps = 1
  MaxRestarts = 0
  MaxWork = 6
  QueueCapacity = 1
  Faults = {}
INVARIANT SendIsSettled
