SPECIFICATION Spec
CONSTANTS
  a1 = a1
  a2 = a2
  Accounts = {a1, a2}
  MaxThreads = 2
  MaxTurns = 1
  MaxLogins = 1
  MaxChanges = 1
  MaxSwitches = 1
  MaxRestarts = 0
  MaxFaults = 0
  MaxWork = 7
  QueueCapacity = 2
  Faults = {}
PROPERTIES
  ResumesOwnThreads
