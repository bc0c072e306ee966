SPECIFICATION Spec
CONSTANTS
  a1 = a1
  a2 = a2
  Accounts = {a1, a2}
  MaxThreads = 2
  MaxTurns = 1
  MaxLogins = 1
  MaxChanges = 1
  MaxSwitches = 1
  MaxRestarts = 1
  MaxFaults = 1
  MaxWork = 6
  QueueCapacity = 2
  Faults = {"calls", "saves"}
SYMMETRY Symmetry
INVARIANTS
  IdleIsSettled
  AuthAgrees
  OwnThread
  StreamEnds
  ThreadIsKept
  PreferencesAreValid
