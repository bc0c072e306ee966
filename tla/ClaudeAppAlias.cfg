SPECIFICATION Spec
CONSTANTS
  Sessions = {s1, s2}
  NoSession = NoSession
  Aliases = {a1, a2}
  MaxTurns = 2
  QueueCapacity = 2
  Faults = {}
SYMMETRY Symmetry
INVARIANT OneConversation
