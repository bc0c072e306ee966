SPECIFICATION FairSpec
CONSTANTS
  Sessions = {s1}
  NoSession = NoSession
  Aliases = {a1, a2}
  MaxTurns = 3
  QueueCapacity = 2
  Faults = {"registration"}
PROPERTIES
  TurnsSettle
