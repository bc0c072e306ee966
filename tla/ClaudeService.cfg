\* One session through two turns. An inline turn needs room for its two events.
CONSTANTS
  Sessions = {s1}
  NoSession = NoSession
  MaxTurns = 2
  QueueCapacity = 2
  MaxDeltas = 1
SPECIFICATION FairSpec
INVARIANTS
  TypeOK
  CreatedAtMostOnce
  UncertaintyIsReported
  TurnsAreKept
PROPERTIES
  EstablishedForGood
  ImplementsTurnStream
  WaitsEnd
