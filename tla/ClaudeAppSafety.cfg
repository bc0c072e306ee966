SPECIFICATION Spec
CONSTANTS
  Sessions = {s1, s2}
  NoSession = NoSession
  Aliases = {a1}
  MaxTurns = 2
  QueueCapacity = 2
  Faults = {"registration", "preferences"}
SYMMETRY Symmetry
INVARIANTS
  OneConversation
  OneTurnAtATime
  DoubtIsShown
  NeverAttachedSilently
  ConversationIsKept
