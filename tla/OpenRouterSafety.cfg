SPECIFICATION Spec
CONSTANTS
  MaxConversations = 2
  MaxTurns = 2
  MaxOps = 2
  MaxRestarts = 1
  MaxWork = 7
  QueueCapacity = 1
  Faults = {"preferences", "conversations", "credential"}
INVARIANTS
  DoneIsKept
  SignedOutStaysOut
  ConversationIsKept
  NoOrphanTurn
  SentIsRecorded
  NothingIsStuck
