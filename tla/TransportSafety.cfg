\* The connection ends: CHECK_DEADLOCK FALSE.
SPECIFICATION Spec
CONSTANTS
  Calls = {c1, c2, c3, n1}
  Notices = {n1}
  NoCall = NoCall
  LastId = 2
  CommandCapacity = 1
  ReaderCapacity = 1
  EventCapacity = 1
  MaxPending = 2
  RetiredCapacity = 1
  MaxNotes = 2
  ChildFaults = {"protocol", "request"}
SYMMETRY Symmetry
VIEW Behaviour
INVARIANTS
  TypeOK
  OwnResponse
  NobodyForgotten
  DenialIsTold
  NoGaps
PROPERTIES
  FailsClosed
CHECK_DEADLOCK FALSE
