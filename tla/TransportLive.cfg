\* A child that keeps to the protocol. The connection ends: CHECK_DEADLOCK FALSE.
SPECIFICATION FairSpec
CONSTANTS
  Calls = {c1, c2}
  Notices = {}
  NoCall = NoCall
  LastId = 2
  CommandCapacity = 2
  ReaderCapacity = 1
  EventCapacity = 1
  MaxPending = 2
  RetiredCapacity = 1
  MaxNotes = 1
  ChildFaults = {"request"}
INVARIANT LateResponsesTolerated
PROPERTIES
  CallsEnd
CHECK_DEADLOCK FALSE
