SPECIFICATION Spec
CONSTANTS
  Pids = {"p1", "p2", "p3", "p4"}
  Leader = "p1"
  Limit = 1
  MaxStarts = 4
  MaxMembers = 2
  Starts = {1, 2}
  MaxRoots = 3
  Instances = {1, 2}
  MaxWrites = 2
  MaxFaults = 2
  MaxLosses = 1
  Threads = {"t1", "t2", "t3", "t4"}
  Cursors = {"c1", "c2"}
  MaxPageItems = 1
  MaxPages = 5
  MaxListed = 3
  MaxRetained = 5
  MaxFrame = 7
  MaxText = 2
  MaxEvents = 3
  MaxBytes = 5
  MaxEntries = 2
  MaxNewlines = 1
  MaxColumns = 4
  MaxTracked = 1
  MaxTurns = 2
  MaxLength = 3
INVARIANTS
  ProcessesAreEnded
  FilesAreSafe
  ListingIsExact
  AnswerIsExact
  TranscriptIsKept
CHECK_DEADLOCK FALSE
