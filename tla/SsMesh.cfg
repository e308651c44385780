\* Memory for a receive task, a table and two lost buffers; one failure.
CONSTANTS
  Tasks = {t1, t2}
  NULL = NULL
  Heap = 6
  TASK = 2
  BUFFER = 1
  TABLE = 1
  Others = 1
  EventsLength = 1
  MaxFailures = 1
SPECIFICATION FairSpec
INVARIANTS
  TypeOK
  OneCoreIsSafe
  OneReceiver
  HeapAccounted
PROPERTIES
  NotFoundIsTrue
  ConnectedReceives
CHECK_DEADLOCK FALSE
