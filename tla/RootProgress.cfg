\* Two nodes, one session each, on a table with room for one.
CONSTANTS
  Nodes = {n1, n2}
  Sessions = {s1}
  Colors = {c1}
  NoNode = NoNode
  NoSession = NoSession
  MAX_PENDING_REQUESTS = 1
  PENDING_REQUEST_TIMEOUT = 1
  RX_QUEUE_LENGTH = 2
  TickModulus = 8
  BootTick = 7
  MaxClock = 1
SPECIFICATION FairSpec
INVARIANTS
  TypeOK
PROPERTIES
  OperationsEnd
  QueuedIsPrinted
