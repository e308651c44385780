\* Two nodes with two sessions each, and room for both nodes.
CONSTANTS
  Nodes = {n1, n2}
  Sessions = {s1, s2}
  Colors = {c1}
  NoNode = NoNode
  NoSession = NoSession
  MAX_PENDING_REQUESTS = 2
  PENDING_REQUEST_TIMEOUT = 2
  RX_QUEUE_LENGTH = 1
  TickModulus = 8
  BootTick = 6
  MaxClock = 3
SYMMETRY Symmetry
SPECIFICATION Spec
INVARIANTS
  OneEntryPerNode
  OneReply
  PrunedBeforeUse
PROPERTIES
  NoEarlyExpiry
  StaleOnlyByPutBack
  Implements
