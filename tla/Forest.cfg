\* Three sessions of a node, one after the other: a late answer to the first can
\* meet the second, and push that of the second to the third.  They are all: the
\* model stops when they are over.
CONSTANTS
  Node = Node
  Sessions = {s1, s2, s3}
  NoSession = NoSession
  Black = Black
  SS_ROOT_RESPONSE_TIMEOUT_MS = 20000
  PENDING_REQUEST_TIMEOUT_MS = 30000
SPECIFICATION FairSpec
INVARIANTS
  TypeOK
  OwnColor
PROPERTIES
  RefusedForReason
  Served
CHECK_DEADLOCK FALSE
