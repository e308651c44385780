\* Three sessions, one color, and a link that is lost twice.  The node really can
\* stop: see node_disconnect.
CONSTANTS
  Sessions = {s1, s2, s3}
  Colors = {c1}
  Black = Black
  NoSession = NoSession
  UUID_QUEUE_LENGTH = 1
  RESPONSE_QUEUE_LENGTH = 2
  COLOR_QUERY_QUEUE_LENGTH = 1
  DownlinkLength = 1
  MaxConnects = 2
SPECIFICATION FairSpec
INVARIANTS
  TypeOK
PROPERTIES
  Implements
  LiveResponseKept
  SessionEnds
CHECK_DEADLOCK FALSE
