\* One session, one color, and a lost link.
CONSTANTS
  Sessions = {s1}
  Colors = {c1}
  Black = Black
  NoSession = NoSession
  UUID_QUEUE_LENGTH = 1
  RESPONSE_QUEUE_LENGTH = 2
  COLOR_QUERY_QUEUE_LENGTH = 1
  DownlinkLength = 1
  MaxConnects = 2
SPECIFICATION FairSpec
PROPERTIES
  DisconnectIsNoticed
CHECK_DEADLOCK FALSE
