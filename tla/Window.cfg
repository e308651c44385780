\* Two clients at a time, three presses, three connections.
CONSTANTS
  Handles = {h1, h2}
  BLE_HS_CONN_HANDLE_NONE = NONE
  Window = 1
  BUTTON_QUEUE_LENGTH = 1
  BLE_WINDOW_QUEUE_LENGTH = 2
  UUID_QUEUE_LENGTH = 1
  MaxPresses = 3
  MaxConnects = 3
SPECIFICATION FairSpec
INVARIANTS
  TypeOK
  HandleIsLive
  Discoverable
PROPERTIES
  WindowCloses
CHECK_DEADLOCK FALSE
