\* One client, one press.
CONSTANTS
  Handles = {h1}
  BLE_HS_CONN_HANDLE_NONE = NONE
  Window = 1
  BUTTON_QUEUE_LENGTH = 1
  BLE_WINDOW_QUEUE_LENGTH = 2
  UUID_QUEUE_LENGTH = 1
  MaxPresses = 1
  MaxConnects = 1
SPECIFICATION Spec
INVARIANTS
  SilentWhenClosed
CHECK_DEADLOCK FALSE
