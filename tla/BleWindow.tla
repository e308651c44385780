----------------------------- MODULE BleWindow -----------------------------
(***************************************************************************)
(* The BLE connectability window of a node (node/main/node_main.c): a      *)
(* button press opens it, CONFIG_SS_BLE_CONNECT_WINDOW_SECONDS or a color  *)
(* close it.  session_task hands presses to ble_window_task, which opens   *)
(* and closes the window; the host task of NimBLE runs the callbacks       *)
(* ble_gap_event and gatt_uuid_access_cb.                                  *)
(*                                                                         *)
(* The tasks share s_ble_window_active and s_ble_conn_handle without a     *)
(* lock.  The host task has the higher priority, but a command to the      *)
(* Bluetooth controller blocks the task that gives it: the steps of both   *)
(* tasks end where they give one.                                          *)
(***************************************************************************)
EXTENDS Integers, Sequences

CONSTANTS
  Handles,                  \* connection handles; NimBLE has as many connections
  BLE_HS_CONN_HANDLE_NONE,
  Window,                   \* CONFIG_SS_BLE_CONNECT_WINDOW_SECONDS, in ticks
  BUTTON_QUEUE_LENGTH,      \* capacities of the queues of app_main
  BLE_WINDOW_QUEUE_LENGTH,
  UUID_QUEUE_LENGTH,
  MaxPresses,               \* bound of the model: presses of the button
  MaxConnects               \* bound of the model: connections that clients open

ASSUME WindowAssumption ==
  /\ Handles # {}
  /\ BLE_HS_CONN_HANDLE_NONE \notin Handles
  /\ Window \in Nat \ {0}
  /\ BUTTON_QUEUE_LENGTH \in Nat \ {0}
  /\ BLE_WINDOW_QUEUE_LENGTH \in Nat \ {0}
  /\ UUID_QUEUE_LENGTH \in Nat \ {0}
  /\ MaxPresses \in Nat
  /\ MaxConnects \in Nat

NONE == BLE_HS_CONN_HANDLE_NONE

\* What NimBLE reports to ble_gap_event.
Event == [type : {"CONNECT", "DISCONNECT"}, handle : Handles]
           \cup [type : {"CONNECT_FAILED", "ADV_COMPLETE"}]

VARIABLES
  button_queue,        \* number of presses in s_ctx.button_queue
  ble_window_queue,    \* s_ctx.ble_window_queue
  uuid_queue,          \* number of requests in s_ctx.uuid_queue
  s_ble_window_active, s_ble_conn_handle,
  window_pc,           \* where ble_window_task is
  remaining,           \* ticks to its deadline
  host_pc,             \* where the host task is
  host_handle,         \* the connection that it looks at
  advertising,         \* whether NimBLE advertises
  start_failed,        \* history: the last attempt to start advertising failed
  connected,           \* the connections that exist
  terminating,         \* those of them that the node terminates
  events,              \* events that the host task has yet to handle
  presses, connects    \* how often they happened

queues == <<button_queue, ble_window_queue, uuid_queue>>
window == <<window_pc, remaining>>
host == <<host_pc, host_handle>>
adv == <<advertising, start_failed>>
links == <<connected, terminating, events, connects>>
vars == <<queues, s_ble_window_active, s_ble_conn_handle, window, host, adv, links,
          presses>>

TypeOK ==
  /\ button_queue \in 0 .. BUTTON_QUEUE_LENGTH
  /\ ble_window_queue \in Seq({"OPEN", "CLOSE"})
  /\ Len(ble_window_queue) <= BLE_WINDOW_QUEUE_LENGTH
  /\ uuid_queue \in 0 .. UUID_QUEUE_LENGTH
  /\ s_ble_window_active \in BOOLEAN
  /\ s_ble_conn_handle \in Handles \cup {NONE}
  /\ window_pc \in {"receive", "start", "restart", "open", "stop_adv", "stop_conn", "stop_clear"}
  /\ remaining \in 0 .. Window
  /\ host_pc \in {"idle", "rssi", "adv_start"}
  /\ host_handle \in Handles \cup {NONE}
  /\ advertising \in BOOLEAN
  /\ start_failed \in BOOLEAN
  /\ connected \in SUBSET Handles
  /\ terminating \in SUBSET connected
  /\ events \in Seq(Event)
  /\ presses \in 0 .. MaxPresses
  /\ connects \in 0 .. MaxConnects

Init ==
  /\ button_queue = 0
  /\ ble_window_queue = <<>>
  /\ uuid_queue = 0
  /\ s_ble_window_active = FALSE
  /\ s_ble_conn_handle = NONE
  /\ window_pc = "receive"
  /\ remaining = 0
  /\ host_pc = "idle"
  /\ host_handle = NONE
  /\ advertising = FALSE
  /\ start_failed = FALSE
  /\ connected = {}
  /\ terminating = {}
  /\ events = <<>>
  /\ presses = 0
  /\ connects = 0

\* xQueueSend without waiting: a full queue drops the item.
xQueueSend(queue, item, length) ==
  IF Len(queue) < length THEN Append(queue, item) ELSE queue

\* ble_gap_adv_start: refused while NimBLE advertises or has no connection
\* left; otherwise it may fail, which start_ble_advertising logs.
ble_gap_adv_start ==
  \/ /\ advertising' = (advertising \/ connected # Handles)
     /\ start_failed' = FALSE
  \/ ~advertising /\ start_failed' = TRUE /\ UNCHANGED advertising

\* ble_gap_terminate: the connection ends later, see terminated.
ble_gap_terminate(h) == terminating' = terminating \cup ({h} \cap connected)
-----------------------------------------------------------------------------
\* button_task sees a press; a full queue drops it.
button_task ==
  /\ presses < MaxPresses
  /\ presses' = presses + 1
  /\ button_queue' = IF button_queue < BUTTON_QUEUE_LENGTH THEN button_queue + 1 ELSE button_queue
  /\ UNCHANGED <<ble_window_queue, uuid_queue, s_ble_window_active, s_ble_conn_handle, window,
                 host, adv, links>>

\* session_task makes a press an OPEN event, which a full queue drops.
session_task ==
  /\ button_queue > 0
  /\ button_queue' = button_queue - 1
  /\ ble_window_queue' = xQueueSend(ble_window_queue, "OPEN", BLE_WINDOW_QUEUE_LENGTH)
  /\ UNCHANGED <<uuid_queue, s_ble_window_active, s_ble_conn_handle, window, host, adv,
                 links, presses>>

\* A full queue drops the event.
close_ble_window ==
  ble_window_queue' = xQueueSend(ble_window_queue, "CLOSE", BLE_WINDOW_QUEUE_LENGTH)

\* A session of uuid_session_task ends (module NodeSession): with a color, and
\* close_ble_window, or without.
uuid_session_task ==
  /\ uuid_queue > 0
  /\ uuid_queue' = uuid_queue - 1
  /\ \/ close_ble_window
     \/ UNCHANGED ble_window_queue
  /\ UNCHANGED <<button_queue, s_ble_window_active, s_ble_conn_handle, window, host,
                 adv, links, presses>>
-----------------------------------------------------------------------------
\* ble_window_task.  stop_ble_access starts by marking the window closed.
StopAccess == s_ble_window_active' = FALSE /\ window_pc' = "stop_adv"

\* Outside a window a CLOSE event stops what goes on, and an OPEN event opens one.
window_receive ==
  /\ window_pc = "receive"
  /\ ble_window_queue # <<>>
  /\ ble_window_queue' = Tail(ble_window_queue)
  /\ IF Head(ble_window_queue) = "CLOSE"
     THEN StopAccess
     ELSE s_ble_window_active' = TRUE /\ window_pc' = "start"
  /\ UNCHANGED <<button_queue, uuid_queue, s_ble_conn_handle, remaining, host, adv,
                 links, presses>>

\* start_ble_advertising, whose check of s_ble_window_active holds in the task
\* that opens and closes the window.  The deadline counts from its return.
window_start ==
  /\ window_pc = "start"
  /\ ble_gap_adv_start
  /\ remaining' = Window
  /\ window_pc' = "open"
  /\ UNCHANGED <<queues, s_ble_window_active, s_ble_conn_handle, host, links, presses>>

\* Mutant: an OPEN event adds a window to what remains of the deadline.
window_event_adds ==
  /\ window_pc = "open"
  /\ remaining > 0
  /\ ble_window_queue # <<>>
  /\ ble_window_queue' = Tail(ble_window_queue)
  /\ IF Head(ble_window_queue) = "CLOSE"
     THEN StopAccess /\ UNCHANGED remaining
     ELSE remaining' = remaining + Window /\ window_pc' = "restart" /\ UNCHANGED s_ble_window_active
  /\ UNCHANGED <<button_queue, uuid_queue, s_ble_conn_handle, host, adv, links, presses>>

\* In a window a CLOSE event closes it, and an OPEN event renews the deadline.
window_event ==
  /\ window_pc = "open"
  /\ remaining > 0
  /\ ble_window_queue # <<>>
  /\ ble_window_queue' = Tail(ble_window_queue)
  /\ IF Head(ble_window_queue) = "CLOSE"
     THEN StopAccess /\ UNCHANGED remaining
     ELSE remaining' = Window /\ window_pc' = "restart" /\ UNCHANGED s_ble_window_active
  /\ UNCHANGED <<button_queue, uuid_queue, s_ble_conn_handle, host, adv, links, presses>>

window_restart ==
  /\ window_pc = "restart"
  /\ ble_gap_adv_start
  /\ window_pc' = "open"
  /\ UNCHANGED <<queues, s_ble_window_active, s_ble_conn_handle, remaining, host, links, presses>>

\* Mutant: the deadline ends the loop, and nothing is stopped.
window_timeout_breaks ==
  /\ window_pc = "open"
  /\ remaining = 0
  /\ window_pc' = "receive"
  /\ UNCHANGED <<queues, s_ble_window_active, s_ble_conn_handle, remaining, host, adv,
                 links, presses>>

\* The deadline closes the window.
window_timeout ==
  /\ window_pc = "open"
  /\ remaining = 0
  /\ StopAccess
  /\ UNCHANGED <<queues, s_ble_conn_handle, remaining, host, adv, links, presses>>

\* stop_ble_access goes on with ble_gap_adv_stop,
stop_adv ==
  /\ window_pc = "stop_adv"
  /\ advertising' = FALSE
  /\ window_pc' = "stop_conn"
  /\ UNCHANGED <<queues, s_ble_window_active, s_ble_conn_handle, remaining, host, start_failed, links,
                 presses>>

\* and terminates the connection,
stop_conn ==
  /\ window_pc = "stop_conn"
  /\ IF s_ble_conn_handle # NONE
     THEN ble_gap_terminate(s_ble_conn_handle) /\ window_pc' = "stop_clear"
     ELSE window_pc' = "receive" /\ UNCHANGED terminating
  /\ UNCHANGED <<queues, s_ble_window_active, s_ble_conn_handle, remaining, host, adv,
                 connected, events, connects, presses>>

\* before it forgets the handle.
stop_clear ==
  /\ window_pc = "stop_clear"
  /\ s_ble_conn_handle' = NONE
  /\ window_pc' = "receive"
  /\ UNCHANGED <<queues, s_ble_window_active, remaining, host, adv, links, presses>>
-----------------------------------------------------------------------------
\* The host task.  ble_gap_event starts advertising again while the window is
\* open: ble_gap_adv_set_fields blocks between the check and ble_gap_adv_start,
\* and may fail.
MayStartAdvertising ==
  \/ /\ host_pc' = IF s_ble_window_active THEN "adv_start" ELSE "idle"
     /\ UNCHANGED start_failed
  \/ s_ble_window_active /\ host_pc' = "idle" /\ start_failed' = TRUE

\* ble_gap_event reads the RSSI of a client that connects.
gap_connect ==
  /\ host_pc = "idle"
  /\ events # <<>> /\ Head(events).type = "CONNECT"
  /\ events' = Tail(events)
  /\ advertising' = FALSE
  /\ host_handle' = Head(events).handle
  /\ host_pc' = "rssi"
  /\ UNCHANGED <<queues, s_ble_window_active, s_ble_conn_handle, window, start_failed, connected,
                 terminating, connects, presses>>

\* The client is within range,
gap_accept ==
  /\ host_pc = "rssi"
  /\ s_ble_conn_handle' = host_handle
  /\ host_handle' = NONE
  /\ host_pc' = "idle"
  /\ UNCHANGED <<queues, s_ble_window_active, window, adv, links, presses>>

\* or is not, or its RSSI cannot be read.
gap_reject ==
  /\ host_pc = "rssi"
  /\ ble_gap_terminate(host_handle)
  /\ host_handle' = NONE
  /\ host_pc' = "idle"
  /\ UNCHANGED <<queues, s_ble_window_active, s_ble_conn_handle, window, adv, connected,
                 events, connects, presses>>

\* A connection failed, or advertising ended.
gap_not_connected ==
  /\ host_pc = "idle"
  /\ events # <<>> /\ Head(events).type \in {"CONNECT_FAILED", "ADV_COMPLETE"}
  /\ events' = Tail(events)
  /\ advertising' = FALSE
  /\ MayStartAdvertising
  /\ UNCHANGED <<queues, s_ble_window_active, s_ble_conn_handle, window, host_handle, connected,
                 terminating, connects, presses>>

\* Mutant: the handle outlives its connection.
gap_disconnect_keeps_handle ==
  /\ host_pc = "idle"
  /\ events # <<>> /\ Head(events).type = "DISCONNECT"
  /\ events' = Tail(events)
  /\ MayStartAdvertising
  /\ UNCHANGED <<queues, s_ble_window_active, s_ble_conn_handle, window, host_handle, advertising,
                 connected, terminating, connects, presses>>

\* Mutant: a client that leaves does not start advertising again.
gap_disconnect_stays_silent ==
  /\ host_pc = "idle"
  /\ events # <<>> /\ Head(events).type = "DISCONNECT"
  /\ events' = Tail(events)
  /\ s_ble_conn_handle' = NONE
  /\ UNCHANGED <<queues, s_ble_window_active, window, host, adv, connected, terminating,
                 connects, presses>>

\* A client is gone, whichever it was.
gap_disconnect ==
  /\ host_pc = "idle"
  /\ events # <<>> /\ Head(events).type = "DISCONNECT"
  /\ events' = Tail(events)
  /\ s_ble_conn_handle' = NONE
  /\ MayStartAdvertising
  /\ UNCHANGED <<queues, s_ble_window_active, window, host_handle, advertising, connected,
                 terminating, connects, presses>>

host_adv_start ==
  /\ host_pc = "adv_start"
  /\ ble_gap_adv_start
  /\ host_pc' = "idle"
  /\ UNCHANGED <<queues, s_ble_window_active, s_ble_conn_handle, window, host_handle, links,
                 presses>>

\* A client writes.  One within range has its request queued (a full queue, a
\* wrong length or a bad buffer refuses it); another is disconnected.
gatt_uuid_access_cb ==
  /\ host_pc = "idle"
  /\ \E h \in connected \ terminating :
       \/ /\ uuid_queue < UUID_QUEUE_LENGTH
          /\ uuid_queue' = uuid_queue + 1
          /\ UNCHANGED terminating
       \/ ble_gap_terminate(h) /\ UNCHANGED uuid_queue
  /\ UNCHANGED <<button_queue, ble_window_queue, s_ble_window_active, s_ble_conn_handle, window,
                 host, adv, connected, events, connects, presses>>
-----------------------------------------------------------------------------
\* The controller and the clients.  A connection ends the advertising, which
\* NimBLE notices when it handles the event.
AboutToConnect == \E k \in DOMAIN events : events[k].type \in {"CONNECT", "CONNECT_FAILED"}

client_connects ==
  /\ advertising /\ ~AboutToConnect
  /\ connects < MaxConnects
  /\ connects' = connects + 1
  /\ \/ \E h \in Handles \ connected :
          /\ connected' = connected \cup {h}
          /\ events' = Append(events, [type |-> "CONNECT", handle |-> h])
     \/ events' = Append(events, [type |-> "CONNECT_FAILED"]) /\ UNCHANGED connected
  /\ UNCHANGED <<queues, s_ble_window_active, s_ble_conn_handle, window, host, adv,
                 terminating, presses>>

\* The controller ends the advertising without a connection (it fails).
adv_complete ==
  /\ advertising /\ events = <<>>
  /\ events' = <<[type |-> "ADV_COMPLETE"]>>
  /\ UNCHANGED <<queues, s_ble_window_active, s_ble_conn_handle, window, host, adv,
                 connected, terminating, connects, presses>>

\* A connection ends.
LinkDown(h) ==
  /\ connected' = connected \ {h}
  /\ terminating' = terminating \ {h}
  /\ events' = Append(events, [type |-> "DISCONNECT", handle |-> h])
  /\ UNCHANGED <<queues, s_ble_window_active, s_ble_conn_handle, window, host, adv,
                 connects, presses>>

client_leaves == \E h \in connected \ terminating : LinkDown(h)
terminated == \E h \in terminating : LinkDown(h)

\* Time passes; ble_window_task is not late for its deadline.
Tick ==
  /\ window_pc \in {"open", "restart"}
  /\ remaining > 0
  /\ remaining' = remaining - 1
  /\ UNCHANGED <<queues, s_ble_window_active, s_ble_conn_handle, window_pc, host, adv,
                 links, presses>>
-----------------------------------------------------------------------------
ble_window_task ==
  \/ window_receive
  \/ window_start
  \/ window_event
  \/ window_restart
  \/ window_timeout
  \/ stop_adv
  \/ stop_conn
  \/ stop_clear

ble_gap_event ==
  \/ gap_connect
  \/ gap_accept
  \/ gap_reject
  \/ gap_not_connected
  \/ gap_disconnect
  \/ host_adv_start

Next ==
  \/ button_task
  \/ session_task
  \/ uuid_session_task
  \/ ble_window_task
  \/ ble_gap_event
  \/ gatt_uuid_access_cb
  \/ client_connects
  \/ adv_complete
  \/ client_leaves
  \/ terminated
  \/ Tick

Spec == Init /\ [][Next]_vars

\* FreeRTOS runs the tasks, time passes, and a connection that the node
\* terminates ends.
Fairness ==
  /\ WF_vars(session_task)
  /\ WF_vars(ble_window_task)
  /\ WF_vars(ble_gap_event)
  /\ WF_vars(terminated)
  /\ WF_vars(Tick)

FairSpec == Spec /\ Fairness
-----------------------------------------------------------------------------
(***************************************************************************)
(* Properties.                                                             *)
(***************************************************************************)

\* The handle that stop_ble_access will terminate is that of a connection, or
\* of one whose DISCONNECT event is under way: never of one that ended long ago
\* and whose number another client may have.
HandleIsLive ==
  s_ble_conn_handle # NONE =>
    \/ s_ble_conn_handle \in connected
    \/ \E k \in DOMAIN events :
         events[k] = [type |-> "DISCONNECT", handle |-> s_ble_conn_handle]

\* A window closes, whoever connects, leaves or writes meanwhile.
WindowCloses == s_ble_window_active ~> ~s_ble_window_active

\* An open window goes silent for one reason only, a start of advertising that
\* failed: else, with no client connected and nothing about one under way, the
\* node advertises, however the connections before ended.
Discoverable ==
  window_pc = "open" /\ host_pc = "idle" /\ connected = {} /\ events = <<>> /\ ~start_failed =>
    advertising

\* "BLE discoverable/connectable window after button press" (README.md:115):
\* outside the window the node does not advertise.
SilentWhenClosed == window_pc = "receive" /\ ~s_ble_window_active => ~advertising
=============================================================================
