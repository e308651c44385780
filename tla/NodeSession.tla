---------------------------- MODULE NodeSession ----------------------------
(***************************************************************************)
(* The tasks of a node (node/main/node_main.c) between a team UUID that a  *)
(* BLE client writes and the team color that the root answers:             *)
(* uuid_session_task runs one session at a time, mesh_rx (receive_task of  *)
(* mesh_netif.c, which runs mesh_recv_cb) lets the responses in,           *)
(* color_query_task and mesh_status_task read and write the same state     *)
(* under the mutex state_lock.  The mesh event task starts and deletes     *)
(* mesh_rx when the parent connects and disconnects.                       *)
(*                                                                         *)
(* A node has one core and the event task the highest priority, so that a  *)
(* mesh event is one step.  A critical section of state_lock is one step,  *)
(* except in mesh_rx: that task can be deleted inside it.                  *)
(***************************************************************************)
EXTENDS Integers, Sequences

CONSTANTS
  Sessions,               \* the session identifiers that esp_random draws
  Colors,                 \* the team colors that the root can send
  Black,                  \* the color of a node that was sent none
  NoSession,              \* session 0: none has begun
  UUID_QUEUE_LENGTH,      \* capacities of the queues of app_main
  RESPONSE_QUEUE_LENGTH,
  COLOR_QUERY_QUEUE_LENGTH,
  DownlinkLength,         \* bound of the model: packets on the way to the node
  MaxConnects             \* bound of the model: times the parent connects

ASSUME NodeAssumption ==
  /\ Black \notin Colors
  /\ NoSession \notin Sessions
  /\ UUID_QUEUE_LENGTH \in Nat \ {0}
  /\ RESPONSE_QUEUE_LENGTH \in Nat \ {0}
  /\ COLOR_QUERY_QUEUE_LENGTH \in Nat \ {0}
  /\ DownlinkLength \in Nat \ {0}
  /\ MaxConnects \in Nat

Response == [session : Sessions, color : Colors]
Nothing == [session |-> NoSession, color |-> Black]

\* "OTHER" stands for what mesh_recv_cb ignores: a wrong size, payload length,
\* magic, version, MAC address or type.
Packet == [type : {"COLOR_RESPONSE"}, response : Response]
            \cup [type : {"COLOR_QUERY", "OTHER"}]

LedStates == {"LED_OFF", "LED_KEEP_COLOR", "LED_GREEN_FAST", "LED_RED_SOLID"}

VARIABLES
  uuid_queue,        \* number of requests in s_ctx.uuid_queue
  response_queue,    \* s_ctx.response_queue
  color_query_queue, \* number of queries in s_ctx.color_query_queue
  state_lock,        \* s_ctx.state_lock: "free", held by "mesh_rx", or held by a
                     \* receive task that was "deleted"
  led_state, color_rgb, current_session_id, mesh_connected, mesh_connected_once,
  session_pc,        \* where uuid_session_task is
  session_id,        \* its local session_id
  response,          \* its local response
  rx_pc,             \* where mesh_rx is; "none" when the task does not exist
  packet,            \* the response that mesh_rx works on
  s_connected,       \* whether the mesh has a parent
  connects,          \* how often it got one
  sent,              \* history: the sessions whose request reached the root
  answered,          \* history: the responses the root sent
  downlink           \* packets on the way from the root to the node

shared == <<led_state, color_rgb, current_session_id>>
mesh == <<mesh_connected, mesh_connected_once>>
session == <<session_pc, session_id, response>>
rx == <<rx_pc, packet>>
link == <<s_connected, connects>>
root == <<sent, answered>>
vars == <<uuid_queue, response_queue, color_query_queue, state_lock,
          shared, mesh, session, rx, link, root, downlink>>

TypeOK ==
  /\ uuid_queue \in 0 .. UUID_QUEUE_LENGTH
  /\ response_queue \in Seq(Response)
  /\ Len(response_queue) <= RESPONSE_QUEUE_LENGTH
  /\ color_query_queue \in 0 .. COLOR_QUERY_QUEUE_LENGTH
  /\ state_lock \in {"free", "mesh_rx", "deleted"}
  /\ led_state \in LedStates
  /\ color_rgb \in Colors \cup {Black}
  /\ current_session_id \in Sessions \cup {NoSession}
  /\ mesh_connected \in BOOLEAN
  /\ mesh_connected_once \in BOOLEAN
  /\ session_pc \in {"wait", "reset", "begin", "send", "await", "apply", "red", "off"}
  /\ session_id \in Sessions \cup {NoSession}
  /\ response \in Response \cup {Nothing}
  /\ rx_pc \in {"none", "recv", "lock", "compare", "enqueue"}
  /\ packet \in Response \cup {Nothing}
  /\ s_connected \in BOOLEAN
  /\ connects \in 0 .. MaxConnects
  /\ sent \in SUBSET Sessions
  /\ answered \in SUBSET Response
  /\ downlink \in Seq(Packet)
  /\ Len(downlink) <= DownlinkLength

\* xQueueSend without waiting: a full queue drops the item.
xQueueSend(queue, item, length) ==
  IF Len(queue) < length THEN Append(queue, item) ELSE queue

\* app_main is over, and the mesh has no parent yet.
Init ==
  /\ uuid_queue = 0
  /\ response_queue = <<>>
  /\ color_query_queue = 0
  /\ state_lock = "free"
  /\ led_state = "LED_OFF"
  /\ color_rgb = Black
  /\ current_session_id = NoSession
  /\ mesh_connected = FALSE
  /\ mesh_connected_once = FALSE
  /\ session_pc = "wait"
  /\ session_id = NoSession
  /\ response = Nothing
  /\ rx_pc = "none"
  /\ packet = Nothing
  /\ s_connected = FALSE
  /\ connects = 0
  /\ sent = {}
  /\ answered = {}
  /\ downlink = <<>>
-----------------------------------------------------------------------------
\* A BLE client writes a team UUID; a full queue refuses it.
gatt_uuid_access_cb ==
  /\ uuid_queue < UUID_QUEUE_LENGTH
  /\ uuid_queue' = uuid_queue + 1
  /\ UNCHANGED <<response_queue, color_query_queue, state_lock, shared,
                 mesh, session, rx, link, root, downlink>>

\* esp_random draws an identifier that no session at the root has.  (Bound of
\* the model: no session starts when there is none left.)
FreshSessions == Sessions \ (sent \cup {current_session_id})

\* uuid_session_task takes a request and looks whether the mesh is connected.
session_receive ==
  /\ session_pc = "wait"
  /\ uuid_queue > 0
  /\ FreshSessions # {}
  /\ uuid_queue' = uuid_queue - 1
  /\ session_pc' = IF s_connected THEN "reset" ELSE "red"
  /\ UNCHANGED <<response_queue, color_query_queue, state_lock, shared,
                 mesh, session_id, response, rx, link, root, downlink>>

\* xQueueReset: responses that came too late are dropped.
session_reset ==
  /\ session_pc = "reset"
  /\ response_queue' = <<>>
  /\ session_pc' = "begin"
  /\ UNCHANGED <<uuid_queue, color_query_queue, state_lock, shared, mesh,
                 session_id, response, rx, link, root, downlink>>

\* A new session starts.
session_begin ==
  /\ session_pc = "begin"
  /\ state_lock = "free"
  /\ \E s \in FreshSessions :
       /\ current_session_id' = s
       /\ session_id' = s
  /\ led_state' = "LED_GREEN_FAST"
  /\ session_pc' = "send"
  /\ UNCHANGED <<uuid_queue, response_queue, color_query_queue, state_lock,
                 color_rgb, mesh, response, rx, link, root, downlink>>

\* ss_mesh_send_to_root reaches the root,
session_send_ok ==
  /\ session_pc = "send"
  /\ sent' = sent \cup {session_id}
  /\ session_pc' = "await"
  /\ UNCHANGED <<uuid_queue, response_queue, color_query_queue, state_lock,
                 shared, mesh, session_id, response, rx, link, answered, downlink>>

\* or fails.
session_send_failed ==
  /\ session_pc = "send"
  /\ session_pc' = "red"
  /\ UNCHANGED <<uuid_queue, response_queue, color_query_queue, state_lock,
                 shared, mesh, session_id, response, rx, link, root, downlink>>

\* Mutant: the session of the response is not compared again.
MatchesAny(r) == TRUE

\* The response is one to the session that waits for it.
Matches(r) == r.session = session_id

\* The session takes a response, and drops it when it is to another session.
session_take_response ==
  /\ session_pc = "await"
  /\ response_queue # <<>>
  /\ response_queue' = Tail(response_queue)
  /\ IF Matches(Head(response_queue))
     THEN session_pc' = "apply" /\ response' = Head(response_queue)
     ELSE session_pc' = "wait" /\ UNCHANGED response
  /\ UNCHANGED <<uuid_queue, color_query_queue, state_lock, shared, mesh,
                 session_id, rx, link, root, downlink>>

\* CONFIG_SS_ROOT_RESPONSE_TIMEOUT_MS pass, and there is none.  (The 20 seconds
\* are longer than mesh_rx takes from its comparison to its xQueueSend.)
session_timeout ==
  /\ session_pc = "await"
  /\ response_queue = <<>>
  /\ rx_pc \notin {"compare", "enqueue"}
  /\ session_pc' = "red"
  /\ UNCHANGED <<uuid_queue, response_queue, color_query_queue, state_lock,
                 shared, mesh, session_id, response, rx, link, root, downlink>>

\* led_set_color_from_payload.  (It ends with close_ble_window, which waits for
\* nothing: its event is part of module BleWindow.)
led_set_color_from_payload ==
  /\ session_pc = "apply"
  /\ state_lock = "free"
  /\ color_rgb' = response.color
  /\ led_state' = "LED_KEEP_COLOR"
  /\ response' = Nothing
  /\ session_pc' = "wait"
  /\ UNCHANGED <<uuid_queue, response_queue, color_query_queue, state_lock,
                 current_session_id, mesh, session_id, rx, link, root, downlink>>

\* A session that failed shows red for 1200 ms.
session_red ==
  /\ session_pc = "red"
  /\ state_lock = "free"
  /\ led_state' = "LED_RED_SOLID"
  /\ session_pc' = "off"
  /\ UNCHANGED <<uuid_queue, response_queue, color_query_queue, state_lock,
                 color_rgb, current_session_id, mesh, session_id, response, rx, link, root,
                 downlink>>

session_off ==
  /\ session_pc = "off"
  /\ state_lock = "free"
  /\ led_state' = "LED_OFF"
  /\ session_pc' = "wait"
  /\ UNCHANGED <<uuid_queue, response_queue, color_query_queue, state_lock,
                 color_rgb, current_session_id, mesh, session_id, response, rx, link, root,
                 downlink>>
-----------------------------------------------------------------------------
\* Mutant: queries are counted, with no queue that could be full.
recv_color_query_counts ==
  /\ rx_pc = "recv"
  /\ downlink # <<>>
  /\ Head(downlink).type = "COLOR_QUERY"
  /\ downlink' = Tail(downlink)
  /\ color_query_queue' = color_query_queue + 1
  /\ UNCHANGED <<uuid_queue, response_queue, state_lock, shared, mesh,
                 session, rx, link, root>>

\* esp_mesh_recv returns a packet, and receive_task calls mesh_recv_cb.  It
\* hands a color query to color_query_task,
recv_color_query ==
  /\ rx_pc = "recv"
  /\ downlink # <<>>
  /\ Head(downlink).type = "COLOR_QUERY"
  /\ downlink' = Tail(downlink)
  /\ color_query_queue' = IF color_query_queue < COLOR_QUERY_QUEUE_LENGTH
                          THEN color_query_queue + 1
                          ELSE color_query_queue
  /\ UNCHANGED <<uuid_queue, response_queue, state_lock, shared, mesh,
                 session, rx, link, root>>

\* it compares the session of a response with the current one, and
recv_color_response ==
  /\ rx_pc = "recv"
  /\ downlink # <<>>
  /\ Head(downlink).type = "COLOR_RESPONSE"
  /\ downlink' = Tail(downlink)
  /\ packet' = Head(downlink).response
  /\ rx_pc' = "lock"
  /\ UNCHANGED <<uuid_queue, response_queue, color_query_queue, state_lock,
                 shared, mesh, session, link, root>>

\* it ignores everything else.
recv_other ==
  /\ rx_pc = "recv"
  /\ downlink # <<>>
  /\ Head(downlink).type = "OTHER"
  /\ downlink' = Tail(downlink)
  /\ UNCHANGED <<uuid_queue, response_queue, color_query_queue, state_lock,
                 shared, mesh, session, rx, link, root>>

recv_take_lock ==
  /\ rx_pc = "lock"
  /\ state_lock = "free"
  /\ state_lock' = "mesh_rx"
  /\ rx_pc' = "compare"
  /\ UNCHANGED <<uuid_queue, response_queue, color_query_queue, shared, mesh,
                 session, packet, link, root, downlink>>

\* Mutant: every response is let in.
MatchesCurrentAny(r) == TRUE

\* The response is one to the current session.
MatchesCurrent(r) == r.session = current_session_id

\* Mutant: the mutex is not given when the response is to another session.
recv_compare_not_given ==
  /\ rx_pc = "compare"
  /\ IF MatchesCurrent(packet)
     THEN rx_pc' = "enqueue" /\ state_lock' = "free" /\ UNCHANGED packet
     ELSE rx_pc' = "recv" /\ packet' = Nothing /\ UNCHANGED state_lock
  /\ UNCHANGED <<uuid_queue, response_queue, color_query_queue, shared, mesh,
                 session, link, root, downlink>>

\* The response is compared, and the mutex given.
recv_compare ==
  /\ rx_pc = "compare"
  /\ state_lock' = "free"
  /\ IF MatchesCurrent(packet)
     THEN rx_pc' = "enqueue" /\ UNCHANGED packet
     ELSE rx_pc' = "recv" /\ packet' = Nothing
  /\ UNCHANGED <<uuid_queue, response_queue, color_query_queue, shared, mesh,
                 session, link, root, downlink>>

\* A response that matched goes to the session; a full queue drops it.
recv_enqueue ==
  /\ rx_pc = "enqueue"
  /\ response_queue' = xQueueSend(response_queue, packet, RESPONSE_QUEUE_LENGTH)
  /\ rx_pc' = "recv"
  /\ packet' = Nothing
  /\ UNCHANGED <<uuid_queue, color_query_queue, state_lock, shared, mesh,
                 session, link, root, downlink>>

\* color_query_task copies the color under the mutex, for COLOR_STATUS.
color_query_task ==
  /\ color_query_queue > 0
  /\ state_lock = "free"
  /\ color_query_queue' = color_query_queue - 1
  /\ UNCHANGED <<uuid_queue, response_queue, state_lock, shared, mesh,
                 session, rx, link, root, downlink>>

\* mesh_status_task copies the state of the mesh every 500 ms.
mesh_status_task ==
  /\ state_lock = "free"
  /\ mesh_connected' = s_connected
  /\ mesh_connected_once' = (mesh_connected_once \/ s_connected)
  /\ UNCHANGED <<uuid_queue, response_queue, color_query_queue, state_lock,
                 shared, session, rx, link, root, downlink>>
-----------------------------------------------------------------------------
\* MESH_EVENT_PARENT_CONNECTED: mesh_netifs_start creates the receive task.
parent_connected ==
  /\ ~s_connected
  /\ connects < MaxConnects
  /\ connects' = connects + 1
  /\ s_connected' = TRUE
  /\ rx_pc' = "recv"
  /\ UNCHANGED <<uuid_queue, response_queue, color_query_queue, state_lock,
                 shared, mesh, session, packet, root, downlink>>

\* MESH_EVENT_PARENT_DISCONNECTED: mesh_netifs_stop deletes the receive task,
\* wherever it is.  A mutex that it holds stays taken.
parent_disconnected ==
  /\ s_connected
  /\ s_connected' = FALSE
  /\ rx_pc' = "none"
  /\ packet' = Nothing
  /\ state_lock' = IF state_lock = "mesh_rx" THEN "deleted" ELSE state_lock
  /\ UNCHANGED <<uuid_queue, response_queue, color_query_queue, shared, mesh,
                 session, connects, root, downlink>>

\* The root sends a packet to the node: it answers a session once (Root!OneReply),
\* whenever the operator or the host tool gets to it,
root_answers ==
  /\ Len(downlink) < DownlinkLength
  /\ \E s \in sent \ {r.session : r \in answered}, c \in Colors :
       LET r == [session |-> s, color |-> c] IN
         /\ answered' = answered \cup {r}
         /\ downlink' = Append(downlink, [type |-> "COLOR_RESPONSE", response |-> r])
  /\ UNCHANGED <<uuid_queue, response_queue, color_query_queue, state_lock,
                 shared, mesh, session, rx, link, sent>>

\* and asks for the color, or sends what the node ignores.
root_asks ==
  /\ Len(downlink) < DownlinkLength
  /\ \E type \in {"COLOR_QUERY", "OTHER"} : downlink' = Append(downlink, [type |-> type])
  /\ UNCHANGED <<uuid_queue, response_queue, color_query_queue, state_lock,
                 shared, mesh, session, rx, link, root>>
-----------------------------------------------------------------------------
uuid_session_task ==
  \/ session_receive
  \/ session_reset
  \/ session_begin
  \/ session_send_ok
  \/ session_send_failed
  \/ session_take_response
  \/ session_timeout
  \/ led_set_color_from_payload
  \/ session_red
  \/ session_off

receive_task ==
  \/ recv_color_query
  \/ recv_color_response
  \/ recv_other
  \/ recv_take_lock
  \/ recv_compare
  \/ recv_enqueue

mesh_event_handler ==
  \/ parent_connected
  \/ parent_disconnected

Environment ==
  \/ gatt_uuid_access_cb
  \/ root_answers
  \/ root_asks

Next ==
  \/ uuid_session_task
  \/ receive_task
  \/ color_query_task
  \/ mesh_status_task
  \/ mesh_event_handler
  \/ Environment

Spec == Init /\ [][Next]_vars

\* FreeRTOS runs every task that can go on, and queues the tasks that wait
\* for a mutex, so that one that is given again and again comes to each.  (No
\* property needs that of color_query_task.)
Fairness ==
  /\ SF_vars(uuid_session_task)
  /\ SF_vars(receive_task)
  /\ WF_vars(color_query_task)
  /\ SF_vars(mesh_status_task)

FairSpec == Spec /\ Fairness
-----------------------------------------------------------------------------
(***************************************************************************)
(* Properties.                                                             *)
(***************************************************************************)

\* "Node accepts the matching session color" (README.md, "How It Works", 7): a
\* color that the node takes on is the root's answer to its latest session,
\* whatever responses come late and however often the link was lost.
ColorMatchesSession ==
  [][color_rgb' # color_rgb =>
       [session |-> current_session_id, color |-> color_rgb'] \in answered]_vars

\* The node implements SessionClient: whatever mesh_rx lets into the queue and
\* whenever, a session sends once, ends once, and takes its own answer or none.
Client == INSTANCE SessionClient
            WITH current <- current_session_id,
                 waiting <- session_pc \in {"send", "await", "apply"},
                 color <- color_rgb

Implements == Client!Spec

\* response_queue has room for every response to the current session: those
\* to older sessions that slipped in between never fill it.
LiveResponseKept ==
  [][rx_pc = "enqueue" /\ rx_pc' = "recv" /\ packet.session = current_session_id =>
       response_queue' = Append(response_queue, packet)]_vars

\* A session comes to its end, so that the next UUID is served, unless mesh_rx
\* was deleted while it held the mutex.
SessionEnds == session_pc # "wait" ~> session_pc = "wait" \/ state_lock = "deleted"

\* "Red solid: mesh disconnected after being connected." (README.md:49): when
\* the parent is lost, mesh_connected follows, unless the parent comes back.
DisconnectIsNoticed == mesh_connected /\ ~s_connected ~> ~mesh_connected \/ s_connected
=============================================================================
