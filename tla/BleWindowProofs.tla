-------------------------- MODULE BleWindowProofs --------------------------
(***************************************************************************)
(* Proofs about BleWindow: the handle of the client is never one of a      *)
(* connection that ended long ago, and an open window does not go silent.  *)
(***************************************************************************)
EXTENDS BleWindow, SequenceTheorems, TLAPS

\* The types, by who changes what.
QueueTypes ==
  /\ button_queue \in 0 .. BUTTON_QUEUE_LENGTH
  /\ ble_window_queue \in Seq({"OPEN", "CLOSE"})
  /\ Len(ble_window_queue) <= BLE_WINDOW_QUEUE_LENGTH
  /\ uuid_queue \in 0 .. UUID_QUEUE_LENGTH
  /\ presses \in 0 .. MaxPresses
WindowTypes ==
  /\ s_ble_window_active \in BOOLEAN
  /\ window_pc \in {"receive", "start", "restart", "open", "stop_adv", "stop_conn", "stop_clear"}
  /\ remaining \in 0 .. Window
HostTypes ==
  /\ s_ble_conn_handle \in Handles \cup {NONE}
  /\ host_pc \in {"idle", "rssi", "adv_start"}
  /\ host_handle \in Handles \cup {NONE}
  /\ advertising \in BOOLEAN
  /\ start_failed \in BOOLEAN
LinkTypes ==
  /\ connected \in SUBSET Handles
  /\ terminating \in SUBSET connected
  /\ events \in Seq(Event)
  /\ connects \in 0 .. MaxConnects

\* The connection exists, or the event of its end is under way after the first
\* n events.
Live(h, n) ==
  \/ h \in connected
  \/ \E k \in DOMAIN events : k > n /\ events[k] = [type |-> "DISCONNECT", handle |-> h]

\* The handle that is kept, the one that the host task looks at, and those it
\* has yet to look at, each seen from its place in the order of events.
Handled ==
  /\ s_ble_conn_handle # NONE => Live(s_ble_conn_handle, 0)
  /\ host_pc = "rssi" => host_handle \in Handles /\ Live(host_handle, 0)
  /\ \A k \in DOMAIN events : events[k].type = "CONNECT" => Live(events[k].handle, k)

\* Only ble_window_task opens and closes the window.
Active == window_pc \in {"start", "open", "restart"} => s_ble_window_active

\* Something keeps an open window from being silent for good.
NotSilent ==
  window_pc = "open" /\ ~start_failed =>
    advertising \/ host_pc # "idle" \/ connected # {} \/ events # <<>>

\* The inductive invariant.
IInv ==
  /\ QueueTypes /\ WindowTypes /\ HostTypes /\ LinkTypes
  /\ Handled /\ Active /\ NotSilent
-----------------------------------------------------------------------------
\* The assumption on the constants.
LEMMA Numbers ==
  /\ NONE \notin Handles /\ Handles # {}
  /\ Window \in Nat /\ Window > 0
  /\ BUTTON_QUEUE_LENGTH \in Nat /\ BUTTON_QUEUE_LENGTH > 0
  /\ BLE_WINDOW_QUEUE_LENGTH \in Nat /\ BLE_WINDOW_QUEUE_LENGTH > 0
  /\ UUID_QUEUE_LENGTH \in Nat /\ UUID_QUEUE_LENGTH > 0
  /\ MaxPresses \in Nat /\ MaxConnects \in Nat
BY WindowAssumption DEF NONE

\* The event at the front, and what remains.
LEMMA EventHandled ==
  ASSUME events \in Seq(Event), events # <<>>, events' = Tail(events)
  PROVE  /\ events' \in Seq(Event)
         /\ Head(events) = events[1] /\ Head(events) \in Event
         /\ 1 \in DOMAIN events
         /\ \A k \in DOMAIN events' : k + 1 \in DOMAIN events /\ events'[k] = events[k + 1]
         /\ \A k \in DOMAIN events : k > 1 => k - 1 \in DOMAIN events' /\ events'[k - 1] = events[k]
OBVIOUS

\* An event at the end.
LEMMA EventAdded ==
  ASSUME events \in Seq(Event), NEW e \in Event, events' = Append(events, e)
  PROVE  /\ events' \in Seq(Event) /\ events' # <<>>
         /\ Len(events) + 1 \in DOMAIN events'
         /\ events'[Len(events) + 1] = e
         /\ \A k \in DOMAIN events : k \in DOMAIN events' /\ events'[k] = events[k]
                                     /\ k < Len(events) + 1
         /\ \A k \in DOMAIN events' : k \in DOMAIN events \/ k = Len(events) + 1
<1>1. /\ Len(events) \in Nat /\ DOMAIN events = 1 .. Len(events)
      /\ DOMAIN events' = 1 .. Len(events) + 1
      /\ events' \in Seq(Event) /\ events' # <<>>
  OBVIOUS
<1>2. /\ events'[Len(events) + 1] = e
      /\ \A k \in 1 .. Len(events) : events'[k] = events[k]
  OBVIOUS
<1> QED
  BY <1>1, <1>2

\* What each type of event carries.
LEMMA EventTypes ==
  ASSUME NEW e \in Event
  PROVE  /\ e.type \in {"CONNECT", "DISCONNECT", "CONNECT_FAILED", "ADV_COMPLETE"}
         /\ e.type \in {"CONNECT", "DISCONNECT"} => e.handle \in Handles
         /\ e.type = "DISCONNECT" => e = [type |-> "DISCONNECT", handle |-> e.handle]
BY DEF Event

\* A connection stays live while events are handled that are not of its end,
LEMMA LiveHandled ==
  ASSUME events \in Seq(Event), events # <<>>, events' = Tail(events), UNCHANGED connected,
         NEW h, NEW n \in Nat, n > 0, Live(h, n)
  PROVE  Live(h, n - 1)'
<1>1. CASE h \in connected
  BY <1>1 DEF Live
<1>2. CASE \E k \in DOMAIN events : k > n /\ events[k] = [type |-> "DISCONNECT", handle |-> h]
  <2>1. PICK k \in DOMAIN events : k > n /\ events[k] = [type |-> "DISCONNECT", handle |-> h]
    BY <1>2
  <2>2. k \in Nat /\ k > 1 /\ k - 1 > n - 1
    BY <2>1
  <2>3. k - 1 \in DOMAIN events' /\ events'[k - 1] = events[k]
    BY <2>1, <2>2, EventHandled
  <2> QED
    BY <2>1, <2>2, <2>3 DEF Live
<1> QED
  BY <1>1, <1>2 DEF Live

\* and from the front, while the first event is of another kind.
LEMMA LiveAfterFirst ==
  ASSUME events \in Seq(Event), events # <<>>, events' = Tail(events), UNCHANGED connected,
         Head(events).type # "DISCONNECT", NEW h, Live(h, 0)
  PROVE  Live(h, 0)'
<1>1. CASE h \in connected
  BY <1>1 DEF Live
<1>2. CASE \E k \in DOMAIN events : k > 0 /\ events[k] = [type |-> "DISCONNECT", handle |-> h]
  <2>1. PICK k \in DOMAIN events : events[k] = [type |-> "DISCONNECT", handle |-> h]
    BY <1>2
  <2>2. events[k].type = "DISCONNECT"
    BY <2>1
  <2>3. k \in Nat /\ k > 1 /\ k - 1 > 0
    BY <2>1, <2>2, EventHandled
  <2>4. k - 1 \in DOMAIN events' /\ events'[k - 1] = events[k]
    BY <2>1, <2>3, EventHandled
  <2> QED
    BY <2>1, <2>3, <2>4 DEF Live
<1> QED
  BY <1>1, <1>2 DEF Live
-----------------------------------------------------------------------------
\* Every step keeps the types: of the queues,
LEMMA QueueStep == QueueTypes /\ [Next]_vars => QueueTypes'
<1> SUFFICES ASSUME QueueTypes, [Next]_vars PROVE QueueTypes'
  OBVIOUS
<1> USE Numbers DEF QueueTypes
<1>1. CASE UNCHANGED <<queues, presses>>
  BY <1>1 DEF queues
<1>2. CASE button_task
  BY <1>2 DEF button_task
<1>3. CASE session_task
  BY <1>3 DEF session_task, xQueueSend
<1>4. CASE uuid_session_task
  BY <1>4 DEF uuid_session_task, close_ble_window, xQueueSend
<1>5. CASE window_receive \/ window_event
  <2>1. /\ ble_window_queue # <<>> /\ ble_window_queue' = Tail(ble_window_queue)
        /\ UNCHANGED <<button_queue, uuid_queue, presses>>
    BY <1>5 DEF window_receive, window_event
  <2> QED
    BY <2>1
<1>6. CASE window_start \/ window_restart \/ window_timeout \/ stop_adv \/ stop_conn \/ stop_clear
  BY <1>1, <1>6 DEF window_start, window_restart, window_timeout, stop_adv, stop_conn, stop_clear
<1>7. CASE ble_gap_event
  BY <1>1, <1>7 DEF ble_gap_event, gap_connect, gap_accept, gap_reject, gap_not_connected,
                    gap_disconnect, host_adv_start
<1>8. CASE gatt_uuid_access_cb
  BY <1>8 DEF gatt_uuid_access_cb
<1>9. CASE client_connects \/ adv_complete \/ Tick
  BY <1>1, <1>9 DEF client_connects, adv_complete, Tick
<1>10. CASE client_leaves \/ terminated
  BY <1>1, <1>10 DEF client_leaves, terminated, LinkDown
<1> QED
  BY <1>1, <1>2, <1>3, <1>4, <1>5, <1>6, <1>7, <1>8, <1>9, <1>10 DEF Next, ble_window_task, vars, queues

\* of the window, which only its task changes,
LEMMA WindowStep ==
  QueueTypes /\ WindowTypes /\ Active /\ [Next]_vars => WindowTypes' /\ Active'
<1> SUFFICES ASSUME QueueTypes, WindowTypes, Active, [Next]_vars PROVE WindowTypes' /\ Active'
  OBVIOUS
<1> USE Numbers DEF WindowTypes, Active
<1>1. CASE UNCHANGED <<s_ble_window_active, window>>
  BY <1>1 DEF window
<1>2. CASE button_task \/ session_task \/ uuid_session_task \/ gatt_uuid_access_cb
  BY <1>1, <1>2 DEF button_task, session_task, uuid_session_task, gatt_uuid_access_cb
<1>3. CASE window_receive
  BY <1>3 DEF window_receive, StopAccess
<1>4. CASE window_start \/ window_restart
  BY <1>4 DEF window_start, window_restart
<1>5. CASE window_event
  <2>1. CASE StopAccess /\ UNCHANGED remaining
    BY <2>1 DEF StopAccess
  <2>2. CASE remaining' = Window /\ window_pc' = "restart" /\ UNCHANGED s_ble_window_active
    BY <1>5, <2>2 DEF window_event
  <2> QED
    BY <1>5, <2>1, <2>2 DEF window_event
<1>6. CASE window_timeout
  BY <1>6 DEF window_timeout, StopAccess
<1>7. CASE stop_adv \/ stop_conn \/ stop_clear
  BY <1>7 DEF stop_adv, stop_conn, stop_clear
<1>8. CASE ble_gap_event
  BY <1>1, <1>8 DEF ble_gap_event, gap_connect, gap_accept, gap_reject, gap_not_connected,
                    gap_disconnect, host_adv_start
<1>9. CASE client_connects \/ adv_complete
  BY <1>1, <1>9 DEF client_connects, adv_complete
<1>10. CASE client_leaves \/ terminated
  BY <1>1, <1>10 DEF client_leaves, terminated, LinkDown
<1>11. CASE Tick
  BY <1>11 DEF Tick
<1> QED
  BY <1>1, <1>2, <1>3, <1>4, <1>5, <1>6, <1>7, <1>8, <1>9, <1>10, <1>11
     DEF Next, ble_window_task, vars, window

\* of the connections and their events,
LEMMA LinkStep == LinkTypes /\ HostTypes /\ [Next]_vars => LinkTypes'
<1> SUFFICES ASSUME LinkTypes, HostTypes, [Next]_vars PROVE LinkTypes'
  OBVIOUS
<1> USE Numbers DEF LinkTypes
<1>1. CASE UNCHANGED links
  BY <1>1 DEF links
<1>2. CASE button_task \/ session_task \/ uuid_session_task
  BY <1>1, <1>2 DEF button_task, session_task, uuid_session_task
<1>3. CASE window_receive \/ window_start \/ window_event \/ window_restart \/ window_timeout
           \/ stop_adv \/ stop_clear
  BY <1>1, <1>3 DEF window_receive, window_start, window_event, window_restart, window_timeout,
                    stop_adv, stop_clear
<1>4. CASE stop_conn
  BY <1>4 DEF stop_conn, ble_gap_terminate
<1>5. CASE gap_connect \/ gap_not_connected \/ gap_disconnect
  <2>1. /\ events # <<>> /\ events' = Tail(events)
        /\ UNCHANGED <<connected, terminating, connects>>
    BY <1>5 DEF gap_connect, gap_not_connected, gap_disconnect
  <2> QED
    BY <2>1, EventHandled
<1>6. CASE gap_reject
  BY <1>6 DEF gap_reject, ble_gap_terminate
<1>7. CASE gap_accept \/ host_adv_start \/ Tick
  BY <1>1, <1>7 DEF gap_accept, host_adv_start, Tick
<1>8. CASE gatt_uuid_access_cb
  BY <1>8 DEF gatt_uuid_access_cb, ble_gap_terminate
<1>9. CASE client_connects
  <2>1. CASE \E h \in Handles \ connected :
               /\ connected' = connected \cup {h}
               /\ events' = Append(events, [type |-> "CONNECT", handle |-> h])
    BY <1>9, <2>1 DEF client_connects, Event
  <2>2. CASE events' = Append(events, [type |-> "CONNECT_FAILED"]) /\ UNCHANGED connected
    BY <1>9, <2>2 DEF client_connects, Event
  <2> QED
    BY <1>9, <2>1, <2>2 DEF client_connects
<1>10. CASE adv_complete
  BY <1>10 DEF adv_complete, Event
<1>11. ASSUME NEW h \in connected, LinkDown(h) PROVE LinkTypes'
  <2>1. [type |-> "DISCONNECT", handle |-> h] \in Event
    BY DEF Event
  <2> QED
    BY <1>11, <2>1 DEF LinkDown
<1>12. CASE client_leaves \/ terminated
  BY <1>11, <1>12 DEF client_leaves, terminated
<1> QED
  BY <1>1, <1>2, <1>3, <1>4, <1>5, <1>6, <1>7, <1>8, <1>9, <1>10, <1>12
     DEF Next, ble_window_task, ble_gap_event, vars

\* and of the host task.
LEMMA HostStep == LinkTypes /\ HostTypes /\ [Next]_vars => HostTypes'
<1> SUFFICES ASSUME LinkTypes, HostTypes, [Next]_vars PROVE HostTypes'
  OBVIOUS
<1> USE Numbers DEF HostTypes
<1>0. events \in Seq(Event)
  BY DEF LinkTypes
<1>1. CASE UNCHANGED <<s_ble_conn_handle, host, adv>>
  BY <1>1 DEF host, adv
<1>2. CASE button_task \/ session_task \/ uuid_session_task \/ gatt_uuid_access_cb
  BY <1>1, <1>2 DEF button_task, session_task, uuid_session_task, gatt_uuid_access_cb
<1>3. CASE window_receive \/ window_event \/ window_timeout \/ stop_conn
  BY <1>1, <1>3 DEF window_receive, window_event, window_timeout, stop_conn
<1>4. CASE window_start \/ window_restart
  BY <1>4 DEF window_start, window_restart, ble_gap_adv_start, host
<1>5. CASE stop_adv
  BY <1>5 DEF stop_adv, host
<1>6. CASE stop_clear
  BY <1>6 DEF stop_clear, host, adv
<1>7. CASE gap_connect
  <2>1. Head(events).handle \in Handles
    BY <1>0, <1>7, EventTypes DEF gap_connect
  <2> QED
    BY <1>7, <2>1 DEF gap_connect
<1>8. CASE gap_accept \/ gap_reject
  BY <1>8 DEF gap_accept, gap_reject, adv
<1>9. CASE gap_not_connected \/ gap_disconnect
  BY <1>9 DEF gap_not_connected, gap_disconnect, MayStartAdvertising
<1>10. CASE host_adv_start
  BY <1>10 DEF host_adv_start, ble_gap_adv_start
<1>11. CASE client_connects \/ adv_complete \/ Tick
  BY <1>1, <1>11 DEF client_connects, adv_complete, Tick
<1>12. CASE client_leaves \/ terminated
  BY <1>1, <1>12 DEF client_leaves, terminated, LinkDown
<1> QED
  BY <1>1, <1>2, <1>3, <1>4, <1>5, <1>6, <1>7, <1>8, <1>9, <1>10, <1>11, <1>12
     DEF Next, ble_window_task, ble_gap_event, vars
-----------------------------------------------------------------------------
\* A connection that ends does so with an event behind all others, so that who
\* knows its handle hears of it.
LEMMA HandledStep == LinkTypes /\ HostTypes /\ Handled /\ [Next]_vars => Handled'
<1> SUFFICES ASSUME LinkTypes, HostTypes, Handled, [Next]_vars PROVE Handled'
  OBVIOUS
<1> USE Numbers
<1>0. events \in Seq(Event) /\ Len(events) \in Nat /\ DOMAIN events = 1 .. Len(events)
  BY DEF LinkTypes
<1>1. ASSUME UNCHANGED <<connected, events>>,
             s_ble_conn_handle' \in {s_ble_conn_handle, NONE},
             host_pc' = "rssi" => host_pc = "rssi" /\ host_handle' = host_handle
      PROVE  Handled'
  BY <1>1 DEF Handled, Live
<1>2. ASSUME NEW e \in Event, events' = Append(events, e), UNCHANGED <<s_ble_conn_handle, host>>,
             \A g \in connected : g \in connected' \/ e = [type |-> "DISCONNECT", handle |-> g],
             e.type = "CONNECT" => e.handle \in connected'
      PROVE  Handled'
  <2>1. s_ble_conn_handle' # NONE => Live(s_ble_conn_handle, 0)'
    <3>1. CASE s_ble_conn_handle # NONE
      <4>1. Live(s_ble_conn_handle, 0)
        BY <3>1 DEF Handled
      <4> DEFINE h == s_ble_conn_handle
      <4>2. /\ \A g \in connected : g \in connected' \/ e = [type |-> "DISCONNECT", handle |-> g]
            /\ UNCHANGED s_ble_conn_handle
        BY <1>2
      <4>3. \/ h \in connected'
            \/ \E k \in DOMAIN events' : k > 0 /\ events'[k] = [type |-> "DISCONNECT", handle |-> h]
        BY <1>0, <1>2, <4>1, <4>2, EventAdded DEF Live
      <4> QED
        BY <4>2, <4>3 DEF Live
    <3> QED
      BY <1>2, <3>1
  <2>2. host_pc' = "rssi" => host_handle' \in Handles /\ Live(host_handle, 0)'
    <3>1. CASE host_pc = "rssi"
      <4>1. Live(host_handle, 0) /\ host_handle \in Handles
        BY <3>1 DEF Handled
      <4>2. UNCHANGED host_handle
        BY <1>2 DEF host
      <4>3. \/ host_handle \in connected'
            \/ \E k \in DOMAIN events' :
                 k > 0 /\ events'[k] = [type |-> "DISCONNECT", handle |-> host_handle]
        BY <1>0, <1>2, <4>1, EventAdded DEF Live
      <4> QED
        BY <4>1, <4>2, <4>3 DEF Live
    <3> QED
      BY <1>2, <3>1 DEF host
  <2>3. ASSUME NEW k \in DOMAIN events', events'[k].type = "CONNECT"
        PROVE  Live(events[k].handle, k)'
    <3>1. CASE k \in DOMAIN events
      <4>1. events'[k] = events[k] /\ k \in Nat /\ k <= Len(events)
        BY <1>0, <1>2, <3>1, EventAdded
      <4>2. Live(events[k].handle, k)
        BY <2>3, <3>1, <4>1 DEF Handled
      <4>3. \/ events[k].handle \in connected'
            \/ \E j \in DOMAIN events' :
                 j > k /\ events'[j] = [type |-> "DISCONNECT", handle |-> events[k].handle]
        BY <1>0, <1>2, <4>1, <4>2, EventAdded DEF Live
      <4> QED
        BY <4>1, <4>3 DEF Live
    <3>2. CASE k = Len(events) + 1
      BY <1>0, <1>2, <2>3, <3>2, EventAdded DEF Live
    <3> QED
      BY <1>0, <1>2, <3>1, <3>2, EventAdded
  <2> QED
    BY <2>1, <2>2, <2>3 DEF Handled
<1>3. ASSUME events # <<>>, events' = Tail(events), UNCHANGED connected,
             host_pc' = "rssi" => Head(events).type = "CONNECT" /\ host_handle' = Head(events).handle,
             \/ s_ble_conn_handle' = NONE
             \/ UNCHANGED s_ble_conn_handle /\ Head(events).type # "DISCONNECT"
      PROVE  Handled'
  <2>1. s_ble_conn_handle' # NONE => Live(s_ble_conn_handle, 0)'
    <3>1. CASE UNCHANGED s_ble_conn_handle /\ s_ble_conn_handle # NONE
               /\ Head(events).type # "DISCONNECT"
      <4>1. Live(s_ble_conn_handle, 0)
        BY <3>1 DEF Handled
      <4>2. \/ s_ble_conn_handle \in connected'
            \/ \E k \in DOMAIN events' :
                 k > 0 /\ events'[k] = [type |-> "DISCONNECT", handle |-> s_ble_conn_handle]
        <5>1. \A h : Live(h, 0) => Live(h, 0)'
          BY <1>0, <1>3, <3>1, LiveAfterFirst
        <5> QED
          BY <4>1, <5>1 DEF Live
      <4> QED
        BY <3>1, <4>2 DEF Live
    <3> QED
      BY <1>3, <3>1
  <2>2. host_pc' = "rssi" => host_handle' \in Handles /\ Live(host_handle, 0)'
    <3>1. CASE host_pc' = "rssi"
      <4>1. Head(events) = events[1] /\ Head(events) \in Event /\ 1 \in DOMAIN events
        BY <1>0, <1>3, EventHandled
      <4>2. Live(Head(events).handle, 1) /\ Head(events).handle \in Handles
        BY <1>3, <3>1, <4>1, EventTypes DEF Handled
      <4>3. host_handle' = Head(events).handle
        BY <1>3, <3>1
      <4>4. \A h : Live(h, 1) => Live(h, 1 - 1)'
        BY <1>0, <1>3, LiveHandled
      <4>5. \A h : Live(h, 1) =>
              \/ h \in connected'
              \/ \E k \in DOMAIN events' : k > 0 /\ events'[k] = [type |-> "DISCONNECT", handle |-> h]
        BY <4>4 DEF Live
      <4> QED
        BY <4>2, <4>3, <4>5 DEF Live
    <3> QED
      BY <3>1
  <2>3. ASSUME NEW k \in DOMAIN events', events'[k].type = "CONNECT"
        PROVE  Live(events[k].handle, k)'
    <3>1. k + 1 \in DOMAIN events /\ events'[k] = events[k + 1] /\ k \in Nat
      BY <1>0, <1>3, EventHandled
    <3>2. Live(events[k + 1].handle, k + 1)
      BY <2>3, <3>1 DEF Handled
    <3>3. \A h : Live(h, k + 1) => Live(h, k + 1 - 1)'
      BY <1>0, <1>3, <3>1, LiveHandled
    <3>4. \A h : Live(h, k + 1) =>
            \/ h \in connected'
            \/ \E j \in DOMAIN events' : j > k /\ events'[j] = [type |-> "DISCONNECT", handle |-> h]
      BY <3>1, <3>3 DEF Live
    <3> QED
      BY <3>1, <3>2, <3>4 DEF Live
  <2> QED
    BY <2>1, <2>2, <2>3 DEF Handled
<1>4. CASE UNCHANGED vars
  BY <1>1, <1>4 DEF vars, links, host
<1>5. CASE button_task \/ session_task \/ uuid_session_task \/ gatt_uuid_access_cb \/ Tick
  BY <1>1, <1>5 DEF button_task, session_task, uuid_session_task, gatt_uuid_access_cb, Tick, links, host
<1>6. CASE ble_window_task
  <2>1. UNCHANGED <<connected, events, host>> /\ s_ble_conn_handle' \in {s_ble_conn_handle, NONE}
    BY <1>6 DEF ble_window_task, window_receive, window_start, window_event, window_restart,
                window_timeout, stop_adv, stop_conn, stop_clear, links
  <2> QED
    BY <1>1, <2>1 DEF host
<1>7. CASE gap_connect
  <2>1. Head(events).type # "DISCONNECT"
    BY <1>7 DEF gap_connect
  <2> QED
    BY <1>3, <1>7, <2>1 DEF gap_connect
<1>8. CASE gap_accept
  <2>1. UNCHANGED <<connected, events>> /\ s_ble_conn_handle' = host_handle /\ host_pc' # "rssi"
        /\ Live(host_handle, 0)
    BY <1>8 DEF gap_accept, links, Handled
  <2> QED
    BY <2>1 DEF Handled, Live
<1>9. CASE gap_reject \/ host_adv_start
  BY <1>1, <1>9 DEF gap_reject, host_adv_start, links
<1>10. CASE gap_not_connected \/ gap_disconnect
  <2>1. host_pc' # "rssi" /\ events # <<>> /\ events' = Tail(events) /\ UNCHANGED connected
    BY <1>10 DEF gap_not_connected, gap_disconnect, MayStartAdvertising
  <2>2. \/ s_ble_conn_handle' = NONE
        \/ UNCHANGED s_ble_conn_handle /\ Head(events).type # "DISCONNECT"
    BY <1>10 DEF gap_not_connected, gap_disconnect
  <2> QED
    BY <1>3, <2>1, <2>2
<1>11. CASE client_connects
  <2>1. UNCHANGED <<s_ble_conn_handle, host>>
    BY <1>11 DEF client_connects
  <2>2. ASSUME NEW h \in Handles \ connected, connected' = connected \cup {h},
               events' = Append(events, [type |-> "CONNECT", handle |-> h])
        PROVE  Handled'
    <3> DEFINE e == [type |-> "CONNECT", handle |-> h]
    <3>1. e \in Event /\ e.handle = h /\ events' = Append(events, e)
      BY <2>2 DEF Event
    <3> HIDE DEF e
    <3> QED
      BY <1>2, <2>1, <2>2, <3>1
  <2>3. ASSUME events' = Append(events, [type |-> "CONNECT_FAILED"]), UNCHANGED connected
        PROVE  Handled'
    <3> DEFINE e == [type |-> "CONNECT_FAILED"]
    <3>1. e \in Event /\ e.type # "CONNECT" /\ events' = Append(events, e)
      BY <2>3 DEF Event
    <3> HIDE DEF e
    <3> QED
      BY <1>2, <2>1, <2>3, <3>1
  <2> QED
    BY <1>11, <2>2, <2>3 DEF client_connects
<1>12. CASE adv_complete
  <2> DEFINE e == [type |-> "ADV_COMPLETE"]
  <2>1. e \in Event /\ e.type # "CONNECT" /\ events' = Append(events, e)
    BY <1>12 DEF adv_complete, Event
  <2>2. UNCHANGED <<s_ble_conn_handle, host, connected>>
    BY <1>12 DEF adv_complete
  <2> HIDE DEF e
  <2> QED
    BY <1>2, <2>1, <2>2
<1>13. ASSUME NEW h \in connected, LinkDown(h) PROVE Handled'
  <2> DEFINE e == [type |-> "DISCONNECT", handle |-> h]
  <2>1. e \in Event /\ e.type # "CONNECT" /\ events' = Append(events, e)
    BY <1>13 DEF LinkDown, Event, LinkTypes
  <2>2. UNCHANGED <<s_ble_conn_handle, host>>
    BY <1>13 DEF LinkDown
  <2>3. \A g \in connected : g \in connected' \/ e = [type |-> "DISCONNECT", handle |-> g]
    BY <1>13 DEF LinkDown
  <2> HIDE DEF e
  <2> QED
    BY <1>2, <2>1, <2>2, <2>3
<1>14. CASE client_leaves \/ terminated
  BY <1>13, <1>14 DEF client_leaves, terminated, LinkTypes
<1> QED
  BY <1>4, <1>5, <1>6, <1>7, <1>8, <1>9, <1>10, <1>11, <1>12, <1>14 DEF Next, ble_gap_event

\* After each way in which advertising ends, the host task starts it again, or a
\* connection or an event will let it; or it failed.
LEMMA SilenceStep ==
  /\ WindowTypes /\ HostTypes /\ LinkTypes /\ Handled /\ Active /\ NotSilent
  /\ [Next]_vars
  => NotSilent'
<1> SUFFICES ASSUME WindowTypes, HostTypes, LinkTypes, Handled, Active, NotSilent, [Next]_vars
             PROVE  NotSilent'
  OBVIOUS
<1> USE Numbers DEF NotSilent
<1>0. /\ WindowTypes /\ HostTypes /\ LinkTypes
      /\ window_pc = "open" => s_ble_window_active
  BY DEF Active
<1>1. CASE UNCHANGED <<window_pc, adv, host_pc, connected, events>>
  BY <1>1 DEF adv
<1>2. CASE button_task \/ session_task \/ uuid_session_task \/ gatt_uuid_access_cb \/ Tick
  BY <1>1, <1>2 DEF button_task, session_task, uuid_session_task, gatt_uuid_access_cb, Tick, window,
                    links, host
<1>3. CASE window_receive \/ window_event \/ window_timeout \/ stop_adv \/ stop_conn \/ stop_clear
  BY <1>3 DEF window_receive, window_event, window_timeout, stop_adv, stop_conn, stop_clear, StopAccess
<1>4. CASE window_start \/ window_restart
  BY <1>4 DEF window_start, window_restart, ble_gap_adv_start, links
<1>5. CASE gap_connect
  BY <1>5 DEF gap_connect
<1>6. CASE gap_accept \/ gap_reject
  <2>1. connected # {} \/ events # <<>>
    <3>1. Live(host_handle, 0)
      BY <1>6 DEF gap_accept, gap_reject, Handled
    <3> QED
      BY <1>0, <3>1 DEF Live, LinkTypes
  <2>2. UNCHANGED <<connected, events>>
    BY <1>6 DEF gap_accept, gap_reject, links
  <2> QED
    BY <2>1, <2>2
<1>7. CASE gap_not_connected \/ gap_disconnect
  <2>1. MayStartAdvertising /\ UNCHANGED window
    BY <1>7 DEF gap_not_connected, gap_disconnect
  <2> QED
    BY <1>0, <2>1 DEF MayStartAdvertising, window
<1>8. CASE host_adv_start
  BY <1>8 DEF host_adv_start, ble_gap_adv_start, links
<1>9. CASE client_connects \/ adv_complete \/ client_leaves \/ terminated
  <2>1. events' # <<>>
    <3>1. PICK e \in Event : events' = Append(events, e)
      <4>1. [type |-> "CONNECT_FAILED"] \in Event /\ [type |-> "ADV_COMPLETE"] \in Event
            /\ \A h \in Handles : /\ [type |-> "CONNECT", handle |-> h] \in Event
                                 /\ [type |-> "DISCONNECT", handle |-> h] \in Event
        BY DEF Event
      <4>2. CASE client_connects
        BY <4>1, <4>2 DEF client_connects
      <4>3. CASE adv_complete
        BY <4>1, <4>3 DEF adv_complete
      <4>4. CASE client_leaves \/ terminated
        BY <1>0, <4>1, <4>4 DEF client_leaves, terminated, LinkDown, LinkTypes
      <4> QED
        BY <1>9, <4>2, <4>3, <4>4
    <3> QED
      BY <1>0, <3>1, EventAdded DEF LinkTypes
  <2> QED
    BY <2>1
<1> QED
  BY <1>1, <1>2, <1>3, <1>4, <1>5, <1>6, <1>7, <1>8, <1>9
     DEF Next, ble_window_task, ble_gap_event, vars, window, host, links
-----------------------------------------------------------------------------
\* The invariant holds at the start and in every step.
LEMMA Invariant == Spec => []IInv
<1>1. Init => IInv
  <2> SUFFICES ASSUME Init PROVE IInv
    OBVIOUS
  <2>0. <<>> \in Seq({"OPEN", "CLOSE"}) /\ <<>> \in Seq(Event) /\ Len(<<>>) = 0
    OBVIOUS
  <2>1. QueueTypes
    BY <2>0, Numbers DEF Init, QueueTypes
  <2>2. WindowTypes
    <3>1. 0 \in 0 .. Window
      BY Numbers
    <3> QED
      BY <3>1 DEF Init, WindowTypes
  <2>3. HostTypes
    BY DEF Init, HostTypes
  <2>4. LinkTypes
    BY <2>0, Numbers DEF Init, LinkTypes
  <2>5. Handled /\ Active /\ NotSilent
    BY DEF Init, Handled, Active, NotSilent
  <2> QED
    BY <2>1, <2>2, <2>3, <2>4, <2>5 DEF IInv
<1>2. IInv /\ [Next]_vars => IInv'
  BY QueueStep, WindowStep, HostStep, LinkStep, HandledStep, SilenceStep DEF IInv
<1> QED
  BY <1>1, <1>2, PTL DEF Spec

\* stop_ble_access never terminates a client whose handle was used before by
\* the one that it means (node_main.c:81-89, 337-368).
THEOREM HandleHolds == Spec => []HandleIsLive
<1>1. IInv => HandleIsLive
  BY DEF IInv, Handled, Live, HandleIsLive
<1> QED
  BY <1>1, Invariant, PTL

\* An open window without a client advertises, unless a start of it failed
\* (node_main.c:337-368 and 486-523).
THEOREM DiscoverableHolds == Spec => []Discoverable
<1>1. IInv => Discoverable
  BY DEF IInv, NotSilent, Discoverable
<1> QED
  BY <1>1, Invariant, PTL

\* Every variable keeps its type; no queue exceeds its length, and what is
\* terminated is connected.
THEOREM TypeCorrect == Spec => []TypeOK
<1>1. IInv => TypeOK
  BY DEF IInv, QueueTypes, WindowTypes, HostTypes, LinkTypes, TypeOK
<1> QED
  BY <1>1, Invariant, PTL
=============================================================================
