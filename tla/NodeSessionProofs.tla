------------------------- MODULE NodeSessionProofs -------------------------
(***************************************************************************)
(* Proofs about NodeSession: its variables keep their types, a node takes  *)
(* on no color but the root's answer to its latest session, and its queue  *)
(* always has room for that answer.                                        *)
(***************************************************************************)
EXTENDS NodeSession, TLAPS

\* Whatever is on its way to the session was sent by the root.
Genuine ==
  /\ \A k \in DOMAIN downlink :
       downlink[k].type = "COLOR_RESPONSE" => downlink[k].response \in answered
  /\ rx_pc \in {"lock", "compare", "enqueue"} => packet \in answered
  /\ \A k \in DOMAIN response_queue : response_queue[k] \in answered

\* Between its start and its end a session is the current one, it sends once,
\* and what it applies is the answer to it.
Current ==
  /\ session_pc \in {"send", "await", "apply"} =>
       session_id \in Sessions /\ session_id = current_session_id
  /\ session_pc = "send" => session_id \notin sent
  /\ session_pc = "apply" => response \in answered /\ response.session = current_session_id

\* The inductive invariant.
IInv == TypeOK /\ Genuine /\ Current
-----------------------------------------------------------------------------
\* What xQueueSend and a receive do to a queue.
LEMMA SendIs ==
  ASSUME NEW S, NEW queue \in Seq(S), NEW item \in S, NEW length \in Nat,
         Len(queue) <= length
  PROVE  /\ xQueueSend(queue, item, length) \in Seq(S)
         /\ Len(xQueueSend(queue, item, length)) <= length
         /\ \A k \in DOMAIN xQueueSend(queue, item, length) :
              \/ xQueueSend(queue, item, length)[k] = item
              \/ k \in DOMAIN queue /\ xQueueSend(queue, item, length)[k] = queue[k]
BY DEF xQueueSend

LEMMA TailIs ==
  ASSUME NEW S, NEW queue \in Seq(S), queue # <<>>
  PROVE  /\ Head(queue) \in S
         /\ 1 \in DOMAIN queue /\ Head(queue) = queue[1]
         /\ Tail(queue) \in Seq(S)
         /\ Len(Tail(queue)) <= Len(queue)
         /\ \A k \in DOMAIN Tail(queue) : k + 1 \in DOMAIN queue /\ Tail(queue)[k] = queue[k + 1]
OBVIOUS
-----------------------------------------------------------------------------
LEMMA InitIInv == Init => IInv
<1> SUFFICES ASSUME Init PROVE IInv
  OBVIOUS
<1>1. /\ uuid_queue \in 0 .. UUID_QUEUE_LENGTH
      /\ color_query_queue \in 0 .. COLOR_QUERY_QUEUE_LENGTH
      /\ connects \in 0 .. MaxConnects
  BY NodeAssumption DEF Init
<1>2. /\ response_queue \in Seq(Response) /\ Len(response_queue) <= RESPONSE_QUEUE_LENGTH
      /\ downlink \in Seq(Packet) /\ Len(downlink) <= DownlinkLength
  <2>1. \A S : <<>> \in Seq(S) /\ Len(<<>>) = 0
    OBVIOUS
  <2> QED
    BY <2>1, NodeAssumption DEF Init
<1>3. TypeOK
  BY <1>1, <1>2 DEF Init, TypeOK, LedStates
<1> QED
  BY <1>3 DEF Init, IInv, Genuine, Current

\* The steps of uuid_session_task.
LEMMA SessionStep == IInv /\ uuid_session_task => IInv'
<1> SUFFICES ASSUME IInv, uuid_session_task PROVE IInv'
  OBVIOUS
<1> USE DEF shared, mesh, session, rx, link, root
<1>1. CASE session_receive
  <2>1. TypeOK'
    BY <1>1, NodeAssumption DEF session_receive, IInv, TypeOK
  <2> QED
    BY <1>1, <2>1 DEF session_receive, IInv, Genuine, Current
<1>2. CASE session_reset
  <2>1. TypeOK'
    BY <1>2, NodeAssumption DEF session_reset, IInv, TypeOK
  <2> QED
    BY <1>2, <2>1 DEF session_reset, IInv, Genuine, Current, TypeOK
<1>3. CASE session_begin
  <2>1. TypeOK'
    BY <1>3 DEF session_begin, IInv, TypeOK, FreshSessions, LedStates
  <2> QED
    BY <1>3, <2>1 DEF session_begin, IInv, Genuine, Current, FreshSessions
<1>4. CASE session_send_ok
  <2>1. TypeOK'
    BY <1>4 DEF session_send_ok, IInv, TypeOK, Current
  <2> QED
    BY <1>4, <2>1 DEF session_send_ok, IInv, Genuine, Current
<1>5. CASE session_send_failed
  <2>1. TypeOK'
    BY <1>5 DEF session_send_failed, IInv, TypeOK
  <2> QED
    BY <1>5, <2>1 DEF session_send_failed, IInv, Genuine, Current
<1>6. CASE session_take_response
  <2>1. /\ response_queue' \in Seq(Response)
        /\ Len(response_queue') <= RESPONSE_QUEUE_LENGTH
        /\ Head(response_queue) \in Response /\ Head(response_queue) \in answered
        /\ \A k \in DOMAIN response_queue' : response_queue'[k] \in answered
    <3>1. response_queue \in Seq(Response) /\ response_queue # <<>>
          /\ response_queue' = Tail(response_queue)
      BY <1>6 DEF session_take_response, IInv, TypeOK
    <3>2. Len(response_queue) <= RESPONSE_QUEUE_LENGTH /\ Len(response_queue) \in Nat
      BY <3>1 DEF IInv, TypeOK
    <3>3. Len(Tail(response_queue)) <= RESPONSE_QUEUE_LENGTH
      BY <3>1, <3>2, NodeAssumption
    <3> QED
      BY <3>1, <3>3, TailIs DEF IInv, Genuine
  <2>2. TypeOK'
    BY <1>6, <2>1 DEF session_take_response, IInv, TypeOK
  <2> QED
    BY <1>6, <2>1, <2>2 DEF session_take_response, Matches, IInv, Genuine, Current
<1>7. CASE session_timeout
  <2>1. TypeOK'
    BY <1>7 DEF session_timeout, IInv, TypeOK
  <2> QED
    BY <1>7, <2>1 DEF session_timeout, IInv, Genuine, Current
<1>8. CASE led_set_color_from_payload
  <2>1. response \in Response
    BY <1>8 DEF led_set_color_from_payload, IInv, TypeOK, Current
  <2>2. TypeOK'
    BY <1>8, <2>1 DEF led_set_color_from_payload, IInv, TypeOK, Response, LedStates
  <2> QED
    BY <1>8, <2>2 DEF led_set_color_from_payload, IInv, Genuine, Current
<1>9. CASE session_red
  <2>1. TypeOK'
    BY <1>9 DEF session_red, IInv, TypeOK, LedStates
  <2> QED
    BY <1>9, <2>1 DEF session_red, IInv, Genuine, Current
<1>10. CASE session_off
  <2>1. TypeOK'
    BY <1>10 DEF session_off, IInv, TypeOK, LedStates
  <2> QED
    BY <1>10, <2>1 DEF session_off, IInv, Genuine, Current
<1> QED
  BY <1>1, <1>2, <1>3, <1>4, <1>5, <1>6, <1>7, <1>8, <1>9, <1>10
     DEF uuid_session_task

\* A packet leaves downlink.
LEMMA DownlinkShrinks ==
  ASSUME IInv, downlink # <<>>, downlink' = Tail(downlink), answered' = answered
  PROVE  /\ Head(downlink) \in Packet
         /\ Head(downlink).type = "COLOR_RESPONSE" => Head(downlink).response \in answered
         /\ downlink' \in Seq(Packet) /\ Len(downlink') <= DownlinkLength
         /\ \A k \in DOMAIN downlink' :
              downlink'[k].type = "COLOR_RESPONSE" => downlink'[k].response \in answered'
<1>1. downlink \in Seq(Packet) /\ Len(downlink) <= DownlinkLength /\ Len(downlink) \in Nat
  BY DEF IInv, TypeOK
<1>2. Len(Tail(downlink)) <= DownlinkLength
  BY <1>1, NodeAssumption
<1> QED
  BY <1>1, <1>2, TailIs DEF IInv, Genuine

\* A packet that the root may send joins it.
LEMMA DownlinkGrows ==
  ASSUME IInv, Len(downlink) < DownlinkLength, NEW p \in Packet,
         downlink' = Append(downlink, p), answered \subseteq answered',
         p.type = "COLOR_RESPONSE" => p.response \in answered'
  PROVE  /\ downlink' \in Seq(Packet) /\ Len(downlink') <= DownlinkLength
         /\ \A k \in DOMAIN downlink' :
              downlink'[k].type = "COLOR_RESPONSE" => downlink'[k].response \in answered'
<1>1. downlink \in Seq(Packet) /\ Len(downlink) \in Nat
  BY DEF IInv, TypeOK
<1>2. /\ Append(downlink, p) \in Seq(Packet)
      /\ Len(Append(downlink, p)) = Len(downlink) + 1
      /\ \A k \in DOMAIN Append(downlink, p) :
           \/ k \in DOMAIN downlink /\ Append(downlink, p)[k] = downlink[k]
           \/ Append(downlink, p)[k] = p
  BY <1>1
<1>3. Len(downlink) + 1 <= DownlinkLength
  BY <1>1, NodeAssumption
<1> QED
  BY <1>2, <1>3 DEF IInv, Genuine

\* The steps of mesh_rx.
LEMMA ReceiveStep == IInv /\ receive_task => IInv'
<1> SUFFICES ASSUME IInv, receive_task PROVE IInv'
  OBVIOUS
<1> USE DEF shared, mesh, session, rx, link, root
<1>1. CASE recv_color_query
  <2>1. downlink # <<>> /\ downlink' = Tail(downlink) /\ answered' = answered
    BY <1>1 DEF recv_color_query
  <2>2. color_query_queue' \in 0 .. COLOR_QUERY_QUEUE_LENGTH
    BY <1>1, NodeAssumption DEF recv_color_query, IInv, TypeOK
  <2>3. TypeOK'
    BY <1>1, <2>1, <2>2, DownlinkShrinks DEF recv_color_query, IInv, TypeOK
  <2> QED
    BY <1>1, <2>1, <2>3, DownlinkShrinks DEF recv_color_query, IInv, Genuine, Current
<1>2. CASE recv_color_response
  <2>1. downlink # <<>> /\ downlink' = Tail(downlink) /\ answered' = answered
    BY <1>2 DEF recv_color_response
  <2>2. packet' \in Response /\ packet' \in answered
    BY <1>2, <2>1, DownlinkShrinks DEF recv_color_response, Packet
  <2>3. TypeOK'
    BY <1>2, <2>1, <2>2, DownlinkShrinks DEF recv_color_response, IInv, TypeOK
  <2> QED
    BY <1>2, <2>1, <2>2, <2>3, DownlinkShrinks DEF recv_color_response, IInv, Genuine, Current
<1>3. CASE recv_other
  <2>1. downlink # <<>> /\ downlink' = Tail(downlink) /\ answered' = answered
    BY <1>3 DEF recv_other
  <2>2. TypeOK'
    BY <1>3, <2>1, DownlinkShrinks DEF recv_other, IInv, TypeOK
  <2> QED
    BY <1>3, <2>1, <2>2, DownlinkShrinks DEF recv_other, IInv, Genuine, Current
<1>4. CASE recv_take_lock
  <2>1. TypeOK'
    BY <1>4 DEF recv_take_lock, IInv, TypeOK
  <2> QED
    BY <1>4, <2>1 DEF recv_take_lock, IInv, Genuine, Current
<1>5. CASE recv_compare
  <2>1. TypeOK'
    BY <1>5 DEF recv_compare, IInv, TypeOK
  <2> QED
    BY <1>5, <2>1 DEF recv_compare, IInv, Genuine, Current
<1>6. CASE recv_enqueue
  <2>1. packet \in Response /\ packet \in answered
    BY <1>6 DEF recv_enqueue, IInv, TypeOK, Genuine, Response, Nothing
  <2>2. /\ response_queue' \in Seq(Response)
        /\ Len(response_queue') <= RESPONSE_QUEUE_LENGTH
        /\ \A k \in DOMAIN response_queue' : response_queue'[k] \in answered
    <3>1. response_queue' = xQueueSend(response_queue, packet, RESPONSE_QUEUE_LENGTH)
      BY <1>6 DEF recv_enqueue
    <3>2. /\ response_queue \in Seq(Response)
          /\ Len(response_queue) <= RESPONSE_QUEUE_LENGTH
          /\ RESPONSE_QUEUE_LENGTH \in Nat
      BY NodeAssumption DEF IInv, TypeOK
    <3>3. \A k \in DOMAIN response_queue' :
            \/ response_queue'[k] = packet
            \/ k \in DOMAIN response_queue /\ response_queue'[k] = response_queue[k]
      BY <2>1, <3>1, <3>2, SendIs
    <3>4. /\ response_queue' \in Seq(Response)
          /\ Len(response_queue') <= RESPONSE_QUEUE_LENGTH
      BY <2>1, <3>1, <3>2, SendIs
    <3> QED
      BY <2>1, <3>3, <3>4 DEF IInv, Genuine
  <2>3. TypeOK'
    BY <1>6, <2>2 DEF recv_enqueue, IInv, TypeOK
  <2> QED
    BY <1>6, <2>2, <2>3 DEF recv_enqueue, IInv, Genuine, Current
<1> QED
  BY <1>1, <1>2, <1>3, <1>4, <1>5, <1>6 DEF receive_task

\* The steps of everything else.
LEMMA OtherStep ==
  ASSUME IInv, color_query_task \/ mesh_status_task \/ mesh_event_handler \/ Environment
  PROVE  IInv'
<1> USE DEF shared, mesh, session, rx, link, root
<1>1. CASE color_query_task
  <2>1. TypeOK'
    BY <1>1, NodeAssumption DEF color_query_task, IInv, TypeOK
  <2> QED
    BY <1>1, <2>1 DEF color_query_task, IInv, Genuine, Current
<1>2. CASE mesh_status_task
  <2>1. TypeOK'
    BY <1>2 DEF mesh_status_task, IInv, TypeOK
  <2> QED
    BY <1>2, <2>1 DEF mesh_status_task, IInv, Genuine, Current
<1>3. CASE parent_connected
  <2>1. TypeOK'
    BY <1>3, NodeAssumption DEF parent_connected, IInv, TypeOK
  <2> QED
    BY <1>3, <2>1 DEF parent_connected, IInv, Genuine, Current
<1>4. CASE parent_disconnected
  <2>1. TypeOK'
    BY <1>4 DEF parent_disconnected, IInv, TypeOK
  <2> QED
    BY <1>4, <2>1 DEF parent_disconnected, IInv, Genuine, Current
<1>5. CASE gatt_uuid_access_cb
  <2>1. TypeOK'
    BY <1>5, NodeAssumption DEF gatt_uuid_access_cb, IInv, TypeOK
  <2> QED
    BY <1>5, <2>1 DEF gatt_uuid_access_cb, IInv, Genuine, Current
<1>6. CASE root_answers
  <2>1. PICK s \in sent, c \in Colors :
          /\ answered' = answered \cup {[session |-> s, color |-> c]}
          /\ downlink' = Append(downlink, [type |-> "COLOR_RESPONSE",
                                           response |-> [session |-> s, color |-> c]])
    BY <1>6 DEF root_answers
  <2> DEFINE r == [session |-> s, color |-> c]
             p == [type |-> "COLOR_RESPONSE", response |-> r]
  <2>2. r \in Response
    BY DEF Response, IInv, TypeOK
  <2>3. p \in Packet /\ p.response = r
    BY <2>2 DEF Packet
  <2>4. answered' = answered \cup {r} /\ downlink' = Append(downlink, p)
    BY <2>1
  <2> HIDE DEF r, p
  <2>5. /\ downlink' \in Seq(Packet) /\ Len(downlink') <= DownlinkLength
        /\ \A k \in DOMAIN downlink' :
             downlink'[k].type = "COLOR_RESPONSE" => downlink'[k].response \in answered'
    BY <1>6, <2>3, <2>4, DownlinkGrows DEF root_answers
  <2>6. TypeOK'
    BY <1>6, <2>2, <2>4, <2>5 DEF root_answers, IInv, TypeOK
  <2> QED
    BY <1>6, <2>4, <2>5, <2>6 DEF root_answers, IInv, Genuine, Current
<1>7. CASE root_asks
  <2>1. PICK type \in {"COLOR_QUERY", "OTHER"} : downlink' = Append(downlink, [type |-> type])
    BY <1>7 DEF root_asks
  <2>2. [type |-> type] \in Packet /\ [type |-> type].type # "COLOR_RESPONSE"
    BY DEF Packet
  <2>3. answered' = answered /\ Len(downlink) < DownlinkLength
    BY <1>7 DEF root_asks
  <2>4. /\ downlink' \in Seq(Packet) /\ Len(downlink') <= DownlinkLength
        /\ \A k \in DOMAIN downlink' :
             downlink'[k].type = "COLOR_RESPONSE" => downlink'[k].response \in answered'
    BY <2>1, <2>2, <2>3, DownlinkGrows
  <2>5. TypeOK'
    BY <1>7, <2>4 DEF root_asks, IInv, TypeOK
  <2> QED
    BY <1>7, <2>4, <2>5 DEF root_asks, IInv, Genuine, Current
<1> QED
  BY <1>1, <1>2, <1>3, <1>4, <1>5, <1>6, <1>7 DEF mesh_event_handler, Environment

LEMMA NextKeepsIInv == IInv /\ [Next]_vars => IInv'
<1> SUFFICES ASSUME IInv, [Next]_vars PROVE IInv'
  OBVIOUS
<1>1. CASE UNCHANGED vars
  <2> USE <1>1 DEF vars, shared, mesh, session, rx, link, root
  <2>1. TypeOK'
    BY DEF IInv, TypeOK
  <2> QED
    BY <2>1 DEF IInv, Genuine, Current
<1> QED
  BY <1>1, SessionStep, ReceiveStep, OtherStep DEF Next

LEMMA InductiveInvariant == Spec => []IInv
BY InitIInv, NextKeepsIInv, PTL DEF Spec
-----------------------------------------------------------------------------
\* No queue of the node overflows, and every variable keeps its type.
THEOREM TypeCorrect == Spec => []TypeOK
<1>1. IInv => TypeOK
  BY DEF IInv
<1> QED
  BY <1>1, InductiveInvariant, PTL

\* A node takes on no color but the root's answer to its latest session
\* (README.md, "How It Works", 7), for any number of sessions and any lengths
\* of the queues.
THEOREM OnlyTheAnswer == Spec => ColorMatchesSession
<1> DEFINE Step == color_rgb' # color_rgb =>
                     [session |-> current_session_id, color |-> color_rgb'] \in answered
<1>1. IInv /\ [Next]_vars => [Step]_vars
  <2> SUFFICES ASSUME IInv, Next, color_rgb' # color_rgb
               PROVE  [session |-> current_session_id, color |-> color_rgb'] \in answered
    BY DEF vars, shared
  <2>1. led_set_color_from_payload
    BY DEF Next, uuid_session_task, session_receive, session_reset, session_begin,
       session_send_ok, session_send_failed, session_take_response, session_timeout,
       session_red, session_off, receive_task, recv_color_query,
       recv_color_response, recv_other, recv_take_lock, recv_compare, recv_enqueue,
       color_query_task, mesh_status_task, mesh_event_handler, parent_connected,
       parent_disconnected, Environment, gatt_uuid_access_cb, root_answers, root_asks,
       shared
  <2>2. /\ response \in Response /\ response \in answered
        /\ response.session = current_session_id
        /\ color_rgb' = response.color
    BY <2>1 DEF led_set_color_from_payload, IInv, TypeOK, Current
  <2>3. [session |-> response.session, color |-> response.color] = response
    BY <2>2 DEF Response
  <2> QED
    BY <2>2, <2>3
<1> QED
  BY <1>1, InductiveInvariant, PTL DEF Spec, ColorMatchesSession
-----------------------------------------------------------------------------
\* What the refinement hides: nothing that SessionClient sees changes.
Hidden == UNCHANGED <<shared, session, root>>

LEMMA InitRefines == Init => Client!Init
BY DEF Init, Client!Init

\* A step of uuid_session_task is one of SessionClient, or hidden from it.
LEMMA SessionRefines ==
  IInv /\ uuid_session_task => Client!Next \/ UNCHANGED Client!clientVars
<1> SUFFICES ASSUME IInv, uuid_session_task
             PROVE  Client!Next \/ UNCHANGED Client!clientVars
  OBVIOUS
<1> USE DEF shared, session, root, Client!clientVars
<1>1. CASE session_begin
  <2>1. PICK s \in FreshSessions : current_session_id' = s
    BY <1>1 DEF session_begin
  <2>2. s \in Sessions /\ Client!Begin(s)
    BY <1>1, <2>1 DEF session_begin, FreshSessions, Client!Begin
  <2> QED
    BY <2>2 DEF Client!Next
<1>2. CASE session_send_ok
  <2>1. Client!Transmit
    BY <1>2 DEF session_send_ok, Client!Transmit, IInv, Current
  <2> QED
    BY <2>1 DEF Client!Next
<1>3. CASE session_send_failed
  <2>1. Client!GiveUp
    BY <1>3 DEF session_send_failed, Client!GiveUp
  <2> QED
    BY <2>1 DEF Client!Next
<1>4. CASE session_take_response
  <2>1. CASE Matches(Head(response_queue))
    BY <1>4, <2>1 DEF session_take_response
  <2>2. CASE ~Matches(Head(response_queue))
    <3>1. Client!GiveUp
      BY <1>4, <2>2 DEF session_take_response, Client!GiveUp
    <3> QED
      BY <3>1 DEF Client!Next
  <2> QED
    BY <2>1, <2>2
<1>5. CASE session_timeout
  <2>1. Client!GiveUp
    BY <1>5 DEF session_timeout, Client!GiveUp
  <2> QED
    BY <2>1 DEF Client!Next
<1>6. CASE led_set_color_from_payload
  <2>1. response \in answered /\ response.session = current_session_id
        /\ response \in Client!Response
    BY <1>6 DEF led_set_color_from_payload, IInv, TypeOK, Current, Response, Client!Response
  <2>2. Client!Accept(response)
    BY <1>6, <2>1 DEF led_set_color_from_payload, Client!Accept
  <2> QED
    BY <2>1, <2>2 DEF Client!Next
<1>7. CASE session_receive
  BY <1>7 DEF session_receive
<1>8. CASE session_reset
  BY <1>8 DEF session_reset
<1>9. CASE session_red
  BY <1>9 DEF session_red
<1>10. CASE session_off
  BY <1>10 DEF session_off
<1> QED
  BY <1>1, <1>2, <1>3, <1>4, <1>5, <1>6, <1>7, <1>8, <1>9, <1>10 DEF uuid_session_task

\* The root's answer is that of SessionClient.
LEMMA AnswerRefines == IInv /\ root_answers => Client!Next
<1> SUFFICES ASSUME IInv, root_answers PROVE Client!Next
  OBVIOUS
<1>1. PICK s \in sent \ {r.session : r \in answered}, c \in Colors :
        answered' = answered \cup {[session |-> s, color |-> c]}
  BY DEF root_answers
<1> DEFINE reply == [session |-> s, color |-> c]
<1>2. reply \in Client!Response
  BY DEF Client!Response, IInv, TypeOK
<1>3. Client!Reply(reply)
  BY <1>1 DEF root_answers, Client!Reply, shared, session
<1> QED
  BY <1>2, <1>3 DEF Client!Next

\* Everything else is hidden from SessionClient.
LEMMA OtherRefines ==
  ASSUME \/ receive_task \/ color_query_task \/ mesh_status_task \/ mesh_event_handler
         \/ gatt_uuid_access_cb \/ root_asks
  PROVE  Hidden
BY DEF Hidden, shared, session, root, receive_task, recv_color_query, recv_color_response,
       recv_other, recv_take_lock, recv_compare, recv_enqueue, color_query_task,
       mesh_status_task, mesh_event_handler, parent_connected, parent_disconnected,
       gatt_uuid_access_cb, root_asks

LEMMA StepRefines == IInv /\ [Next]_vars => [Client!Next]_(Client!clientVars)
<1> SUFFICES ASSUME IInv, [Next]_vars
             PROVE  Client!Next \/ UNCHANGED Client!clientVars
  OBVIOUS
<1>1. Hidden => UNCHANGED Client!clientVars
  BY DEF Hidden, shared, session, root, Client!clientVars
<1>2. UNCHANGED vars => Hidden
  BY DEF vars, Hidden, shared, session, root
<1> QED
  BY <1>1, <1>2, SessionRefines, AnswerRefines, OtherRefines DEF Next, Environment

\* The node, with its tasks in any order and its receive task deleted anywhere,
\* implements SessionClient: one session at a time, each sent once, and a color
\* taken on only as the root's answer to the session that waits.
THEOREM Refinement == Spec => Implements
<1>1. Spec => [][Client!Next]_(Client!clientVars)
  BY InductiveInvariant, StepRefines, PTL DEF Spec
<1> QED
  BY <1>1, InitRefines, PTL DEF Spec, Implements, Client!Spec
-----------------------------------------------------------------------------
\* mesh_rx runs only while the parent is connected.
ReceiverConnected == ~s_connected => rx_pc = "none"

\* The session that an element of downlink answers.
Answers(k) == downlink[k].type = "COLOR_RESPONSE"

\* Each response is in one place: on the way to the node, with mesh_rx, or in
\* response_queue.  (The root answers a session once, and only one that was sent.)
Apart ==
  /\ \A r \in answered : r.session \in sent
  /\ \A j, k \in DOMAIN downlink :
       Answers(j) /\ Answers(k) /\ downlink[j].response.session = downlink[k].response.session =>
         j = k
  /\ \A j, k \in DOMAIN response_queue :
       response_queue[j].session = response_queue[k].session => j = k
  /\ \A j \in DOMAIN downlink, k \in DOMAIN response_queue :
       Answers(j) => downlink[j].response.session # response_queue[k].session
  /\ rx_pc \in {"lock", "compare", "enqueue"} =>
       /\ \A j \in DOMAIN downlink : Answers(j) => downlink[j].response.session # packet.session
       /\ \A k \in DOMAIN response_queue : response_queue[k].session # packet.session

\* mesh_rx is past the comparison with a session that is over by now.
Late == rx_pc = "enqueue" /\ packet.session # current_session_id

\* At most one response to an older session slips in, between the xQueueReset and
\* the start of the session; and a session that was sent does not leave it behind.
OneLate ==
  /\ Late => response_queue = <<>>
  /\ \A k \in DOMAIN response_queue :
       k > 1 => response_queue[k].session = current_session_id
  /\ session_pc \notin {"send", "await"} /\ current_session_id \in sent =>
       /\ ~Late
       /\ \A k \in DOMAIN response_queue : response_queue[k].session = current_session_id
  /\ session_pc = "begin" =>
       /\ Len(response_queue) <= 1
       /\ rx_pc = "enqueue" => response_queue = <<>>

LEMMA ConnectedStep == ReceiverConnected /\ [Next]_vars => ReceiverConnected'
BY DEF ReceiverConnected, Next, vars, uuid_session_task, session_receive, session_reset,
       session_begin, session_send_ok, session_send_failed, session_take_response,
       session_timeout, led_set_color_from_payload, session_red, session_off, receive_task,
       recv_color_query, recv_color_response, recv_other, recv_take_lock, recv_compare,
       recv_enqueue, color_query_task, mesh_status_task, mesh_event_handler, parent_connected,
       parent_disconnected, Environment, gatt_uuid_access_cb, root_answers, root_asks, rx, link

\* Taking the head of a queue, or none, leaves the responses apart.
LEMMA ApartShrinks ==
  ASSUME Apart, answered' = answered, sent \subseteq sent',
         NEW d \in {0, 1}, NEW e \in {0, 1},
         \A k \in DOMAIN response_queue' : k \in Nat /\ k + d \in DOMAIN response_queue
           /\ response_queue'[k] = response_queue[k + d],
         \A k \in DOMAIN downlink' : k \in Nat /\ k + e \in DOMAIN downlink
           /\ downlink'[k] = downlink[k + e],
         rx_pc' \in {"lock", "compare", "enqueue"} =>
           rx_pc \in {"lock", "compare", "enqueue"} /\ packet' = packet
  PROVE  Apart'
<1>1. \A k \in DOMAIN downlink' : Answers(k)' => Answers(k + e)
  BY DEF Answers
<1>2. ASSUME NEW j \in DOMAIN downlink', NEW k \in DOMAIN downlink', Answers(j)', Answers(k)',
             downlink'[j].response.session = downlink'[k].response.session
      PROVE  j = k
  <2>1. j + e = k + e
    BY <1>1, <1>2 DEF Apart
  <2> QED
    BY <2>1
<1>3. ASSUME NEW j \in DOMAIN response_queue', NEW k \in DOMAIN response_queue',
             response_queue'[j].session = response_queue'[k].session
      PROVE  j = k
  <2>1. j + d = k + d
    BY <1>3 DEF Apart
  <2> QED
    BY <2>1
<1>4. \A j \in DOMAIN downlink', k \in DOMAIN response_queue' :
        Answers(j)' => downlink'[j].response.session # response_queue'[k].session
  BY <1>1 DEF Apart
<1>5. rx_pc' \in {"lock", "compare", "enqueue"} =>
        /\ \A j \in DOMAIN downlink' : Answers(j)' => downlink'[j].response.session # packet'.session
        /\ \A k \in DOMAIN response_queue' : response_queue'[k].session # packet'.session
  BY <1>1 DEF Apart
<1>6. \A r \in answered' : r.session \in sent'
  BY DEF Apart
<1> QED
  BY <1>2, <1>3, <1>4, <1>5, <1>6 DEF Apart

LEMMA ApartStep == IInv /\ Apart /\ [Next]_vars => Apart'
<1> SUFFICES ASSUME IInv, Apart, [Next]_vars PROVE Apart'
  OBVIOUS
<1> USE DEF session, rx, link, root
<1>0. response_queue \in Seq(Response) /\ downlink \in Seq(Packet)
  BY DEF IInv, TypeOK
<1>1. \A k \in DOMAIN response_queue : k \in Nat /\ k + 0 = k
  BY <1>0
<1>2. \A k \in DOMAIN downlink : k \in Nat /\ k + 0 = k
  BY <1>0
<1>3. \/ UNCHANGED vars \/ session_receive \/ session_begin \/ session_send_ok
      \/ session_send_failed \/ session_timeout \/ led_set_color_from_payload \/ session_red
      \/ session_off \/ recv_take_lock \/ recv_compare \/ color_query_task \/ mesh_status_task
      \/ mesh_event_handler \/ gatt_uuid_access_cb
      => Apart'
  <2> SUFFICES ASSUME \/ UNCHANGED vars \/ session_receive \/ session_begin \/ session_send_ok
                      \/ session_send_failed \/ session_timeout \/ led_set_color_from_payload
                      \/ session_red \/ session_off \/ recv_take_lock \/ recv_compare
                      \/ color_query_task \/ mesh_status_task \/ mesh_event_handler
                      \/ gatt_uuid_access_cb
               PROVE  Apart'
    OBVIOUS
  <2>1. /\ UNCHANGED <<response_queue, downlink, answered>>
        /\ sent \subseteq sent'
        /\ rx_pc' \in {"lock", "compare", "enqueue"} =>
             rx_pc \in {"lock", "compare", "enqueue"} /\ packet' = packet
    BY DEF vars, session_receive, session_begin, session_send_ok, session_send_failed,
       session_timeout, led_set_color_from_payload, session_red, session_off, recv_take_lock,
       recv_compare, color_query_task, mesh_status_task, mesh_event_handler, parent_connected,
       parent_disconnected, gatt_uuid_access_cb
  <2>2. 0 \in {0, 1}
    OBVIOUS
  <2>3. \A k \in DOMAIN response_queue' : k \in Nat /\ k + 0 \in DOMAIN response_queue
          /\ response_queue'[k] = response_queue[k + 0]
    BY <1>1, <2>1
  <2>4. \A k \in DOMAIN downlink' : k \in Nat /\ k + 0 \in DOMAIN downlink
          /\ downlink'[k] = downlink[k + 0]
    BY <1>2, <2>1
  <2> QED
    BY <2>1, <2>2, <2>3, <2>4, ApartShrinks
<1>4. CASE session_reset \/ session_take_response
  <2>1. /\ UNCHANGED <<downlink, answered, sent, rx_pc, packet>>
        /\ response_queue' = <<>> \/ (response_queue # <<>> /\ response_queue' = Tail(response_queue))
    BY <1>4 DEF session_reset, session_take_response
  <2>2. \A k \in DOMAIN response_queue' : k \in Nat /\ k + 1 \in DOMAIN response_queue
          /\ response_queue'[k] = response_queue[k + 1]
    BY <1>0, <2>1
  <2>3. \A k \in DOMAIN downlink' : k \in Nat /\ k + 0 \in DOMAIN downlink
          /\ downlink'[k] = downlink[k + 0]
    BY <1>2, <2>1
  <2>4. 0 \in {0, 1} /\ 1 \in {0, 1}
    OBVIOUS
  <2> QED
    BY <2>1, <2>2, <2>3, <2>4, ApartShrinks
<1>5. CASE recv_color_query \/ recv_other
  <2>1. /\ UNCHANGED <<response_queue, answered, sent, rx_pc, packet>>
        /\ downlink # <<>> /\ downlink' = Tail(downlink)
    BY <1>5 DEF recv_color_query, recv_other
  <2>2. \A k \in DOMAIN response_queue' : k \in Nat /\ k + 0 \in DOMAIN response_queue
          /\ response_queue'[k] = response_queue[k + 0]
    BY <1>1, <2>1
  <2>3. \A k \in DOMAIN downlink' : k \in Nat /\ k + 1 \in DOMAIN downlink
          /\ downlink'[k] = downlink[k + 1]
    BY <1>0, <2>1
  <2>4. 0 \in {0, 1} /\ 1 \in {0, 1}
    OBVIOUS
  <2> QED
    BY <2>1, <2>2, <2>3, <2>4, ApartShrinks
<1>6. CASE recv_color_response
  <2>1. /\ UNCHANGED <<response_queue, answered, sent>>
        /\ downlink # <<>> /\ downlink' = Tail(downlink)
        /\ Head(downlink).type = "COLOR_RESPONSE"
        /\ packet' = Head(downlink).response
    BY <1>6 DEF recv_color_response
  <2>2. /\ \A k \in DOMAIN downlink' : k \in Nat /\ k + 1 \in DOMAIN downlink /\ k + 1 # 1
             /\ downlink'[k] = downlink[k + 1]
        /\ 1 \in DOMAIN downlink /\ packet' = downlink[1].response /\ Answers(1)
    BY <1>0, <2>1 DEF Answers
  <2>3. \A k \in DOMAIN downlink' : Answers(k)' => Answers(k + 1)
    BY <2>2 DEF Answers
  <2>4. ASSUME NEW j \in DOMAIN downlink', NEW k \in DOMAIN downlink', Answers(j)', Answers(k)',
               downlink'[j].response.session = downlink'[k].response.session
        PROVE  j = k
    <3>1. j + 1 = k + 1
      BY <2>2, <2>3, <2>4 DEF Apart
    <3> QED
      BY <2>2, <3>1
  <2>5. \A j \in DOMAIN downlink' : Answers(j)' => downlink'[j].response.session # packet'.session
    BY <2>2, <2>3 DEF Apart
  <2>6. \A k \in DOMAIN response_queue' : response_queue'[k].session # packet'.session
    BY <2>1, <2>2 DEF Apart
  <2>7. \A j \in DOMAIN downlink', k \in DOMAIN response_queue' :
          Answers(j)' => downlink'[j].response.session # response_queue'[k].session
    BY <2>1, <2>2, <2>3 DEF Apart
  <2>8. \A j, k \in DOMAIN response_queue' :
          response_queue'[j].session = response_queue'[k].session => j = k
    BY <2>1 DEF Apart
  <2> QED
    BY <2>1, <2>4, <2>5, <2>6, <2>7, <2>8 DEF Apart
<1>7. CASE recv_enqueue
  <2>1. /\ rx_pc = "enqueue" /\ rx_pc' = "recv"
        /\ response_queue' \in {response_queue, Append(response_queue, packet)}
        /\ UNCHANGED <<downlink, answered, sent>>
    BY <1>7 DEF recv_enqueue, xQueueSend
  <2>2. \A k \in DOMAIN response_queue' :
          \/ k \in DOMAIN response_queue /\ response_queue'[k] = response_queue[k]
          \/ /\ k = Len(response_queue) + 1 /\ k \notin DOMAIN response_queue
             /\ response_queue'[k] = packet
    BY <1>0, <2>1
  <2>3. \A j, k \in DOMAIN response_queue' :
          response_queue'[j].session = response_queue'[k].session => j = k
    BY <2>1, <2>2 DEF Apart
  <2>4. \A j \in DOMAIN downlink', k \in DOMAIN response_queue' :
          Answers(j)' => downlink'[j].response.session # response_queue'[k].session
    BY <2>1, <2>2 DEF Apart, Answers
  <2>5. \A j, k \in DOMAIN downlink' :
          Answers(j)' /\ Answers(k)' /\ downlink'[j].response.session = downlink'[k].response.session
            => j = k
    BY <2>1 DEF Apart, Answers
  <2> QED
    BY <2>1, <2>3, <2>4, <2>5 DEF Apart
<1>8. CASE root_answers \/ root_asks
  <2>1. PICK p \in Packet :
          /\ downlink' = Append(downlink, p)
          /\ UNCHANGED <<response_queue, rx_pc, packet, sent>>
          /\ \/ answered' = answered /\ p.type # "COLOR_RESPONSE"
             \/ /\ answered' = answered \cup {p.response}
                /\ p.response.session \in sent
                /\ \A r \in answered : r.session # p.response.session
    <3>1. CASE root_asks
      <4>1. PICK type \in {"COLOR_QUERY", "OTHER"} : downlink' = Append(downlink, [type |-> type])
        BY <3>1 DEF root_asks
      <4>2. [type |-> type] \in Packet /\ [type |-> type].type # "COLOR_RESPONSE"
        BY DEF Packet
      <4> QED
        BY <3>1, <4>1, <4>2 DEF root_asks
    <3>2. CASE root_answers
      <4>1. PICK s \in sent \ {r.session : r \in answered}, c \in Colors :
              /\ answered' = answered \cup {[session |-> s, color |-> c]}
              /\ downlink' = Append(downlink, [type |-> "COLOR_RESPONSE",
                                               response |-> [session |-> s, color |-> c]])
        BY <3>2 DEF root_answers
      <4> DEFINE r == [session |-> s, color |-> c]
                 q == [type |-> "COLOR_RESPONSE", response |-> r]
      <4>2. r \in Response /\ r.session = s
        BY DEF Response, IInv, TypeOK
      <4>3. q \in Packet /\ q.response = r
        BY <4>2 DEF Packet
      <4>4. answered' = answered \cup {r} /\ downlink' = Append(downlink, q)
        BY <4>1
      <4> HIDE DEF r, q
      <4>5. \A a \in answered : a.session # s
        OBVIOUS
      <4> QED
        BY <3>2, <4>2, <4>3, <4>4, <4>5 DEF root_answers
    <3> QED
      BY <1>8, <3>1, <3>2
  <2>2. \A k \in DOMAIN downlink' :
          \/ k \in DOMAIN downlink /\ downlink'[k] = downlink[k]
          \/ /\ k = Len(downlink) + 1 /\ k \notin DOMAIN downlink
             /\ downlink'[k] = p
    BY <1>0, <2>1
  <2>3. CASE answered' = answered /\ p.type # "COLOR_RESPONSE"
    <3>1. \A k \in DOMAIN downlink' : Answers(k)' =>
            k \in DOMAIN downlink /\ downlink'[k] = downlink[k] /\ Answers(k)
      BY <2>2, <2>3 DEF Answers
    <3>2. \A j, k \in DOMAIN downlink' :
            Answers(j)' /\ Answers(k)' /\ downlink'[j].response.session = downlink'[k].response.session
              => j = k
      BY <3>1 DEF Apart
    <3>3. \A j \in DOMAIN downlink', k \in DOMAIN response_queue' :
            Answers(j)' => downlink'[j].response.session # response_queue'[k].session
      BY <2>1, <3>1 DEF Apart
    <3>4. \A j \in DOMAIN downlink' : rx_pc' \in {"lock", "compare", "enqueue"} /\ Answers(j)'
            => downlink'[j].response.session # packet'.session
      BY <2>1, <3>1 DEF Apart
    <3> QED
      BY <2>1, <2>3, <3>2, <3>3, <3>4 DEF Apart
  <2>4. CASE /\ answered' = answered \cup {p.response}
             /\ p.response.session \in sent
             /\ \A r \in answered : r.session # p.response.session
    <3>1. \A k \in DOMAIN downlink' : Answers(k)' =>
            \/ k \in DOMAIN downlink /\ downlink'[k] = downlink[k] /\ Answers(k)
                 /\ downlink[k].response.session # p.response.session
            \/ k = Len(downlink) + 1 /\ downlink'[k] = p
      BY <2>2, <2>4 DEF Answers, IInv, Genuine
    <3>2. \A j, k \in DOMAIN downlink' :
            Answers(j)' /\ Answers(k)' /\ downlink'[j].response.session = downlink'[k].response.session
              => j = k
      BY <3>1 DEF Apart
    <3>3. \A k \in DOMAIN response_queue : response_queue[k].session # p.response.session
      BY <2>4 DEF IInv, Genuine
    <3>4. rx_pc \in {"lock", "compare", "enqueue"} => packet.session # p.response.session
      BY <2>4 DEF IInv, Genuine
    <3>5. \A j \in DOMAIN downlink', k \in DOMAIN response_queue' :
            Answers(j)' => downlink'[j].response.session # response_queue'[k].session
      BY <2>1, <3>1, <3>3 DEF Apart
    <3>6. \A j \in DOMAIN downlink' : rx_pc' \in {"lock", "compare", "enqueue"} /\ Answers(j)'
            => downlink'[j].response.session # packet'.session
      BY <2>1, <3>1, <3>4 DEF Apart
    <3> QED
      BY <2>1, <2>4, <3>2, <3>5, <3>6 DEF Apart
  <2> QED
    BY <2>1, <2>3, <2>4
<1> QED
  BY <1>3, <1>4, <1>5, <1>6, <1>7, <1>8 DEF Next, uuid_session_task, receive_task, Environment

\* A response that mesh_rx or response_queue holds is to a session that was sent, and
\* the one that mesh_rx holds is not in the queue.
LEMMA HeldSent ==
  ASSUME IInv, Apart
  PROVE  /\ rx_pc \in {"lock", "compare", "enqueue"} =>
              /\ packet.session \in sent
              /\ \A k \in DOMAIN response_queue : response_queue[k].session # packet.session
         /\ \A k \in DOMAIN response_queue : response_queue[k].session \in sent
BY DEF IInv, Genuine, Apart

LEMMA OneLateStep == IInv /\ Apart /\ OneLate /\ [Next]_vars => OneLate'
<1> SUFFICES ASSUME IInv, Apart, OneLate, [Next]_vars PROVE OneLate'
  OBVIOUS
<1> USE DEF shared, session, rx, link, root
<1>0. response_queue \in Seq(Response)
  BY DEF IInv, TypeOK
<1>1. ASSUME UNCHANGED <<response_queue, current_session_id, sent>>,
             rx_pc' = "enqueue" => rx_pc = "enqueue" /\ packet' = packet,
             session_pc' \notin {"send", "await"} => session_pc \notin {"send", "await"},
             session_pc' = "begin" => session_pc = "begin"
      PROVE  OneLate'
  BY <1>1 DEF OneLate, Late
<1>2. CASE \/ UNCHANGED vars \/ session_receive \/ led_set_color_from_payload \/ session_red
           \/ session_off \/ recv_color_query \/ recv_color_response \/ recv_other
           \/ recv_take_lock \/ color_query_task \/ mesh_status_task \/ mesh_event_handler
           \/ Environment
  BY <1>1, <1>2 DEF vars, session_receive, led_set_color_from_payload, session_red, session_off,
     recv_color_query, recv_color_response, recv_other, recv_take_lock, color_query_task,
     mesh_status_task, mesh_event_handler, parent_connected, parent_disconnected, Environment,
     gatt_uuid_access_cb, root_answers, root_asks
<1>3. CASE session_reset
  BY <1>3 DEF session_reset, OneLate, Late
<1>4. CASE session_begin
  <2>1. /\ session_pc = "begin" /\ session_pc' = "send"
        /\ UNCHANGED <<response_queue, rx_pc, packet, sent>>
    BY <1>4 DEF session_begin
  <2>2. \A k \in DOMAIN response_queue : k \in Nat /\ k <= Len(response_queue)
    BY <1>0
  <2>3. \A k \in DOMAIN response_queue : ~(k > 1)
    BY <1>0, <2>1, <2>2 DEF OneLate
  <2> QED
    BY <2>1, <2>3 DEF OneLate, Late
<1>5. CASE session_send_ok
  BY <1>5 DEF session_send_ok, OneLate, Late
<1>6. CASE session_send_failed
  <2>1. current_session_id \notin sent
    BY <1>6 DEF session_send_failed, IInv, Current
  <2> QED
    BY <1>6, <2>1 DEF session_send_failed, OneLate, Late
<1>7. CASE session_take_response
  <2>1. /\ response_queue # <<>> /\ response_queue' = Tail(response_queue)
        /\ session_pc' \in {"apply", "wait"}
        /\ UNCHANGED <<current_session_id, sent, rx_pc, packet>>
    BY <1>7 DEF session_take_response
  <2>2. \A k \in DOMAIN response_queue' : k + 1 \in DOMAIN response_queue /\ k + 1 > 1
          /\ response_queue'[k] = response_queue[k + 1]
    BY <1>0, <2>1
  <2>3. ~Late
    BY <2>1 DEF OneLate
  <2> QED
    BY <2>1, <2>2, <2>3 DEF OneLate, Late
<1>8. CASE session_timeout
  <2>1. /\ response_queue = <<>> /\ rx_pc # "enqueue"
        /\ session_pc' = "red"
        /\ UNCHANGED <<response_queue, current_session_id, sent, rx_pc, packet>>
    BY <1>8 DEF session_timeout
  <2> QED
    BY <2>1 DEF OneLate, Late
<1>9. CASE recv_compare
  <2>1. /\ rx_pc = "compare"
        /\ UNCHANGED <<response_queue, current_session_id, sent, session_pc>>
        /\ rx_pc' = "enqueue" => packet.session = current_session_id /\ packet' = packet
    BY <1>9 DEF recv_compare, MatchesCurrent
  <2>2. rx_pc' = "enqueue" /\ session_pc = "begin" => response_queue = <<>>
    <3> SUFFICES ASSUME rx_pc' = "enqueue", session_pc = "begin", response_queue # <<>>
                 PROVE  FALSE
      OBVIOUS
    <3>1. current_session_id \in sent
          /\ \A k \in DOMAIN response_queue : response_queue[k].session # current_session_id
      BY <2>1, HeldSent
    <3>2. 1 \in DOMAIN response_queue
      BY <1>0
    <3>3. response_queue[1].session = current_session_id
      BY <3>1, <3>2 DEF OneLate
    <3> QED
      BY <3>1, <3>2, <3>3
  <2> QED
    BY <2>1, <2>2 DEF OneLate, Late
<1>10. CASE recv_enqueue
  <2>1. /\ rx_pc = "enqueue" /\ rx_pc' = "recv"
        /\ response_queue' \in {response_queue, Append(response_queue, packet)}
        /\ UNCHANGED <<current_session_id, sent, session_pc>>
    BY <1>10 DEF recv_enqueue, xQueueSend
  <2>2. \A k \in DOMAIN response_queue' :
          \/ k \in DOMAIN response_queue /\ response_queue'[k] = response_queue[k]
          \/ k = Len(response_queue) + 1 /\ response_queue'[k] = packet
    BY <1>0, <2>1
  <2>3. \A k \in DOMAIN response_queue' :
          k > 1 => response_queue'[k].session = current_session_id
    <3>1. CASE Late
      <4>1. response_queue = <<>>
        BY <3>1 DEF OneLate
      <4>2. \A k \in DOMAIN response_queue' : ~(k > 1)
        BY <2>2, <4>1
      <4> QED
        BY <4>2
    <3>2. CASE ~Late
      BY <2>1, <2>2, <3>2 DEF OneLate, Late
    <3> QED
      BY <3>1, <3>2
  <2>4. session_pc = "begin" => Len(response_queue') <= 1
    BY <2>1 DEF OneLate
  <2>5. session_pc \notin {"send", "await"} /\ current_session_id \in sent =>
          \A k \in DOMAIN response_queue' : response_queue'[k].session = current_session_id
    BY <2>1, <2>2 DEF OneLate, Late
  <2> QED
    BY <2>1, <2>3, <2>4, <2>5 DEF OneLate, Late
<1> QED
  BY <1>2, <1>3, <1>4, <1>5, <1>6, <1>7, <1>8, <1>9, <1>10 DEF Next, uuid_session_task, receive_task

\* Two places are enough for response_queue (node_main.c:696), whatever the number of
\* sessions and the length of the way to the node: a response to the current session
\* finds room, although the queue is reset before the session starts and late responses
\* slip in between.
THEOREM LiveKept == ASSUME RESPONSE_QUEUE_LENGTH >= 2 PROVE Spec => LiveResponseKept
<1> DEFINE Kept == rx_pc = "enqueue" /\ rx_pc' = "recv" /\ packet.session = current_session_id =>
                     response_queue' = Append(response_queue, packet)
<1>1. ASSUME IInv, ReceiverConnected, Apart, OneLate, [Next]_vars PROVE Kept
  <2> SUFFICES ASSUME rx_pc = "enqueue", rx_pc' = "recv", packet.session = current_session_id
               PROVE  response_queue' = Append(response_queue, packet)
    OBVIOUS
  <2>1. recv_enqueue
    BY <1>1 DEF ReceiverConnected, Next, vars, uuid_session_task, session_receive, session_reset,
       session_begin, session_send_ok, session_send_failed, session_take_response,
       session_timeout, led_set_color_from_payload, session_red, session_off, receive_task,
       recv_color_query, recv_color_response, recv_other, recv_take_lock, recv_compare,
       color_query_task, mesh_status_task, mesh_event_handler, parent_connected,
       parent_disconnected, Environment, gatt_uuid_access_cb, root_answers, root_asks, rx, link
  <2>2. response_queue \in Seq(Response) /\ RESPONSE_QUEUE_LENGTH \in Nat
    BY <1>1, NodeAssumption DEF IInv, TypeOK
  <2>3. \A k \in DOMAIN response_queue : response_queue[k].session # current_session_id
    BY <1>1, HeldSent
  <2>4. \A k \in DOMAIN response_queue : ~(k > 1)
    BY <1>1, <2>3 DEF OneLate
  <2>5. Len(response_queue) \in DOMAIN response_queue \/ Len(response_queue) = 0
    BY <2>2
  <2>6. Len(response_queue) < RESPONSE_QUEUE_LENGTH
    BY <2>2, <2>4, <2>5
  <2> QED
    BY <2>1, <2>6 DEF recv_enqueue, xQueueSend
<1> HIDE DEF Kept
<1>2. Init => ReceiverConnected /\ Apart /\ OneLate
  BY DEF Init, ReceiverConnected, Apart, OneLate, Late, Answers
<1>3. IInv /\ ReceiverConnected /\ Apart /\ OneLate /\ [Next]_vars => [Kept]_vars
  BY <1>1
<1> QED
  BY <1>2, <1>3, ConnectedStep, ApartStep, OneLateStep, InductiveInvariant, PTL
     DEF Spec, LiveResponseKept, Kept
=============================================================================
