---------------------------- MODULE RootProofs ----------------------------
(***************************************************************************)
(* Proofs about Root: the table stays well formed, a node has one entry in *)
(* it, no entry expires early, and the root implements the request ledger. *)
(***************************************************************************)
EXTENDS Root, TLAPS

\* The task inside a table operation, and only that one, holds s_pending_lock.
LockHeld == \A t \in Tasks : pc[t] \in {"prune", "find"} <=> pending_lock = t

\* Slots are numbered from 1.
IndexOK == \A t \in Tasks : i[t] >= 1

\* mesh_rx_task only adds; what a task adds or sends is a request, what it
\* takes by is a node; an idle task is not in an operation.
OperationOK ==
  /\ \A t \in Tasks : pc[t] = "idle" => op[t] = "add"
  /\ op["rx"] = "add"
  /\ pc["rx"] # "send"
  /\ pc["rx"] # "idle" => arg["rx"] \in Request
  /\ pc["serial"] = "send" => arg["serial"] \in Request /\ op["serial"] = "add"
  /\ op["serial"] = "add" /\ pc["serial"] # "idle" => arg["serial"] \in Request
  /\ pc["serial"] # "idle" => arg["serial"].node \in Nodes

\* The requests that wait in s_mesh_rx_queue.
Waiting ==
  {rx_queue[k].request : k \in {j \in DOMAIN rx_queue : rx_queue[j].type = "UUID_REQUEST"}}

\* A request waits once, it waits no more when rx works on it, and everything
\* was delivered.
QueueOnce ==
  /\ \A j, k \in DOMAIN rx_queue :
       rx_queue[j].type = "UUID_REQUEST" /\ rx_queue[j] = rx_queue[k] => j = k
  /\ pc["rx"] # "idle" => arg["rx"] \in requested \ Waiting
  /\ Waiting \subseteq requested

\* The inductive invariant.
IInv ==
  /\ TypeOK
  /\ LockHeld
  /\ IndexOK
  /\ OperationOK
  /\ OneEntryPerNode
  /\ QueueOnce
-----------------------------------------------------------------------------
\* What the removal of an element by moving the last one to its place leaves
\* (root_main.c:52-54, 130-132).
LEMMA SwapRemoveIs ==
  ASSUME NEW S, NEW s \in Seq(S), NEW k \in 1 .. Len(s)
  PROVE  /\ SwapRemove(s, k) \in Seq(S)
         /\ Len(SwapRemove(s, k)) = Len(s) - 1
         /\ DOMAIN SwapRemove(s, k) = 1 .. Len(s) - 1
         /\ \A j \in 1 .. Len(s) - 1 :
              SwapRemove(s, k)[j] = IF j = k THEN s[Len(s)] ELSE s[j]
<1> DEFINE moved == [s EXCEPT ![k] = s[Len(s)]]
<1>1. moved \in Seq(S) /\ Len(moved) = Len(s)
  OBVIOUS
<1>2. \A j \in 1 .. Len(s) : moved[j] = IF j = k THEN s[Len(s)] ELSE s[j]
  OBVIOUS
<1> HIDE DEF moved
<1> QED
  BY <1>1, <1>2 DEF SwapRemove, moved

\* Removing an entry leaves the others, and one per node.
LEMMA RemoveEntry ==
  ASSUME TypeOK, OneEntryPerNode, NEW k \in DOMAIN entries,
         entries' = SwapRemove(entries, k)
  PROVE  /\ entries' \in Seq(Request)
         /\ Len(entries') = Len(entries) - 1
         /\ OneEntryPerNode'
         /\ Open' = Open \ {entries[k]}
<1>1. entries \in Seq(Request) /\ k \in 1 .. Len(entries)
  BY DEF TypeOK
<1>2. /\ entries' \in Seq(Request)
      /\ Len(entries') = Len(entries) - 1
      /\ DOMAIN entries' = 1 .. Len(entries) - 1
      /\ \A j \in 1 .. Len(entries) - 1 :
           entries'[j] = IF j = k THEN entries[Len(entries)] ELSE entries[j]
  BY <1>1, SwapRemoveIs
<1>3. OneEntryPerNode'
  BY <1>1, <1>2 DEF OneEntryPerNode
<1>4. ASSUME NEW j \in DOMAIN entries' PROVE entries'[j] \in Open \ {entries[k]}
  <2>1. j \in DOMAIN entries /\ Len(entries) \in DOMAIN entries
    BY <1>1, <1>2
  <2>2. CASE j = k
    BY <1>1, <1>2, <2>1, <2>2 DEF OneEntryPerNode, Open
  <2>3. CASE j # k
    BY <1>1, <1>2, <2>1, <2>3 DEF OneEntryPerNode, Open
  <2> QED
    BY <2>2, <2>3
<1>5. ASSUME NEW j \in DOMAIN entries, entries[j] # entries[k] PROVE entries[j] \in Open'
  <2>1. CASE j = Len(entries)
    <3>1. k \in DOMAIN entries' /\ entries'[k] = entries[j]
      BY <1>1, <1>2, <1>5, <2>1
    <3> QED
      BY <3>1 DEF Open
  <2>2. CASE j # Len(entries)
    <3>1. j \in DOMAIN entries' /\ entries'[j] = entries[j]
      BY <1>1, <1>2, <1>5, <2>2
    <3> QED
      BY <3>1 DEF Open
  <2> QED
    BY <2>1, <2>2
<1> QED
  BY <1>2, <1>3, <1>4, <1>5 DEF Open

\* Recording r makes it the only open request of its node.
Supersedes(r) == Open' = {q \in Open : q.node # r.node} \cup {r}

\* Replacing the session of the node's entry does so,
LEMMA ReplaceEntry ==
  ASSUME TypeOK, OneEntryPerNode, NEW r \in Request, NEW k \in Slots(r.node),
         entries' = [entries EXCEPT ![k].session = r.session]
  PROVE  /\ entries' \in Seq(Request)
         /\ Len(entries') = Len(entries)
         /\ OneEntryPerNode'
         /\ Supersedes(r)
<1>1. entries \in Seq(Request) /\ k \in 1 .. Len(entries) /\ entries[k].node = r.node
  BY DEF TypeOK, Slots
<1>2. [entries[k] EXCEPT !.session = r.session] = r
  <2>1. entries[k] \in Request
    BY <1>1
  <2>2. PICK n \in Nodes, q \in Sessions : r = [node |-> n, session |-> q]
    BY DEF Request
  <2>3. PICK p \in Sessions : entries[k] = [node |-> n, session |-> p]
    BY <1>1, <2>1, <2>2 DEF Request
  <2> QED
    BY <2>2, <2>3
<1>3. entries' = [entries EXCEPT ![k] = r]
  BY <1>1, <1>2
<1>4. /\ entries' \in Seq(Request)
      /\ Len(entries') = Len(entries)
      /\ DOMAIN entries' = DOMAIN entries
      /\ \A j \in DOMAIN entries : entries'[j] = IF j = k THEN r ELSE entries[j]
  BY <1>1, <1>3
<1>5. OneEntryPerNode'
  BY <1>1, <1>4 DEF OneEntryPerNode
<1>6. \A j \in DOMAIN entries : entries[j].node # r.node <=> j # k
  BY <1>1 DEF OneEntryPerNode
<1> QED
  BY <1>1, <1>4, <1>5, <1>6 DEF Open, Supersedes

\* and so does appending an entry for a node that has none.
LEMMA AppendEntry ==
  ASSUME TypeOK, OneEntryPerNode, NEW r \in Request, Slots(r.node) = {},
         entries' = Append(entries, r)
  PROVE  /\ entries' \in Seq(Request)
         /\ Len(entries') = Len(entries) + 1
         /\ OneEntryPerNode'
         /\ Supersedes(r)
<1>1. entries \in Seq(Request) /\ \A j \in DOMAIN entries : entries[j].node # r.node
  BY DEF TypeOK, Slots
<1>2. /\ entries' \in Seq(Request)
      /\ Len(entries') = Len(entries) + 1
      /\ DOMAIN entries' = 1 .. Len(entries) + 1
      /\ \A j \in DOMAIN entries : entries'[j] = entries[j]
      /\ entries'[Len(entries) + 1] = r
  BY <1>1
<1>3. DOMAIN entries' = DOMAIN entries \cup {Len(entries) + 1}
  BY <1>1, <1>2
<1>4. OneEntryPerNode'
  BY <1>1, <1>2, <1>3 DEF OneEntryPerNode
<1> QED
  BY <1>1, <1>2, <1>3, <1>4 DEF Open, Supersedes
-----------------------------------------------------------------------------
LEMMA TickCount == TypeOK => xTaskGetTickCount \in 0 .. TickModulus - 1
<1> SUFFICES ASSUME TypeOK PROVE (BootTick + clock) % TickModulus \in 0 .. TickModulus - 1
  BY DEF xTaskGetTickCount
<1>1. BootTick + clock \in Nat /\ TickModulus \in Nat \ {0}
  BY RootAssumption DEF TypeOK
<1> QED
  BY <1>1

\* What a task that leaves an operation does to the parts of the invariant
\* that are about the tasks.
LEMMA ReturnKeeps ==
  ASSUME IInv, NEW t \in Tasks, pc[t] = "find", NEW next \in {"idle", "send"},
         NEW r \in [node : Nodes \cup {NoNode}, session : Sessions \cup {NoSession}],
         next = "send" => t = "serial" /\ r \in Request,
         Return(t, next, r),
         UNCHANGED <<rx_queue, requested>>
  PROVE  /\ pending_lock' \in Tasks \cup {NoTask}
         /\ pc' \in [Tasks -> {"idle", "lock", "prune", "find", "send"}]
         /\ op' \in [Tasks -> {"add", "take"}]
         /\ i' \in [Tasks -> Nat]
         /\ now' \in [Tasks -> 0 .. TickModulus - 1]
         /\ arg' \in [Tasks -> [node : Nodes \cup {NoNode},
                                session : Sessions \cup {NoSession}]]
         /\ LockHeld'
         /\ IndexOK'
         /\ OperationOK'
         /\ QueueOnce'
<1> USE DEF IInv, TypeOK, Return, Finish, Tasks, NoTask
<1>1. 0 \in 0 .. TickModulus - 1
  BY RootAssumption
<1>2. LockHeld'
  BY DEF LockHeld
<1>3. IndexOK'
  BY DEF IndexOK
<1>4. OperationOK'
  BY DEF OperationOK, Request
<1>5. QueueOnce'
  BY DEF QueueOnce, Waiting
<1> QED
  BY <1>1, <1>2, <1>3, <1>4, <1>5
-----------------------------------------------------------------------------
LEMMA InitIInv == Init => IInv
<1> SUFFICES ASSUME Init PROVE IInv
  OBVIOUS
<1>1. 0 \in 0 .. TickModulus - 1 /\ 0 \in 0 .. MaxClock
  BY RootAssumption
<1>2. TypeOK
  BY <1>1, RootAssumption DEF Init, TypeOK, Tasks, NoTask, Nothing
<1> QED
  BY <1>2 DEF Init, IInv, LockHeld, IndexOK, OperationOK, OneEntryPerNode, QueueOnce,
     Waiting, Tasks, NoTask

\* What is not about the variables that change stays.
LEMMA TasksStay ==
  ASSUME IInv, UNCHANGED <<pending_lock, pc, op, i, arg>>
  PROVE  LockHeld' /\ IndexOK' /\ OperationOK'
BY DEF IInv, LockHeld, IndexOK, OperationOK

LEMMA EntriesStay == IInv /\ UNCHANGED entries => OneEntryPerNode'
BY DEF IInv, OneEntryPerNode

LEMMA QueueStays ==
  IInv /\ UNCHANGED <<rx_queue, requested, pc, arg>> => QueueOnce'
BY DEF IInv, QueueOnce, Waiting

\* A packet that rx_queue does not hold leaves the queue in order.
LEMMA QueueGrows ==
  ASSUME IInv, UNCHANGED <<pc, arg>>, requested \subseteq requested',
         NEW packet \in Packet,
         packet.type = "UUID_REQUEST" => packet.request \in requested' \ requested,
         rx_queue' \in {rx_queue, Append(rx_queue, packet)}
  PROVE  QueueOnce'
<1>1. rx_queue \in Seq(Packet) /\ QueueOnce
  BY DEF IInv, TypeOK
<1>2. CASE rx_queue' = rx_queue
  BY <1>1, <1>2 DEF QueueOnce, Waiting
<1>3. CASE rx_queue' = Append(rx_queue, packet)
  <2>1. /\ DOMAIN rx_queue' = DOMAIN rx_queue \cup {Len(rx_queue) + 1}
        /\ \A k \in DOMAIN rx_queue : rx_queue'[k] = rx_queue[k]
        /\ rx_queue'[Len(rx_queue) + 1] = packet
    BY <1>1, <1>3
  <2>2. \A k \in DOMAIN rx_queue : rx_queue[k].type = "UUID_REQUEST" =>
          rx_queue[k].request \in requested
    BY <1>1 DEF QueueOnce, Waiting
  <2>3. Waiting' \subseteq requested' /\ (pc["rx"] # "idle" => arg["rx"] \notin Waiting')
    BY <1>1, <2>1, <2>2 DEF QueueOnce, Waiting
  <2>4. \A j, k \in DOMAIN rx_queue' :
          rx_queue'[j].type = "UUID_REQUEST" /\ rx_queue'[j] = rx_queue'[k] => j = k
    BY <1>1, <2>1, <2>2 DEF QueueOnce
  <2> QED
    BY <1>1, <2>3, <2>4 DEF QueueOnce
<1> QED
  BY <1>2, <1>3

\* Taking the head leaves the others, in order.
LEMMA QueueShrinks ==
  ASSUME IInv, rx_queue # <<>>, rx_queue' = Tail(rx_queue)
  PROVE  /\ rx_queue' \in Seq(Packet)
         /\ Len(rx_queue') <= RX_QUEUE_LENGTH
         /\ \A j, k \in DOMAIN rx_queue' :
              rx_queue'[j].type = "UUID_REQUEST" /\ rx_queue'[j] = rx_queue'[k] => j = k
         /\ Waiting' \subseteq Waiting
         /\ Head(rx_queue).type = "UUID_REQUEST" =>
              /\ Head(rx_queue).request \in Request
              /\ Waiting' = Waiting \ {Head(rx_queue).request}
              /\ Head(rx_queue).request \in Waiting
         /\ Head(rx_queue).type = "OTHER" => Waiting' = Waiting
<1>1. rx_queue \in Seq(Packet) /\ Len(rx_queue) <= RX_QUEUE_LENGTH
  BY DEF IInv, TypeOK
<1>2. /\ rx_queue' \in Seq(Packet)
      /\ Len(rx_queue') = Len(rx_queue) - 1
      /\ DOMAIN rx_queue' = 1 .. Len(rx_queue) - 1
      /\ \A k \in DOMAIN rx_queue' : k + 1 \in DOMAIN rx_queue /\ rx_queue'[k] = rx_queue[k + 1]
      /\ Head(rx_queue) = rx_queue[1] /\ 1 \in DOMAIN rx_queue
      /\ Head(rx_queue) \in Packet
  BY <1>1
<1>3. \A k \in DOMAIN rx_queue : k = 1 \/ (k - 1 \in DOMAIN rx_queue' /\ rx_queue[k] = rx_queue'[k - 1])
  BY <1>1, <1>2
<1>4. \A j, k \in DOMAIN rx_queue :
        rx_queue[j].type = "UUID_REQUEST" /\ rx_queue[j] = rx_queue[k] => j = k
  BY DEF IInv, QueueOnce
<1>5. \A j, k \in DOMAIN rx_queue' :
        rx_queue'[j].type = "UUID_REQUEST" /\ rx_queue'[j] = rx_queue'[k] => j = k
  <2> SUFFICES ASSUME NEW j \in DOMAIN rx_queue', NEW k \in DOMAIN rx_queue',
                      rx_queue'[j].type = "UUID_REQUEST", rx_queue'[j] = rx_queue'[k]
               PROVE  j = k
    OBVIOUS
  <2>1. j + 1 = k + 1
    BY <1>2, <1>4
  <2> QED
    BY <1>2, <2>1
<1>0. /\ \A q : q \in Waiting <=>
           \E k \in DOMAIN rx_queue : rx_queue[k].type = "UUID_REQUEST" /\ rx_queue[k].request = q
      /\ \A q : q \in Waiting' <=>
           \E k \in DOMAIN rx_queue' : rx_queue'[k].type = "UUID_REQUEST" /\ rx_queue'[k].request = q
  BY DEF Waiting
<1>6. Waiting' \subseteq Waiting
  BY <1>2 DEF Waiting
<1>7. ASSUME Head(rx_queue).type = "UUID_REQUEST"
      PROVE  /\ Head(rx_queue).request \in Request
             /\ Head(rx_queue).request \in Waiting
             /\ Waiting' = Waiting \ {Head(rx_queue).request}
  <2>1. Head(rx_queue).request \in Request /\ Head(rx_queue).request \in Waiting
    BY <1>2, <1>7 DEF Packet, Waiting
  <2>2. ASSUME NEW q \in Waiting, q # Head(rx_queue).request PROVE q \in Waiting'
    <3>1. PICK k \in DOMAIN rx_queue : rx_queue[k].type = "UUID_REQUEST" /\ rx_queue[k].request = q
      BY <1>0
    <3>2. k # 1
      BY <1>2, <2>2, <3>1
    <3>3. /\ k - 1 \in DOMAIN rx_queue'
          /\ rx_queue'[k - 1].type = "UUID_REQUEST"
          /\ rx_queue'[k - 1].request = q
      BY <1>3, <3>1, <3>2
    <3> QED
      BY <1>0, <3>3
  <2>3. ASSUME NEW k \in DOMAIN rx_queue', rx_queue'[k].type = "UUID_REQUEST"
        PROVE  rx_queue'[k].request # Head(rx_queue).request
    <3>1. rx_queue[1] # rx_queue[k + 1]
      BY <1>2, <1>4, <1>7, <2>3
    <3>2. rx_queue'[k] \in Packet
      BY <1>2
    <3> QED
      BY <1>2, <1>7, <2>3, <3>1, <3>2 DEF Packet
  <2>4. Head(rx_queue).request \notin Waiting'
    BY <2>3 DEF Waiting
  <2> QED
    BY <1>6, <2>1, <2>2, <2>4
<1>8. ASSUME Head(rx_queue).type = "OTHER" PROVE Waiting' = Waiting
  <2>1. ASSUME NEW q \in Waiting PROVE q \in Waiting'
    <3>1. PICK k \in DOMAIN rx_queue : rx_queue[k].type = "UUID_REQUEST" /\ rx_queue[k].request = q
      BY <1>0
    <3>2. k # 1
      BY <1>2, <1>8, <3>1
    <3>3. /\ k - 1 \in DOMAIN rx_queue'
          /\ rx_queue'[k - 1].type = "UUID_REQUEST"
          /\ rx_queue'[k - 1].request = q
      BY <1>3, <3>1, <3>2
    <3> QED
      BY <1>0, <3>3
  <2> QED
    BY <1>6, <2>1
<1> QED
  <2>1. Len(rx_queue') <= RX_QUEUE_LENGTH
    BY <1>1, <1>2, RootAssumption
  <2> QED
    BY <1>2, <1>5, <1>6, <1>7, <1>8, <2>1
-----------------------------------------------------------------------------
\* The mesh puts a packet into the queue.
LEMMA DeliverStep ==
  ASSUME IInv, DeliverRequest \/ DeliverOther
  PROVE  IInv'
<1>1. PICK packet \in Packet :
        /\ mesh_recv_cb(packet)
        /\ packet.type = "UUID_REQUEST" => packet.request \in requested' \ requested
        /\ requested \subseteq requested'
        /\ requested' \in SUBSET Request
  <2>1. CASE DeliverRequest
    <3>1. PICK r \in Request \ requested :
            /\ requested' = requested \cup {r}
            /\ mesh_recv_cb([type |-> "UUID_REQUEST", request |-> r])
      BY <2>1 DEF DeliverRequest
    <3>2. [type |-> "UUID_REQUEST", request |-> r] \in Packet
      BY DEF Packet
    <3> QED
      BY <3>1, <3>2 DEF IInv, TypeOK
  <2>2. CASE DeliverOther
    <3>1. [type |-> "OTHER"] \in Packet
      BY DEF Packet
    <3> QED
      BY <2>2, <3>1 DEF DeliverOther, IInv, TypeOK
  <2> QED
    BY <2>1, <2>2
<1>2. /\ UNCHANGED <<clock, entries, created_at, pending_lock, pc, op, i, now, arg, color,
                     newest, written, printed, responses, queries>>
      /\ rx_queue' \in {rx_queue, Append(rx_queue, packet)}
      /\ rx_queue' = Append(rx_queue, packet) => Len(rx_queue) < RX_QUEUE_LENGTH
  BY <1>1 DEF mesh_recv_cb, table, locals, history, output, IInv, TypeOK
<1>3. TypeOK'
  <2>1. rx_queue' \in Seq(Packet) /\ Len(rx_queue') <= RX_QUEUE_LENGTH
    <3>1. rx_queue \in Seq(Packet) /\ Len(rx_queue) \in Nat /\ Len(rx_queue) <= RX_QUEUE_LENGTH
      BY DEF IInv, TypeOK
    <3>2. CASE rx_queue' = rx_queue
      BY <3>1, <3>2
    <3>3. CASE rx_queue' = Append(rx_queue, packet)
      BY <1>2, <3>1, <3>3, RootAssumption
    <3> QED
      BY <1>2, <3>2, <3>3
  <2> QED
    BY <1>1, <1>2, <2>1 DEF IInv, TypeOK
<1>4. QueueOnce'
  BY <1>1, <1>2, QueueGrows
<1> QED
  BY <1>2, <1>3, <1>4, TasksStay, EntriesStay DEF IInv

\* mesh_rx_task takes a packet.
LEMMA ProcessStep ==
  ASSUME IInv, process_uuid_request \/ process_other_packet
  PROVE  IInv'
<1>1. /\ rx_queue # <<>>
      /\ rx_queue' = Tail(rx_queue)
      /\ pc["rx"] = "idle"
      /\ UNCHANGED <<clock, requested, entries, created_at, pending_lock, i, now, color,
                     newest, written, responses, queries>>
  BY DEF process_uuid_request, process_other_packet, env, table, locals, history, output, Call
<1>2. CASE process_other_packet
  <2>1. UNCHANGED <<pc, op, arg, printed>>
    BY <1>2 DEF process_other_packet, locals, output
  <2>2. TypeOK'
    BY <1>1, <2>1, QueueShrinks DEF IInv, TypeOK
  <2>3. QueueOnce'
    BY <1>1, <2>1, QueueShrinks DEF IInv, QueueOnce
  <2> QED
    BY <1>1, <2>1, <2>2, <2>3, TasksStay, EntriesStay DEF IInv
<1>3. CASE process_uuid_request
  <2> DEFINE r == Head(rx_queue).request
  <2>1. /\ Head(rx_queue).type = "UUID_REQUEST"
        /\ printed' = printed \cup {r}
        /\ pc' = [pc EXCEPT !["rx"] = "lock"]
        /\ op' = [op EXCEPT !["rx"] = "add"]
        /\ arg' = [arg EXCEPT !["rx"] = r]
    BY <1>3 DEF process_uuid_request, Call
  <2>2. r \in Request /\ Waiting' = Waiting \ {r} /\ r \in Waiting
    BY <1>1, <2>1, QueueShrinks
  <2> HIDE DEF r
  <2>3. TypeOK'
    BY <1>1, <2>1, <2>2, QueueShrinks DEF IInv, TypeOK, Tasks, Request
  <2>4. QueueOnce'
    BY <1>1, <2>1, <2>2, QueueShrinks DEF IInv, QueueOnce, TypeOK, Tasks
  <2>5. LockHeld' /\ IndexOK' /\ OperationOK'
    BY <1>1, <2>1, <2>2 DEF IInv, TypeOK, LockHeld, IndexOK, OperationOK, Tasks, NoTask
  <2> QED
    BY <1>1, <2>3, <2>4, <2>5, EntriesStay DEF IInv
<1> QED
  BY <1>2, <1>3

\* Time passes, or the operator types a command.
LEMMA OutsideStep ==
  ASSUME IInv, Tick \/ Operator
  PROVE  IInv'
<1>1. CASE Tick
  <2>1. /\ clock' \in 0 .. MaxClock
        /\ UNCHANGED <<requested, rx_queue, entries, created_at, pending_lock, pc, op, i, now,
                       arg, color, newest, written, printed, responses, queries>>
    BY <1>1, RootAssumption DEF Tick, table, locals, history, output, IInv, TypeOK
  <2>2. TypeOK'
    BY <2>1 DEF IInv, TypeOK
  <2> QED
    BY <2>1, <2>2, TasksStay, EntriesStay, QueueStays DEF IInv
<1>2. ASSUME NEW n \in Nodes, NEW c \in Colors, read_color(n, c) PROVE IInv'
  <2> DEFINE r == [node |-> n, session |-> NoSession]
  <2>1. /\ pc["serial"] = "idle"
        /\ color' = c
        /\ pc' = [pc EXCEPT !["serial"] = "lock"]
        /\ op' = [op EXCEPT !["serial"] = "take"]
        /\ arg' = [arg EXCEPT !["serial"] = r]
        /\ UNCHANGED <<clock, requested, rx_queue, entries, created_at, pending_lock, i, now,
                       newest, written, printed, responses, queries>>
    BY <1>2 DEF read_color, Call, env, table, history, output
  <2>2. r.node \in Nodes /\
        r \in [node : Nodes \cup {NoNode}, session : Sessions \cup {NoSession}]
    OBVIOUS
  <2> HIDE DEF r
  <2>3. TypeOK'
    BY <2>1, <2>2 DEF IInv, TypeOK, Tasks
  <2>4. LockHeld' /\ IndexOK' /\ OperationOK'
    BY <2>1, <2>2 DEF IInv, TypeOK, LockHeld, IndexOK, OperationOK, Tasks, NoTask
  <2>5. QueueOnce'
    BY <2>1, <2>2 DEF IInv, TypeOK, QueueOnce, Waiting, Tasks
  <2> QED
    BY <2>1, <2>3, <2>4, <2>5, EntriesStay DEF IInv
<1>3. ASSUME NEW n \in Nodes, send_color_query(n) PROVE IInv'
  <2>1. /\ queries' = queries \cup {n}
        /\ UNCHANGED <<clock, requested, rx_queue, entries, created_at, pending_lock, pc, op, i,
                       now, arg, color, newest, written, printed, responses>>
    BY <1>3 DEF send_color_query, env, table, locals, history
  <2>2. TypeOK'
    BY <2>1 DEF IInv, TypeOK
  <2> QED
    BY <2>1, <2>2, TasksStay, EntriesStay, QueueStays DEF IInv
<1> QED
  BY <1>1, <1>2, <1>3 DEF Operator

-----------------------------------------------------------------------------
\* A task gets the mutex, or goes on in the pruning loop without removing.
LEMMA LoopStep ==
  ASSUME IInv, NEW t \in Tasks, xSemaphoreTake(t) \/ prune_keep(t) \/ prune_done(t)
  PROVE  IInv'
<1>1. UNCHANGED <<clock, requested, rx_queue, entries, created_at, op, arg, color,
                  newest, written, printed, responses, queries>>
  BY DEF xSemaphoreTake, prune_keep, prune_done, env, table, locals, history, output
<1>2. TypeOK' /\ LockHeld' /\ IndexOK' /\ OperationOK' /\ (pc'["rx"] = "idle" <=> pc["rx"] = "idle")
  <2>1. CASE xSemaphoreTake(t)
    <3>1. /\ pc[t] = "lock"
          /\ pending_lock = NoTask
          /\ pending_lock' = t
          /\ now' = [now EXCEPT ![t] = xTaskGetTickCount]
          /\ i' = [i EXCEPT ![t] = 1]
          /\ pc' = [pc EXCEPT ![t] = "prune"]
      BY <2>1 DEF xSemaphoreTake
    <3>2. xTaskGetTickCount \in 0 .. TickModulus - 1
      BY TickCount DEF IInv
    <3>3. TypeOK'
      BY <1>1, <3>1, <3>2 DEF IInv, TypeOK
    <3> QED
      BY <1>1, <3>1, <3>3 DEF IInv, TypeOK, LockHeld, IndexOK, OperationOK, Tasks, NoTask
  <2>2. CASE prune_keep(t)
    <3>1. i' = [i EXCEPT ![t] = @ + 1] /\ UNCHANGED <<now, pending_lock, pc>>
      BY <2>2 DEF prune_keep
    <3>2. TypeOK'
      BY <1>1, <3>1 DEF IInv, TypeOK
    <3> QED
      BY <1>1, <3>1, <3>2 DEF IInv, TypeOK, LockHeld, IndexOK, OperationOK, Tasks, NoTask
  <2>3. CASE prune_done(t)
    <3>1. /\ pc[t] = "prune"
          /\ pc' = [pc EXCEPT ![t] = "find"]
          /\ UNCHANGED <<i, now, pending_lock>>
      BY <2>3 DEF prune_done, locals
    <3>2. TypeOK'
      BY <1>1, <3>1 DEF IInv, TypeOK
    <3> QED
      BY <1>1, <3>1, <3>2 DEF IInv, TypeOK, LockHeld, IndexOK, OperationOK, Tasks, NoTask
  <2> QED
    BY <2>1, <2>2, <2>3
<1>3. QueueOnce'
  BY <1>1, <1>2 DEF IInv, QueueOnce, Waiting
<1> QED
  BY <1>1, <1>2, <1>3, EntriesStay DEF IInv

\* The pruning loop removes an entry.
LEMMA PruneStep ==
  ASSUME IInv, NEW t \in Tasks, prune_remove(t)
  PROVE  IInv' /\ Open' = Open \ {entries[i[t]]} /\ entries[i[t]] \in Open
<1>1. /\ i[t] \in DOMAIN entries
      /\ i[t] \in 1 .. Len(created_at)
      /\ entries' = SwapRemove(entries, i[t])
      /\ created_at' = SwapRemove(created_at, i[t])
      /\ UNCHANGED <<clock, requested, rx_queue, pending_lock, pc, op, i, now, arg, color,
                     newest, written, printed, responses, queries>>
  BY DEF prune_remove, env, locals, history, output, IInv, TypeOK, IndexOK
<1>2. /\ entries' \in Seq(Request)
      /\ Len(entries') = Len(entries) - 1
      /\ OneEntryPerNode'
      /\ Open' = Open \ {entries[i[t]]}
  BY <1>1, RemoveEntry DEF IInv
<1>3. /\ created_at' \in Seq(0 .. TickModulus - 1)
      /\ Len(created_at') = Len(created_at) - 1
  BY <1>1, SwapRemoveIs DEF IInv, TypeOK
<1>4. TypeOK'
  <2>1. Len(entries') <= MAX_PENDING_REQUESTS /\ Len(created_at') = Len(entries')
    BY <1>2, <1>3, RootAssumption DEF IInv, TypeOK
  <2> QED
    BY <1>1, <1>2, <1>3, <2>1 DEF IInv, TypeOK
<1> QED
  BY <1>1, <1>2, <1>4, TasksStay, QueueStays DEF IInv, Open

\* pending_add ends.
LEMMA AddStep ==
  ASSUME IInv, NEW t \in Tasks,
         pending_add_replace(t) \/ pending_add_append(t) \/ pending_add_full(t)
  PROVE  /\ IInv' /\ arg[t] \in Request
         /\ (pending_add_full(t) /\ Open' = Open) \/ Supersedes(arg[t])
<1>1. /\ pc[t] = "find"
      /\ op[t] = "add"
      /\ Return(t, "idle", Nothing)
      /\ NoteNewest(t)
      /\ UNCHANGED <<clock, requested, rx_queue, color, printed, responses, queries>>
  BY DEF pending_add_replace, pending_add_append, pending_add_full, env, output
<1>2. arg[t] \in Request
  BY <1>1 DEF IInv, OperationOK, Tasks
<1>3. Nothing \in [node : Nodes \cup {NoNode}, session : Sessions \cup {NoSession}]
  BY DEF Nothing
<1>4. /\ pending_lock' \in Tasks \cup {NoTask}
      /\ pc' \in [Tasks -> {"idle", "lock", "prune", "find", "send"}]
      /\ op' \in [Tasks -> {"add", "take"}]
      /\ i' \in [Tasks -> Nat]
      /\ now' \in [Tasks -> 0 .. TickModulus - 1]
      /\ arg' \in [Tasks -> [node : Nodes \cup {NoNode}, session : Sessions \cup {NoSession}]]
      /\ LockHeld' /\ IndexOK' /\ OperationOK' /\ QueueOnce'
  BY <1>1, <1>3, ReturnKeeps
<1>5. newest' \in [Nodes -> Sessions \cup {NoSession}]
  BY <1>1, <1>2 DEF NoteNewest, IInv, TypeOK, Request
<1>6. NoteWritten(t) => written' \in [Nodes -> 0 .. MaxClock]
  BY <1>2 DEF NoteWritten, IInv, TypeOK, Request
<1>7. xTaskGetTickCount \in 0 .. TickModulus - 1
  BY TickCount DEF IInv
<1>8. CASE pending_add_replace(t)
  <2>1. PICK k \in Slots(arg[t].node) :
          /\ entries' = [entries EXCEPT ![k].session = arg[t].session]
          /\ created_at' = [created_at EXCEPT ![k] = xTaskGetTickCount]
    BY <1>8 DEF pending_add_replace, FirstSlot
  <2>2. /\ entries' \in Seq(Request)
        /\ Len(entries') = Len(entries)
        /\ OneEntryPerNode'
        /\ Supersedes(arg[t])
    BY <1>2, <2>1, ReplaceEntry DEF IInv
  <2>3. created_at' \in Seq(0 .. TickModulus - 1) /\ Len(created_at') = Len(created_at)
    <3>1. created_at \in Seq(0 .. TickModulus - 1)
      BY DEF IInv, TypeOK
    <3>2. k \in 1 .. Len(created_at)
      BY DEF IInv, TypeOK, Slots
    <3> QED
      BY <1>7, <2>1, <3>1, <3>2
  <2>4. TypeOK'
    BY <1>1, <1>4, <1>5, <1>6, <1>8, <2>2, <2>3 DEF pending_add_replace, IInv, TypeOK
  <2> QED
    BY <1>2, <1>4, <2>2, <2>4 DEF IInv
<1>9. CASE pending_add_append(t)
  <2>1. /\ Slots(arg[t].node) = {}
        /\ Len(entries) < MAX_PENDING_REQUESTS
        /\ entries' = Append(entries, arg[t])
        /\ created_at' = Append(created_at, xTaskGetTickCount)
    BY <1>9 DEF pending_add_append, HasRoom
  <2>2. /\ entries' \in Seq(Request)
        /\ Len(entries') = Len(entries) + 1
        /\ OneEntryPerNode'
        /\ Supersedes(arg[t])
    BY <1>2, <2>1, AppendEntry DEF IInv
  <2>3. created_at' \in Seq(0 .. TickModulus - 1) /\ Len(created_at') = Len(created_at) + 1
    <3>1. created_at \in Seq(0 .. TickModulus - 1)
      BY DEF IInv, TypeOK
    <3> QED
      BY <1>7, <2>1, <3>1
  <2>4. Len(entries') <= MAX_PENDING_REQUESTS
    <3>1. Len(entries) \in Nat
      BY DEF IInv, TypeOK
    <3> QED
      BY <2>1, <2>2, <3>1, RootAssumption
  <2>5. TypeOK'
    BY <1>1, <1>4, <1>5, <1>6, <1>9, <2>2, <2>3, <2>4 DEF pending_add_append, IInv, TypeOK
  <2> QED
    BY <1>2, <1>4, <2>2, <2>5 DEF IInv
<1>10. CASE pending_add_full(t)
  <2>1. UNCHANGED <<entries, created_at, written>>
    BY <1>10 DEF pending_add_full, table
  <2>2. TypeOK'
    BY <1>1, <1>4, <1>5, <2>1 DEF IInv, TypeOK
  <2>3. Open' = Open
    BY <2>1 DEF Open
  <2> QED
    BY <1>2, <1>4, <1>10, <2>1, <2>2, <2>3, EntriesStay DEF IInv
<1> QED
  BY <1>8, <1>9, <1>10

\* pending_take ends.
LEMMA TakeStep ==
  ASSUME IInv, pending_take_found \/ pending_take_none
  PROVE  /\ IInv'
         /\ pc["serial"] = "find" /\ op["serial"] = "take"
         /\ \/ /\ pc'["serial"] = "idle"
               /\ Open' = Open
            \/ /\ pc'["serial"] = "send"
               /\ arg'["serial"] \in Open
               /\ Open' = Open \ {arg'["serial"]}
<1>1. /\ pc["serial"] = "find"
      /\ op["serial"] = "take"
      /\ UNCHANGED <<clock, requested, rx_queue, color, newest, written, printed, responses,
                     queries>>
  BY DEF pending_take_found, pending_take_none, env, history, output
<1>2. CASE pending_take_found
  <2>1. PICK k \in Slots(arg["serial"].node) :
          /\ Return("serial", "send", entries[k])
          /\ entries' = SwapRemove(entries, k)
          /\ created_at' = SwapRemove(created_at, k)
    BY <1>2 DEF pending_take_found, FirstSlot
  <2>2. k \in DOMAIN entries /\ k \in 1 .. Len(created_at) /\ entries[k] \in Request
    BY DEF Slots, IInv, TypeOK
  <2>3. /\ entries' \in Seq(Request)
        /\ Len(entries') = Len(entries) - 1
        /\ OneEntryPerNode'
        /\ Open' = Open \ {entries[k]}
    BY <2>1, <2>2, RemoveEntry DEF IInv
  <2>4. /\ created_at' \in Seq(0 .. TickModulus - 1)
        /\ Len(created_at') = Len(created_at) - 1
    BY <2>1, <2>2, SwapRemoveIs DEF IInv, TypeOK
  <2>5. entries[k] \in [node : Nodes \cup {NoNode}, session : Sessions \cup {NoSession}]
    BY <2>2 DEF Request
  <2>6. /\ pending_lock' \in Tasks \cup {NoTask}
        /\ pc' \in [Tasks -> {"idle", "lock", "prune", "find", "send"}]
        /\ op' \in [Tasks -> {"add", "take"}]
        /\ i' \in [Tasks -> Nat]
        /\ now' \in [Tasks -> 0 .. TickModulus - 1]
        /\ arg' \in [Tasks -> [node : Nodes \cup {NoNode}, session : Sessions \cup {NoSession}]]
        /\ LockHeld' /\ IndexOK' /\ OperationOK' /\ QueueOnce'
    BY <1>1, <2>1, <2>2, <2>5, ReturnKeeps DEF Tasks
  <2>7. Len(entries') <= MAX_PENDING_REQUESTS
    <3>1. Len(entries) \in Nat /\ Len(entries) <= MAX_PENDING_REQUESTS
      BY DEF IInv, TypeOK
    <3> QED
      BY <2>3, <3>1, RootAssumption
  <2>8. TypeOK'
    BY <1>1, <2>3, <2>4, <2>6, <2>7 DEF IInv, TypeOK
  <2>9. pc'["serial"] = "send" /\ arg'["serial"] = entries[k]
    BY <2>1 DEF Return, Finish, IInv, TypeOK, Tasks
  <2> QED
    BY <1>1, <2>2, <2>3, <2>6, <2>8, <2>9 DEF IInv, Open
<1>3. CASE pending_take_none
  <2>1. Return("serial", "idle", Nothing) /\ UNCHANGED <<entries, created_at>>
    BY <1>3 DEF pending_take_none, table
  <2>2. Nothing \in [node : Nodes \cup {NoNode}, session : Sessions \cup {NoSession}]
    BY DEF Nothing
  <2>3. /\ pending_lock' \in Tasks \cup {NoTask}
        /\ pc' \in [Tasks -> {"idle", "lock", "prune", "find", "send"}]
        /\ op' \in [Tasks -> {"add", "take"}]
        /\ i' \in [Tasks -> Nat]
        /\ now' \in [Tasks -> 0 .. TickModulus - 1]
        /\ arg' \in [Tasks -> [node : Nodes \cup {NoNode}, session : Sessions \cup {NoSession}]]
        /\ LockHeld' /\ IndexOK' /\ OperationOK' /\ QueueOnce'
    BY <1>1, <2>1, <2>2, ReturnKeeps DEF Tasks
  <2>4. TypeOK'
    BY <1>1, <2>1, <2>3 DEF IInv, TypeOK
  <2>5. pc'["serial"] = "idle" /\ Open' = Open
    BY <2>1 DEF Return, Finish, IInv, TypeOK, Tasks, Open
  <2> QED
    BY <1>1, <2>1, <2>3, <2>4, <2>5, EntriesStay DEF IInv
<1> QED
  BY <1>2, <1>3

\* send_color_response ends.
LEMMA SendStep ==
  ASSUME IInv, send_color_response_ok \/ send_color_response_failed
  PROVE  IInv'
<1>1. /\ pc["serial"] = "send"
      /\ arg["serial"] \in Request
      /\ UNCHANGED <<clock, requested, rx_queue, entries, created_at, pending_lock, i, now,
                     color, newest, written, printed, queries>>
  BY DEF send_color_response_ok, send_color_response_failed, env, table, history, output, Call,
     IInv, OperationOK
<1>2. /\ \/ /\ pc' = [pc EXCEPT !["serial"] = "idle"]
            /\ arg' = [arg EXCEPT !["serial"] = Nothing]
            /\ op' = op
         \/ /\ pc' = [pc EXCEPT !["serial"] = "lock"]
            /\ arg' = [arg EXCEPT !["serial"] = arg["serial"]]
            /\ op' = [op EXCEPT !["serial"] = "add"]
      /\ responses' \in SUBSET Response
  <2>1. CASE send_color_response_ok
    <3>1. [node |-> arg["serial"].node, session |-> arg["serial"].session, color |-> color]
            \in Response
      BY <1>1 DEF IInv, TypeOK, Request, Response
    <3> QED
      BY <2>1, <3>1 DEF send_color_response_ok, IInv, TypeOK
  <2>2. CASE send_color_response_failed
    BY <2>2 DEF send_color_response_failed, Call, output, IInv, TypeOK
  <2> QED
    BY <2>1, <2>2
<1>3. TypeOK'
  BY <1>1, <1>2 DEF IInv, TypeOK, Tasks, Nothing
<1>4. LockHeld' /\ IndexOK' /\ OperationOK'
  BY <1>1, <1>2 DEF IInv, TypeOK, LockHeld, IndexOK, OperationOK, Tasks, NoTask, Request
<1>5. QueueOnce'
  BY <1>1, <1>2 DEF IInv, TypeOK, QueueOnce, Waiting, Tasks
<1> QED
  BY <1>1, <1>3, <1>4, <1>5, EntriesStay DEF IInv
-----------------------------------------------------------------------------
\* No step of the root breaks the inductive invariant.
LEMMA NextKeepsIInv == IInv /\ [Next]_vars => IInv'
<1> SUFFICES ASSUME IInv, [Next]_vars PROVE IInv'
  OBVIOUS
<1>1. CASE UNCHANGED vars
  <2>1. TypeOK'
    BY <1>1 DEF vars, env, table, locals, history, output, IInv, TypeOK
  <2> QED
    BY <1>1, <2>1, TasksStay, EntriesStay, QueueStays DEF vars, env, table, locals, IInv
<1>2. CASE Tick \/ Operator
  BY <1>2, OutsideStep
<1>3. CASE DeliverRequest \/ DeliverOther
  BY <1>3, DeliverStep
<1>4. ASSUME NEW t \in Tasks, xSemaphoreTake(t) \/ TableStep(t) PROVE IInv'
  BY <1>4, LoopStep, PruneStep, AddStep DEF TableStep
<1>5. CASE mesh_rx_task
  BY <1>4, <1>5, ProcessStep DEF mesh_rx_task, Tasks
<1>6. CASE serial_task
  BY <1>4, <1>6, TakeStep, SendStep DEF serial_task, Tasks
<1> QED
  BY <1>1, <1>2, <1>3, <1>4, <1>5, <1>6 DEF Next

LEMMA InductiveInvariant == Spec => []IInv
BY InitIInv, NextKeepsIInv, PTL DEF Spec

\* The arrays never overflow, whatever the number of nodes and the sizes of
\* the table and the queue are (root_main.c:31-42, 96-139).
THEOREM TypeCorrect == Spec => []TypeOK
<1>1. IInv => TypeOK
  BY DEF IInv
<1> QED
  BY <1>1, InductiveInvariant, PTL

\* The table never holds two requests of one node (root_main.c:103).
THEOREM OneEntry == Spec => []OneEntryPerNode
<1>1. IInv => OneEntryPerNode
  BY DEF IInv
<1> QED
  BY <1>1, InductiveInvariant, PTL
-----------------------------------------------------------------------------
\* What the pruning loop leaves behind it has not expired, and what a search
\* sees neither.
Pruned ==
  \A t \in Tasks, k \in DOMAIN entries :
    pc[t] = "find" \/ (pc[t] = "prune" /\ k < i[t]) => ~Expired(t, k)

\* While a task is in the table, nobody else changes it.
LEMMA PrunedStays ==
  ASSUME IInv, Pruned, UNCHANGED <<entries, created_at, now, i>>,
         \A t \in Tasks : pc'[t] \in {"prune", "find"} => pc'[t] = pc[t]
  PROVE  Pruned'
BY DEF Pruned, Expired

\* Who leaves the table leaves it to nobody.
LEMMA NobodyThere ==
  ASSUME \A u \in Tasks : pc'[u] \notin {"prune", "find"}
  PROVE  Pruned'
BY DEF Pruned

LEMMA PrunedStep == IInv /\ Pruned /\ [Next]_vars => Pruned'
<1> SUFFICES ASSUME IInv, Pruned, [Next]_vars PROVE Pruned'
  OBVIOUS
<1>0. /\ pc \in [Tasks -> {"idle", "lock", "prune", "find", "send"}]
      /\ i \in [Tasks -> Nat] /\ now \in [Tasks -> 0 .. TickModulus - 1]
      /\ entries \in Seq(Request) /\ created_at \in Seq(0 .. TickModulus - 1)
      /\ Len(created_at) = Len(entries)
  BY DEF IInv, TypeOK
<1>1. CASE UNCHANGED vars
  BY <1>1, PrunedStays DEF vars, table, locals
<1>2. CASE Tick \/ DeliverRequest \/ DeliverOther
  BY <1>2, PrunedStays DEF Tick, DeliverRequest, DeliverOther, mesh_recv_cb, table, locals
<1>3. CASE Operator
  <2>1. /\ UNCHANGED <<entries, created_at, now, i>>
        /\ pc' = [pc EXCEPT !["serial"] = "lock"] \/ pc' = pc
    BY <1>3 DEF Operator, read_color, send_color_query, Call, table, locals
  <2> QED
    BY <1>0, <2>1, PrunedStays
<1>4. CASE process_uuid_request \/ process_other_packet
  <2>1. /\ UNCHANGED <<entries, created_at, now, i>>
        /\ pc' = [pc EXCEPT !["rx"] = "lock"] \/ pc' = pc
    BY <1>4 DEF process_uuid_request, process_other_packet, Call, table, locals
  <2> QED
    BY <1>0, <2>1, PrunedStays
<1>5. CASE send_color_response_ok \/ send_color_response_failed
  <2>1. /\ UNCHANGED <<entries, created_at, now, i>>
        /\ \E next \in {"idle", "lock"} : pc' = [pc EXCEPT !["serial"] = next]
    BY <1>5 DEF send_color_response_ok, send_color_response_failed, Call, table
  <2> QED
    BY <1>0, <2>1, PrunedStays
<1>6. ASSUME NEW t \in Tasks, xSemaphoreTake(t) PROVE Pruned'
  <2>1. /\ pending_lock = NoTask
        /\ pc' = [pc EXCEPT ![t] = "prune"] /\ i' = [i EXCEPT ![t] = 1]
        /\ UNCHANGED entries
    BY <1>6 DEF xSemaphoreTake, table
  <2>2. \A u \in Tasks \ {t} : pc'[u] \notin {"prune", "find"}
    BY <1>0, <2>1 DEF IInv, LockHeld, Tasks, NoTask
  <2>3. pc'[t] = "prune" /\ i'[t] = 1 /\ \A k \in DOMAIN entries' : ~(k < i'[t])
    BY <1>0, <2>1
  <2> QED
    BY <2>2, <2>3 DEF Pruned
<1>7. ASSUME NEW t \in Tasks, prune_keep(t) \/ prune_done(t) \/ prune_remove(t) PROVE Pruned'
  <2>1. pc[t] = "prune" /\ UNCHANGED now
    BY <1>7 DEF prune_keep, prune_done, prune_remove, locals
  <2>2. \A u \in Tasks \ {t} : pc[u] \notin {"prune", "find"}
    BY <2>1 DEF IInv, LockHeld
  <2>3. \A u \in Tasks \ {t} : pc'[u] \notin {"prune", "find"}
    BY <1>0, <1>7, <2>2 DEF prune_keep, prune_done, prune_remove
  <2>4. ASSUME NEW k \in DOMAIN entries', pc'[t] = "find" \/ (pc'[t] = "prune" /\ k < i'[t])
        PROVE  ~Expired(t, k)'
    <3>1. CASE prune_keep(t)
      <4>1. /\ ~Expired(t, i[t]) /\ i' = [i EXCEPT ![t] = @ + 1]
            /\ UNCHANGED <<pc, now, entries, created_at>>
        BY <3>1 DEF prune_keep, table
      <4>2. k \in DOMAIN entries /\ (k < i[t] \/ k = i[t])
        BY <1>0, <2>1, <2>4, <4>1
      <4> QED
        BY <2>1, <4>1, <4>2 DEF Pruned, Expired
    <3>2. CASE prune_done(t)
      <4>1. i[t] > Len(entries) /\ UNCHANGED <<i, now, entries, created_at>>
        BY <3>2 DEF prune_done, table, locals
      <4>2. k \in DOMAIN entries /\ k < i[t]
        BY <1>0, <4>1
      <4> QED
        BY <2>1, <4>1, <4>2 DEF Pruned, Expired
    <3>3. CASE prune_remove(t)
      <4>1. /\ i[t] \in 1 .. Len(entries)
            /\ entries' = SwapRemove(entries, i[t])
            /\ created_at' = SwapRemove(created_at, i[t])
            /\ UNCHANGED <<pc, i, now>>
        BY <1>0, <3>3 DEF prune_remove, locals, IInv, IndexOK
      <4>2. DOMAIN entries' = 1 .. Len(entries) - 1
        BY <1>0, <4>1, SwapRemoveIs
      <4>3. k \in 1 .. Len(entries) - 1 /\ k < i[t]
        BY <2>1, <2>4, <4>1, <4>2
      <4>4. created_at'[k] = created_at[k]
        <5>1. i[t] \in 1 .. Len(created_at) /\ k \in 1 .. Len(created_at) - 1 /\ k # i[t]
          BY <1>0, <4>1, <4>3
        <5>2. \A j \in 1 .. Len(created_at) - 1 :
                SwapRemove(created_at, i[t])[j] = IF j = i[t] THEN created_at[Len(created_at)]
                                                  ELSE created_at[j]
          BY <1>0, <5>1, SwapRemoveIs
        <5> QED
          BY <4>1, <5>1, <5>2
      <4>5. k \in DOMAIN entries /\ ~Expired(t, k)
        BY <1>0, <2>1, <4>3 DEF Pruned
      <4> QED
        BY <4>1, <4>4, <4>5 DEF Expired
    <3> QED
      BY <1>7, <3>1, <3>2, <3>3
  <2> QED
    BY <2>3, <2>4 DEF Pruned
<1>8. ASSUME NEW t \in Tasks,
             pending_add_replace(t) \/ pending_add_append(t) \/ pending_add_full(t)
      PROVE  Pruned'
  <2>1. pc[t] = "find" /\ pc' = [pc EXCEPT ![t] = "idle"]
    BY <1>8 DEF pending_add_replace, pending_add_append, pending_add_full, Return, Finish
  <2>2. \A u \in Tasks \ {t} : pc[u] \notin {"prune", "find"}
    BY <2>1 DEF IInv, LockHeld
  <2>3. \A u \in Tasks : pc'[u] \notin {"prune", "find"}
    BY <1>0, <2>1, <2>2
  <2> QED
    BY <2>3, NobodyThere
<1>9. CASE pending_take_found \/ pending_take_none
  <2>1. pc["serial"] = "find"
        /\ \E next \in {"send", "idle"} : pc' = [pc EXCEPT !["serial"] = next]
    BY <1>9 DEF pending_take_found, pending_take_none, Return, Finish
  <2>2. pc["rx"] \notin {"prune", "find"}
    BY <2>1 DEF IInv, LockHeld, Tasks
  <2>3. \A u \in Tasks : pc'[u] \notin {"prune", "find"}
    BY <1>0, <2>1, <2>2 DEF Tasks
  <2> QED
    BY <2>3, NobodyThere
<1>10. ASSUME NEW t \in Tasks, TableStep(t) PROVE Pruned'
  BY <1>7, <1>8, <1>10 DEF TableStep
<1> QED
  BY <1>1, <1>2, <1>3, <1>4, <1>5, <1>6, <1>9, <1>10 DEF Next, mesh_rx_task, serial_task, Tasks

\* The loop over an array that shrinks under it misses nothing: no task looks
\* for its node, or finds the table full, before what has expired is gone
\* (root_main.c:44-59 and its callers).
THEOREM PrunedHolds == Spec => []PrunedBeforeUse
<1>1. Init => Pruned
  BY DEF Init, Pruned
<1>2. Pruned => PrunedBeforeUse
  BY DEF Pruned, PrunedBeforeUse
<1> QED
  BY <1>1, <1>2, PrunedStep, InductiveInvariant, PTL DEF Spec

\* Only serial_task, which puts a request back after a failed send, brings a
\* session into the table that is not the last of its node (root_main.c:103).
THEOREM StaleHolds == Spec => StaleOnlyByPutBack
<1> DEFINE Kept ==
      \A r \in Open' : r.session # newest'[r.node] =>
        r \in Held \/ (r \in Open /\ r.session # newest[r.node])
<1>1. ASSUME IInv, Open' \subseteq Open, UNCHANGED newest PROVE Kept
  BY <1>1
<1>2. ASSUME UNCHANGED <<entries, newest>> PROVE Open' \subseteq Open /\ UNCHANGED newest
  BY <1>2 DEF Open
<1>3. ASSUME IInv, NEW t \in Tasks,
             pending_add_replace(t) \/ pending_add_append(t) \/ pending_add_full(t)
      PROVE  Kept
  <2>1. pc[t] = "find" /\ op[t] = "add" /\ NoteNewest(t)
    BY <1>3 DEF pending_add_replace, pending_add_append, pending_add_full
  <2>2. /\ arg[t] \in Request
        /\ (pending_add_full(t) /\ Open' = Open) \/ Supersedes(arg[t])
    BY <1>3, AddStep
  <2>3. CASE t = "serial"
    <3>1. UNCHANGED newest /\ arg[t] \in Held
      BY <2>1, <2>3 DEF NoteNewest, Held
    <3> QED
      BY <2>2, <3>1 DEF Supersedes
  <2>4. CASE t = "rx"
    <3>1. /\ newest' = [newest EXCEPT ![arg[t].node] = arg[t].session]
          /\ newest \in [Nodes -> Sessions \cup {NoSession}]
          /\ arg[t].node \in Nodes
      BY <1>3, <2>1, <2>2, <2>4 DEF NoteNewest, IInv, TypeOK, Request
    <3>2. \A q \in Open : q \in Request
      BY <1>3 DEF IInv, TypeOK, Open
    <3>3. CASE Supersedes(arg[t])
      BY <2>2, <3>1, <3>2, <3>3 DEF Supersedes, Request
    <3>4. CASE pending_add_full(t) /\ Open' = Open
      <4>1. \A q \in Open : q.node # arg[t].node
        BY <3>4 DEF pending_add_full, Slots, Open
      <4> QED
        BY <3>1, <3>2, <3>4, <4>1 DEF Request
    <3> QED
      BY <2>2, <3>3, <3>4
  <2> QED
    BY <2>3, <2>4 DEF Tasks
<1>4. ASSUME IInv, [Next]_vars PROVE Kept
  <2>1. CASE UNCHANGED vars \/ Tick \/ DeliverRequest \/ DeliverOther \/ Operator
             \/ process_uuid_request \/ process_other_packet
    BY <1>1, <1>2, <1>4, <2>1 DEF vars, Tick, DeliverRequest, DeliverOther, mesh_recv_cb, Operator,
       read_color, send_color_query, process_uuid_request, process_other_packet, table, history
  <2>2. ASSUME NEW t \in Tasks, xSemaphoreTake(t) \/ prune_keep(t) \/ prune_done(t) PROVE Kept
    BY <1>1, <1>2, <1>4, <2>2 DEF xSemaphoreTake, prune_keep, prune_done, table, history
  <2>3. ASSUME NEW t \in Tasks, prune_remove(t) PROVE Kept
    <3>1. Open' \subseteq Open
      BY <1>4, <2>3, PruneStep
    <3> QED
      BY <1>1, <1>4, <2>3, <3>1 DEF prune_remove, history
  <2>4. ASSUME NEW t \in Tasks, TableStep(t) PROVE Kept
    BY <1>3, <1>4, <2>2, <2>3, <2>4 DEF TableStep
  <2>5. CASE pending_take_found \/ pending_take_none
    <3>1. Open' \subseteq Open
      BY <1>4, <2>5, TakeStep
    <3> QED
      BY <1>1, <1>4, <2>5, <3>1 DEF pending_take_found, pending_take_none, history
  <2>6. CASE send_color_response_ok \/ send_color_response_failed
    BY <1>1, <1>2, <1>4, <2>6 DEF send_color_response_ok, send_color_response_failed, table, history
  <2> QED
    BY <1>4, <2>1, <2>2, <2>4, <2>5, <2>6 DEF Next, mesh_rx_task, serial_task, Tasks
<1> HIDE DEF Kept
<1>5. IInv /\ [Next]_vars => [Kept]_vars
  BY <1>4
<1> QED
  BY <1>5, InductiveInvariant, PTL DEF Spec, StaleOnlyByPutBack, Kept
-----------------------------------------------------------------------------
\* What % leaves is below the modulus, and a multiple of it away.
LEMMA ModIs ==
  ASSUME NEW m \in Nat \ {0}, NEW a \in Int
  PROVE  a % m \in 0 .. m - 1 /\ \E q \in Int : a = m * q + (a % m)
<1>1. a % m \in 0 .. m - 1
  OBVIOUS
<1>2. a \div m \in Int /\ a = m * (a \div m) + (a % m)
  OBVIOUS
<1> QED
  BY <1>1, <1>2

\* A multiple of m that is between -m and m is zero.
LEMMA NoMultiple ==
  ASSUME NEW m \in Nat \ {0}, NEW q \in Int, -m < m * q, m * q < m
  PROVE  q = 0
<1>1. ASSUME q >= 1 PROVE m * q >= m
  BY <1>1
<1>2. ASSUME q <= -1 PROVE m * q <= -m
  BY <1>2
<1> QED
  BY <1>1, <1>2

\* The difference of two remainders is that of the numbers, when these are less
\* than the modulus apart.
LEMMA DifferenceOfRemainders ==
  ASSUME NEW m \in Nat \ {0}, NEW a \in Int, NEW b \in Int, 0 <= a - b, a - b < m
  PROVE  ((a % m) - (b % m)) % m = a - b
<1> DEFINE x == a % m
           y == b % m
           e == x - y
           d == e % m
<1>1. PICK p \in Int : a = m * p + x
  BY ModIs
<1>2. PICK q \in Int : b = m * q + y
  BY ModIs
<1>3. x \in Int /\ y \in Int
  OBVIOUS
<1> HIDE DEF x, y
<1>4. e \in Int /\ e = x - y
  BY <1>3
<1> HIDE DEF e
<1>5. d \in 0 .. m - 1
  BY <1>4, ModIs
<1>6. PICK r \in Int : e = m * r + d
  BY <1>4, ModIs
<1> HIDE DEF d
<1>7. (a - b) - d = m * (p - q + r)
  <2>1. a - b = m * p - m * q + e
    BY <1>1, <1>2, <1>3, <1>4
  <2>2. m * (p - q + r) = m * p - m * q + m * r
    OBVIOUS
  <2>3. m * p \in Int /\ m * q \in Int /\ m * r \in Int
    OBVIOUS
  <2> QED
    BY <1>4, <1>5, <1>6, <2>1, <2>2, <2>3
<1>8. p - q + r = 0
  <2>1. -m < (a - b) - d /\ (a - b) - d < m
    BY <1>5
  <2>2. p - q + r \in Int
    OBVIOUS
  <2> QED
    BY <1>7, <2>1, <2>2, NoMultiple
<1>9. (a - b) - d = 0
  BY <1>7, <1>8
<1> QED
  BY <1>5, <1>9 DEF d, e, x, y

\* So the unsigned difference of the tick counts of two times less than a turn of
\* the counter apart is that of the times, also when the counter wrapped.
LEMMA TickDifferenceIs ==
  ASSUME NEW later \in Nat, NEW earlier \in 0 .. later, later < TickModulus
  PROVE  TickDifference((BootTick + later) % TickModulus, (BootTick + earlier) % TickModulus)
           = later - earlier
<1> DEFINE a == BootTick + later
           b == BootTick + earlier
<1>1. TickModulus \in Nat \ {0} /\ BootTick \in Nat
  BY RootAssumption
<1>2. a \in Int /\ b \in Int /\ a - b = later - earlier /\ 0 <= a - b /\ a - b < TickModulus
  BY <1>1
<1> HIDE DEF a, b
<1>3. ((a % TickModulus) - (b % TickModulus)) % TickModulus = a - b
  BY <1>1, <1>2, DifferenceOfRemainders
<1> QED
  BY <1>2, <1>3 DEF TickDifference, a, b

\* Each entry has the tick count of the time at which it was written, and a task
\* in the table works with the tick count of a time after that.
Stamped ==
  \A k \in DOMAIN entries :
    /\ written[entries[k].node] <= clock
    /\ created_at[k] = (BootTick + written[entries[k].node]) % TickModulus

Dated ==
  \A t \in Tasks : pc[t] \in {"prune", "find"} =>
    \E c \in 0 .. clock :
      /\ now[t] = (BootTick + c) % TickModulus
      /\ \A k \in DOMAIN entries : written[entries[k].node] <= c

Aged == Stamped /\ Dated

\* An entry is of a node, and was written before now.
LEMMA EntryIs ==
  ASSUME IInv, NEW k \in DOMAIN entries
  PROVE  entries[k].node \in Nodes /\ written[entries[k].node] \in 0 .. MaxClock
<1>1. entries[k] \in Request
  BY DEF IInv, TypeOK
<1>2. entries[k].node \in Nodes
  BY <1>1 DEF Request
<1> QED
  BY <1>2 DEF IInv, TypeOK

\* Entries that were there, with their ages, keep both while time passes.
LEMMA AgedStays ==
  ASSUME IInv, IInv', Aged, UNCHANGED written, clock' >= clock,
         \A k \in DOMAIN entries' : \E j \in DOMAIN entries :
           entries'[k] = entries[j] /\ created_at'[k] = created_at[j],
         \A t \in Tasks : pc'[t] \in {"prune", "find"} =>
           pc[t] \in {"prune", "find"} /\ now'[t] = now[t]
  PROVE  Aged'
<1>1. /\ clock \in Nat /\ clock' \in Nat
      /\ entries \in Seq(Request)
      /\ written \in [Nodes -> Nat]
  BY DEF IInv, TypeOK
<1>2. Stamped'
  <2> SUFFICES ASSUME NEW k \in DOMAIN entries'
               PROVE  /\ written[entries'[k].node] <= clock'
                      /\ created_at'[k] = (BootTick + written[entries'[k].node]) % TickModulus
    BY DEF Stamped
  <2>1. PICK j \in DOMAIN entries : entries'[k] = entries[j] /\ created_at'[k] = created_at[j]
    OBVIOUS
  <2>2. /\ written[entries[j].node] <= clock
        /\ created_at[j] = (BootTick + written[entries[j].node]) % TickModulus
    BY DEF Aged, Stamped
  <2>3. written[entries[j].node] \in 0 .. MaxClock
    BY EntryIs
  <2> QED
    BY <1>1, <2>1, <2>2, <2>3, RootAssumption
<1>3. Dated'
  <2> SUFFICES ASSUME NEW t \in Tasks, pc'[t] \in {"prune", "find"}
               PROVE  \E c \in 0 .. clock' :
                        /\ now'[t] = (BootTick + c) % TickModulus
                        /\ \A k \in DOMAIN entries' : written[entries'[k].node] <= c
    BY DEF Dated
  <2>1. PICK c \in 0 .. clock :
          /\ now[t] = (BootTick + c) % TickModulus
          /\ \A k \in DOMAIN entries : written[entries[k].node] <= c
    BY DEF Aged, Dated
  <2>2. c \in 0 .. clock'
    BY <1>1
  <2>3. \A k \in DOMAIN entries' : written[entries'[k].node] <= c
    BY <2>1
  <2> QED
    BY <2>1, <2>2, <2>3
<1> QED
  BY <1>2, <1>3 DEF Aged

\* The removal of an entry moves one with its age.
LEMMA RemoveKeepsAges ==
  ASSUME IInv, NEW k \in DOMAIN entries,
         entries' = SwapRemove(entries, k), created_at' = SwapRemove(created_at, k)
  PROVE  \A n \in DOMAIN entries' : \E j \in DOMAIN entries :
           entries'[n] = entries[j] /\ created_at'[n] = created_at[j]
<1>1. /\ entries \in Seq(Request) /\ created_at \in Seq(0 .. TickModulus - 1)
      /\ Len(created_at) = Len(entries)
      /\ k \in 1 .. Len(entries) /\ k \in 1 .. Len(created_at)
  BY DEF IInv, TypeOK
<1>2. /\ DOMAIN entries' = 1 .. Len(entries) - 1
      /\ \A j \in 1 .. Len(entries) - 1 :
           entries'[j] = IF j = k THEN entries[Len(entries)] ELSE entries[j]
  BY <1>1, SwapRemoveIs
<1>3. \A j \in 1 .. Len(created_at) - 1 :
        created_at'[j] = IF j = k THEN created_at[Len(created_at)] ELSE created_at[j]
  BY <1>1, SwapRemoveIs
<1>0. DOMAIN entries = 1 .. Len(entries)
  BY <1>1
<1> SUFFICES ASSUME NEW n \in 1 .. Len(entries) - 1
             PROVE  \E j \in 1 .. Len(entries) :
                      entries'[n] = entries[j] /\ created_at'[n] = created_at[j]
  BY <1>0, <1>2
<1>4. CASE n = k
  <2>1. Len(entries) \in 1 .. Len(entries)
    BY <1>1
  <2> QED
    BY <1>1, <1>2, <1>3, <1>4, <2>1
<1>5. CASE n # k
  <2>1. n \in 1 .. Len(entries)
    BY <1>1
  <2> QED
    BY <1>1, <1>2, <1>3, <1>5, <2>1
<1> QED
  BY <1>4, <1>5

\* pending_add stamps the entry that it writes, and no other one is of its node.
LEMMA AddStamps ==
  ASSUME IInv, IInv', Aged, NEW t \in Tasks,
         pending_add_replace(t) \/ pending_add_append(t)
  PROVE  Aged'
<1>1. /\ pc[t] = "find" /\ pc' = [pc EXCEPT ![t] = "idle"]
      /\ written' = [written EXCEPT ![arg[t].node] = clock]
      /\ UNCHANGED clock
  BY DEF pending_add_replace, pending_add_append, NoteWritten, Return, Finish, env
<1>2. /\ clock \in Nat
      /\ entries \in Seq(Request) /\ created_at \in Seq(0 .. TickModulus - 1)
      /\ Len(created_at) = Len(entries)
      /\ written \in [Nodes -> Nat]
      /\ pc \in [Tasks -> {"idle", "lock", "prune", "find", "send"}]
  BY DEF IInv, TypeOK
<1>3. arg[t] \in Request
  BY AddStep
<1>4. \A u \in Tasks : pc'[u] \notin {"prune", "find"}
  BY <1>1, <1>2 DEF IInv, LockHeld
<1>5. Dated'
  BY <1>4 DEF Dated
<1>6. written'[arg[t].node] = clock
      /\ \A n \in Nodes \ {arg[t].node} : written'[n] = written[n]
  BY <1>1, <1>2, <1>3 DEF Request
<1>7. \A k \in DOMAIN entries' :
        \/ entries'[k].node = arg[t].node /\ created_at'[k] = xTaskGetTickCount
        \/ /\ k \in DOMAIN entries
           /\ entries'[k] = entries[k] /\ created_at'[k] = created_at[k]
           /\ entries[k].node \in Nodes \ {arg[t].node}
  <2>1. CASE pending_add_replace(t)
    <3>1. PICK k \in Slots(arg[t].node) :
            /\ entries' = [entries EXCEPT ![k].session = arg[t].session]
            /\ created_at' = [created_at EXCEPT ![k] = xTaskGetTickCount]
      BY <2>1 DEF pending_add_replace, FirstSlot
    <3>2. k \in DOMAIN entries /\ entries[k].node = arg[t].node /\ k \in DOMAIN created_at
      BY <1>2 DEF Slots
    <3>3. DOMAIN entries' = DOMAIN entries /\ DOMAIN created_at = DOMAIN entries
      BY <1>2, <3>1
    <3>4. entries'[k].node = arg[t].node /\ created_at'[k] = xTaskGetTickCount
      <4>1. entries'[k] = [entries[k] EXCEPT !.session = arg[t].session]
        BY <3>1, <3>2
      <4>2. entries[k] \in Request
        BY <1>2, <3>2
      <4>3. created_at'[k] = xTaskGetTickCount
        BY <3>1, <3>2
      <4> QED
        BY <3>2, <4>1, <4>2, <4>3 DEF Request
    <3>5. ASSUME NEW j \in DOMAIN entries, j # k
          PROVE  /\ entries'[j] = entries[j] /\ created_at'[j] = created_at[j]
                 /\ entries[j].node \in Nodes \ {arg[t].node}
      <4>1. entries[j].node # entries[k].node
        BY <3>2, <3>5 DEF IInv, OneEntryPerNode
      <4>2. entries[j].node \in Nodes
        BY EntryIs
      <4> QED
        BY <1>2, <3>1, <3>2, <3>3, <3>5, <4>1, <4>2
    <3> QED
      BY <3>3, <3>4, <3>5
  <2>2. CASE pending_add_append(t)
    <3>1. /\ Slots(arg[t].node) = {}
          /\ entries' = Append(entries, arg[t])
          /\ created_at' = Append(created_at, xTaskGetTickCount)
      BY <2>2 DEF pending_add_append
    <3>2. \A j \in DOMAIN entries : entries[j].node \in Nodes \ {arg[t].node}
      BY <3>1, EntryIs DEF Slots
    <3> QED
      BY <1>2, <3>1, <3>2
  <2> QED
    BY <2>1, <2>2
<1>8. Stamped'
  <2> SUFFICES ASSUME NEW k \in DOMAIN entries'
               PROVE  /\ written'[entries'[k].node] <= clock'
                      /\ created_at'[k] = (BootTick + written'[entries'[k].node]) % TickModulus
    BY DEF Stamped
  <2>1. CASE entries'[k].node = arg[t].node /\ created_at'[k] = xTaskGetTickCount
    BY <1>1, <1>2, <1>6, <2>1 DEF xTaskGetTickCount
  <2>2. CASE /\ k \in DOMAIN entries
             /\ entries'[k] = entries[k] /\ created_at'[k] = created_at[k]
             /\ entries[k].node \in Nodes \ {arg[t].node}
    <3>1. /\ written[entries[k].node] <= clock
          /\ created_at[k] = (BootTick + written[entries[k].node]) % TickModulus
      BY <2>2 DEF Aged, Stamped
    <3> QED
      BY <1>1, <1>6, <2>2, <3>1
  <2> QED
    BY <1>7, <2>1, <2>2
<1> QED
  BY <1>5, <1>8 DEF Aged

LEMMA AgedStep == IInv /\ IInv' /\ Aged /\ [Next]_vars => Aged'
<1> SUFFICES ASSUME IInv, IInv', Aged, [Next]_vars PROVE Aged'
  OBVIOUS
<1> DEFINE Moved ==
      /\ UNCHANGED written
      /\ \A k \in DOMAIN entries' : \E j \in DOMAIN entries :
           entries'[k] = entries[j] /\ created_at'[k] = created_at[j]
           Stay ==
      /\ clock' >= clock
      /\ \A t \in Tasks : pc'[t] \in {"prune", "find"} =>
           pc[t] \in {"prune", "find"} /\ now'[t] = now[t]
<1>0. /\ clock \in Nat
      /\ pc \in [Tasks -> {"idle", "lock", "prune", "find", "send"}]
  BY DEF IInv, TypeOK
<1>1. Moved /\ Stay => Aged'
  BY AgedStays
<1>2. UNCHANGED <<entries, created_at, written>> => Moved
  OBVIOUS
<1> HIDE DEF Moved
<1>3. CASE UNCHANGED vars \/ Tick \/ DeliverRequest \/ DeliverOther
  <2>1. /\ UNCHANGED <<entries, created_at, written, now, pc>>
        /\ clock' = clock \/ clock' = clock + 1
    BY <1>3 DEF vars, Tick, DeliverRequest, DeliverOther, mesh_recv_cb, table, env, locals, history
  <2> QED
    BY <1>0, <1>1, <1>2, <2>1
<1>4. CASE Operator \/ process_uuid_request \/ process_other_packet
  <2>1. /\ UNCHANGED <<entries, created_at, written, now, clock>>
        /\ \E t \in Tasks : pc' = [pc EXCEPT ![t] = "lock"] \/ pc' = pc
    BY <1>4 DEF Operator, read_color, send_color_query, process_uuid_request, process_other_packet,
       Call, table, locals, env, history, Tasks
  <2> QED
    BY <1>0, <1>1, <1>2, <2>1
<1>5. CASE send_color_response_ok \/ send_color_response_failed
  <2>1. /\ UNCHANGED <<entries, created_at, written, now, clock>>
        /\ \E next \in {"idle", "lock"} : pc' = [pc EXCEPT !["serial"] = next]
    BY <1>5 DEF send_color_response_ok, send_color_response_failed, Call, table, env, history
  <2> QED
    BY <1>0, <1>1, <1>2, <2>1
<1>6. ASSUME NEW t \in Tasks, xSemaphoreTake(t) PROVE Aged'
  <2>1. /\ pending_lock = NoTask
        /\ pc' = [pc EXCEPT ![t] = "prune"]
        /\ now' = [now EXCEPT ![t] = (BootTick + clock) % TickModulus]
        /\ UNCHANGED <<entries, created_at, written, clock>>
    BY <1>6 DEF xSemaphoreTake, table, env, history, xTaskGetTickCount
  <2>2. now'[t] = (BootTick + clock) % TickModulus
    BY <2>1 DEF IInv, TypeOK
  <2>3. \A u \in Tasks \ {t} : pc'[u] \notin {"prune", "find"}
    BY <1>0, <2>1 DEF IInv, LockHeld, Tasks, NoTask
  <2>4. Stamped'
    BY <2>1 DEF Aged, Stamped
  <2>5. /\ clock \in 0 .. clock
        /\ \A k \in DOMAIN entries : written[entries[k].node] <= clock
    BY <1>0 DEF Aged, Stamped
  <2>6. Dated'
    BY <2>1, <2>2, <2>3, <2>5 DEF Dated
  <2> QED
    BY <2>4, <2>6 DEF Aged
<1>7. ASSUME NEW t \in Tasks, prune_keep(t) \/ prune_done(t) \/ prune_remove(t) PROVE Aged'
  <2>1. /\ pc[t] = "prune"
        /\ pc' = pc \/ pc' = [pc EXCEPT ![t] = "find"]
        /\ UNCHANGED <<now, clock, written>>
    BY <1>7 DEF prune_keep, prune_done, prune_remove, locals, env, history
  <2>2. Stay
    BY <1>0, <2>1
  <2>3. Moved
    <3>1. CASE prune_keep(t) \/ prune_done(t)
      BY <1>2, <2>1, <3>1 DEF prune_keep, prune_done, table
    <3>2. CASE prune_remove(t)
      <4>1. /\ i[t] \in DOMAIN entries
            /\ entries' = SwapRemove(entries, i[t]) /\ created_at' = SwapRemove(created_at, i[t])
        BY <3>2 DEF prune_remove, IInv, TypeOK, IndexOK
      <4> QED
        BY <2>1, <4>1, RemoveKeepsAges DEF Moved
    <3> QED
      BY <1>7, <3>1, <3>2
  <2> QED
    BY <1>1, <2>2, <2>3
<1>8. ASSUME NEW t \in Tasks,
             pending_add_replace(t) \/ pending_add_append(t) \/ pending_add_full(t)
      PROVE  Aged'
  <2>1. CASE pending_add_full(t)
    <3>1. /\ pc' = [pc EXCEPT ![t] = "idle"] /\ now' = [now EXCEPT ![t] = 0]
          /\ UNCHANGED <<entries, created_at, written, clock>>
      BY <2>1 DEF pending_add_full, Return, Finish, table, env
    <3>2. Stay
      BY <1>0, <3>1 DEF IInv, TypeOK
    <3> QED
      BY <1>1, <1>2, <3>1, <3>2
  <2> QED
    BY <1>8, <2>1, AddStamps
<1>9. CASE pending_take_found \/ pending_take_none
  <2>1. /\ \E next \in {"send", "idle"} : pc' = [pc EXCEPT !["serial"] = next]
        /\ now' = [now EXCEPT !["serial"] = 0]
        /\ UNCHANGED <<written, clock>>
    BY <1>9 DEF pending_take_found, pending_take_none, Return, Finish, env, history
  <2>2. Stay
    BY <1>0, <2>1 DEF IInv, TypeOK, Tasks
  <2>3. Moved
    <3>1. CASE pending_take_none
      BY <1>2, <2>1, <3>1 DEF pending_take_none, table
    <3>2. CASE pending_take_found
      <4>1. PICK k \in Slots(arg["serial"].node) :
              entries' = SwapRemove(entries, k) /\ created_at' = SwapRemove(created_at, k)
        BY <3>2 DEF pending_take_found, FirstSlot
      <4>2. k \in DOMAIN entries
        BY DEF Slots
      <4> QED
        BY <2>1, <4>1, <4>2, RemoveKeepsAges DEF Moved
    <3> QED
      BY <1>9, <3>1, <3>2
  <2> QED
    BY <1>1, <2>2, <2>3
<1>10. ASSUME NEW t \in Tasks, TableStep(t) PROVE Aged'
  BY <1>7, <1>8, <1>10 DEF TableStep
<1> QED
  BY <1>3, <1>4, <1>5, <1>6, <1>9, <1>10 DEF Next, mesh_rx_task, serial_task, Tasks

\* What the loop removes has expired by the clock, not only by the tick count.
LEMMA ExpiredIsOld ==
  ASSUME IInv, Aged, NEW t \in Tasks, pc[t] = "prune", NEW k \in DOMAIN entries, Expired(t, k)
  PROVE  clock - written[entries[k].node] >= PENDING_REQUEST_TIMEOUT
<1> DEFINE w == written[entries[k].node]
<1>1. /\ clock \in Nat /\ clock < TickModulus
      /\ w \in Nat /\ PENDING_REQUEST_TIMEOUT \in Nat
  <2>1. clock \in 0 .. MaxClock /\ w \in 0 .. MaxClock
    BY EntryIs DEF IInv, TypeOK
  <2> QED
    BY <2>1, RootAssumption
<1>2. PICK c \in 0 .. clock : now[t] = (BootTick + c) % TickModulus /\ w <= c
  BY DEF Aged, Dated
<1>3. created_at[k] = (BootTick + w) % TickModulus
  BY DEF Aged, Stamped
<1> HIDE DEF w
<1>4. TickDifference(now[t], created_at[k]) = c - w
  <2>1. c \in Nat /\ w \in 0 .. c /\ c < TickModulus
    BY <1>1, <1>2, RootAssumption
  <2> QED
    BY <1>2, <1>3, <2>1, TickDifferenceIs
<1>5. clock - w >= PENDING_REQUEST_TIMEOUT
  BY <1>1, <1>2, <1>4 DEF Expired
<1> QED
  BY <1>5 DEF w

\* Pruning never takes an entry before its time, for every width of the tick counter,
\* capacity and timeout (root_main.c:44-59): the loop moves an entry with its age, and
\* the unsigned difference is right across the wrap.
THEOREM ExpiryHolds == Spec => NoEarlyExpiry
<1> DEFINE Removed ==
      \A t \in Tasks : pc[t] = "prune" /\ pc'[t] = "prune" =>
        \A k \in DOMAIN entries :
          entries[k] \notin {entries'[j] : j \in DOMAIN entries'} =>
            clock - written[entries[k].node] >= PENDING_REQUEST_TIMEOUT
<1>1. ASSUME IInv, Aged, [Next]_vars PROVE Removed
  <2> SUFFICES ASSUME NEW t \in Tasks, pc[t] = "prune", pc'[t] = "prune",
                      NEW k \in DOMAIN entries,
                      entries[k] \notin {entries'[j] : j \in DOMAIN entries'}
               PROVE  clock - written[entries[k].node] >= PENDING_REQUEST_TIMEOUT
    OBVIOUS
  <2>1. entries' # entries
    OBVIOUS
  <2>2. \A u \in Tasks : pc[u] \in {"prune", "find"} => u = t
    BY <1>1 DEF IInv, LockHeld
  <2>3. PICK u \in Tasks : prune_remove(u)
    BY <1>1, <2>1, <2>2 DEF Next, vars, table, Tick, DeliverRequest, DeliverOther, mesh_recv_cb,
       mesh_rx_task, serial_task, TableStep, Operator, process_uuid_request, process_other_packet,
       xSemaphoreTake, prune_keep, prune_done, pending_add_replace, pending_add_append,
       pending_add_full, read_color, send_color_query, pending_take_found, pending_take_none,
       send_color_response_ok, send_color_response_failed, Tasks
  <2>4. u = t
    BY <2>2, <2>3 DEF prune_remove
  <2>5. /\ i[t] \in DOMAIN entries /\ Expired(t, i[t])
        /\ Open' = Open \ {entries[i[t]]}
    BY <1>1, <2>3, <2>4, PruneStep DEF prune_remove, IInv, TypeOK, IndexOK
  <2>6. entries[k] = entries[i[t]]
    BY <2>5 DEF Open
  <2> QED
    BY <1>1, <2>5, <2>6, ExpiredIsOld
<1> HIDE DEF Removed
<1>2. Init => Aged
  BY DEF Init, Aged, Stamped, Dated
<1>3. IInv /\ Aged /\ [Next]_vars => [Removed]_vars
  BY <1>1
<1> QED
  BY <1>2, <1>3, AgedStep, InductiveInvariant, PTL DEF Spec, NoEarlyExpiry, Removed
-----------------------------------------------------------------------------
\* The places of the ledger, by the state of the tasks.
LEMMA InboxIs ==
  /\ Inbox = Waiting \cup (IF pc["rx"] # "idle" THEN {arg["rx"]} ELSE {})
  /\ Inbox' = Waiting' \cup (IF pc'["rx"] # "idle" THEN {arg'["rx"]} ELSE {})
BY DEF Inbox, Waiting

LEMMA PlacesStay ==
  ASSUME UNCHANGED <<rx_queue, entries, arg, responses>>,
         pc'["rx"] = "idle" <=> pc["rx"] = "idle",
         Held' = Held
  PROVE  UNCHANGED <<Inbox, Open, Held, Answered>>
BY DEF Inbox, Open, Answered

LEMMA InitLedger == Init => Ledger!Init
<1> SUFFICES ASSUME Init PROVE Ledger!Init
  OBVIOUS
<1>1. Inbox = {} /\ Open = {} /\ Held = {} /\ Answered = {}
  BY DEF Init, Inbox, Open, Held, Answered, Tasks
<1> QED
  BY <1>1 DEF Ledger!Init, Init

\* A packet that arrives is a request that arrives, or nothing.
LEMMA DeliverIsArrive ==
  ASSUME IInv, DeliverRequest \/ DeliverOther
  PROVE  \/ UNCHANGED <<requested, Inbox, Open, Held, Answered>>
         \/ \E r \in Request : Ledger!Arrive(r)
<1>1. UNCHANGED <<entries, pc, op, arg, responses>>
  BY DEF DeliverRequest, DeliverOther, mesh_recv_cb, table, locals, output
<1>2. UNCHANGED <<Open, Held, Answered>>
  BY <1>1 DEF Open, Held, Answered
<1>3. \A packet \in Packet : mesh_recv_cb(packet) =>
        Waiting' \in {Waiting, Waiting \cup {q \in Request :
                                   packet = [type |-> "UUID_REQUEST", request |-> q]}}
  <2> SUFFICES ASSUME NEW packet \in Packet, mesh_recv_cb(packet),
                      rx_queue' = Append(rx_queue, packet)
               PROVE  Waiting' = Waiting \cup {q \in Request :
                                     packet = [type |-> "UUID_REQUEST", request |-> q]}
    BY DEF mesh_recv_cb, Waiting
  <2>1. rx_queue \in Seq(Packet)
    BY DEF IInv, TypeOK
  <2>2. /\ DOMAIN rx_queue' = DOMAIN rx_queue \cup {Len(rx_queue) + 1}
        /\ \A k \in DOMAIN rx_queue : rx_queue'[k] = rx_queue[k]
        /\ rx_queue'[Len(rx_queue) + 1] = packet
    BY <2>1
  <2>3. CASE packet.type = "UUID_REQUEST"
    <3>1. packet.request \in Request /\ packet = [type |-> "UUID_REQUEST", request |-> packet.request]
      BY <2>3 DEF Packet
    <3>2. Waiting' = Waiting \cup {packet.request}
      BY <2>2, <2>3 DEF Waiting
    <3> QED
      BY <3>1, <3>2
  <2>4. CASE packet.type # "UUID_REQUEST"
    <3>1. Waiting' = Waiting
      BY <2>2, <2>4 DEF Waiting
    <3> QED
      BY <2>4, <3>1
  <2> QED
    BY <2>3, <2>4
<1>4. CASE DeliverRequest
  <2>1. PICK r \in Request \ requested :
          /\ requested' = requested \cup {r}
          /\ mesh_recv_cb([type |-> "UUID_REQUEST", request |-> r])
    BY <1>4 DEF DeliverRequest
  <2>2. [type |-> "UUID_REQUEST", request |-> r] \in Packet
    BY DEF Packet
  <2>3. Waiting' \in {Waiting, Waiting \cup {r}}
    BY <1>3, <2>1, <2>2
  <2>4. Inbox' \in {Inbox, Inbox \cup {r}}
    BY <1>1, <2>3, InboxIs
  <2> QED
    BY <1>2, <2>1, <2>4 DEF Ledger!Arrive, Ledger!Request, Request
<1>5. CASE DeliverOther
  <2>1. [type |-> "OTHER"] \in Packet
    BY DEF Packet
  <2>2. Waiting' = Waiting
    BY <1>3, <1>5, <2>1 DEF DeliverOther
  <2> QED
    BY <1>1, <1>2, <1>5, <2>2, InboxIs DEF DeliverOther
<1> QED
  BY <1>4, <1>5

\* Taking a packet moves a request within the inbox.
LEMMA ProcessIsStutter ==
  ASSUME IInv, process_uuid_request \/ process_other_packet
  PROVE  UNCHANGED <<requested, Inbox, Open, Held, Answered>>
<1>1. /\ rx_queue # <<>>
      /\ rx_queue' = Tail(rx_queue)
      /\ pc["rx"] = "idle"
      /\ UNCHANGED <<requested, entries, responses>>
  BY DEF process_uuid_request, process_other_packet, env, table, output
<1>2. CASE process_other_packet
  <2>1. Waiting' = Waiting /\ UNCHANGED <<pc, op, arg>>
    BY <1>1, <1>2, QueueShrinks DEF process_other_packet, locals
  <2> QED
    BY <1>1, <2>1, InboxIs DEF Open, Held, Answered
<1>3. CASE process_uuid_request
  <2> DEFINE r == Head(rx_queue).request
  <2>1. /\ Head(rx_queue).type = "UUID_REQUEST"
        /\ pc' = [pc EXCEPT !["rx"] = "lock"]
        /\ op' = [op EXCEPT !["rx"] = "add"]
        /\ arg' = [arg EXCEPT !["rx"] = r]
    BY <1>3 DEF process_uuid_request, Call
  <2>2. Waiting' = Waiting \ {r} /\ r \in Waiting
    BY <1>1, <2>1, QueueShrinks
  <2> HIDE DEF r
  <2>3. pc'["rx"] = "lock" /\ arg'["rx"] = r
    BY <2>1 DEF IInv, TypeOK, Tasks
  <2>4. Inbox' = Inbox
    BY <1>1, <2>2, <2>3, InboxIs
  <2>5. Held' = Held
    BY <2>1 DEF Held, IInv, TypeOK, Tasks
  <2> QED
    BY <1>1, <2>4, <2>5 DEF Open, Answered
<1> QED
  BY <1>2, <1>3

\* Pruning an entry expires it; the rest of the loop is not seen.
LEMMA LoopIsExpire ==
  ASSUME IInv, NEW t \in Tasks,
         xSemaphoreTake(t) \/ prune_keep(t) \/ prune_done(t) \/ prune_remove(t)
  PROVE  \/ UNCHANGED <<requested, Inbox, Open, Held, Answered>>
         \/ \E r \in Request : Ledger!Expire(r)
<1>1. /\ UNCHANGED <<requested, rx_queue, op, arg, responses>>
      /\ pc[t] \in {"lock", "prune"}
      /\ pc' \in {pc, [pc EXCEPT ![t] = "prune"], [pc EXCEPT ![t] = "find"]}
  BY DEF xSemaphoreTake, prune_keep, prune_done, prune_remove, env, locals, output
<1>2. /\ pc'["rx"] = "idle" <=> pc["rx"] = "idle"
      /\ Held' = Held
  BY <1>1 DEF Held, IInv, TypeOK, OperationOK, Tasks
<1>3. CASE prune_remove(t)
  <2>1. entries[i[t]] \in Open /\ Open' = Open \ {entries[i[t]]}
    BY <1>3, PruneStep
  <2>2. Open \subseteq Request
    BY DEF Open, IInv, TypeOK
  <2>3. UNCHANGED <<Inbox, Answered>>
    BY <1>1, <1>2 DEF Inbox, Answered
  <2> QED
    BY <1>1, <1>2, <2>1, <2>2, <2>3 DEF Ledger!Expire
<1>4. CASE ~prune_remove(t)
  <2>1. UNCHANGED entries
    BY <1>4 DEF xSemaphoreTake, prune_keep, prune_done, table
  <2> QED
    BY <1>1, <1>2, <2>1, PlacesStay
<1> QED
  BY <1>3, <1>4

\* pending_add by mesh_rx_task records a request, by serial_task it puts one back.
LEMMA AddIsRecord ==
  ASSUME IInv, NEW t \in Tasks,
         pending_add_replace(t) \/ pending_add_append(t) \/ pending_add_full(t)
  PROVE  \E r \in Request : Ledger!Record(r) \/ Ledger!PutBack(r)
<1>1. /\ pc[t] = "find" /\ op[t] = "add"
      /\ pc' = [pc EXCEPT ![t] = "idle"]
      /\ op' = [op EXCEPT ![t] = "add"]
      /\ arg' = [arg EXCEPT ![t] = Nothing]
      /\ UNCHANGED <<requested, rx_queue, responses>>
  BY DEF pending_add_replace, pending_add_append, pending_add_full, Return, Finish, env, output
<1>2. arg[t] \in Request /\ Open' \in {Open, Ledger!Superseding(arg[t])}
  BY AddStep DEF Supersedes, Ledger!Superseding
<1>3. Answered' = Answered /\ Waiting' = Waiting
  BY <1>1 DEF Answered, Waiting
<1>4. CASE t = "rx"
  <2>1. Inbox' = Inbox \ {arg["rx"]} /\ arg["rx"] \in Inbox
    BY <1>1, <1>3, <1>4, InboxIs DEF IInv, TypeOK, QueueOnce, Tasks
  <2>2. Held' = Held
    BY <1>1, <1>4 DEF Held, IInv, TypeOK, Tasks
  <2> QED
    BY <1>1, <1>2, <1>3, <1>4, <2>1, <2>2 DEF Ledger!Record
<1>5. CASE t = "serial"
  <2>1. Inbox' = Inbox
    BY <1>1, <1>3, <1>5, InboxIs DEF IInv, TypeOK, Tasks
  <2>2. Held = {arg["serial"]} /\ Held' = {}
    BY <1>1, <1>5 DEF Held, IInv, TypeOK, Tasks
  <2> QED
    BY <1>1, <1>2, <1>3, <1>5, <2>1, <2>2 DEF Ledger!PutBack
<1> QED
  BY <1>4, <1>5 DEF Tasks

\* pending_take takes an open request, or finds none.
LEMMA TakeIsTake ==
  ASSUME IInv, pending_take_found \/ pending_take_none
  PROVE  \/ UNCHANGED <<requested, Inbox, Open, Held, Answered>>
         \/ \E r \in Request : Ledger!Take(r)
<1>1. /\ pc["serial"] = "find" /\ op["serial"] = "take"
      /\ \/ pc'["serial"] = "idle" /\ Open' = Open
         \/ /\ pc'["serial"] = "send"
            /\ arg'["serial"] \in Open
            /\ Open' = Open \ {arg'["serial"]}
  BY TakeStep
<1>2. /\ UNCHANGED <<requested, rx_queue, responses>>
      /\ pc'["rx"] = pc["rx"] /\ arg'["rx"] = arg["rx"]
  BY DEF pending_take_found, pending_take_none, Return, Finish, env, output, IInv, TypeOK, Tasks
<1>3. UNCHANGED <<Inbox, Answered>>
  BY <1>2 DEF Inbox, Answered
<1>4. Held = {}
  BY <1>1 DEF Held
<1>5. Open \subseteq Request
  BY DEF Open, IInv, TypeOK
<1>6. CASE pc'["serial"] = "idle"
  <2>1. Held' = {}
    BY <1>6 DEF Held
  <2> QED
    BY <1>1, <1>2, <1>3, <1>4, <1>6, <2>1
<1>7. CASE pc'["serial"] = "send"
  <2>1. Held' = {arg'["serial"]}
    BY <1>7 DEF Held
  <2> QED
    BY <1>1, <1>2, <1>3, <1>4, <1>5, <1>7, <2>1 DEF Ledger!Take
<1> QED
  BY <1>1, <1>6, <1>7

\* A response that is sent answers the held request; a failed one keeps it held.
LEMMA SendIsAnswer ==
  ASSUME IInv, send_color_response_ok \/ send_color_response_failed
  PROVE  \/ UNCHANGED <<requested, Inbox, Open, Held, Answered>>
         \/ \E r \in Request : Ledger!Answer(r)
<1> DEFINE r == arg["serial"]
<1>1. /\ pc["serial"] = "send" /\ op["serial"] = "add"
      /\ r \in Request
      /\ UNCHANGED <<requested, rx_queue, entries>>
  BY DEF send_color_response_ok, send_color_response_failed, env, table, Call, IInv, OperationOK
<1>2. Held = {r} /\ Open' = Open
  BY <1>1 DEF Held, Open
<1>3. CASE send_color_response_ok
  <2>1. /\ responses' = responses \cup
             {[node |-> r.node, session |-> r.session, color |-> color]}
        /\ pc' = [pc EXCEPT !["serial"] = "idle"]
        /\ arg' = [arg EXCEPT !["serial"] = Nothing]
    BY <1>3 DEF send_color_response_ok
  <2>2. Inbox' = Inbox /\ Held' = {}
    BY <1>1, <2>1 DEF Inbox, Held, IInv, TypeOK, Tasks
  <2>3. [node |-> r.node, session |-> r.session] = r
    BY <1>1 DEF Request
  <2> HIDE DEF r
  <2>4. Answered' = Answered \cup {r}
    <3> DEFINE sent == [node |-> r.node, session |-> r.session, color |-> color]
    <3>1. sent.node = r.node /\ sent.session = r.session
      OBVIOUS
    <3> HIDE DEF sent
    <3>2. responses' = responses \cup {sent}
      BY <2>1 DEF sent
    <3>3. r \in Answered'
      BY <2>3, <3>1, <3>2 DEF Answered
    <3>4. ASSUME NEW q \in Answered PROVE q \in Answered'
      BY <3>2 DEF Answered
    <3>5. ASSUME NEW q \in Answered', q # r PROVE q \in Answered
      <4>1. PICK p \in responses' : q = [node |-> p.node, session |-> p.session]
        BY DEF Answered
      <4>2. p # sent
        BY <2>3, <3>1, <3>5, <4>1
      <4> QED
        BY <3>2, <4>1, <4>2 DEF Answered
    <3> QED
      BY <3>3, <3>4, <3>5
  <2> QED
    BY <1>1, <1>2, <2>2, <2>4 DEF Ledger!Answer
<1>4. CASE send_color_response_failed
  <2>1. /\ responses' = responses
        /\ pc' = [pc EXCEPT !["serial"] = "lock"]
        /\ op' = [op EXCEPT !["serial"] = "add"]
        /\ arg' = [arg EXCEPT !["serial"] = r]
    BY <1>4 DEF send_color_response_failed, Call, output
  <2>2. Inbox' = Inbox /\ Held' = {r} /\ Answered' = Answered
    BY <1>1, <2>1 DEF Inbox, Held, Answered, IInv, TypeOK, Tasks
  <2> QED
    BY <1>1, <1>2, <2>2
<1> QED
  BY <1>3, <1>4

\* The operator and the clock change no place.
LEMMA OutsideIsStutter ==
  ASSUME IInv, Tick \/ Operator
  PROVE  UNCHANGED <<requested, Inbox, Open, Held, Answered>>
<1>1. /\ UNCHANGED <<requested, rx_queue, entries, responses>>
      /\ \/ UNCHANGED <<pc, op, arg>>
         \/ /\ pc["serial"] = "idle"
            /\ pc' = [pc EXCEPT !["serial"] = "lock"]
            /\ op' = [op EXCEPT !["serial"] = "take"]
            /\ arg'["rx"] = arg["rx"]
  BY DEF Tick, Operator, read_color, send_color_query, Call, env, table, locals, output,
     IInv, TypeOK, Tasks
<1>2. Held' = Held
  BY <1>1 DEF Held, IInv, TypeOK, Tasks
<1>3. Inbox' = Inbox
  <2>1. pc'["rx"] = pc["rx"] /\ Waiting' = Waiting
    BY <1>1 DEF Waiting, IInv, TypeOK, Tasks
  <2> QED
    BY <1>1, <2>1, InboxIs
<1> QED
  BY <1>1, <1>2, <1>3 DEF Open, Answered

LEMMA NextIsLedgerNext == IInv /\ [Next]_vars => [Ledger!Next]_Ledger!vars
<1> SUFFICES ASSUME IInv, [Next]_vars PROVE [Ledger!Next]_Ledger!vars
  OBVIOUS
<1> USE DEF Ledger!Next, Ledger!vars, Ledger!Request, Request
<1>1. CASE UNCHANGED vars
  BY <1>1 DEF vars, env, table, locals, output, Inbox, Open, Held, Answered
<1>2. CASE Tick \/ Operator
  BY <1>2, OutsideIsStutter
<1>3. CASE DeliverRequest \/ DeliverOther
  BY <1>3, DeliverIsArrive
<1>4. ASSUME NEW t \in Tasks, xSemaphoreTake(t) \/ TableStep(t)
      PROVE  [Ledger!Next]_Ledger!vars
  BY <1>4, LoopIsExpire, AddIsRecord DEF TableStep
<1>5. CASE mesh_rx_task
  BY <1>4, <1>5, ProcessIsStutter DEF mesh_rx_task, Tasks
<1>6. CASE serial_task
  BY <1>4, <1>6, TakeIsTake, SendIsAnswer DEF serial_task, Tasks
<1> QED
  BY <1>1, <1>2, <1>3, <1>4, <1>5, <1>6 DEF Next

\* The root implements the request ledger, for any number of nodes, sessions
\* and slots.
THEOREM Refinement == Spec => Implements
<1>1. Spec => Ledger!Init /\ [][Ledger!Next]_Ledger!vars
  BY InitLedger, NextIsLedgerNext, InductiveInvariant, PTL DEF Spec
<1> QED
  BY <1>1 DEF Implements, Ledger!Spec

-----------------------------------------------------------------------------
\* No step of the ledger breaks its invariant: nothing that is recorded, taken,
\* answered or put back is ever in two places (root_main.c:96-139, 379-385).
LEMMA LedgerStep == Ledger!IInv /\ [Ledger!Next]_Ledger!vars => Ledger!IInv'
<1> SUFFICES ASSUME Ledger!IInv, [Ledger!Next]_Ledger!vars PROVE Ledger!IInv'
  OBVIOUS
<1> USE DEF Ledger!IInv, Ledger!TypeOK, Ledger!OneOpenPerNode, Ledger!OnePlace,
            Ledger!Superseding
<1>1. CASE UNCHANGED Ledger!vars
  BY <1>1 DEF Ledger!vars
<1>2. ASSUME NEW r \in Ledger!Request, Ledger!Arrive(r) PROVE Ledger!IInv'
  BY <1>2 DEF Ledger!Arrive
<1>3. ASSUME NEW r \in Ledger!Request, Ledger!Record(r) PROVE Ledger!IInv'
  BY <1>3 DEF Ledger!Record
<1>4. ASSUME NEW r \in Ledger!Request, Ledger!Expire(r) PROVE Ledger!IInv'
  BY <1>4 DEF Ledger!Expire
<1>5. ASSUME NEW r \in Ledger!Request, Ledger!Take(r) PROVE Ledger!IInv'
  BY <1>5 DEF Ledger!Take
<1>6. ASSUME NEW r \in Ledger!Request, Ledger!Answer(r) PROVE Ledger!IInv'
  BY <1>6 DEF Ledger!Answer
<1>7. ASSUME NEW r \in Ledger!Request, Ledger!PutBack(r) PROVE Ledger!IInv'
  BY <1>7 DEF Ledger!PutBack
<1> QED
  BY <1>1, <1>2, <1>3, <1>4, <1>5, <1>6, <1>7 DEF Ledger!Next

\* In every behavior that the ledger allows a node has at most one open request,
\* and a request is in one place at a time.
THEOREM LedgerInvariant == Ledger!Spec => []Ledger!IInv
<1>1. Ledger!Init => Ledger!IInv
  BY DEF Ledger!Init, Ledger!IInv, Ledger!TypeOK, Ledger!OneOpenPerNode, Ledger!OnePlace
<1> QED
  BY <1>1, LedgerStep, PTL DEF Ledger!Spec

\* One color reply per request (README.md, "How It Works", 6): what the root
\* answered is nowhere that it could be answered from again.
THEOREM AtMostOneReply == Spec => []OneReply
<1>1. Ledger!IInv => OneReply
  BY DEF Ledger!IInv, Ledger!OnePlace, OneReply
<1> QED
  BY <1>1, Refinement, LedgerInvariant, PTL DEF Implements
=============================================================================
