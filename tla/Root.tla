------------------------------- MODULE Root -------------------------------
(***************************************************************************)
(* The root firmware (root/main/root_main.c): two tasks of equal priority  *)
(* share the table of pending requests under the mutex s_pending_lock.     *)
(* "rx" is mesh_rx_task, which records the UUID requests it takes from     *)
(* s_mesh_rx_queue; "serial" is serial_task, which answers them when the   *)
(* operator types a color command.  Both run pending_prune_expired before  *)
(* they look for an entry, one loop iteration per step here.               *)
(***************************************************************************)
EXTENDS Integers, Sequences

CONSTANTS
  Nodes,                    \* the mesh nodes, by station MAC
  Sessions,                 \* the session identifiers that nodes draw
  Colors,                   \* the colors an operator can type
  NoNode, NoSession,        \* no node, no session: of an idle task's request
  MAX_PENDING_REQUESTS,     \* capacity of the table of pending requests
  PENDING_REQUEST_TIMEOUT,  \* age in ticks at which a request expires
  RX_QUEUE_LENGTH,          \* capacity of s_mesh_rx_queue
  TickModulus,              \* number of values of TickType_t
  BootTick,                 \* the tick count when the model starts
  MaxClock                  \* bound of the model: ticks that a behavior spans

ASSUME RootAssumption ==
  /\ NoNode \notin Nodes
  /\ NoSession \notin Sessions
  /\ MAX_PENDING_REQUESTS \in Nat \ {0}
  /\ RX_QUEUE_LENGTH \in Nat \ {0}
  /\ PENDING_REQUEST_TIMEOUT \in Nat \ {0}
  /\ TickModulus \in Nat \ {0}
  /\ BootTick \in Nat
  /\ MaxClock \in 0 .. TickModulus - 1

Request == [node : Nodes, session : Sessions]
Response == [node : Nodes, session : Sessions, color : Colors]
Tasks == {"rx", "serial"}
NoTask == "none"
Nothing == [node |-> NoNode, session |-> NoSession]

\* Packets in s_mesh_rx_queue.  "OTHER" stands for all that leave the table
\* alone: color status, node report, wrong UUID length, magic or version.
Packet == [type : {"UUID_REQUEST"}, request : Request] \cup [type : {"OTHER"}]

VARIABLES
  clock,        \* ticks since the model started
  requested,    \* history: the UUID requests that reached mesh_recv_cb
  rx_queue,     \* s_mesh_rx_queue
  entries,      \* s_pending_requests.entries, up to count
  created_at,   \* s_pending_requests.created_at, up to count
  pending_lock, \* the task that holds s_pending_lock
  pc,           \* where each task is
  op,           \* the table operation each task runs: pending_add or _take
  i,            \* the loop index of pending_prune_expired
  now,          \* the tick count pending_prune_expired read
  arg,          \* the request each operation is about
  color,        \* the color of the command that serial_task runs
  printed,      \* history: the requests printed as UUID_REQUEST lines
  newest,       \* history: the last session of each node rx passed to pending_add
  written,      \* history: the clock when the entry of each node was last written
  responses,    \* the COLOR_RESPONSE packets handed to the mesh
  queries       \* the nodes sent a COLOR_QUERY

env == <<clock, requested>>
table == <<entries, created_at>>
locals == <<op, i, now, arg, color>>
output == <<printed, responses, queries>>
history == <<newest, written>>
vars == <<env, rx_queue, table, pending_lock, pc, locals, history, output>>

TypeOK ==
  /\ clock \in 0 .. MaxClock
  /\ requested \in SUBSET Request
  /\ rx_queue \in Seq(Packet)
  /\ Len(rx_queue) <= RX_QUEUE_LENGTH
  /\ entries \in Seq(Request)
  /\ Len(entries) <= MAX_PENDING_REQUESTS
  /\ created_at \in Seq(0 .. TickModulus - 1)
  /\ Len(created_at) = Len(entries)
  /\ pending_lock \in Tasks \cup {NoTask}
  /\ pc \in [Tasks -> {"idle", "lock", "prune", "find", "send"}]
  /\ op \in [Tasks -> {"add", "take"}]
  /\ i \in [Tasks -> Nat]
  /\ now \in [Tasks -> 0 .. TickModulus - 1]
  /\ arg \in [Tasks -> [node : Nodes \cup {NoNode},
                       session : Sessions \cup {NoSession}]]
  /\ color \in Colors
  /\ printed \in SUBSET Request
  /\ newest \in [Nodes -> Sessions \cup {NoSession}]
  /\ written \in [Nodes -> 0 .. MaxClock]
  /\ responses \in SUBSET Response
  /\ queries \in SUBSET Nodes
-----------------------------------------------------------------------------
\* xTaskGetTickCount: the tick counter wraps at TickModulus.
xTaskGetTickCount == (BootTick + clock) % TickModulus

\* The unsigned difference of two tick counts.
TickDifference(later, earlier) == (later - earlier) % TickModulus

\* The array with its i-th element overwritten by the last, one shorter.
SwapRemove(array, k) ==
  SubSeq([array EXCEPT ![k] = array[Len(array)]], 1, Len(array) - 1)

\* Mutant: the search starts at the second slot.
SlotsLate(node) == {k \in DOMAIN entries \ {1} : entries[k].node = node}

\* The slots of a node, and the one that a search from the start stops at.
Slots(node) == {k \in DOMAIN entries : entries[k].node = node}
FirstSlot(node) == {k \in Slots(node) : \A j \in Slots(node) : k <= j}

Init ==
  /\ clock = 0
  /\ requested = {}
  /\ rx_queue = <<>>
  /\ entries = <<>>
  /\ created_at = <<>>
  /\ pending_lock = NoTask
  /\ pc = [t \in Tasks |-> "idle"]
  /\ op = [t \in Tasks |-> "add"]
  /\ i = [t \in Tasks |-> 1]
  /\ now = [t \in Tasks |-> 0]
  /\ arg = [t \in Tasks |-> Nothing]
  /\ color \in Colors
  /\ printed = {}
  /\ newest = [n \in Nodes |-> NoSession]
  /\ written = [n \in Nodes |-> 0]
  /\ responses = {}
  /\ queries = {}
-----------------------------------------------------------------------------
\* Time passes between any two steps.
Tick ==
  /\ clock < MaxClock
  /\ clock' = clock + 1
  /\ UNCHANGED <<requested, rx_queue, table, pending_lock, pc, locals, history, output>>

\* The receive task's callback: queue the packet, or drop it when the queue
\* is full.  (Packets of a wrong size or payload length change nothing.)
mesh_recv_cb(packet) ==
  /\ rx_queue' = IF Len(rx_queue) < RX_QUEUE_LENGTH
                 THEN Append(rx_queue, packet)
                 ELSE rx_queue
  /\ UNCHANGED <<clock, table, pending_lock, pc, locals, history, output>>

\* The mesh delivers a request of a node; each is sent, and arrives, once.
DeliverRequest ==
  \E r \in Request \ requested :
    /\ requested' = requested \cup {r}
    /\ mesh_recv_cb([type |-> "UUID_REQUEST", request |-> r])

DeliverOther ==
  /\ UNCHANGED requested
  /\ mesh_recv_cb([type |-> "OTHER"])

\* A task calls pending_add or pending_take and waits for s_pending_lock.
Call(t, operation, r) ==
  /\ pc' = [pc EXCEPT ![t] = "lock"]
  /\ op' = [op EXCEPT ![t] = operation]
  /\ arg' = [arg EXCEPT ![t] = r]
  /\ UNCHANGED <<i, now>>

\* mesh_rx_task takes a UUID request, prints it, and then calls pending_add.
process_uuid_request ==
  /\ pc["rx"] = "idle"
  /\ rx_queue # <<>>
  /\ Head(rx_queue).type = "UUID_REQUEST"
  /\ rx_queue' = Tail(rx_queue)
  /\ printed' = printed \cup {Head(rx_queue).request}
  /\ Call("rx", "add", Head(rx_queue).request)
  /\ UNCHANGED <<env, table, pending_lock, color, history, responses, queries>>

\* Mutant: the type of the packet is not looked at.
process_other_packet_any ==
  /\ pc["rx"] = "idle"
  /\ rx_queue # <<>>
  /\ rx_queue' = Tail(rx_queue)
  /\ UNCHANGED <<env, table, pending_lock, pc, locals, history, output>>

\* mesh_rx_task takes any other packet: it prints it or drops it.
process_other_packet ==
  /\ pc["rx"] = "idle"
  /\ rx_queue # <<>>
  /\ Head(rx_queue).type = "OTHER"
  /\ rx_queue' = Tail(rx_queue)
  /\ UNCHANGED <<env, table, pending_lock, pc, locals, history, output>>
-----------------------------------------------------------------------------
\* xSemaphoreTake, and the tick count that starts pending_prune_expired.
xSemaphoreTake(t) ==
  /\ pc[t] = "lock"
  /\ pending_lock = NoTask
  /\ pending_lock' = t
  /\ now' = [now EXCEPT ![t] = xTaskGetTickCount]
  /\ i' = [i EXCEPT ![t] = 1]
  /\ pc' = [pc EXCEPT ![t] = "prune"]
  /\ UNCHANGED <<env, rx_queue, table, op, arg, color, history, output>>

Expired(t, k) ==
  TickDifference(now[t], created_at[k]) >= PENDING_REQUEST_TIMEOUT

\* Mutant: the loop steps over the entry that was moved to slot i.
prune_remove_skips(t) ==
  /\ pc[t] = "prune"
  /\ i[t] <= Len(entries)
  /\ Expired(t, i[t])
  /\ entries' = SwapRemove(entries, i[t])
  /\ created_at' = SwapRemove(created_at, i[t])
  /\ i' = [i EXCEPT ![t] = @ + 1]
  /\ UNCHANGED <<env, rx_queue, pending_lock, pc, op, now, arg, color, history, output>>

\* Mutant: the moved entry gets the age of the expired one.
prune_remove_ages(t) ==
  /\ pc[t] = "prune"
  /\ i[t] <= Len(entries)
  /\ Expired(t, i[t])
  /\ entries' = SwapRemove(entries, i[t])
  /\ created_at' = SubSeq(created_at, 1, Len(created_at) - 1)
  /\ UNCHANGED <<env, rx_queue, pending_lock, pc, locals, history, output>>

\* An expired entry is overwritten by the last one, which is examined next.
prune_remove(t) ==
  /\ pc[t] = "prune"
  /\ i[t] <= Len(entries)
  /\ Expired(t, i[t])
  /\ entries' = SwapRemove(entries, i[t])
  /\ created_at' = SwapRemove(created_at, i[t])
  /\ UNCHANGED <<env, rx_queue, pending_lock, pc, locals, history, output>>

prune_keep(t) ==
  /\ pc[t] = "prune"
  /\ i[t] <= Len(entries)
  /\ ~Expired(t, i[t])
  /\ i' = [i EXCEPT ![t] = @ + 1]
  /\ UNCHANGED <<env, rx_queue, table, pending_lock, pc, op, now, arg, color, history, output>>

prune_done(t) ==
  /\ pc[t] = "prune"
  /\ i[t] > Len(entries)
  /\ pc' = [pc EXCEPT ![t] = "find"]
  /\ UNCHANGED <<env, rx_queue, table, pending_lock, locals, history, output>>

\* The task leaves the operation with r.  The locals of the finished call are
\* dead: they are reset, so that they tell no states apart.
Finish(t, next, r) ==
  /\ pc' = [pc EXCEPT ![t] = next]
  /\ op' = [op EXCEPT ![t] = "add"]
  /\ i' = [i EXCEPT ![t] = 1]
  /\ now' = [now EXCEPT ![t] = 0]
  /\ arg' = [arg EXCEPT ![t] = r]

\* xSemaphoreGive, and the task goes on.
Return(t, next, r) ==
  /\ pending_lock' = NoTask
  /\ Finish(t, next, r)

\* pending_add of rx is the arrival of a session, that of serial a re-add.
NoteNewest(t) ==
  newest' = IF t = "rx" THEN [newest EXCEPT ![arg[t].node] = arg[t].session]
                        ELSE newest

NoteWritten(t) == written' = [written EXCEPT ![arg[t].node] = clock]

\* Mutant: one entry too many.
HasRoomOffByOne == Len(entries) <= MAX_PENDING_REQUESTS
\* The table has a free slot.
HasRoom == Len(entries) < MAX_PENDING_REQUESTS

\* Mutant: the entry gets a new age, and keeps the session.
pending_add_replace_age(t) ==
  /\ pc[t] = "find"
  /\ op[t] = "add"
  /\ \E k \in FirstSlot(arg[t].node) :
       /\ entries' = entries
       /\ created_at' = [created_at EXCEPT ![k] = xTaskGetTickCount]
  /\ NoteNewest(t)
  /\ NoteWritten(t)
  /\ Return(t, "idle", Nothing)
  /\ UNCHANGED <<env, rx_queue, color, output>>

\* pending_add when the node has an entry: it gets the session and a new age.
pending_add_replace(t) ==
  /\ pc[t] = "find"
  /\ op[t] = "add"
  /\ \E k \in FirstSlot(arg[t].node) :
       /\ entries' = [entries EXCEPT ![k].session = arg[t].session]
       /\ created_at' = [created_at EXCEPT ![k] = xTaskGetTickCount]
  /\ NoteNewest(t)
  /\ NoteWritten(t)
  /\ Return(t, "idle", Nothing)
  /\ UNCHANGED <<env, rx_queue, color, output>>

\* pending_add when it has none and the table has room.
pending_add_append(t) ==
  /\ pc[t] = "find"
  /\ op[t] = "add"
  /\ Slots(arg[t].node) = {}
  /\ HasRoom
  /\ entries' = Append(entries, arg[t])
  /\ created_at' = Append(created_at, xTaskGetTickCount)
  /\ NoteNewest(t)
  /\ NoteWritten(t)
  /\ Return(t, "idle", Nothing)
  /\ UNCHANGED <<env, rx_queue, color, output>>

\* Mutant: pending_add leaves on the error path without giving the mutex.
pending_add_full_not_given(t) ==
  /\ pc[t] = "find"
  /\ op[t] = "add"
  /\ Slots(arg[t].node) = {}
  /\ ~HasRoom
  /\ NoteNewest(t)
  /\ Finish(t, "idle", Nothing)
  /\ UNCHANGED <<env, rx_queue, pending_lock, table, color, written, output>>

\* pending_add when the table is full: the request is logged and lost.
pending_add_full(t) ==
  /\ pc[t] = "find"
  /\ op[t] = "add"
  /\ Slots(arg[t].node) = {}
  /\ ~HasRoom
  /\ NoteNewest(t)
  /\ Return(t, "idle", Nothing)
  /\ UNCHANGED <<env, rx_queue, table, color, written, output>>
-----------------------------------------------------------------------------
\* serial_task reads "color <node_mac> <#RRGGBB>" and calls pending_take.
read_color(n, c) ==
  /\ pc["serial"] = "idle"
  /\ color' = c
  /\ Call("serial", "take", [node |-> n, session |-> NoSession])
  /\ UNCHANGED <<env, rx_queue, table, pending_lock, history, output>>

\* Mutant: the entry stays in the table.
pending_take_found_kept ==
  /\ pc["serial"] = "find"
  /\ op["serial"] = "take"
  /\ \E k \in FirstSlot(arg["serial"].node) : Return("serial", "send", entries[k])
  /\ UNCHANGED <<env, rx_queue, table, color, history, output>>

\* pending_take finds the entry of the node and removes it.
pending_take_found ==
  /\ pc["serial"] = "find"
  /\ op["serial"] = "take"
  /\ \E k \in FirstSlot(arg["serial"].node) :
       /\ Return("serial", "send", entries[k])
       /\ entries' = SwapRemove(entries, k)
       /\ created_at' = SwapRemove(created_at, k)
  /\ UNCHANGED <<env, rx_queue, color, history, output>>

\* It finds none: "ERR no pending request".
pending_take_none ==
  /\ pc["serial"] = "find"
  /\ op["serial"] = "take"
  /\ Slots(arg["serial"].node) = {}
  /\ Return("serial", "idle", Nothing)
  /\ UNCHANGED <<env, rx_queue, table, color, history, output>>

\* Mutant: the request is put back after a response that was sent.
send_color_response_ok_readds ==
  /\ pc["serial"] = "send"
  /\ responses' = responses \cup
       {[node |-> arg["serial"].node, session |-> arg["serial"].session, color |-> color]}
  /\ Call("serial", "add", arg["serial"])
  /\ UNCHANGED <<env, rx_queue, table, pending_lock, color, history, printed, queries>>

\* send_color_response reaches the mesh: "COLOR_SENT".
send_color_response_ok ==
  /\ pc["serial"] = "send"
  /\ responses' = responses \cup
       {[node |-> arg["serial"].node, session |-> arg["serial"].session, color |-> color]}
  /\ pc' = [pc EXCEPT !["serial"] = "idle"]
  /\ arg' = [arg EXCEPT !["serial"] = Nothing]
  /\ UNCHANGED <<env, rx_queue, table, pending_lock, op, i, now, color, history,
                 printed, queries>>

\* The node has no route, or the mesh refuses: serial_task re-adds the request.
send_color_response_failed ==
  /\ pc["serial"] = "send"
  /\ Call("serial", "add", arg["serial"])
  /\ UNCHANGED <<env, rx_queue, table, pending_lock, color, history, output>>

\* serial_task reads "getcolor <node_mac>"; a failed send changes nothing.
send_color_query(n) ==
  /\ pc["serial"] = "idle"
  /\ queries' = queries \cup {n}
  /\ UNCHANGED <<env, rx_queue, table, pending_lock, pc, locals, history, printed, responses>>
-----------------------------------------------------------------------------
\* A step of a task inside pending_add or pending_take.
TableStep(t) ==
  \/ prune_remove(t)
  \/ prune_keep(t)
  \/ prune_done(t)
  \/ pending_add_replace(t)
  \/ pending_add_append(t)
  \/ pending_add_full(t)

mesh_rx_task ==
  \/ process_uuid_request
  \/ process_other_packet
  \/ TableStep("rx")

\* serial_task once it has read a color command.
serial_task ==
  \/ TableStep("serial")
  \/ pending_take_found
  \/ pending_take_none
  \/ send_color_response_ok
  \/ send_color_response_failed

Operator ==
  \/ \E n \in Nodes, c \in Colors : read_color(n, c)
  \/ \E n \in Nodes : send_color_query(n)

Next ==
  \/ Tick
  \/ DeliverRequest
  \/ DeliverOther
  \/ \E t \in Tasks : xSemaphoreTake(t)
  \/ mesh_rx_task
  \/ serial_task
  \/ Operator

Spec == Init /\ [][Next]_vars

\* FreeRTOS time-slices tasks of equal priority, so a task that can go on
\* does; one that waits for the mutex is made ready by each Give, and gets
\* it unless the other task takes it back first every time.
Fairness ==
  /\ WF_vars(mesh_rx_task)
  /\ WF_vars(serial_task)
  /\ \A t \in Tasks : SF_vars(xSemaphoreTake(t))

FairSpec == Spec /\ Fairness
-----------------------------------------------------------------------------
(***************************************************************************)
(* Properties.                                                             *)
(***************************************************************************)

\* The requests in the table, the one a command holds, and those answered.
Open == {entries[k] : k \in DOMAIN entries}

Held ==
  IF pc["serial"] = "send" \/ (op["serial"] = "add" /\ pc["serial"] # "idle")
  THEN {arg["serial"]} ELSE {}

Answered == {[node |-> p.node, session |-> p.session] : p \in responses}

\* The requests that rx has yet to pass through the table.
Inbox ==
  {rx_queue[k].request : k \in {j \in DOMAIN rx_queue : rx_queue[j].type = "UUID_REQUEST"}}
    \cup (IF pc["rx"] # "idle" THEN {arg["rx"]} ELSE {})

\* Two adds and a take that interleave never leave two entries of one node
\* (comment at root_main.c:103), so a color command finds the only one.
OneEntryPerNode ==
  \A j, k \in DOMAIN entries : entries[j].node = entries[k].node => j = k

\* A request that was answered is nowhere it could be answered from again:
\* one color reply per request (README.md, "How It Works", 6), although a
\* failed send puts the request back.
OneReply ==
  Answered \cap (Open \cup Held \cup Inbox) = {}

\* The pruning loop misses nothing: when a task looks for its node, and when
\* pending_add finds the table full, no entry had expired at the loop's start.
PrunedBeforeUse ==
  \A t \in Tasks : pc[t] = "find" =>
    \A k \in DOMAIN entries : ~Expired(t, k)

\* An entry that pruning removes was written at least PENDING_REQUEST_TIMEOUT
\* ticks ago, also when it was moved to the slot of another one and when the
\* tick counter wrapped in between.
NoEarlyExpiry ==
  [][\A t \in Tasks : pc[t] = "prune" /\ pc'[t] = "prune" =>
       \A k \in DOMAIN entries :
         entries[k] \notin {entries'[j] : j \in DOMAIN entries'} =>
           clock - written[entries[k].node] >= PENDING_REQUEST_TIMEOUT]_vars

\* The comment at root_main.c:103: adding replaces what the node had "so a
\* later color command cannot target a stale session".  The table comes to hold
\* a session that is not the last of its node in one way only: serial_task puts
\* it back after a failed send.
StaleOnlyByPutBack ==
  [][\A r \in Open' : r.session # newest'[r.node] =>
       r \in Held \/ (r \in Open /\ r.session # newest[r.node])]_vars

\* Each task that started a table operation ends it: nobody waits for
\* s_pending_lock for ever, and the pruning loop ends.
OperationsEnd ==
  \A t \in Tasks : pc[t] = "lock" ~> pc[t] \in {"idle", "send"}

\* A request that got into s_mesh_rx_queue is printed for the operator.
QueuedIsPrinted ==
  \A r \in Request : (r \in Inbox) ~> (r \in printed)

\* The root keeps the promise of the ledger.
Ledger == INSTANCE RequestLedger
            WITH inbox <- Inbox, open <- Open, held <- Held, answered <- Answered

Implements == Ledger!Spec
=============================================================================
