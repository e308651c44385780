------------------------------- MODULE SsMesh -------------------------------
(***************************************************************************)
(* The mesh component of a device (components/ss_mesh/src/ss_mesh.c and    *)
(* mesh_netif.c): app_main runs ss_mesh_init, and reboots when it fails;   *)
(* the mesh event task starts and stops the receive task with the parent;  *)
(* serial_task of the root sends to nodes by the routing table.  All of    *)
(* them take memory from one heap.                                         *)
(*                                                                         *)
(* The event task has the highest priority.  On the one core of a node     *)
(* nothing runs while it handles an event; on the two cores of the root    *)
(* the other tasks go on.                                                  *)
(***************************************************************************)
EXTENDS Integers, Sequences, FiniteSets, FiniteSetsExt

CONSTANTS
  Tasks,        \* the receive tasks that can exist at a time
  NULL,         \* no task
  Heap,         \* units of memory that the other tasks leave,
  TASK,         \* those of a task with its stack,
  BUFFER,       \* those of a receive buffer,
  TABLE,        \* those of a copy of the routing table
  Others,       \* number of nodes besides the one that is sent to
  EventsLength, \* bound of the model: events under way
  MaxFailures   \* bound of the model: calls to ESP-IDF that fail

ASSUME MeshAssumption ==
  /\ NULL \notin Tasks
  /\ IsFiniteSet(Tasks)
  /\ {Heap, TASK, BUFFER, TABLE} \subseteq Nat \ {0}
  /\ {Others, EventsLength, MaxFailures} \subseteq Nat

\* The calls of ss_mesh_init; those that only configure the Wi-Fi are one, and
\* so are those that configure the mesh.
InitOrder ==
  <<"ss_mesh_tree_init", "nvs_flash_init", "esp_event_loop_create_default", "mesh_netifs_init",
    "esp_wifi_start", "esp_mesh_init", "esp_event_handler_register", "esp_mesh_set_config",
    "esp_mesh_start">>

VARIABLES
  cores,          \* of the device: 1 for a node, 2 for the root
  boot,           \* number of calls of InitOrder that were made
  nvs,            \* the flash partition: "good", or "full" or of another version
  failures,       \* calls to ESP-IDF that failed
  parent,         \* whether the mesh has a parent
  events,         \* its events that the event task has yet to handle
  s_connected,    \* what the device knows of it
  s_receive_task,
  rx,             \* where each receive task is
  stopping,       \* the local task of mesh_netifs_stop, NULL outside
  heap,           \* free memory
  leaked,         \* history: buffers that were lost
  corrupted,      \* a task was deleted that had ended: anything can happen
  routed,         \* whether the node that is sent to is in the routing table
  others,         \* how many other nodes are
  send,           \* where ss_mesh_send_to_node is
  attempt, capacity,
  throughout      \* history: the node was in the table since the call

bootVars == <<boot, nvs, failures>>
link == <<parent, events, s_connected>>
tasks == <<s_receive_task, rx, stopping>>
mem == <<heap, leaked, corrupted>>
routes == <<routed, others>>
sending == <<send, attempt, capacity, throughout>>
vars == <<cores, bootVars, link, tasks, mem, routes, sending>>

TypeOK ==
  /\ cores \in {1, 2}
  /\ boot \in 0 .. Len(InitOrder)
  /\ nvs \in {"good", "full"}
  /\ failures \in 0 .. MaxFailures
  /\ parent \in BOOLEAN
  /\ events \in Seq({"PARENT_CONNECTED", "PARENT_DISCONNECTED"})
  /\ Len(events) <= EventsLength
  /\ s_connected \in BOOLEAN
  /\ s_receive_task \in Tasks \cup {NULL}
  /\ rx \in [Tasks -> {"none", "malloc", "no_buffer", "loop", "exit", "end", "ended"}]
  /\ stopping \in Tasks \cup {NULL}
  /\ heap \in 0 .. Heap
  /\ leaked \in 0 .. Heap
  /\ corrupted \in BOOLEAN
  /\ routed \in BOOLEAN
  /\ others \in 0 .. Others
  /\ send \in {"idle", "size", "table", "send"}
  /\ attempt \in 1 .. 3
  /\ capacity \in 0 .. Others + 2
  /\ throughout \in BOOLEAN

\* A device starts; only its flash may hold something.
Init ==
  /\ cores \in {1, 2}
  /\ boot = 0
  /\ nvs \in {"good", "full"}
  /\ failures = 0
  /\ parent = FALSE
  /\ events = <<>>
  /\ s_connected = FALSE
  /\ s_receive_task = NULL
  /\ rx = [t \in Tasks |-> "none"]
  /\ stopping = NULL
  /\ heap = Heap
  /\ leaked = 0
  /\ corrupted = FALSE
  /\ routed = FALSE
  /\ others = 0
  /\ send = "idle"
  /\ attempt = 1
  /\ capacity = 0
  /\ throughout = FALSE

\* ESP_ERROR_CHECK aborts, and the device starts again with an empty RAM.
abort ==
  /\ boot' = 0
  /\ parent' = FALSE
  /\ events' = <<>>
  /\ s_connected' = FALSE
  /\ s_receive_task' = NULL
  /\ rx' = [t \in Tasks |-> "none"]
  /\ stopping' = NULL
  /\ heap' = Heap
  /\ leaked' = 0
  /\ send' = "idle"
  /\ attempt' = 1
  /\ capacity' = 0
  /\ throughout' = FALSE
  /\ routed' = FALSE
  /\ others' = 0
  /\ UNCHANGED <<cores, corrupted>>

Done == {InitOrder[k] : k \in 1 .. boot}
Up == boot = Len(InitOrder)

\* A task other than the event task may run.
MayRun == cores = 2 \/ stopping = NULL
-----------------------------------------------------------------------------
\* The next call of ss_mesh_init succeeds.
init_step ==
  /\ ~Up
  /\ InitOrder[boot + 1] = "nvs_flash_init" => nvs = "good"
  /\ boot' = boot + 1
  /\ UNCHANGED <<cores, nvs, failures, link, tasks, mem, routes, sending>>

\* A partition that nvs_flash_init cannot use is erased, and tried again.
nvs_flash_erase ==
  /\ ~Up
  /\ InitOrder[boot + 1] = "nvs_flash_init"
  /\ nvs = "full"
  /\ nvs' = "good"
  /\ boot' = boot + 1
  /\ UNCHANGED <<cores, failures, link, tasks, mem, routes, sending>>

\* A call fails, and app_main aborts.  (mesh_netifs_init cannot fail.)
init_failed ==
  /\ ~Up
  /\ InitOrder[boot + 1] # "mesh_netifs_init"
  /\ failures < MaxFailures
  /\ failures' = failures + 1
  /\ UNCHANGED nvs
  /\ abort
-----------------------------------------------------------------------------
\* What the mesh does once it is started: it finds a parent, or another one,
parent_found ==
  /\ "esp_mesh_start" \in Done
  /\ Len(events) < EventsLength
  /\ parent' = TRUE
  /\ events' = Append(events, "PARENT_CONNECTED")
  /\ UNCHANGED <<cores, bootVars, s_connected, tasks, mem, routes, sending>>

\* loses it,
parent_lost ==
  /\ parent
  /\ Len(events) < EventsLength
  /\ parent' = FALSE
  /\ events' = Append(events, "PARENT_DISCONNECTED")
  /\ UNCHANGED <<cores, bootVars, s_connected, tasks, mem, routes, sending>>

\* and nodes join and leave.  (The routing table matters while the root sends.)
routes_change ==
  /\ send # "idle"
  /\ \/ routed' = ~routed /\ UNCHANGED others
     \/ others' \in {others - 1, others + 1} \cap 0 .. Others /\ UNCHANGED routed
  /\ throughout' = (throughout /\ routed')
  /\ UNCHANGED <<cores, bootVars, link, tasks, mem, send, attempt, capacity>>
-----------------------------------------------------------------------------
\* The event task handles an event.
Handles(event) ==
  /\ stopping = NULL
  /\ events # <<>>
  /\ Head(events) = event

\* Mutant: a receive task that exists is not looked for.
NeedsTask_always == TRUE

\* mesh_netifs_start creates a receive task when there is none.
NeedsTask == s_receive_task = NULL

\* MESH_EVENT_PARENT_CONNECTED.  The handle is written before the task runs.
parent_connected ==
  /\ Handles("PARENT_CONNECTED")
  /\ events' = Tail(events)
  /\ s_connected' = TRUE
  /\ IF NeedsTask
     THEN /\ heap >= TASK
          /\ heap' = heap - TASK
          /\ \E t \in {u \in Tasks : rx[u] = "none"} :
               rx' = [rx EXCEPT ![t] = "malloc"] /\ s_receive_task' = t
     ELSE UNCHANGED <<heap, rx, s_receive_task>>
  /\ UNCHANGED <<cores, bootVars, parent, stopping, leaked, corrupted, routes, sending>>

\* There is no memory for the task, or the MAC is not read: the handler aborts.
parent_connected_failed ==
  /\ Handles("PARENT_CONNECTED")
  /\ \/ NeedsTask /\ heap < TASK /\ UNCHANGED failures
     \/ failures < MaxFailures /\ failures' = failures + 1
  /\ UNCHANGED nvs
  /\ abort

\* Mutant: the handle is not reset.
parent_disconnected_keeps ==
  /\ Handles("PARENT_DISCONNECTED")
  /\ events' = Tail(events)
  /\ s_connected' = FALSE
  /\ stopping' = s_receive_task
  /\ UNCHANGED <<cores, bootVars, parent, s_receive_task, rx, mem, routes, sending>>

\* MESH_EVENT_PARENT_DISCONNECTED: mesh_netifs_stop resets the handle,
parent_disconnected ==
  /\ Handles("PARENT_DISCONNECTED")
  /\ events' = Tail(events)
  /\ s_connected' = FALSE
  /\ stopping' = s_receive_task
  /\ s_receive_task' = NULL
  /\ UNCHANGED <<cores, bootVars, parent, rx, mem, routes, sending>>

HasBuffer(t) == rx[t] \in {"loop", "exit"}

\* and deletes the task, wherever it is.  Its stack is given back, its buffer is
\* not.  A task that has ended was deleted before.
vTaskDelete ==
  /\ stopping # NULL
  /\ stopping' = NULL
  /\ IF rx[stopping] \in {"none", "ended"}
     THEN corrupted' = TRUE /\ UNCHANGED <<rx, heap, leaked>>
     ELSE /\ rx' = [rx EXCEPT ![stopping] = "none"]
          /\ heap' = heap + TASK
          /\ leaked' = leaked + IF HasBuffer(stopping) THEN BUFFER ELSE 0
          /\ UNCHANGED corrupted
  /\ UNCHANGED <<cores, bootVars, link, s_receive_task, routes, sending>>
-----------------------------------------------------------------------------
\* receive_task allocates its buffer.
rx_malloc(t) ==
  /\ MayRun
  /\ rx[t] = "malloc"
  /\ IF heap >= BUFFER
     THEN rx' = [rx EXCEPT ![t] = "loop"] /\ heap' = heap - BUFFER
     ELSE rx' = [rx EXCEPT ![t] = "no_buffer"] /\ UNCHANGED heap
  /\ UNCHANGED <<cores, bootVars, link, s_receive_task, stopping, leaked, corrupted, routes,
                 sending>>

\* Mutant: the handle of a task that ends is kept.
rx_no_buffer_keeps(t) ==
  /\ MayRun
  /\ rx[t] = "no_buffer"
  /\ rx' = [rx EXCEPT ![t] = "end"]
  /\ UNCHANGED <<cores, bootVars, link, s_receive_task, stopping, mem, routes, sending>>

\* Without one it resets the handle,
rx_no_buffer(t) ==
  /\ MayRun
  /\ rx[t] = "no_buffer"
  /\ s_receive_task' = NULL
  /\ rx' = [rx EXCEPT ![t] = "end"]
  /\ UNCHANGED <<cores, bootVars, link, stopping, mem, routes, sending>>

\* Otherwise it receives until it finds the handle reset (receiving changes
\* nothing here),
rx_leaves_loop(t) ==
  /\ MayRun
  /\ rx[t] = "loop"
  /\ s_receive_task = NULL
  /\ rx' = [rx EXCEPT ![t] = "exit"]
  /\ UNCHANGED <<cores, bootVars, link, s_receive_task, stopping, mem, routes, sending>>

\* frees the buffer,
rx_exit(t) ==
  /\ MayRun
  /\ rx[t] = "exit"
  /\ heap' = heap + BUFFER
  /\ s_receive_task' = NULL
  /\ rx' = [rx EXCEPT ![t] = "end"]
  /\ UNCHANGED <<cores, bootVars, link, stopping, leaked, corrupted, routes, sending>>

\* and deletes itself.
rx_end(t) ==
  /\ MayRun
  /\ rx[t] = "end"
  /\ rx' = [rx EXCEPT ![t] = "ended"]
  /\ UNCHANGED <<cores, bootVars, link, s_receive_task, stopping, mem, routes, sending>>

\* The idle task frees the stack of a task that has ended.
idle_task(t) ==
  /\ MayRun
  /\ rx[t] = "ended"
  /\ rx' = [rx EXCEPT ![t] = "none"]
  /\ heap' = heap + TASK
  /\ UNCHANGED <<cores, bootVars, link, s_receive_task, stopping, leaked, corrupted, routes,
                 sending>>
-----------------------------------------------------------------------------
\* ss_mesh_send_to_node.  The root itself is in the routing table, so that the
\* table is never empty.
RouteCount == 1 + others + IF routed THEN 1 ELSE 0

send_to_node ==
  /\ Up /\ MayRun
  /\ send = "idle"
  /\ send' = "size"
  /\ routed' \in BOOLEAN
  /\ others' \in 0 .. Others
  /\ throughout' = routed'
  /\ UNCHANGED <<cores, bootVars, link, tasks, mem, attempt, capacity>>

\* The call returns, and the locals are dead.
Return ==
  /\ send' = "idle"
  /\ routed' = FALSE
  /\ others' = 0
  /\ attempt' = 1
  /\ capacity' = 0
  /\ throughout' = FALSE

\* The size of the table is read, and memory for a copy is taken.
send_size ==
  /\ MayRun
  /\ send = "size"
  /\ IF heap >= TABLE
     THEN /\ capacity' = RouteCount
          /\ heap' = heap - TABLE
          /\ send' = "table"
          /\ UNCHANGED <<attempt, throughout, routes>>
     ELSE Return /\ UNCHANGED heap
  /\ UNCHANGED <<cores, bootVars, link, tasks, leaked, corrupted>>

free == heap' = heap + TABLE

\* The table is not read.
send_table_failed ==
  /\ MayRun
  /\ send = "table"
  /\ failures < MaxFailures
  /\ failures' = failures + 1
  /\ free
  /\ Return
  /\ UNCHANGED <<cores, boot, nvs, link, tasks, leaked, corrupted>>

\* Mutant: a table that grew is searched as far as it was copied.
Grew_unseen == FALSE

\* The table has more entries than there is room for.
Grew == RouteCount > capacity

\* Whether the copy of the table has the node.
CopyHas == IF RouteCount > capacity THEN {FALSE, routed} ELSE {routed}

\* Mutant: the copy is not freed.
send_retry_leaks ==
  /\ MayRun
  /\ send = "table"
  /\ Grew
  /\ IF attempt < 3
     THEN /\ attempt' = attempt + 1
          /\ send' = "size"
          /\ capacity' = 0
          /\ UNCHANGED <<throughout, routes>>
     ELSE Return
  /\ UNCHANGED <<cores, bootVars, link, tasks, mem>>

\* Mutant: one attempt more.
send_retry_four ==
  /\ MayRun
  /\ send = "table"
  /\ Grew
  /\ free
  /\ IF attempt <= 3
     THEN /\ attempt' = attempt + 1
          /\ send' = "size"
          /\ capacity' = 0
          /\ UNCHANGED <<throughout, routes>>
     ELSE Return
  /\ UNCHANGED <<cores, bootVars, link, tasks, leaked, corrupted>>

\* It has grown: the next attempt, at most three.
send_retry ==
  /\ MayRun
  /\ send = "table"
  /\ Grew
  /\ free
  /\ IF attempt < 3
     THEN /\ attempt' = attempt + 1
          /\ send' = "size"
          /\ capacity' = 0
          /\ UNCHANGED <<throughout, routes>>
     ELSE Return
  /\ UNCHANGED <<cores, bootVars, link, tasks, leaked, corrupted>>

\* The node is found, and esp_mesh_send is called,
send_found ==
  /\ MayRun
  /\ send = "table"
  /\ ~Grew
  /\ TRUE \in CopyHas
  /\ send' = "send"
  /\ UNCHANGED <<cores, bootVars, link, tasks, mem, routes, attempt, capacity, throughout>>

\* or it is not.
send_not_found ==
  /\ MayRun
  /\ send = "table"
  /\ ~Grew
  /\ FALSE \in CopyHas
  /\ free
  /\ Return
  /\ UNCHANGED <<cores, bootVars, link, tasks, leaked, corrupted>>

\* esp_mesh_send returns, after esp_mesh_send_block_time at the latest.
esp_mesh_send ==
  /\ MayRun
  /\ send = "send"
  /\ free
  /\ Return
  /\ UNCHANGED <<cores, bootVars, link, tasks, leaked, corrupted>>
-----------------------------------------------------------------------------
ss_mesh_init == init_step \/ nvs_flash_erase \/ init_failed

Mesh == parent_found \/ parent_lost \/ routes_change

mesh_event_handler ==
  parent_connected \/ parent_connected_failed \/ parent_disconnected \/ vTaskDelete

\* A receive task goes on; whether it finds its handle reset depends on packets.
receive_task(t) == rx_malloc(t) \/ rx_no_buffer(t) \/ rx_exit(t) \/ rx_end(t)

ss_mesh_send_to_node ==
  \/ send_size
  \/ send_table_failed
  \/ send_retry
  \/ send_found
  \/ send_not_found
  \/ esp_mesh_send

Next ==
  /\ ~corrupted
  /\ \/ ss_mesh_init
     \/ Mesh
     \/ mesh_event_handler
     \/ \E t \in Tasks : receive_task(t) \/ rx_leaves_loop(t) \/ idle_task(t)
     \/ send_to_node
     \/ ss_mesh_send_to_node

Spec == Init /\ [][Next]_vars

\* The tasks run, also when the event task stops them now and then, and
\* esp_mesh_send returns.
Fairness ==
  /\ WF_vars(ss_mesh_init)
  /\ WF_vars(mesh_event_handler)
  /\ \A t \in Tasks : SF_vars(receive_task(t)) /\ SF_vars(idle_task(t))
  /\ SF_vars(ss_mesh_send_to_node)

FairSpec == Spec /\ Fairness
-----------------------------------------------------------------------------
(***************************************************************************)
(* Properties.                                                             *)
(***************************************************************************)

\* A node never deletes a task that has ended (mesh_netif.c:28 and :81): that
\* takes two cores, where the task ends between the two statements of
\* mesh_netifs_stop.
OneCoreIsSafe == corrupted => cores = 2

\* At most one task receives, however often the parent changes and whatever
\* becomes of the task; the handle is that of the one that does.
OneReceiver ==
  \A t \in Tasks : rx[t] \in {"malloc", "loop"} => t \in {s_receive_task, stopping}

\* Memory is taken, given back and lost in no other way than by tasks, buffers
\* and tables: every early return frees what it took.
HeapAccounted ==
  LET Live == {t \in Tasks : rx[t] # "none"}
      Held == {t \in Tasks : HasBuffer(t)}
  IN  Heap = heap + leaked + TASK * Cardinality(Live) + BUFFER * Cardinality(Held)
               + IF send \in {"table", "send"} THEN TABLE ELSE 0

\* A call finds a node that was in the routing table all the while, unless the
\* table grew in each of the three attempts (or there was no memory).
NotFoundIsTrue ==
  [][throughout /\ send = "table" /\ send' = "idle" /\ Up' /\ UNCHANGED failures =>
       attempt = 3 /\ RouteCount > capacity]_vars

\* A device with a parent receives, or else the buffers that were lost have used
\* up the memory.
ConnectedReceives ==
  s_connected ~> \/ \E t \in Tasks : rx[t] = "loop"
                 \/ ~s_connected
                 \/ corrupted
                 \/ Heap - leaked < TASK + BUFFER + TABLE
=============================================================================
