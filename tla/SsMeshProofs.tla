---------------------------- MODULE SsMeshProofs ----------------------------
(***************************************************************************)
(* Proofs about SsMesh: one task receives, a node never deletes a task     *)
(* twice, memory is taken and given back in pairs, and sending gives up on *)
(* a node that is there only when the routing table keeps growing.         *)
(***************************************************************************)
EXTENDS SsMesh, FiniteSetTheorems, TLAPS

\* The tasks that take memory, and those that hold a buffer.
LiveTasks == {t \in Tasks : rx[t] # "none"}
HeldBuffers == {t \in Tasks : HasBuffer(t)}
Copies == IF send \in {"table", "send"} THEN TABLE ELSE 0

\* All memory is somewhere.
Accounted ==
  Heap = heap + leaked + TASK * Cardinality(LiveTasks) + BUFFER * Cardinality(HeldBuffers)
           + Copies

\* What a task has, by where it is.
Stacks(s) == IF s = "none" THEN 0 ELSE 1
Buffers(s) == IF s \in {"loop", "exit"} THEN 1 ELSE 0

\* The types without the upper bounds of what depends on the sum.
BootTypes ==
  /\ cores \in {1, 2}
  /\ boot \in 0 .. Len(InitOrder)
  /\ nvs \in {"good", "full"}
  /\ failures \in 0 .. MaxFailures
LinkTypes ==
  /\ events \in Seq({"PARENT_CONNECTED", "PARENT_DISCONNECTED"})
  /\ Len(events) <= EventsLength
TaskTypes ==
  /\ s_receive_task \in Tasks \cup {NULL}
  /\ rx \in [Tasks -> {"none", "malloc", "no_buffer", "loop", "exit", "end", "ended"}]
  /\ stopping \in Tasks \cup {NULL}
MemTypes == heap \in Nat /\ leaked \in Nat
SendTypes ==
  /\ others \in 0 .. Others
  /\ send \in {"idle", "size", "table", "send"}
  /\ attempt \in 1 .. 3
  /\ capacity \in 0 .. Others + 2
FlagTypes ==
  /\ parent \in BOOLEAN
  /\ s_connected \in BOOLEAN
  /\ corrupted \in BOOLEAN
  /\ routed \in BOOLEAN
  /\ throughout \in BOOLEAN
Types == BootTypes /\ LinkTypes /\ TaskTypes /\ MemTypes /\ SendTypes /\ FlagTypes

\* Who has the handle: a task that receives, or is about to; mesh_netifs_stop
\* takes it away before it deletes the task, which on one core does not move
\* meanwhile.
Handle ==
  /\ s_receive_task # NULL =>
       rx[s_receive_task] \in {"malloc", "no_buffer", "loop"} /\ stopping = NULL
  /\ \A t \in Tasks :
       rx[t] \in {"malloc", "no_buffer", "loop", "exit"} => t \in {s_receive_task, stopping}
  /\ cores = 1 /\ stopping # NULL => rx[stopping] \in {"malloc", "no_buffer", "loop"}
  /\ corrupted => cores = 2

\* The inductive invariant.
IInv == Types /\ Handle /\ Accounted
-----------------------------------------------------------------------------
\* The assumption on the constants, one by one.
LEMMA Numbers ==
  /\ NULL \notin Tasks /\ IsFiniteSet(Tasks)
  /\ Heap \in Nat /\ Heap > 0 /\ TASK \in Nat /\ TASK > 0
  /\ BUFFER \in Nat /\ BUFFER > 0 /\ TABLE \in Nat /\ TABLE > 0
  /\ Others \in Nat /\ EventsLength \in Nat /\ MaxFailures \in Nat
BY MeshAssumption

\* Finite sets of tasks have natural cardinalities.
LEMMA Counts ==
  /\ IsFiniteSet(LiveTasks) /\ Cardinality(LiveTasks) \in Nat
  /\ IsFiniteSet(HeldBuffers) /\ Cardinality(HeldBuffers) \in Nat
<1>1. LiveTasks \subseteq Tasks /\ HeldBuffers \subseteq Tasks
  BY DEF LiveTasks, HeldBuffers
<1>2. IsFiniteSet(LiveTasks) /\ IsFiniteSet(HeldBuffers)
  BY <1>1, FS_Subset, Numbers
<1> QED
  BY <1>2, FS_CardinalityType

\* What a step of one task changes in both numbers.
LEMMA TaskMoves ==
  ASSUME Types, NEW t \in Tasks, NEW s, rx' = [rx EXCEPT ![t] = s]
  PROVE  /\ Cardinality(LiveTasks)' = Cardinality(LiveTasks) + Stacks(s) - Stacks(rx[t])
         /\ Cardinality(HeldBuffers)' = Cardinality(HeldBuffers) + Buffers(s) - Buffers(rx[t])
<1>1. rx'[t] = s /\ \A u \in Tasks \ {t} : rx'[u] = rx[u]
  BY DEF Types, TaskTypes
<1>2. /\ IsFiniteSet(LiveTasks) /\ Cardinality(LiveTasks) \in Nat
      /\ IsFiniteSet(HeldBuffers) /\ Cardinality(HeldBuffers) \in Nat
  BY Counts
<1>3. /\ Cardinality(LiveTasks \cup {t}) =
           Cardinality(LiveTasks) + (IF rx[t] = "none" THEN 1 ELSE 0)
      /\ Cardinality(LiveTasks \ {t}) =
           Cardinality(LiveTasks) - (IF rx[t] = "none" THEN 0 ELSE 1)
  <2>1. t \in LiveTasks <=> rx[t] # "none"
    BY DEF LiveTasks
  <2>2. Cardinality(LiveTasks \cup {t}) =
          IF t \in LiveTasks THEN Cardinality(LiveTasks) ELSE Cardinality(LiveTasks) + 1
    BY <1>2, FS_AddElement
  <2>3. Cardinality(LiveTasks \ {t}) =
          IF t \in LiveTasks THEN Cardinality(LiveTasks) - 1 ELSE Cardinality(LiveTasks)
    BY <1>2, FS_RemoveElement
  <2> QED
    BY <1>2, <2>1, <2>2, <2>3
<1>4. /\ Cardinality(HeldBuffers \cup {t}) =
           Cardinality(HeldBuffers) + (IF rx[t] \in {"loop", "exit"} THEN 0 ELSE 1)
      /\ Cardinality(HeldBuffers \ {t}) =
           Cardinality(HeldBuffers) - (IF rx[t] \in {"loop", "exit"} THEN 1 ELSE 0)
  <2>1. t \in HeldBuffers <=> rx[t] \in {"loop", "exit"}
    BY DEF HeldBuffers, HasBuffer
  <2>2. Cardinality(HeldBuffers \cup {t}) =
          IF t \in HeldBuffers THEN Cardinality(HeldBuffers) ELSE Cardinality(HeldBuffers) + 1
    BY <1>2, FS_AddElement
  <2>3. Cardinality(HeldBuffers \ {t}) =
          IF t \in HeldBuffers THEN Cardinality(HeldBuffers) - 1 ELSE Cardinality(HeldBuffers)
    BY <1>2, FS_RemoveElement
  <2> QED
    BY <1>2, <2>1, <2>2, <2>3
<1>5. LiveTasks' = IF s = "none" THEN LiveTasks \ {t} ELSE LiveTasks \cup {t}
  BY <1>1 DEF LiveTasks
<1>6. HeldBuffers' = IF s \in {"loop", "exit"} THEN HeldBuffers \cup {t} ELSE HeldBuffers \ {t}
  BY <1>1 DEF HeldBuffers, HasBuffer
<1> QED
  BY <1>2, <1>3, <1>4, <1>5, <1>6 DEF Stacks, Buffers

\* A reboot leaves no task.
LEMMA NoTasks ==
  ASSUME rx = [t \in Tasks |-> "none"]
  PROVE  Cardinality(LiveTasks) = 0 /\ Cardinality(HeldBuffers) = 0
<1>1. LiveTasks = {} /\ HeldBuffers = {}
  BY DEF LiveTasks, HeldBuffers, HasBuffer
<1> QED
  BY <1>1, FS_EmptySet

\* The same of the state after a step.
LEMMA NoTasksNext ==
  ASSUME rx' = [t \in Tasks |-> "none"]
  PROVE  Cardinality(LiveTasks)' = 0 /\ Cardinality(HeldBuffers)' = 0
<1>1. LiveTasks' = {} /\ HeldBuffers' = {}
  BY DEF LiveTasks, HeldBuffers, HasBuffer
<1> QED
  BY <1>1, FS_EmptySet
-----------------------------------------------------------------------------
\* Every step keeps the types of the flags,
LEMMA FlagsStep == FlagTypes /\ [Next]_vars => FlagTypes'
<1> SUFFICES ASSUME FlagTypes, [Next]_vars PROVE FlagTypes'
  OBVIOUS
<1> USE DEF FlagTypes, link, mem, routes, sending, Return
<1>1. CASE UNCHANGED vars
  BY <1>1 DEF vars
<1>2. ASSUME init_step \/ nvs_flash_erase PROVE FlagTypes'
  BY <1>2 DEF init_step, nvs_flash_erase
<1>3. ASSUME init_failed \/ parent_connected_failed PROVE FlagTypes'
  BY <1>3 DEF init_failed, parent_connected_failed, abort
<1>4. ASSUME parent_found \/ parent_lost PROVE FlagTypes'
  BY <1>4 DEF parent_found, parent_lost
<1>5. ASSUME routes_change PROVE FlagTypes'
  BY <1>5 DEF routes_change
<1>6. ASSUME parent_connected PROVE FlagTypes'
  BY <1>6 DEF parent_connected
<1>7. ASSUME parent_disconnected PROVE FlagTypes'
  BY <1>7 DEF parent_disconnected
<1>8. ASSUME vTaskDelete PROVE FlagTypes'
  BY <1>8 DEF vTaskDelete
<1>9. ASSUME NEW t \in Tasks, receive_task(t) \/ rx_leaves_loop(t) \/ idle_task(t)
      PROVE  FlagTypes'
  BY <1>9 DEF receive_task, rx_malloc, rx_no_buffer, rx_exit, rx_end, rx_leaves_loop, idle_task
<1>10. ASSUME send_to_node PROVE FlagTypes'
  BY <1>10 DEF send_to_node
<1>11. ASSUME send_size \/ send_retry PROVE FlagTypes'
  BY <1>11 DEF send_size, send_retry
<1>12. ASSUME send_table_failed \/ send_found \/ send_not_found \/ esp_mesh_send
       PROVE  FlagTypes'
  BY <1>12 DEF send_table_failed, send_found, send_not_found, esp_mesh_send
<1> QED
  BY <1>1, <1>2, <1>3, <1>4, <1>5, <1>6, <1>7, <1>8, <1>9, <1>10, <1>11, <1>12
     DEF Next, ss_mesh_init, Mesh, mesh_event_handler, ss_mesh_send_to_node

\* and the others.
LEMMA TypesStep == Types /\ [Next]_vars => Types'
<1> SUFFICES ASSUME Types, [Next]_vars PROVE Types'
  OBVIOUS
<1> USE Numbers DEF bootVars, link, tasks, mem, routes, sending
<1>0. /\ BootTypes /\ LinkTypes /\ TaskTypes /\ MemTypes /\ SendTypes
      /\ FlagTypes'
  BY FlagsStep DEF Types
<1>1. /\ UNCHANGED <<cores, bootVars>> => BootTypes'
      /\ UNCHANGED events => LinkTypes'
      /\ UNCHANGED tasks => TaskTypes'
      /\ UNCHANGED <<heap, leaked>> => MemTypes'
      /\ UNCHANGED <<others, send, attempt, capacity>> => SendTypes'
  BY <1>0 DEF BootTypes, LinkTypes, TaskTypes, MemTypes, SendTypes
<1>2. CASE UNCHANGED vars
  BY <1>0, <1>1, <1>2 DEF vars, Types
<1>3. ASSUME init_step \/ nvs_flash_erase PROVE Types'
  <2>1. BootTypes'
    BY <1>0, <1>3 DEF BootTypes, init_step, nvs_flash_erase, Up, InitOrder
  <2> QED
    BY <1>0, <1>1, <1>3, <2>1 DEF init_step, nvs_flash_erase, Types
<1>4. ASSUME init_failed \/ parent_connected_failed PROVE Types'
  <2>1. abort /\ nvs' = nvs /\ failures' \in 0 .. MaxFailures
    BY <1>0, <1>4 DEF init_failed, parent_connected_failed, abort, BootTypes
  <2>2. BootTypes'
    BY <1>0, <2>1 DEF abort, BootTypes, InitOrder
  <2>3. LinkTypes' /\ TaskTypes'
    BY <2>1 DEF abort, LinkTypes, TaskTypes
  <2>4. MemTypes' /\ SendTypes'
    BY <2>1 DEF abort, MemTypes, SendTypes
  <2> QED
    BY <1>0, <2>2, <2>3, <2>4 DEF Types
<1>5. ASSUME parent_found \/ parent_lost PROVE Types'
  <2>1. LinkTypes'
    BY <1>0, <1>5 DEF parent_found, parent_lost, LinkTypes
  <2> QED
    BY <1>0, <1>1, <1>5, <2>1 DEF parent_found, parent_lost, Types
<1>6. ASSUME routes_change PROVE Types'
  <2>1. SendTypes'
    BY <1>0, <1>6 DEF routes_change, SendTypes
  <2> QED
    BY <1>0, <1>1, <1>6, <2>1 DEF routes_change, Types
<1>7. ASSUME events # <<>>, events' = Tail(events) PROVE LinkTypes'
  BY <1>0, <1>7 DEF LinkTypes
<1>8. ASSUME parent_connected PROVE Types'
  <2>1. TaskTypes' /\ MemTypes'
    BY <1>0, <1>8 DEF parent_connected, TaskTypes, MemTypes
  <2> QED
    BY <1>0, <1>1, <1>7, <1>8, <2>1 DEF parent_connected, Handles, Types
<1>9. ASSUME parent_disconnected PROVE Types'
  <2>1. TaskTypes'
    BY <1>0, <1>9 DEF parent_disconnected, TaskTypes
  <2> QED
    BY <1>0, <1>1, <1>7, <1>9, <2>1 DEF parent_disconnected, Handles, Types
<1>10. ASSUME vTaskDelete PROVE Types'
  <2>1. TaskTypes'
    BY <1>0, <1>10 DEF vTaskDelete, TaskTypes
  <2>2. MemTypes'
    BY <1>0, <1>10 DEF vTaskDelete, MemTypes
  <2> QED
    BY <1>0, <1>1, <1>10, <2>1, <2>2 DEF vTaskDelete, Types
<1>11. ASSUME NEW t \in Tasks, receive_task(t) \/ rx_leaves_loop(t) \/ idle_task(t)
       PROVE  Types'
  <2> USE DEF receive_task, rx_malloc, rx_no_buffer, rx_exit, rx_end, rx_leaves_loop, idle_task
  <2>1. TaskTypes'
    BY <1>0, <1>11 DEF TaskTypes
  <2>2. MemTypes'
    BY <1>0, <1>11 DEF MemTypes
  <2> QED
    BY <1>0, <1>1, <1>11, <2>1, <2>2 DEF Types
<1>12. ASSUME send_to_node PROVE Types'
  <2>1. SendTypes'
    BY <1>0, <1>12 DEF send_to_node, SendTypes
  <2> QED
    BY <1>0, <1>1, <1>12, <2>1 DEF send_to_node, Types
<1>13. Return => SendTypes'
  BY DEF Return, SendTypes
<1>14. ASSUME send_size PROVE Types'
  <2>1. RouteCount \in 0 .. Others + 2
    BY <1>0 DEF RouteCount, SendTypes
  <2>2. SendTypes'
    BY <1>0, <1>13, <1>14, <2>1 DEF send_size, SendTypes
  <2>3. MemTypes'
    BY <1>0, <1>14 DEF send_size, MemTypes
  <2> QED
    BY <1>0, <1>1, <1>14, <2>2, <2>3 DEF send_size, Types
<1>15. ASSUME send_retry PROVE Types'
  <2>1. SendTypes'
    BY <1>0, <1>13, <1>15 DEF send_retry, SendTypes
  <2>2. MemTypes'
    BY <1>0, <1>15 DEF send_retry, free, MemTypes
  <2> QED
    BY <1>0, <1>1, <1>15, <2>1, <2>2 DEF send_retry, Types
<1>16. ASSUME send_found PROVE Types'
  <2>1. SendTypes'
    BY <1>0, <1>16 DEF send_found, SendTypes
  <2> QED
    BY <1>0, <1>1, <1>16, <2>1 DEF send_found, Types
<1>17. ASSUME send_not_found \/ esp_mesh_send PROVE Types'
  <2>0. heap' = heap + TABLE /\ leaked' = leaked
    BY <1>17, Zenon DEF send_not_found, esp_mesh_send, free
  <2>1. MemTypes'
    BY <1>0, <2>0 DEF MemTypes
  <2> QED
    BY <1>0, <1>1, <1>13, <1>17, <2>1 DEF send_not_found, esp_mesh_send, Types
<1>18. ASSUME send_table_failed PROVE Types'
  <2>1. MemTypes'
    BY <1>0, <1>18 DEF send_table_failed, free, MemTypes
  <2>2. BootTypes'
    BY <1>0, <1>18 DEF send_table_failed, BootTypes
  <2> QED
    BY <1>0, <1>1, <1>13, <1>18, <2>1, <2>2 DEF send_table_failed, Types
<1> QED
  BY <1>2, <1>3, <1>4, <1>5, <1>6, <1>8, <1>9, <1>10, <1>11, <1>12, <1>14, <1>15, <1>16, <1>17, <1>18
     DEF Next, ss_mesh_init, Mesh, mesh_event_handler, ss_mesh_send_to_node

\* Every step keeps the handle that of the task that receives.
LEMMA HandleStep == Types /\ Handle /\ [Next]_vars => Handle'
<1> SUFFICES ASSUME Types, Handle, [Next]_vars PROVE Handle'
  OBVIOUS
<1> USE Numbers DEF Types, BootTypes, TaskTypes, MemTypes, Handle, bootVars, link, tasks, mem, routes, sending
<1>1. ASSUME UNCHANGED <<cores, tasks, corrupted>> PROVE Handle'
  BY <1>1
<1>2. ASSUME UNCHANGED vars \/ init_step \/ nvs_flash_erase \/ Mesh \/ send_to_node
               \/ ss_mesh_send_to_node
      PROVE  Handle'
  BY <1>1, <1>2 DEF vars, init_step, nvs_flash_erase, Mesh, parent_found, parent_lost,
     routes_change, send_to_node, ss_mesh_send_to_node, send_size, send_table_failed, send_retry,
     send_found, send_not_found, esp_mesh_send
<1>3. ASSUME init_failed \/ parent_connected_failed PROVE Handle'
  BY <1>3 DEF init_failed, parent_connected_failed, abort
<1>4. ASSUME parent_connected PROVE Handle'
  BY <1>4 DEF parent_connected, Handles, NeedsTask
<1>5. ASSUME parent_disconnected PROVE Handle'
  BY <1>5 DEF parent_disconnected, Handles
<1>6. ASSUME vTaskDelete PROVE Handle'
  BY <1>6 DEF vTaskDelete
<1>7. ASSUME NEW t \in Tasks, rx_malloc(t) PROVE Handle'
  BY <1>7 DEF rx_malloc, MayRun
<1>8. ASSUME NEW t \in Tasks, rx_no_buffer(t) PROVE Handle'
  BY <1>8 DEF rx_no_buffer, MayRun
<1>9. ASSUME NEW t \in Tasks, rx_leaves_loop(t) PROVE Handle'
  BY <1>9 DEF rx_leaves_loop, MayRun
<1>10. ASSUME NEW t \in Tasks, rx_exit(t) PROVE Handle'
  BY <1>10 DEF rx_exit, MayRun
<1>11. ASSUME NEW t \in Tasks, rx_end(t) PROVE Handle'
  BY <1>11 DEF rx_end, MayRun
<1>12. ASSUME NEW t \in Tasks, idle_task(t) PROVE Handle'
  BY <1>12 DEF idle_task, MayRun
<1> QED
  BY <1>2, <1>3, <1>4, <1>5, <1>6, <1>7, <1>8, <1>9, <1>10, <1>11, <1>12
     DEF Next, ss_mesh_init, mesh_event_handler, receive_task

\* Every step takes from the heap what the tasks, buffers and tables get.
LEMMA AccountStep == IInv /\ Types' /\ [Next]_vars => Accounted'
<1> SUFFICES ASSUME IInv, Types', [Next]_vars PROVE Accounted'
  OBVIOUS
<1> DEFINE L == Cardinality(LiveTasks)
           B == Cardinality(HeldBuffers)
<1> USE Numbers
<1>0. /\ Types /\ TaskTypes /\ Handle
      /\ heap \in Nat /\ leaked \in Nat /\ L \in Nat /\ B \in Nat
      /\ heap' \in Nat /\ leaked' \in Nat
      /\ Heap = heap + leaked + TASK * L + BUFFER * B + Copies
      /\ Copies \in Nat
  BY Counts DEF IInv, Types, MemTypes, Accounted, Copies
<1>1. ASSUME UNCHANGED rx PROVE L' = L /\ B' = B
  BY <1>1 DEF LiveTasks, HeldBuffers, HasBuffer
<1>2. ASSUME UNCHANGED <<mem, rx, send>> PROVE Accounted'
  BY <1>0, <1>1, <1>2 DEF Accounted, Copies, mem
<1>3. ASSUME abort PROVE Accounted'
  <2>1. L' = 0 /\ B' = 0
    BY <1>3, NoTasksNext DEF abort
  <2> QED
    BY <1>3, <2>1 DEF abort, Accounted, Copies
<1>4. ASSUME \/ UNCHANGED vars \/ init_step \/ nvs_flash_erase \/ Mesh
             \/ parent_disconnected \/ send_to_node
      PROVE  Accounted'
  <2>1. UNCHANGED <<mem, rx>> /\ Copies' = Copies
    BY <1>4 DEF vars, init_step, nvs_flash_erase, Mesh, parent_found, parent_lost, routes_change,
       parent_disconnected, send_to_node, tasks, sending, Copies
  <2> QED
    BY <1>0, <1>1, <2>1 DEF Accounted, mem
<1>5. ASSUME init_failed \/ parent_connected_failed PROVE Accounted'
  BY <1>3, <1>5 DEF init_failed, parent_connected_failed
<1>6. ASSUME parent_connected PROVE Accounted'
  <2>1. leaked' = leaked /\ Copies' = Copies
    BY <1>6 DEF parent_connected, sending, Copies
  <2>2. CASE ~NeedsTask
    BY <1>0, <1>1, <1>6, <2>1, <2>2 DEF parent_connected, Accounted
  <2>3. CASE NeedsTask
    <3>1. PICK t \in Tasks : rx[t] = "none" /\ rx' = [rx EXCEPT ![t] = "malloc"]
      BY <1>6, <2>3 DEF parent_connected
    <3>2. L' = L + Stacks("malloc") - Stacks("none") /\ B' = B + Buffers("malloc") - Buffers("none")
      BY <1>0, <3>1, TaskMoves, Zenon
    <3>3. heap' = heap - TASK
      BY <1>6, <2>3 DEF parent_connected
    <3> QED
      BY <1>0, <2>1, <3>2, <3>3 DEF Accounted, Stacks, Buffers
  <2> QED
    BY <2>2, <2>3
<1>7. ASSUME vTaskDelete PROVE Accounted'
  <2>1. Copies' = Copies
    BY <1>7 DEF vTaskDelete, sending, Copies
  <2>2. CASE rx[stopping] \in {"none", "ended"}
    BY <1>0, <1>1, <1>7, <2>1, <2>2 DEF vTaskDelete, Accounted
  <2>3. CASE rx[stopping] \notin {"none", "ended"}
    <3>1. stopping \in Tasks /\ rx' = [rx EXCEPT ![stopping] = "none"]
      BY <1>0, <1>7, <2>3 DEF vTaskDelete, TaskTypes
    <3>2. /\ L' = L + Stacks("none") - Stacks(rx[stopping])
          /\ B' = B + Buffers("none") - Buffers(rx[stopping])
      BY <1>0, <3>1, TaskMoves, Zenon
    <3>3. heap' = heap + TASK /\ leaked' = leaked + IF HasBuffer(stopping) THEN BUFFER ELSE 0
      BY <1>7, <2>3 DEF vTaskDelete
    <3> QED
      BY <1>0, <2>1, <2>3, <3>2, <3>3 DEF Accounted, Stacks, Buffers, HasBuffer
  <2> QED
    BY <2>2, <2>3
<1>8. ASSUME NEW t \in Tasks, rx_malloc(t) PROVE Accounted'
  <2>1. leaked' = leaked /\ Copies' = Copies
    BY <1>8 DEF rx_malloc, sending, Copies
  <2>2. CASE heap >= BUFFER
    <3>1. rx[t] = "malloc" /\ rx' = [rx EXCEPT ![t] = "loop"] /\ heap' = heap - BUFFER
      BY <1>8, <2>2 DEF rx_malloc
    <3>2. L' = L + Stacks("loop") - Stacks("malloc") /\ B' = B + Buffers("loop") - Buffers("malloc")
      BY <1>0, <3>1, TaskMoves, Zenon
    <3> QED
      BY <1>0, <2>1, <3>1, <3>2 DEF Accounted, Stacks, Buffers
  <2>3. CASE ~(heap >= BUFFER)
    <3>1. rx[t] = "malloc" /\ rx' = [rx EXCEPT ![t] = "no_buffer"] /\ heap' = heap
      BY <1>8, <2>3 DEF rx_malloc
    <3>2. /\ L' = L + Stacks("no_buffer") - Stacks("malloc")
          /\ B' = B + Buffers("no_buffer") - Buffers("malloc")
      BY <1>0, <3>1, TaskMoves, Zenon
    <3> QED
      BY <1>0, <2>1, <3>1, <3>2 DEF Accounted, Stacks, Buffers
  <2> QED
    BY <2>2, <2>3
<1>9. ASSUME NEW t \in Tasks, rx_no_buffer(t) \/ rx_leaves_loop(t) \/ rx_end(t)
      PROVE  Accounted'
  <2>1. UNCHANGED <<heap, leaked>> /\ Copies' = Copies
    BY <1>9 DEF rx_no_buffer, rx_leaves_loop, rx_end, mem, sending, Copies
  <2>2. PICK s \in {"end", "exit", "ended"} :
          rx' = [rx EXCEPT ![t] = s] /\ Stacks(s) = Stacks(rx[t]) /\ Buffers(s) = Buffers(rx[t])
    BY <1>9 DEF rx_no_buffer, rx_leaves_loop, rx_end, Stacks, Buffers
  <2>3. L' = L + Stacks(s) - Stacks(rx[t]) /\ B' = B + Buffers(s) - Buffers(rx[t])
    BY <1>0, <2>2, TaskMoves, Zenon
  <2> QED
    BY <1>0, <2>1, <2>2, <2>3 DEF Accounted, Stacks, Buffers
<1>10. ASSUME NEW t \in Tasks, rx_exit(t) PROVE Accounted'
  <2>1. leaked' = leaked /\ Copies' = Copies /\ heap' = heap + BUFFER
    BY <1>10 DEF rx_exit, sending, Copies
  <2>2. rx[t] = "exit" /\ rx' = [rx EXCEPT ![t] = "end"]
    BY <1>10 DEF rx_exit
  <2>3. L' = L + Stacks("end") - Stacks("exit") /\ B' = B + Buffers("end") - Buffers("exit")
    BY <1>0, <2>2, TaskMoves, Zenon
  <2> QED
    BY <1>0, <2>1, <2>3 DEF Accounted, Stacks, Buffers
<1>11. ASSUME NEW t \in Tasks, idle_task(t) PROVE Accounted'
  <2>1. leaked' = leaked /\ Copies' = Copies /\ heap' = heap + TASK
    BY <1>11 DEF idle_task, sending, Copies
  <2>2. rx[t] = "ended" /\ rx' = [rx EXCEPT ![t] = "none"]
    BY <1>11 DEF idle_task
  <2>3. L' = L + Stacks("none") - Stacks("ended") /\ B' = B + Buffers("none") - Buffers("ended")
    BY <1>0, <2>2, TaskMoves, Zenon
  <2> QED
    BY <1>0, <2>1, <2>3 DEF Accounted, Stacks, Buffers
<1>12. ASSUME UNCHANGED <<rx, leaked>>, heap' + Copies' = heap + Copies PROVE Accounted'
  <2>1. L' = L /\ B' = B /\ Copies' \in Nat
    BY <1>1, <1>12 DEF Copies
  <2> DEFINE ForTasks == TASK * L
             ForBuffers == BUFFER * B
  <2>2. /\ ForTasks \in Nat /\ ForBuffers \in Nat
        /\ Heap = heap + leaked + ForTasks + ForBuffers + Copies
    BY <1>0
  <2>3. ForTasks' = ForTasks /\ ForBuffers' = ForBuffers
    BY <2>1
  <2>4. heap \in Nat /\ heap' \in Nat /\ leaked \in Nat /\ Copies \in Nat
    BY <1>0
  <2> HIDE DEF ForTasks, ForBuffers
  <2>5. Heap = heap' + leaked' + ForTasks + ForBuffers + Copies'
    <3>1. Heap = (heap + Copies) + (leaked + ForTasks + ForBuffers)
      BY <2>2, <2>4
    <3>2. Heap = (heap' + Copies') + (leaked + ForTasks + ForBuffers) /\ leaked' = leaked
      BY <1>12, <3>1
    <3>3. (heap' + Copies') + (leaked + ForTasks + ForBuffers)
            = heap' + leaked + ForTasks + ForBuffers + Copies'
      BY <2>1, <2>2, <2>4
    <3> QED
      BY <3>2, <3>3
  <2> QED
    BY <2>3, <2>5 DEF Accounted, ForTasks, ForBuffers
<1>13. ASSUME send_size \/ send_retry PROVE Accounted'
  <2>1. UNCHANGED <<rx, leaked>>
    BY <1>13, Zenon DEF send_size, send_retry, tasks
  <2>2. \/ send = "size" /\ send' = "table" /\ heap' = heap - TABLE
        \/ send = "size" /\ send' = "idle" /\ heap' = heap
        \/ send = "table" /\ send' \in {"size", "idle"} /\ heap' = heap + TABLE
    BY <1>13, Zenon DEF send_size, send_retry, free, Return
  <2>3. heap \in Nat
    BY <1>0
  <2>4. heap' + Copies' = heap + Copies
    BY <2>2, <2>3 DEF Copies
  <2> QED
    BY <1>12, <2>1, <2>4
<1>14. ASSUME send_found PROVE Accounted'
  BY <1>0, <1>12, <1>14 DEF send_found, tasks, mem, Copies
<1>15. ASSUME send_table_failed \/ send_not_found \/ esp_mesh_send PROVE Accounted'
  <2>1. /\ UNCHANGED <<rx, leaked>> /\ heap' = heap + TABLE
        /\ send \in {"table", "send"} /\ send' = "idle"
    BY <1>15, Zenon DEF send_table_failed, send_not_found, esp_mesh_send, free, Return, tasks
  <2> QED
    BY <1>0, <1>12, <2>1 DEF Copies
<1> QED
  BY <1>4, <1>5, <1>6, <1>7, <1>8, <1>9, <1>10, <1>11, <1>13, <1>14, <1>15
     DEF Next, ss_mesh_init, mesh_event_handler, receive_task, ss_mesh_send_to_node
-----------------------------------------------------------------------------
\* The invariant holds at the start and in every step.
LEMMA Invariant == Spec => []IInv
<1>1. Init => IInv
  <2> SUFFICES ASSUME Init PROVE IInv
    OBVIOUS
  <2> USE Numbers
  <2>1. BootTypes /\ LinkTypes
    BY DEF Init, BootTypes, LinkTypes, InitOrder
  <2>2. TaskTypes /\ MemTypes
    BY DEF Init, TaskTypes, MemTypes
  <2>3. SendTypes
    BY DEF Init, SendTypes
  <2>4. FlagTypes
    BY DEF Init, FlagTypes
  <2>5. Handle
    BY DEF Init, Handle
  <2>6. Accounted
    BY NoTasks DEF Init, Accounted, Copies
  <2> QED
    BY <2>1, <2>2, <2>3, <2>4, <2>5, <2>6 DEF IInv, Types
<1>2. IInv /\ [Next]_vars => IInv'
  BY TypesStep, HandleStep, AccountStep DEF IInv
<1> QED
  BY <1>1, <1>2, PTL DEF Spec

\* At most one task receives, however often the parent comes and goes
\* (mesh_netif.c:65-86).
THEOREM OneReceiverHolds == Spec => []OneReceiver
<1>1. IInv => OneReceiver
  BY DEF IInv, Handle, OneReceiver
<1> QED
  BY <1>1, Invariant, PTL

\* A node, which has one core, never deletes a receive task that has ended
\* (mesh_netif.c:28, 48 and 81).
THEOREM OneCoreHolds == Spec => []OneCoreIsSafe
<1>1. IInv => OneCoreIsSafe
  BY DEF IInv, Handle, OneCoreIsSafe
<1> QED
  BY <1>1, Invariant, PTL

\* Whatever returns early, memory is with a task, in a buffer, in a copy of the
\* routing table, lost with a deleted task, or free (ss_mesh.c:170-216,
\* mesh_netif.c:19-52).
THEOREM HeapHolds == Spec => []HeapAccounted
<1>1. IInv => HeapAccounted
  BY DEF IInv, Accounted, HeapAccounted, LiveTasks, HeldBuffers, Copies
<1> QED
  BY <1>1, Invariant, PTL

\* Every variable keeps its type; what is free, and what is lost, never exceeds
\* the heap.
THEOREM TypeCorrect == Spec => []TypeOK
<1>1. ASSUME IInv PROVE TypeOK
  <2>1. heap \in 0 .. Heap /\ leaked \in 0 .. Heap
    <3>1. Cardinality(LiveTasks) \in Nat /\ Cardinality(HeldBuffers) \in Nat
      BY Counts
    <3>2. TASK * Cardinality(LiveTasks) \in Nat /\ BUFFER * Cardinality(HeldBuffers) \in Nat
      BY <3>1, Numbers
    <3> QED
      BY <1>1, <3>2, Numbers DEF IInv, Types, MemTypes, Accounted, Copies
  <2> QED
    BY <1>1, <2>1, Zenon DEF IInv, Types, BootTypes, LinkTypes, TaskTypes, MemTypes, SendTypes, FlagTypes,
       TypeOK
<1> QED
  BY <1>1, Invariant, PTL
-----------------------------------------------------------------------------
\* The history does not go beyond the present: a node that was in the table all
\* the while is in it.
Throughout == throughout => routed

\* It starts with the call, and only a change of the table ends it.
LEMMA ThroughoutStep == Throughout /\ [Next]_vars => Throughout'
<1> SUFFICES ASSUME Throughout, [Next]_vars PROVE Throughout'
  OBVIOUS
<1> USE DEF Throughout, routes, sending
<1>1. ASSUME UNCHANGED <<routed, throughout>> PROVE Throughout'
  BY <1>1
<1>2. ASSUME throughout' = FALSE PROVE Throughout'
  BY <1>2
<1>3. ASSUME UNCHANGED vars \/ init_step \/ nvs_flash_erase \/ parent_found \/ parent_lost
               \/ parent_connected \/ parent_disconnected \/ vTaskDelete
      PROVE  Throughout'
  BY <1>1, <1>3 DEF vars, init_step, nvs_flash_erase, parent_found, parent_lost, parent_connected,
     parent_disconnected, vTaskDelete
<1>4. ASSUME init_failed \/ parent_connected_failed PROVE Throughout'
  BY <1>2, <1>4 DEF init_failed, parent_connected_failed, abort
<1>5. ASSUME routes_change \/ send_to_node PROVE Throughout'
  BY <1>5 DEF routes_change, send_to_node
<1>6. ASSUME NEW t \in Tasks, receive_task(t) \/ rx_leaves_loop(t) \/ idle_task(t)
      PROVE  Throughout'
  BY <1>1, <1>6 DEF receive_task, rx_malloc, rx_no_buffer, rx_exit, rx_end, rx_leaves_loop,
     idle_task
<1>7. ASSUME send_size \/ send_retry PROVE Throughout'
  BY <1>1, <1>2, <1>7, Zenon DEF send_size, send_retry, Return
<1>8. ASSUME send_table_failed \/ send_not_found \/ esp_mesh_send PROVE Throughout'
  BY <1>2, <1>8, Zenon DEF send_table_failed, send_not_found, esp_mesh_send, Return
<1>9. ASSUME send_found PROVE Throughout'
  BY <1>1, <1>9 DEF send_found
<1> QED
  BY <1>3, <1>4, <1>5, <1>6, <1>7, <1>8, <1>9
     DEF Next, ss_mesh_init, Mesh, mesh_event_handler, ss_mesh_send_to_node

\* A call that returns without sending, while the node was in the table from its
\* start to its end and ESP-IDF did not fail, has made its three attempts, and
\* the table grew in each (ss_mesh.c:170-216).
THEOREM NotFoundHolds == Spec => NotFoundIsTrue
<1> DEFINE GivesUp == throughout /\ send = "table" /\ send' = "idle" /\ Up' /\ UNCHANGED failures
           Reason == attempt = 3 /\ RouteCount > capacity
<1>1. Init => Throughout
  BY DEF Init, Throughout
<1>2. ASSUME IInv, Throughout, Next, GivesUp PROVE Reason
  <2>1. attempt \in 1 .. 3 /\ failures \in Nat
    BY <1>2 DEF IInv, Types, SendTypes, BootTypes
  <2>2. send = "table" /\ send' = "idle" /\ Up' /\ failures' = failures /\ routed
    BY <1>2 DEF Throughout
  <2>3. ~abort
    BY <2>2 DEF abort, Up, InitOrder
  <2>4. ~(UNCHANGED send)
    BY <2>2
  <2>5. ~ss_mesh_init
    BY <2>3, <2>4 DEF ss_mesh_init, init_step, nvs_flash_erase, init_failed, sending
  <2>6. ~Mesh
    BY <2>4 DEF Mesh, parent_found, parent_lost, routes_change, sending
  <2>7. ~mesh_event_handler
    BY <2>3, <2>4 DEF mesh_event_handler, parent_connected, parent_connected_failed,
       parent_disconnected, vTaskDelete, sending
  <2>8. ASSUME NEW t \in Tasks PROVE ~(receive_task(t) \/ rx_leaves_loop(t) \/ idle_task(t))
    BY <2>4 DEF receive_task, rx_malloc, rx_no_buffer, rx_exit, rx_end, rx_leaves_loop, idle_task,
       sending
  <2>9. ~send_to_node /\ ~send_size /\ ~send_found /\ ~esp_mesh_send
    BY <2>2, Zenon DEF send_to_node, send_size, send_found, esp_mesh_send
  <2>10. ~send_table_failed
    BY <2>1, <2>2 DEF send_table_failed
  <2>11. ~send_not_found
    BY <2>2 DEF send_not_found, Grew, CopyHas
  <2>12. send_retry
    BY <1>2, <2>5, <2>6, <2>7, <2>8, <2>9, <2>10, <2>11 DEF Next, ss_mesh_send_to_node
  <2>13. Grew /\ ~(attempt < 3)
    BY <2>2, <2>12 DEF send_retry
  <2> QED
    BY <2>1, <2>13 DEF Grew
<1>3. IInv /\ Throughout /\ [Next]_vars => [GivesUp => Reason]_vars
  BY <1>2
<1>4. Spec => [][GivesUp => Reason]_vars
  BY <1>1, <1>3, Invariant, ThroughoutStep, PTL DEF Spec
<1> QED
  BY <1>4 DEF NotFoundIsTrue
=============================================================================
