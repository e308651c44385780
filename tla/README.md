# ss-forest in TLA+

A verification project for the firmware of `ss-forest`: a fixed ESP-MESH root (ESP32, two cores)
with a serial console, nodes (ESP32-C3, one core) with a button, a BLE window and two LEDs, and
host tools that answer the root. A user stands at a node, presses its button, writes a team UUID
over BLE; the node asks the root through the mesh, the root prints the request, the operator or a
host tool types a color, and the node shows it.

All modules are plain TLA+. `MC*.tla` and the `.cfg` files are the instances that TLC checks,
`*Proofs.tla` hold proofs that TLAPS checks, and `PROJECT.json` lists runs, mutants, theorems,
findings, hazards and the source lines behind every definition.

## 1. Inventory

| Component | State | Operations | Interacts through |
|---|---|---|---|
| Root request table (`root_main.c`) | `s_pending_requests`, `s_pending_lock`, `s_mesh_rx_queue` | `mesh_recv_cb`, `mesh_rx_task`, `pending_add`, `pending_take`, `pending_prune_expired`, `serial_task`'s `color` | mesh packets, serial line |
| Root serial console (`root_main.c`) | the line buffer | `help ping routes nodes tree getcolor color` | stdin and stdout, table, mesh tree |
| Node session (`node_main.c`) | four queues, `state_lock`, `led_state`, `color_rgb`, `current_session_id`, `mesh_connected` | `gatt_uuid_access_cb`, `uuid_session_task`, `mesh_recv_cb`, `color_query_task`, `mesh_status_task` | BLE, mesh packets, `ble_window_queue`, LEDs |
| Node BLE window (`node_main.c`) | `s_ble_window_active`, `s_ble_conn_handle`, `button_queue`, `ble_window_queue` | `button_task`, `session_task`, `ble_window_task`, `ble_gap_event`, `start_ble_advertising`, `stop_ble_access` | NimBLE callbacks, `close_ble_window` of the session |
| Node LEDs (`node_main.c`) | what `led_task` remembers of the strip | `led_task`, `led_set_pixels` | reads the state of session and window, under `state_lock` |
| Mesh network interface (`mesh_netif.c`) | `s_receive_task`, the receive buffer | `mesh_netifs_start`, `mesh_netifs_stop`, `receive_task` | mesh events, `mesh_recv_cb`, the heap |
| Mesh start, events and sending (`ss_mesh.c`) | `s_connected`, `s_layer`, `s_parent_addr` | `ss_mesh_init`, `mesh_event_handler`, `ss_mesh_send_to_root`, `ss_mesh_send_to_node` | ESP-MESH, flash, the heap |
| Mesh tree (`ss_mesh_tree.c`) | `s_children`, `s_child_present`, `s_tree_lock` | `ss_mesh_tree_child_connected`, `_disconnected`, `ss_mesh_tree_build` | mesh events, routing table, `tree` command |
| Host tools (`mesh_tool.py` with `root_color_test.py`, `go/main.go`) | color table and its file, tree buffer | serial watcher, HTTP `PUT`, `PATCH`, `GET` | serial line, file |
| Scripts and build (`firmware.py`, `ble_uuid_test.py`, `mesh_api_client.py`, Kconfig) | none | run once | – |

What makes each hard, and what makes it correct:

- **Root table.** Two tasks interleave; pruning moves entries while it iterates; the tick counter
  wraps; the table fills; a failed send puts a request back. Correct when a node has one entry, a
  session is answered once, nothing expires early and nothing expired is used.
- **Node session.** A response may come at any time: before the wait, after the timeout, after
  the next session began. The receive task is created and *deleted* by mesh events, wherever it
  is. Correct when a node takes on only the color of its latest session and a session ends.
- **BLE window.** Two tasks share two variables without a lock and block inside. Correct when a
  window closes, an open one is discoverable, a closed one silent, and the handle is that of a
  live connection.
- **LEDs.** The strip is rewritten only on a change. Correct when it ends up showing what the
  README says for each state.
- **Mesh component.** The event task deletes the receive task wherever that is, and its buffer is
  lost; the routing table changes between the calls that read it; calls fail and the device
  reboots. Correct when memory is accounted for, one task receives, and a connected device is not
  deaf.
- **Mesh tree.** Events lag behind the mesh, a child may connect twice in a row, and the routing
  table is read outside the mutex. Correct when the child table follows the children.
- **Host tools.** HTTP threads change one table and write it to one file in place; a write fails,
  the process ends. Correct when what was answered by 200 is in the table and in the file.
- **All together.** Requests, lines, commands and responses are each in flight, may be lost, and
  the command names a node where the other three name a session. Correct when a team gets its own
  color.

## 2. Modules and how they correspond to the code

| Module | Code | Remarks |
|---|---|---|
| `RequestLedger` | – | abstract: what the root promises about requests: `Arrive`, `Record`, `Expire`, `Take`, `Answer`, `PutBack` |
| `Root` | root table and `color` | implements `RequestLedger` by a refinement mapping (`Inbox`, `Open`, `Held`, `Answered`) |
| `SessionClient` | – | abstract: what a node promises about its sessions: `Begin`, `Transmit`, `Accept`, `GiveUp`, and the root's `Reply` |
| `NodeSession` | session, receive task | implements `SessionClient`; each critical section of `state_lock` is a step, except in the receive task, which can be deleted inside one |
| `BleWindow` | window | steps end where a task blocks in a command to the Bluetooth controller |
| `NodeLeds` | `led_task` | the other tasks reduced to the changes they make to what it reads |
| `SsMesh` | `ss_mesh.c`, `mesh_netif.c` | start, receive task, sending, on one heap and on one core or two |
| `MeshTree` | mesh tree | uses of the child table are steps; the routing table is read in a step of its own |
| `HostTool` | color table of both tools | one module for both: `tool` says which locks are taken |
| `Forest` | a node, the root and the host | composes `SessionClient` and `RequestLedger` with the queue, the serial line and the host between them |

Actions carry the names of the functions they model. Where a function is several steps, the steps
are named after what they do and disjoined under the name of the function or task. `Mutant:`
operators are forms of a definition with a plausible bug; they are used only to show that each
property can fail.

The two abstract modules carry the composition: `Root` and `NodeSession` are checked (and proved) to
implement them, and `Forest` uses them instead of the two, so that what it shows needs neither the
array of the root nor the mutex of the node.

**Root.** `entries` and `created_at` are the used prefixes of the two arrays, so `count` is their
length. `pc[t]` is where a task is in a table operation: `lock`, `prune` (one iteration of the loop
per step, at index `i[t]`, with the tick `now[t]`), `find`; `serial_task` continues with `send`. A
packet that is not a valid UUID request is one value, `OTHER`. `newest` and `written` are history
variables that only properties read.

**NodeSession.** A UUID and its attack points do not influence anything, so a request is a unit in
`uuid_queue`; a response is a session and a color. `session_pc` follows `uuid_session_task` through
reset, begin, send, await, apply, and the two writes around the red second; `close_ble_window`, with
which `led_set_color_from_payload` ends, waits for nothing and its event is `BleWindow`'s
`close_ble_window`. `rx_pc` follows the receive task through `mesh_recv_cb`. `parent_disconnected`
deletes that task at any `rx_pc`; a mutex it holds becomes `"deleted"`. The root answers each session
once and the mesh delivers each packet at most once and in order; the first is `Root!OneReply`.
`esp_random` draws identifiers without repetition: the chance of one in 2^32 is left out.
`session_timeout` cannot happen while the receive task is between its comparison and its
`xQueueSend`: those are a few instructions, and the wait is 20 seconds.

The listing of `uuid_session_task` uses `rssi` and `distance_cm` (lines 641-642), which are not
declared there; neither influences control, and the model leaves them out.

**BleWindow.** The distance check is a choice, in `gap_accept` and `gap_reject` and in the two
outcomes of `gatt_uuid_access_cb`. A connection that `ble_gap_terminate` asks to end is
`terminating` until `terminated`. NimBLE goes on believing that it advertises until it handles the
event of a connection; `AboutToConnect` says that meanwhile there is no second one.
`ble_window_task` is the only task that clears `s_ble_window_active`, so its own check in
`start_ble_advertising` always passes and is left out; that of the host task is not. `start_failed` is
a history variable: the code only logs a start of advertising that fails.

**NodeLeds.** A color is a triple. `led_sample` is the part under the mutex, `led_show` the rest,
which reads `s_ble_window_active` again. `state_lock` is that of `NodeSession`: `mesh_rx` takes it
(`recv_take_lock`), and gives it (`recv_compare`) or is deleted with it (`parent_disconnected`), after
which `led_task` and the tasks that change what it reads wait for good. `in_session` tells whether
`uuid_session_task` runs a session, as `led_state` does not: `session_takes_stray` ends one and leaves
the green blink.

**SsMesh.** `boot` counts the calls of `ss_mesh_init` in their order (`InitOrder`); one that fails
aborts, and the device starts again with an empty RAM. `mesh_netifs_stop` is two steps:
`parent_disconnected` resets the handle and keeps the task in `stopping`, `vTaskDelete` deletes it. On
one core nothing but the event task runs in between (`MayRun`); on the two cores of the root the
receive task may see the reset handle and end, and is then deleted once more: `corrupted`, where the
model stops. Memory is counted in units of a task, a buffer and a copy of the routing table; the
receive buffer of a deleted task is `leaked`. A task that deletes itself keeps its memory until
`idle_task`. `rx_leaves_loop` needs a packet or an error of the mesh, so no fairness is assumed of it.
`throughout` is a history variable. That `ss_mesh_send_to_root` only calls `esp_mesh_send` leaves
nothing of it to model; the layer and the address of the parent are only logged.

**MeshTree.** `routes` leaves the root's own entry out, but counts it where the code does: `Copied`
gives the possible contents of the array when the table is too long, in which the root's own entry
may or may not be.

**HostTool.** The table maps a team to the number of the change that set its color, so that "lost"
means "has a smaller number than what was answered". Opening the file empties it (`Cut`), writing puts
the text over what it holds; a text over a longer one is not a table. The Python tool holds
`colors_lock` from the change to the end of the save; the Go tool locks for the change and for
marshalling only, so its saves may meet: `overlapped` remembers that they did. `Alone` leaves those
behaviors out of the properties, because in them the Go tool really loses changes: of two saves the
older text may be written last. `unsaved` remembers a write that failed, `interrupted` one that ended
between opening and writing, until another is done.

**Forest.** A color is named by the session for whose UUID the host picked it, so a team gets its own
color when the two names agree. The receive queue of the root keeps its order (`rx_queue`; the ledger
sees it as a set), the request at its head is printed (`PrintRequest`) before it is recorded
(`Record`), as in `process_mesh_packet`, and the host may answer in between. The root drops a request
by its age alone (`root_main.c:49`), and the model has no clock: if the node waits less than the root
keeps a request (`NodeWaitsLess`; 20 s and 30 s by default), `Overdue` lets only what the node has
given up be dropped, and anything otherwise, as `SS_ROOT_RESPONSE_TIMEOUT_MS` may be configured up to
60 s. `accepted`, `abandoned` and `spoiled` are history variables. The host
is the Python tool: the commands of the Go tool name no node, and the root refuses all of them.

## 3. Runs

| Run | Shows |
|---|---|
| `root_table` | for two tasks in any order, across the wrap of the tick counter: `OneEntryPerNode`, `OneReply`, `PrunedBeforeUse`, `NoEarlyExpiry`, `StaleOnlyByPutBack`, and `Implements` (the ledger) |
| `root_progress` | on a table that fills: types and bounds, and under fairness `OperationsEnd`, `QueuedIsPrinted` |
| `node` | three sessions and two connections: types and bounds, `Implements` (the client), `LiveResponseKept`, and under fairness `SessionEnds` |
| `node_disconnect` | violation: `DisconnectIsNoticed` |
| `window` | types and bounds, `HandleIsLive`, `Discoverable`, and `WindowCloses` under fairness, with commands that fail |
| `window_silent` | violation: `SilentWhenClosed` |
| `leds` | `IdleShowsColor`, `MeshIsShown`, `StripIsCurrent` |
| `leds_red` | violation: `FailureIsRed` |
| `mesh_tree` | `OneSlotPerChild`, `TableFollowsChildren`, `CompleteShowsAll`, `DirectIsKnown` |
| `ss_mesh` | on one core and two, with a call that fails: `OneCoreIsSafe`, `OneReceiver`, `HeapAccounted`, `NotFoundIsTrue`, and `ConnectedReceives` under fairness |
| `host` | both tools, with a failed write and a crash anywhere: `FileFollowsTable`, `AckedIsSaved`, `StartsAgain` |
| `forest` | node, root and host: `OwnColor`, `RefusedForReason`, and `Served` under fairness |

### Findings

1. `node_disconnect` (`mesh_netif.c:83`): the receive task deleted inside the critical section of
   `mesh_recv_cb` takes `state_lock` with it; from then on no session begins and neither LED changes.
2. `window_silent` (`node_main.c:450`): the host task starts advertising, without end, after the
   window was closed.
3. `leds_red` (`node_main.c:254`): "red solid" sets one component of the team color; a green team
   sees green.

What the passing runs say about the code besides, as conditions of their properties:

- `StaleOnlyByPutBack`: a request that is put back after a failed send may replace a newer one of the
  same node (`root_main.c:382`); nothing else can.
- `Implements` of the node holds, but a response to an older session that slips into the new one ends
  its wait at once (`node_main.c:664-668`): `GiveUp`.
- `IdleShowsColor`: after such a response LED0 goes on blinking green although no session runs and the
  README says "Idle: last color received from root" (`src/README.md:39`), until the next session.
- `SessionEnds`, `IdleShowsColor`, `MeshIsShown`: none holds once `state_lock` is lost (finding 1).
- `OneCoreIsSafe`: on the root, and only there, a receive task can be deleted twice.
- `ConnectedReceives`: each lost parent costs a buffer, and when memory is used up the device is deaf.
- `NotFoundIsTrue`: a node that is there is reported missing when the table grows in each of three
  attempts.
- `FileFollowsTable`, `AckedIsSaved`, `StartsAgain`: the Go tool, when two of its saves meet, may lose
  a change or leave a file that is no table; both tools, when they end between opening and writing the
  file (`mesh_tool.py:46`), lose every color, those answered by 200 included, and do not start again.
  A crash anywhere else loses nothing that was answered. `src/README.md:180` says that color changes
  are persisted.
- `RefusedForReason`: a host that is fast enough is told that there is no pending request; with a node
  configured to wait for 30 s or more, so may one that is slow.
- `OwnColor`: once a node has given a session up, a late command colors the next one.
- `HandleIsLive`: the disconnect of one client resets the handle of another, who then stays connected
  when the window closes (`node_main.c:356`).

In `PROJECT.json` a hazard that the code falls to in this way has no property, or a note that says what
its properties leave out.

### Bounds, and why they are enough

- `Root`: two nodes are the least that share a table; `root_table` has room for both, `root_progress`
  for one, so that the other finds it full (`Implements` is checked only in the former, and proved for
  every capacity). Two sessions of a node are the least of which one can be
  stale. `MaxClock` spans a timeout and the wrap
  (`BootTick + MaxClock >= TickModulus`); `TickModulus` is 2^32 in the code and 8 here, more than
  twice every difference that occurs.
- `NodeSession`: three sessions let an answer be late by two; `RESPONSE_QUEUE_LENGTH` is that of the
  code, the other queues have one place so that they fill. `MaxConnects` 2 allows the receive task to
  be deleted and created again; `DownlinkLength` 1 still lets a packet wait while the task holds
  another. One color is enough: a response is told from another by its session.
- `BleWindow`: two handles, three presses and three connections: one client that replaces another and
  a number that is used again. `Window` is one tick: only whether the deadline passed matters.
- `NodeLeds`: no bound. `leds` has one team color, which differs from black and from what every state
  makes of it, so that what is shown tells where it comes from; `leds_red` has a green team, for which
  red is not red.
- `SsMesh`: two tasks, as one may end while the next is created; memory for a task, its buffer, a
  table and two lost buffers, so that it runs out in each place; one failing call; one node besides
  the one that is sent to, so that the table can grow, shrink and grow.
- `MeshTree`: three nodes, two slots, a tree of two and two events under way: every limit is reached.
- `HostTool`: two threads, two teams (so that a `PATCH` has two entries), three changes (so that one
  thread's second change meets the other's first), one failed write and one crash, in any place.
- `Forest`: three sessions: a late answer to the first can meet the second, and push that of the
  second to the third. Four sessions have been checked once, with the same result; `OwnColor` is proved
  for any number.

`CHECK_DEADLOCK FALSE` stands in the runs where the model may stop: in `Window`, `WindowSilent`, `Node`
and `Forest` because the presses, connections and sessions are used up (and in `Node`, `NodeDisconnect`
also because a mutex was deleted with its task); in `SsMesh` at `corrupted`; in `HostTool` where the
tool cannot start.

### Fairness

- `Root`: weak fairness for both tasks, which FreeRTOS time-slices at equal priority; strong fairness
  for taking the mutex, since each give makes the waiting task ready.
- `NodeSession`: strong fairness for the session, the receive task and `mesh_status_task`, as FreeRTOS
  serves the tasks that wait for a mutex in turn; weak for `color_query_task`, of which no property
  needs more; none for the mesh events, the root or the user.
- `BleWindow`: weak fairness for the tasks, the tick and the end of terminated connections.
- `NodeLeds`: strong fairness for `led_task`, which delays itself for at most 500 ms and is served in
  turn when it waits for `state_lock`; weak fairness for the receive task to give the mutex, which the
  deletion of the task may prevent.
- `SsMesh`: weak fairness for the start and the event task, which nothing preempts; strong for the
  receive task, the idle task and the sender, which the event task keeps stopping on one core.
- `Forest`: weak fairness for the tasks of the root and the host tool, which wait for nothing else; and
  for `Accept`, as a response that was sent arrives while the node waits (what is lost on the way is a
  session given up). None for the node's sending, for giving up, or for losing anything.

No fairness is assumed for anything else that the environment does, and none in `HostTool` and
`MeshTree`, where everything is safety.

## 4. Proofs

The theorems hold for every value of the constants that satisfies the assumptions in the modules:
capacities are positive, the sets of nodes and of connection handles are not empty, "no" values are
not among the real ones, and `MaxClock` is below `TickModulus` in `Root` (no entry is unpruned for a
whole turn of the counter).

- `RootProofs`: `LedgerInvariant` is about the ledger itself: a request is in one of four places and a
  session is answered at most once; its invariant is inductive as it stands. `TypeCorrect` strengthens the types by what each `pc` value implies (who holds the
  lock, that `i` is in range, that both arrays have one length). `OneEntry` needs in addition what the
  pruning loop keeps and that an append happens only after a search that found nothing. `Refinement`
  maps every step to one of the ledger or to a stutter; removal during pruning is `Expire`, and the
  lemma about `SwapRemove` says that removal takes exactly one request out of `Open`. `AtMostOneReply`
  follows from `Refinement` and `LedgerInvariant` and needs no invariant of its own: that is what the
  ledger is for. `PrunedHolds` adds the invariant of the loop: what lies before `i` had not expired at
  the time the loop was given, also when a removal moves the last entry into the gap. `StaleHolds`
  needs no more than `IInv`: `mesh_rx_task` records what it makes the last session of its node, and
  what `serial_task` records is in `Held`. `ExpiryHolds` is about the arithmetic of the tick counter:
  the tick of an entry is the time of its writing modulo `TickModulus` (`Stamped`), the tick that a task
  works with is that of a time no earlier than any of those (`Dated`), and less than a turn of the
  counter lies between them, so that the difference the code computes modulo `TickModulus` is the real one;
  the lemmas (`ModIs`, `NoMultiple`, `DifferenceOfRemainders`) state this for all numbers.
- `NodeSessionProofs`: `TypeCorrect`, `OnlyTheAnswer` and `Refinement`. The invariant says that every
  response on its way (in the link, at the receive task, in the queue) was sent by the root
  (`Genuine`), and that the session which waits is the current one (`Current`). Neither conjunct alone
  is enough: the queue may hold answers to older sessions, and only the second comparison keeps them
  from being applied. `Refinement` maps the wait of the session to `waiting`, and every other step to a
  stutter. `OnlyTheAnswer` states the README's "node accepts the matching session color" directly.
  `LiveKept` has one hypothesis, `RESPONSE_QUEUE_LENGTH >= 2`, which is the length that
  `node_main.c:696` gives the queue. It bounds what can be in the way: the root answers a session once,
  so that no session has two responses between the root and the queue (`Apart`); the queue is emptied
  when a session begins, and `mesh_recv_cb` lets only responses to the current session pass, so that at
  most one of another session, compared before the session changed, slips in (`OneLate`).
- `NodeLedsProofs`: `StripStaysCurrent`, that the strip always equals what `led_task` remembers of it,
  and `TypeCorrect`.
- `BleWindowProofs`: `HandleHolds`, `DiscoverableHolds` and `TypeCorrect`. `HandleIsLive` is not
  inductive: a handle that the host task will learn of from an event must be live as well, as seen from
  that event's place in the order (`Handled`). `NotSilent` says what keeps an open window from being
  silent for good: it advertises, or the host task is about to, or somebody is connected, or an event is
  under way.
- `SsMeshProofs`: `OneReceiverHolds`, `OneCoreHolds`, `HeapHolds` and `TypeCorrect`. `Handle` says who
  has `s_receive_task`: a task that runs is the one in the handle or the one that `mesh_netifs_stop` took
  out of it, and on one core the latter does not move. `NotFoundHolds` needs besides that a node which
  was in the table all the while still is in it (`Throughout`). `Accounted` gives the sum of all memory by
  cardinalities; that the heap stays within its bounds is a consequence of the sum, so that the
  invariant has the types without those bounds.
- `MeshTreeProofs`: `FollowsHolds`, `OneSlotHolds`, `CompleteHolds`, `DirectHolds` and `TypeCorrect`.
  `TableFollowsChildren` is not inductive: it does not say that the table has room when a connection is
  handled late. `History` does: the children as they were at each event under way differ from one event
  to the next as the event says, begin with what is in the table and never were more than fit it.
  `Least` and `Greatest` show that a set of numbers up to `n` has a minimum and a maximum, from
  cardinalities and without induction.
- `ForestProofs`: `OwnColorHolds`, `TypeCorrect` and `LedgerHolds`. The invariant adds to the types and
  the ledger's own invariant that only sent sessions are answered and that, as long as no session was
  given up (`Own`), either nothing is on its way (`Quiet`) or what is belongs to the session that goes
  on, and is one piece of it: its line, or the command, or the color that `serial_task` is at
  (`Underway`). Without "one piece" a second command could wait for the next session. The step of
  `Answer` needs the ledger: the request that is held is neither in the queue nor open, so that after
  it everything is quiet. `RefusedHolds` follows every request that nothing happened to (`Traced`): it
  is somewhere at the root, and the node waits for it or has its color. It has one hypothesis, `NodeWaitsLess`; the
  other theorems hold whatever the two times are. As `Forest` conjoins actions of `SessionClient` and
  `RequestLedger`, it implements both by its form. But each could hold the other back, and a behavior
  be missing from the model; `ComposedHolds` says that this never happens: `SessionClient!Reply` requires that a session was sent and has no
  response, and whatever the ledger holds is such a session. That is what the node assumes of the root.
- `HostToolProofs`: `TypeCorrect`, `FollowsHolds`, `AckedHolds` and `StartsHolds`. A table of colors is
  in three places: in memory, in the file, and in the texts that handlers are about to write. A change
  that was answered is in all three of them (`Kept`), a change that is not answered yet in the text of
  its own handler (`Own`); `KeptStep` is that no save, failure or end of the tool takes it away.
  `Locked` gives one writer at a time, from the lock of the Python tool or from `Alone`; `Opened` and
  `Fresh` say that this writer has an empty file and the latest table. `Broken` says who left a file that
  is cut off.

Every invariant and every action property that a passing run checks is stated by a theorem. Checked by
TLC only: the liveness properties (`OperationsEnd`, `QueuedIsPrinted`, `SessionEnds`, `WindowCloses`,
`IdleShowsColor`, `MeshIsShown`, `ConnectedReceives`, `Served`), as the provers know no `ENABLED`. The
inductive invariants were checked by TLC on the instances of the runs before they were proved.

## 5. Not modelled

- Parsing and formatting of lines and packets, logging, the estimate of the distance: data that no
  property tells apart. Two tasks of the root print with several calls of `printf`, and a line may be
  mixed up; in `Forest` such a line is lost.
- The commands `help`, `ping`, `routes` and `nodes` of the root, and `getcolor` beyond its packet: they
  read, print and keep no state.
- The tree buffer of the host tools. They ask with `TREE`, the root knows `tree`
  (`root_main.c:342`), so that the buffer never changes. For the same kind of reason the answers of the
  Go tool to `UUID_REQUEST` lines are left out.
- `ble_uuid_test.py`, `mesh_api_client.py`, `firmware.py`: they keep no state. The `.puml` diagram
  describes an earlier design (the node scans for devices); no module follows it.
- Kconfig and build files: the constants of the modules take their ranges from them.
- A reboot of the root or a node in the middle of a session: nothing on them but the configuration of
  the mesh is persistent. `SsMesh` has the reboot of a start that fails; in `Forest` a node that
  reboots is one whose session was given up.
- A client that connects while the window closes (`node_main.c:343`): no document says that a closed
  window has no client, and `HandleIsLive` covers the handle.

## 6. Plan

Done: all the modules and runs above, the refinements of `Root` and `NodeSession`, and the proofs of
section 4. Left, in this order:

1. The safety parts of the liveness arguments: that a session which waits has its deadline ahead, that
   a task of the root which waits for the lock has another one that holds it.
2. Consequences of the refinements for the detailed modules, in the way of `AtMostOneReply`.
3. An abstract table of colors for `HostTool`, with saving and loading as single steps, and the proof
   that the tool implements it while `Alone`.
