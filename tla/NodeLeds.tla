------------------------------ MODULE NodeLeds ------------------------------
(***************************************************************************)
(* What the two LEDs of a node show (led_task of node/main/node_main.c).   *)
(* The task reads the state that the other tasks write (modules            *)
(* NodeSession and BleWindow) under state_lock, reads s_ble_window_active  *)
(* again without it, and rewrites the strip only when something changed.   *)
(* A critical section of state_lock is one step, except in mesh_rx: that   *)
(* task can be deleted inside it, and the mutex is then lost.              *)
(*                                                                         *)
(* A color is a triple <<red, green, blue>>.                               *)
(***************************************************************************)
EXTENDS Integers, Sequences

CONSTANT TeamColors   \* the colors that the root sends

ASSUME LedsAssumption == TeamColors \subseteq [1 .. 3 -> 0 .. 255]

Black == <<0, 0, 0>>
NoColor == <<255, 255, 255>>   \* the first value of last_color and last_status

\* The values that led_state is given; the other values of led_state_t never are.
LedStates == {"LED_OFF", "LED_KEEP_COLOR", "LED_MESH_INIT", "LED_GREEN_SOLID", "LED_GREEN_FAST",
              "LED_RED_SOLID"}
MeshStates == {"LED_MESH_INIT", "LED_GREEN_SOLID", "LED_RED_SOLID"}

VARIABLES
  booting,             \* whether app_main still runs
  state_lock,          \* s_ctx.state_lock: "free", held by "mesh_rx", or held by a
                       \* receive task that was "deleted"
  in_session,          \* whether uuid_session_task runs a session
  led_state, color_rgb, mesh_connected, mesh_connected_once,
  s_ble_window_active,
  has_client,          \* whether s_ble_conn_handle is set
  led_pc,              \* where led_task is
  seen,                \* what it read under state_lock in this turn
  mesh_on, ble_on,     \* its blink phases
  last,                \* last_mesh_state, last_led_state, last_color, last_status
  strip                \* the two pixels of the LED strip

shared == <<led_state, color_rgb, mesh_connected, mesh_connected_once, s_ble_window_active,
            has_client>>
task == <<led_pc, seen, mesh_on, ble_on, last, strip>>
vars == <<booting, state_lock, in_session, shared, task>>

Color == TeamColors \cup {Black}
Seen == [mesh_state : MeshStates, led_state : LedStates, use_ble_color : BOOLEAN, color : Color]
Unread == [mesh_state |-> "LED_MESH_INIT", led_state |-> "LED_MESH_INIT",
           use_ble_color |-> FALSE, color |-> Black]

TypeOK ==
  /\ booting \in BOOLEAN
  /\ state_lock \in {"free", "mesh_rx", "deleted"}
  /\ in_session \in BOOLEAN
  /\ led_state \in LedStates
  /\ color_rgb \in Color
  /\ mesh_connected \in BOOLEAN
  /\ mesh_connected_once \in BOOLEAN
  /\ s_ble_window_active \in BOOLEAN
  /\ has_client \in BOOLEAN
  /\ led_pc \in {"sample", "show"}
  /\ seen \in Seen
  /\ mesh_on \in BOOLEAN
  /\ ble_on \in BOOLEAN
  /\ last.mesh_state \in MeshStates \cup {"NONE"}
  /\ last.led_state \in LedStates \cup {"NONE"}
  /\ {last.color, last.status, strip.color, strip.status} \subseteq [1 .. 3 -> 0 .. 255]

\* app_main creates led_task first.
Init ==
  /\ booting = TRUE
  /\ state_lock = "free"
  /\ in_session = FALSE
  /\ led_state = "LED_MESH_INIT"
  /\ color_rgb = Black
  /\ mesh_connected = FALSE
  /\ mesh_connected_once = FALSE
  /\ s_ble_window_active = FALSE
  /\ has_client = FALSE
  /\ led_pc = "sample"
  /\ seen = Unread
  /\ mesh_on = FALSE
  /\ ble_on = FALSE
  /\ last = [mesh_state |-> "NONE", led_state |-> "NONE", color |-> NoColor, status |-> NoColor]
  /\ strip = [color |-> Black, status |-> Black]
-----------------------------------------------------------------------------
\* app_main shows green for 700 ms, and then the other tasks begin.  It writes
\* led_state without the mutex.
app_main ==
  /\ booting
  /\ \/ led_state = "LED_MESH_INIT" /\ led_state' = "LED_GREEN_SOLID" /\ UNCHANGED booting
     \/ led_state = "LED_GREEN_SOLID" /\ led_state' = "LED_OFF" /\ booting' = FALSE
  /\ UNCHANGED <<state_lock, in_session, color_rgb, mesh_connected, mesh_connected_once,
                 s_ble_window_active, has_client, task>>

\* uuid_session_task begins a session, or shows red as the mesh is not connected.
session_begins ==
  /\ ~in_session
  /\ state_lock = "free"
  /\ in_session' = TRUE
  /\ led_state' \in {"LED_GREEN_FAST", "LED_RED_SOLID"}
  /\ UNCHANGED color_rgb

\* A session ends with a color,
session_succeeds ==
  /\ in_session /\ led_state = "LED_GREEN_FAST"
  /\ state_lock = "free"
  /\ in_session' = FALSE
  /\ led_state' = "LED_KEEP_COLOR"
  /\ color_rgb' \in TeamColors

\* or it fails and shows red for 1200 ms,
session_fails ==
  /\ in_session
  /\ state_lock = "free"
  /\ \/ led_state = "LED_GREEN_FAST" /\ led_state' = "LED_RED_SOLID" /\ UNCHANGED in_session
     \/ led_state = "LED_RED_SOLID" /\ led_state' = "LED_OFF" /\ in_session' = FALSE
  /\ UNCHANGED color_rgb

\* or it takes the answer to another session, and ends as it is: LED0 goes on
\* blinking green.
session_takes_stray ==
  /\ in_session /\ led_state = "LED_GREEN_FAST"
  /\ in_session' = FALSE
  /\ UNCHANGED <<led_state, color_rgb>>

session_changes ==
  /\ ~booting
  /\ session_begins \/ session_succeeds \/ session_fails \/ session_takes_stray
  /\ UNCHANGED <<booting, state_lock, mesh_connected, mesh_connected_once, s_ble_window_active,
                 has_client, task>>

\* mesh_status_task copies the state of the mesh.
mesh_changes ==
  /\ ~booting
  /\ state_lock = "free"
  /\ mesh_connected' = ~mesh_connected
  /\ mesh_connected_once' = TRUE
  /\ UNCHANGED <<booting, state_lock, in_session, led_state, color_rgb, s_ble_window_active,
                 has_client, task>>

\* The window opens or closes, and a client comes or goes; app_main creates
\* ble_window_task before it shows green.
window_changes ==
  /\ led_state # "LED_MESH_INIT"
  /\ \/ s_ble_window_active' = ~s_ble_window_active /\ UNCHANGED has_client
     \/ has_client' = ~has_client /\ UNCHANGED s_ble_window_active
  /\ UNCHANGED <<booting, state_lock, in_session, led_state, color_rgb, mesh_connected,
                 mesh_connected_once, task>>

\* mesh_recv_cb, in mesh_rx, takes the mutex for a response, whatever the session,
recv_take_lock ==
  /\ state_lock = "free"
  /\ state_lock' = "mesh_rx"
  /\ UNCHANGED <<booting, in_session, shared, task>>

\* and gives it after the comparison,
recv_compare ==
  /\ state_lock = "mesh_rx"
  /\ state_lock' = "free"
  /\ UNCHANGED <<booting, in_session, shared, task>>

\* unless the parent is lost in between: mesh_netifs_stop deletes mesh_rx, and
\* nobody gives the mutex any more.
parent_disconnected ==
  /\ state_lock = "mesh_rx"
  /\ state_lock' = "deleted"
  /\ UNCHANGED <<booting, in_session, shared, task>>
-----------------------------------------------------------------------------
\* Mutant: a node that never connected has no state of the mesh.
MeshState_off == IF mesh_connected THEN "LED_GREEN_SOLID"
                 ELSE IF mesh_connected_once THEN "LED_RED_SOLID" ELSE "LED_OFF"

\* What LED1 is to show.
MeshState == IF mesh_connected THEN "LED_GREEN_SOLID"
             ELSE IF mesh_connected_once THEN "LED_RED_SOLID" ELSE "LED_MESH_INIT"

\* led_task waits for state_lock without a limit, reads the state,
led_sample ==
  /\ led_pc = "sample"
  /\ state_lock = "free"
  /\ seen' = [mesh_state |-> MeshState,
              led_state |-> led_state,
              use_ble_color |-> \/ s_ble_window_active /\ ~has_client
                                \/ led_state \notin {"LED_OFF", "LED_KEEP_COLOR", "LED_MESH_INIT"},
              color |-> color_rgb]
  /\ led_pc' = "show"
  /\ UNCHANGED <<booting, state_lock, in_session, shared, mesh_on, ble_on, last, strip>>

\* The color of LED1, where on is the phase of its blink.
Status(mesh_state, on) ==
  CASE mesh_state = "LED_MESH_INIT" -> IF on THEN <<24, 0, 24>> ELSE Black
    [] mesh_state = "LED_GREEN_SOLID" -> <<0, 32, 0>>
    [] mesh_state = "LED_RED_SOLID" -> <<32, 0, 0>>

\* Whether LED0 blinks,
Blinks ==
  \/ s_ble_window_active
  \/ seen.use_ble_color /\ seen.led_state = "LED_GREEN_FAST"

\* and its color, where on is the phase of the blink.  A state replaces one
\* component of the team color.
Shown(on) ==
  IF s_ble_window_active THEN <<0, 0, IF on THEN 32 ELSE 0>>
  ELSE IF ~seen.use_ble_color THEN seen.color
  ELSE CASE seen.led_state = "LED_GREEN_SOLID" -> [seen.color EXCEPT ![2] = 32]
         [] seen.led_state = "LED_GREEN_FAST" -> [seen.color EXCEPT ![2] = IF on THEN 32 ELSE 0]
         [] seen.led_state = "LED_RED_SOLID" -> [seen.color EXCEPT ![1] = 32]
         [] OTHER -> seen.color

\* Mutant: a color that changes alone does not rewrite the strip.
Changed_states_only(color, status) ==
  last.mesh_state # seen.mesh_state \/ last.led_state # seen.led_state

\* Mutant: LED1 is not compared.
Changed_not_status(color, status) ==
  last.led_state # seen.led_state \/ last.color # color

\* Whether there is anything to rewrite.
Changed(color, status) ==
  \/ last.mesh_state # seen.mesh_state
  \/ last.led_state # seen.led_state
  \/ last.color # color
  \/ last.status # status

\* Mutant: the pixels are swapped.
led_set_pixels_swapped(color, status) == strip' = [color |-> status, status |-> color]

led_set_pixels(color, status) == strip' = [color |-> color, status |-> status]

\* and writes the strip.
led_show ==
  /\ led_pc = "show"
  /\ mesh_on' = IF seen.mesh_state = "LED_MESH_INIT" THEN ~mesh_on ELSE mesh_on
  /\ ble_on' = IF Blinks THEN ~ble_on ELSE ble_on
  /\ LET color == Shown(ble_on')
         status == Status(seen.mesh_state, mesh_on')
         changed == Changed(color, status)
     IN  /\ IF changed THEN led_set_pixels(color, status) ELSE UNCHANGED strip
         /\ last' = [mesh_state |-> seen.mesh_state, led_state |-> seen.led_state,
                     color |-> IF changed THEN color ELSE last.color,
                     status |-> IF changed THEN status ELSE last.status]
  /\ seen' = Unread
  /\ led_pc' = "sample"
  /\ UNCHANGED <<booting, state_lock, in_session, shared>>
-----------------------------------------------------------------------------
led_task == led_sample \/ led_show

Next ==
  \/ led_task
  \/ app_main
  \/ session_changes
  \/ mesh_changes
  \/ window_changes
  \/ recv_take_lock
  \/ recv_compare
  \/ parent_disconnected

\* led_task delays itself for 500 ms at most, and FreeRTOS queues the tasks that
\* wait for a mutex, so that one that is given again and again comes to it.
\* mesh_rx gives the mutex, as long as it exists.
Spec == Init /\ [][Next]_vars /\ SF_vars(led_task) /\ WF_vars(recv_compare)
-----------------------------------------------------------------------------
(***************************************************************************)
(* Properties.                                                             *)
(***************************************************************************)

\* mesh_rx was deleted while it held state_lock, for which led_task then waits
\* for good: both LEDs stay as they are.
LockLost == state_lock = "deleted"

\* "Idle: last color received from root, or black if none" (README.md:39): once
\* no session runs and no window is open, LED0 comes to show the team color,
\* with two exceptions that the code makes: the last session ended at the answer
\* to another one and left the green blink on, or the mutex is lost.
Idle(c) == ~booting /\ ~in_session /\ ~s_ble_window_active /\ color_rgb = c
IdleShowsColor ==
  \A c \in Color :
    <>[]Idle(c) => \/ <>[](strip.color = c)
                   \/ <>[](led_state = "LED_GREEN_FAST")
                   \/ <>LockLost

\* LED1 comes to show the state of the mesh (README.md:47-49), "Purple blink"
\* included: it goes on and off for as long as the node has not connected.  The
\* exception is the lost mutex.
MeshIsShown ==
  \/ <>LockLost
  \/ /\ <>[]mesh_connected => <>[](strip.status = <<0, 32, 0>>)
     /\ <>[](~mesh_connected /\ mesh_connected_once) => <>[](strip.status = <<32, 0, 0>>)
     /\ []~mesh_connected_once =>
          []<>(strip.status = <<24, 0, 24>>) /\ []<>(strip.status = Black)

\* What led_task shows does not depend on what it skipped: the strip holds
\* the color and the status that it computed last.
StripIsCurrent ==
  [][led_show => strip' = [color |-> Shown(ble_on'), status |-> Status(seen.mesh_state, mesh_on')]]_vars

\* "Red solid: mesh send failed or root response timed out." (README.md:45):
\* outside the window a session that failed shows as red, nothing mixed in.
FailureIsRed ==
  [][led_show /\ seen.led_state = "LED_RED_SOLID" /\ ~s_ble_window_active =>
       strip'.color = <<32, 0, 0>>]_vars
=============================================================================
