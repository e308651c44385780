--------------------------- MODULE NodeLedsProofs ---------------------------
(***************************************************************************)
(* Proof that led_task may skip writing the strip when nothing changed:    *)
(* the strip holds what the task computed last, for any team colors.       *)
(***************************************************************************)
EXTENDS NodeLeds, TLAPS

\* From the first write on, the strip holds what the task remembers of it.
Remembered ==
  last.led_state # "NONE" => strip = [color |-> last.color, status |-> last.status]

\* The inductive invariant.
IInv == seen.led_state # "NONE" /\ led_state # "NONE" /\ Remembered

LEMMA InitIInv == Init => IInv
BY DEF Init, Unread, IInv, Remembered

\* What the strip holds after led_show, and what the task remembers.
LEMMA ShowWrites ==
  ASSUME IInv, led_show
  PROVE  LET color == Shown(ble_on')
             status == Status(seen.mesh_state, mesh_on')
         IN  /\ strip' = [color |-> color, status |-> status]
             /\ last'.color = color /\ last'.status = status
<1> DEFINE color == Shown(ble_on')
           status == Status(seen.mesh_state, mesh_on')
<1>1. CASE Changed(color, status)
  BY <1>1 DEF led_show, led_set_pixels
<1>2. CASE ~Changed(color, status)
  <2>1. last.led_state # "NONE" /\ last.color = color /\ last.status = status
    BY <1>2 DEF Changed, IInv
  <2>2. strip' = strip /\ last'.color = last.color /\ last'.status = last.status
    BY <1>2 DEF led_show
  <2> QED
    BY <2>1, <2>2 DEF IInv, Remembered
<1> QED
  BY <1>1, <1>2

LEMMA NextKeepsIInv == IInv /\ [Next]_vars => IInv'
<1> SUFFICES ASSUME IInv, [Next]_vars PROVE IInv'
  OBVIOUS
<1> USE DEF shared, task
<1>1. CASE led_sample
  BY <1>1 DEF led_sample, IInv, Remembered
<1>2. CASE led_show
  <2>1. Remembered'
    BY <1>2, ShowWrites DEF Remembered
  <2> QED
    BY <1>2, <2>1 DEF led_show, Unread, IInv
<1>3. CASE app_main
  BY <1>3 DEF app_main, IInv, Remembered
<1>4. CASE session_changes
  BY <1>4 DEF session_changes, session_begins, session_succeeds, session_fails, session_takes_stray,
              IInv, Remembered
<1>5. CASE mesh_changes
  BY <1>5 DEF mesh_changes, IInv, Remembered
<1>6. CASE window_changes
  BY <1>6 DEF window_changes, IInv, Remembered
<1>7. CASE recv_take_lock \/ recv_compare \/ parent_disconnected
  BY <1>7 DEF recv_take_lock, recv_compare, parent_disconnected, IInv, Remembered
<1>8. CASE UNCHANGED vars
  BY <1>8 DEF vars, IInv, Remembered
<1> QED
  BY <1>1, <1>2, <1>3, <1>4, <1>5, <1>6, <1>7, <1>8 DEF Next, led_task

\* Skipping a write never leaves an old color on the strip: after each turn of
\* led_task the strip holds the color and the status of that turn.
THEOREM StripStaysCurrent == Spec => StripIsCurrent
<1> DEFINE Step == led_show => strip' = [color |-> Shown(ble_on'),
                                         status |-> Status(seen.mesh_state, mesh_on')]
<1>1. IInv /\ [Next]_vars => [Step]_vars
  BY ShowWrites
<1> QED
  BY <1>1, InitIInv, NextKeepsIInv, PTL DEF Spec, StripIsCurrent
-----------------------------------------------------------------------------
RGB == [1 .. 3 -> 0 .. 255]

\* The fixed colors are colors, and one component may be replaced.
LEMMA Fixed ==
  /\ Black \in RGB /\ NoColor \in RGB
  /\ <<24, 0, 24>> \in RGB /\ <<0, 32, 0>> \in RGB /\ <<32, 0, 0>> \in RGB
  /\ \A v \in {0, 32} : <<0, 0, v>> \in RGB
  /\ \A c \in RGB, k \in {1, 2}, v \in {0, 32} : [c EXCEPT ![k] = v] \in RGB
<1>1. \A r, g, b \in 0 .. 255 : <<r, g, b>> \in RGB
  BY DEF RGB
<1>2. 0 \in 0 .. 255 /\ 24 \in 0 .. 255 /\ 32 \in 0 .. 255 /\ 255 \in 0 .. 255
  OBVIOUS
<1>3. \A c \in RGB, k \in {1, 2}, v \in {0, 32} : [c EXCEPT ![k] = v] \in RGB
  BY DEF RGB
<1> QED
  BY <1>1, <1>2, <1>3 DEF Black, NoColor

LEMMA ColorIsRGB == Color \subseteq RGB
BY Fixed, LedsAssumption DEF Color, RGB

\* What led_task computes from what it read is a color.
LEMMA ShownIsRGB ==
  ASSUME TypeOK, NEW on \in BOOLEAN
  PROVE  Shown(on) \in RGB /\ Status(seen.mesh_state, on) \in RGB
<1>1. seen.color \in RGB /\ seen.mesh_state \in MeshStates
  BY ColorIsRGB DEF TypeOK, Seen
<1>2. Status(seen.mesh_state, on) \in RGB
  BY <1>1, Fixed DEF Status, MeshStates
<1>3. Shown(on) \in RGB
  BY <1>1, Fixed DEF Shown
<1> QED
  BY <1>2, <1>3

LEMMA UnreadIsSeen == Unread \in Seen
BY DEF Unread, Seen, Color, MeshStates, LedStates

\* Every variable keeps its type: whatever is replaced in a team color, a pixel
\* gets three components of one byte.
THEOREM TypeCorrect == Spec => []TypeOK
<1>1. ASSUME Init PROVE TypeOK
  <2>1. last.color = NoColor /\ last.status = NoColor /\ strip.color = Black /\ strip.status = Black
    BY <1>1 DEF Init
  <2>2. {last.color, last.status, strip.color, strip.status} \subseteq [1 .. 3 -> 0 .. 255]
    BY <2>1, Fixed DEF RGB
  <2>3. last.mesh_state = "NONE" /\ last.led_state = "NONE"
    BY <1>1 DEF Init
  <2>4. seen \in Seen /\ color_rgb \in Color
    BY <1>1, UnreadIsSeen DEF Init, Color
  <2>5. led_state \in LedStates /\ led_pc \in {"sample", "show"}
    BY <1>1 DEF Init, LedStates
  <2> QED
    BY <1>1, <2>2, <2>3, <2>4, <2>5, Zenon DEF Init, TypeOK
<1>2. ASSUME TypeOK, [Next]_vars PROVE TypeOK'
  <2> USE DEF shared, task
  <2>1. CASE UNCHANGED vars
    BY <1>2, <2>1 DEF vars, TypeOK
  <2>2. CASE app_main
    <3>1. led_state' \in LedStates /\ booting' \in BOOLEAN
      BY <1>2, <2>2 DEF app_main, TypeOK, LedStates
    <3>2. UNCHANGED <<state_lock, in_session, color_rgb, mesh_connected, mesh_connected_once,
                      s_ble_window_active, has_client, task>>
      BY <2>2 DEF app_main
    <3> QED
      BY <1>2, <3>1, <3>2 DEF TypeOK
  <2>3. CASE session_changes
    <3>1. led_state' \in LedStates /\ color_rgb' \in Color /\ in_session' \in BOOLEAN
      BY <1>2, <2>3 DEF session_changes, session_begins, session_succeeds, session_fails, session_takes_stray,
                        TypeOK, LedStates, Color
    <3>2. UNCHANGED <<booting, state_lock, mesh_connected, mesh_connected_once,
                      s_ble_window_active, has_client, task>>
      BY <2>3 DEF session_changes
    <3> QED
      BY <1>2, <3>1, <3>2 DEF TypeOK
  <2>4. CASE mesh_changes
    BY <1>2, <2>4 DEF mesh_changes, TypeOK
  <2>5. CASE window_changes
    <3>1. s_ble_window_active' \in BOOLEAN /\ has_client' \in BOOLEAN
      BY <1>2, <2>5 DEF window_changes, TypeOK
    <3>2. UNCHANGED <<booting, state_lock, in_session, led_state, color_rgb, mesh_connected,
                      mesh_connected_once, task>>
      BY <2>5 DEF window_changes
    <3> QED
      BY <1>2, <3>1, <3>2 DEF TypeOK
  <2>6. CASE led_sample
    <3>1. MeshState \in MeshStates
      BY DEF MeshState, MeshStates
    <3>2. seen' \in Seen
      BY <1>2, <2>6, <3>1 DEF led_sample, TypeOK, Seen
    <3> QED
      BY <1>2, <2>6, <3>2 DEF led_sample, TypeOK
  <2>7. CASE led_show
    <3>1. mesh_on' \in BOOLEAN /\ ble_on' \in BOOLEAN
      BY <1>2, <2>7 DEF led_show, TypeOK
    <3>2. Shown(ble_on') \in RGB /\ Status(seen.mesh_state, mesh_on') \in RGB
      BY <1>2, <3>1, ShownIsRGB
    <3>3. {last'.color, last'.status, strip'.color, strip'.status} \subseteq RGB
      <4> DEFINE color == Shown(ble_on')
                 status == Status(seen.mesh_state, mesh_on')
                 changed == Changed(color, status)
      <4>1. {last.color, last.status, strip.color, strip.status} \subseteq RGB
        BY <1>2 DEF TypeOK, RGB
      <4>2. /\ IF changed THEN strip' = [color |-> color, status |-> status] ELSE strip' = strip
            /\ last'.color = IF changed THEN color ELSE last.color
            /\ last'.status = IF changed THEN status ELSE last.status
        BY <2>7 DEF led_show, led_set_pixels
      <4>3. color \in RGB /\ status \in RGB
        BY <3>2
      <4> HIDE DEF color, status, changed
      <4> QED
        BY <4>1, <4>2, <4>3
    <3>4. last'.mesh_state \in MeshStates /\ last'.led_state \in LedStates
      BY <1>2, <2>7 DEF led_show, TypeOK, Seen
    <3> QED
      BY <1>2, <2>7, <3>1, <3>3, <3>4, UnreadIsSeen DEF led_show, TypeOK, RGB
  <2>8. CASE recv_take_lock \/ recv_compare \/ parent_disconnected
    <3>1. state_lock' \in {"free", "mesh_rx", "deleted"}
      BY <2>8 DEF recv_take_lock, recv_compare, parent_disconnected
    <3>2. UNCHANGED <<booting, in_session, shared, task>>
      BY <2>8 DEF recv_take_lock, recv_compare, parent_disconnected
    <3> QED
      BY <1>2, <3>1, <3>2 DEF TypeOK
  <2> QED
    BY <1>2, <2>1, <2>2, <2>3, <2>4, <2>5, <2>6, <2>7, <2>8 DEF Next, led_task
<1> QED
  BY <1>1, <1>2, PTL DEF Spec
=============================================================================
