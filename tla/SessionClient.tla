--------------------------- MODULE SessionClient ---------------------------
(***************************************************************************)
(* What a node promises about its sessions (node/main/node_main.c): it has *)
(* one session at a time, sends its request at most once, and takes on a   *)
(* color only while it waits, and only the root's answer to that session.  *)
(* The root answers a session at most once.                                *)
(***************************************************************************)
CONSTANTS Sessions, Colors, Black, NoSession

VARIABLES
  current,    \* the latest session
  waiting,    \* whether it goes on
  color,      \* the color that the node shows
  sent,       \* the sessions whose request reached the root
  answered    \* the responses that the root sent

clientVars == <<current, waiting, color, sent, answered>>

Response == [session : Sessions, color : Colors]

Init ==
  /\ current = NoSession
  /\ waiting = FALSE
  /\ color = Black
  /\ sent = {}
  /\ answered = {}

\* A session begins, with an identifier that the root does not know.
Begin(s) ==
  /\ ~waiting
  /\ s \notin sent \cup {current}
  /\ current' = s
  /\ waiting' = TRUE
  /\ UNCHANGED <<color, sent, answered>>

\* Its request reaches the root.
Transmit ==
  /\ waiting
  /\ current \notin sent
  /\ sent' = sent \cup {current}
  /\ UNCHANGED <<current, waiting, color, answered>>

\* The root answers a request that reached it, sooner or later.
Reply(r) ==
  /\ r.session \in sent
  /\ \A a \in answered : a.session # r.session
  /\ answered' = answered \cup {r}
  /\ UNCHANGED <<current, waiting, color, sent>>

\* The answer to the session ends it,
Accept(r) ==
  /\ waiting
  /\ r \in answered
  /\ r.session = current
  /\ color' = r.color
  /\ waiting' = FALSE
  /\ UNCHANGED <<current, sent, answered>>

\* or it ends without one.
GiveUp ==
  /\ waiting
  /\ waiting' = FALSE
  /\ UNCHANGED <<current, color, sent, answered>>

Next ==
  \/ \E s \in Sessions : Begin(s)
  \/ Transmit
  \/ \E r \in Response : Reply(r) \/ Accept(r)
  \/ GiveUp

Spec == Init /\ [][Next]_clientVars
=============================================================================
