------------------------------- MODULE Forest -------------------------------
(***************************************************************************)
(* A node, the root and the host tool together: the way of a request from  *)
(* the node to the team's color on its LED.  The root is the RequestLedger *)
(* that module Root implements, the node the SessionClient that module     *)
(* NodeSession implements; what is between them is here: the receive queue *)
(* in its order, the two directions of the serial line, and the host tool, *)
(* which answers the lines that the root prints.                           *)
(*                                                                         *)
(* A color is named by the session for whose UUID the host picked it.      *)
(***************************************************************************)
EXTENDS Integers, Sequences, SequencesExt

CONSTANTS
  Node,      \* the node; a command names it, and no session
  Sessions,  \* the sessions that it draws
  NoSession, \* none of them
  Black,     \* the color before the first session
  SS_ROOT_RESPONSE_TIMEOUT_MS,  \* how long the node waits, by its configuration
  PENDING_REQUEST_TIMEOUT_MS    \* how long the root keeps a request

ASSUME ForestAssumption ==
  /\ NoSession \notin Sessions /\ Black \notin Sessions
  /\ {SS_ROOT_RESPONSE_TIMEOUT_MS, PENDING_REQUEST_TIMEOUT_MS} \subseteq Nat

VARIABLES
  \* the node
  current, waiting, color, sent, responses,
  \* the root
  requested, open, held, answered,
  rx_queue,   \* the requests that wait for mesh_rx_task, the one it is at first
  printed,    \* whether that one is printed
  command,    \* the color that serial_task is at, or NoSession
  \* the serial line
  lines,      \* the UUID_REQUEST lines on the way to the host
  commands,   \* the color commands on the way to the root
  \* history
  accepted,   \* the responses that the node took on
  abandoned,  \* the sessions that it gave up
  spoiled     \* the sessions to which something happened: given up, lost on the way,
              \* or the command with their color went to another one, or to none

client == <<current, waiting, color, sent, responses>>
root == <<requested, open, held, answered>>
queue == <<rx_queue, printed>>
serial == <<lines, commands, command>>
vars == <<client, root, queue, serial, accepted, abandoned, spoiled>>

Client == INSTANCE SessionClient WITH Colors <- Sessions, answered <- responses
Ledger == INSTANCE RequestLedger WITH Nodes <- {Node}, inbox <- ToSet(rx_queue)

\* The request of a session, and the sessions of some requests.
RequestOf(s) == [node |-> Node, session |-> s]
SessionsOf(requests) == {r.session : r \in requests}

TypeOK ==
  /\ Ledger!TypeOK
  /\ current \in Sessions \cup {NoSession}
  /\ waiting \in BOOLEAN
  /\ waiting => current \in Sessions
  /\ color \in Sessions \cup {Black}
  /\ sent \in SUBSET Sessions
  /\ responses \in SUBSET Client!Response
  /\ rx_queue \in Seq(Ledger!Request)
  /\ printed \in BOOLEAN
  /\ printed => rx_queue # <<>>
  /\ command \in Sessions \cup {NoSession}
  /\ command = NoSession <=> held = {}
  /\ lines \in Seq(Sessions)
  /\ commands \in Seq(Sessions)
  /\ accepted \in SUBSET responses
  /\ abandoned \in SUBSET Sessions
  /\ spoiled \in SUBSET Sessions

Init ==
  /\ rx_queue = <<>>
  /\ Client!Init
  /\ Ledger!Init
  /\ printed = FALSE
  /\ command = NoSession
  /\ lines = <<>>
  /\ commands = <<>>
  /\ accepted = {}
  /\ abandoned = {}
  /\ spoiled = {}

Spoil(sessions) == spoiled' = spoiled \cup sessions
-----------------------------------------------------------------------------
\* A UUID is written to the node, and a session begins.
Begin(s) ==
  /\ Client!Begin(s)
  /\ UNCHANGED <<root, queue, serial, accepted, abandoned, spoiled>>

\* The request is sent; the mesh, or the full queue of the root, may lose it.
Send ==
  /\ Client!Transmit
  /\ rx_queue' \in {rx_queue, Append(rx_queue, RequestOf(current))}
  /\ Ledger!Arrive(RequestOf(current))
  /\ Spoil(IF rx_queue' = rx_queue THEN {current} ELSE {})
  /\ UNCHANGED <<printed, serial, accepted, abandoned>>

\* Mutant: the line is not printed.
Printed_not(s) == lines

\* The lines on the way, after that of a session.
Printed(s) == Append(lines, s)

\* process_mesh_packet prints the request,
PrintRequest ==
  /\ rx_queue # <<>>
  /\ ~printed
  /\ printed' = TRUE
  /\ lines' = Printed(Head(rx_queue).session)
  /\ UNCHANGED <<client, root, rx_queue, commands, command, accepted, abandoned, spoiled>>

\* and then adds it to the table.
Record ==
  /\ printed
  /\ printed' = FALSE
  /\ rx_queue' = Tail(rx_queue)
  /\ Ledger!Record(Head(rx_queue))
  /\ Spoil(SessionsOf((open \cup {Head(rx_queue)}) \ open'))
  /\ UNCHANGED <<client, serial, accepted, abandoned>>

\* Mutant: the command goes out twice.
Commanded_twice(s) == Append(Append(commands, s), s)

\* The commands on the way, after that with the color for a session.
Commanded(s) == Append(commands, s)

\* The host answers a line, or misses it.
handle_line ==
  /\ lines # <<>>
  /\ lines' = Tail(lines)
  /\ \/ commands' = Commanded(Head(lines)) /\ UNCHANGED spoiled
     \/ UNCHANGED commands /\ Spoil({Head(lines)})
  /\ UNCHANGED <<client, root, queue, command, accepted, abandoned>>

\* serial_task runs a command: it takes what the node has open,
Take ==
  /\ commands # <<>>
  /\ UNCHANGED <<client, queue, lines, accepted, abandoned>>
  /\ \E r \in open :
       /\ Ledger!Take(r)
       /\ Spoil({Head(commands)} \ SessionsOf({r} \cup answered))
  /\ command' = Head(commands)
  /\ commands' = Tail(commands)

\* or prints "ERR no pending request".
Refuse ==
  /\ commands # <<>>
  /\ held = {}
  /\ open = {}
  /\ commands' = Tail(commands)
  /\ Spoil({Head(commands)} \ SessionsOf(answered))
  /\ UNCHANGED <<client, root, queue, lines, command, accepted, abandoned>>

\* It sends the color to the node,
Answer ==
  /\ UNCHANGED <<queue, lines, commands, accepted, abandoned, spoiled>>
  /\ \E r \in held :
       /\ Ledger!Answer(r)
       /\ Client!Reply([session |-> r.session, color |-> command])
  /\ command' = NoSession

\* Mutant: the request is not put back, and goes on being held.
PutBack_not ==
  /\ held # {}
  /\ command' = NoSession
  /\ Spoil(SessionsOf(held))
  /\ UNCHANGED <<client, root, queue, lines, commands, accepted, abandoned>>

\* or cannot, and puts the request back.
PutBack ==
  /\ UNCHANGED <<client, queue, lines, commands, accepted, abandoned>>
  /\ \E r \in held :
       /\ Ledger!PutBack(r)
       /\ Spoil(SessionsOf({r} \cup (open \ open')))
  /\ command' = NoSession

\* Whether the node's wait, between 1 and 60 s, is shorter than the root's 30 s.
NodeWaitsLess == SS_ROOT_RESPONSE_TIMEOUT_MS < PENDING_REQUEST_TIMEOUT_MS

\* Mutant: the root drops a request while the node waits, whatever the times.
Overdue_early(r) == TRUE

\* The root drops a request by its age alone.  A request that is old enough is
\* one that the node has given up, if the node waits less.  (The wait begins when
\* esp_mesh_send returns, taken as no later than the root's recording.)
Overdue(r) == NodeWaitsLess => ~(waiting /\ current = r.session)

Expire ==
  /\ UNCHANGED <<client, queue, serial, accepted, abandoned, spoiled>>
  /\ \E r \in open : Overdue(r) /\ Ledger!Expire(r)

\* The response reaches the node that waits for it,
Accept ==
  /\ \E r \in responses : Client!Accept(r) /\ accepted' = accepted \cup {r}
  /\ UNCHANGED <<root, queue, serial, abandoned, spoiled>>

\* or the node ends the session without one.
GiveUp ==
  /\ Client!GiveUp
  /\ abandoned' = abandoned \cup {current}
  /\ Spoil({current})
  /\ UNCHANGED <<root, queue, serial, accepted>>
-----------------------------------------------------------------------------
Next ==
  \/ \E s \in Sessions : Begin(s)
  \/ Send
  \/ PrintRequest
  \/ Record
  \/ handle_line
  \/ Take
  \/ Refuse
  \/ Answer
  \/ PutBack
  \/ Expire
  \/ Accept
  \/ GiveUp

Spec == Init /\ [][Next]_vars

\* The tasks of the root and the host tool go on, and a response that was sent
\* arrives while the node waits.
Fairness ==
  /\ WF_vars(PrintRequest \/ Record)
  /\ WF_vars(handle_line)
  /\ WF_vars(Take \/ Refuse \/ Answer \/ PutBack)
  /\ WF_vars(Accept)

FairSpec == Spec /\ Fairness
-----------------------------------------------------------------------------
(***************************************************************************)
(* Properties.                                                             *)
(***************************************************************************)

\* A team gets the color of another one only after the node has given up a
\* session: the commands name the node alone, and it is the node's waiting for
\* each answer that keeps them apart.
OwnColor == abandoned = {} => \A a \in accepted : a.color = a.session

\* This and Served hold when the node waits less than the root keeps a request: 20 s
\* and 30 s, unless the node is configured to wait longer.
\* A command for a request that nothing else happened to is refused only when it
\* comes before mesh_rx_task, which has printed the request, has recorded it, or
\* when an earlier command has answered it.
RefusedForReason ==
  [][Refuse =>
       LET s == Head(commands) IN
         \/ s \in spoiled
         \/ s \in SessionsOf(answered)
         \/ RequestOf(s) \in ToSet(rx_queue)]_vars

\* A request that the node has sent is answered on its LED, unless the session is
\* given up or something is lost on the way: a message, or the command that overtook
\* the recording of its request.
Served ==
  \A s \in Sessions :
    s \in sent ~> s \in spoiled \cup SessionsOf(accepted)
=============================================================================
