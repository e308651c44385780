---------------------------- MODULE ForestProofs ----------------------------
(***************************************************************************)
(* Proofs about Forest: a team gets the color of another one only after    *)
(* the node has given up a session.                                        *)
(*                                                                         *)
(* As long as it has not, what is anywhere between the node and the host   *)
(* belongs to the session that goes on, and there is one piece of it: the  *)
(* line, or the command, or the color that serial_task is at.              *)
(*                                                                         *)
(* Also: why a command is refused, and that the node and the root, each as *)
(* its own specification has it, fit together.                             *)
(***************************************************************************)
EXTENDS Forest, TLAPS

\* Nothing is on its way.
Quiet ==
  /\ rx_queue = <<>>
  /\ lines = <<>>
  /\ commands = <<>>
  /\ command = NoSession
  /\ open = {}
  /\ held = {}

\* At most the request of the current session, and one line or command of it.
Underway ==
  LET r == RequestOf(current) IN
    /\ rx_queue \in {<<>>, <<r>>}
    /\ open \subseteq {r}
    /\ held \subseteq {r}
    /\ \/ lines = <<>> /\ commands = <<>> /\ command = NoSession
       \/ lines = <<current>> /\ commands = <<>> /\ command = NoSession
       \/ lines = <<>> /\ commands = <<current>> /\ command = NoSession
       \/ lines = <<>> /\ commands = <<>> /\ command = current
    /\ rx_queue # <<>> /\ ~printed =>
         lines = <<>> /\ commands = <<>> /\ command = NoSession

\* What holds as long as no session was given up.
Own ==
  /\ waiting /\ current \in sent => Underway
  /\ ~(waiting /\ current \in sent) => Quiet
  /\ \A r \in responses :
       waiting /\ r.session = current => r.color = current /\ Quiet
  /\ \A a \in accepted : a.color = a.session

\* The inductive invariant.
IInv ==
  /\ TypeOK
  /\ Ledger!IInv
  /\ SessionsOf(responses) \subseteq sent
  /\ abandoned = {} => Own
-----------------------------------------------------------------------------
\* What Head and Tail return of a queue, and what its elements are.
LEMMA QueueFacts ==
  ASSUME NEW S, NEW q \in Seq(S)
  PROVE  /\ ToSet(q) \in SUBSET S
         /\ q # <<>> => /\ Head(q) \in S
                        /\ Head(q) \in ToSet(q)
                        /\ Tail(q) \in Seq(S)
<1>1. ToSet(q) \in SUBSET S
  BY DEF ToSet
<1>2. ASSUME q # <<>> PROVE Head(q) \in S /\ Head(q) \in ToSet(q) /\ Tail(q) \in Seq(S)
  <2>1. 1 \in DOMAIN q /\ Head(q) = q[1]
    BY <1>2
  <2> QED
    BY <1>2, <2>1 DEF ToSet
<1> QED
  BY <1>1, <1>2

\* A queue of one element.
LEMMA SingleFacts ==
  ASSUME NEW S, NEW x \in S
  PROVE  /\ <<x>> # <<>>
         /\ Head(<<x>>) = x
         /\ Tail(<<x>>) = <<>>
         /\ Append(<<>>, x) = <<x>>
         /\ x \in ToSet(<<x>>)
BY DEF ToSet
-----------------------------------------------------------------------------
\* Every step keeps the types.
LEMMA TypeStep == TypeOK /\ [Next]_vars => TypeOK'
<1> SUFFICES ASSUME TypeOK, [Next]_vars PROVE TypeOK'
  OBVIOUS
<1> USE DEF TypeOK, Ledger!TypeOK, Client!Response, Spoil, root, queue, serial, client,
            SessionsOf
<1>1. ToSet(rx_queue') \in SUBSET Ledger!Request
      \/ rx_queue' \notin Seq(Ledger!Request)
  BY QueueFacts
<1>2. CASE UNCHANGED vars
  BY <1>2 DEF vars
<1>3. ASSUME NEW s \in Sessions, Begin(s) PROVE TypeOK'
  BY <1>3 DEF Begin, Client!Begin
<1>4. ASSUME Send PROVE TypeOK'
  <2>1. RequestOf(current) \in Ledger!Request /\ current \in Sessions
    BY <1>4 DEF Send, Client!Transmit, Ledger!Arrive
  <2>2. rx_queue' \in Seq(Ledger!Request) /\ (rx_queue # <<>> => rx_queue' # <<>>)
    BY <1>4, <2>1 DEF Send
  <2>3. spoiled' \in SUBSET Sessions
    BY <1>4, <2>1 DEF Send
  <2> QED
    BY <1>1, <1>4, <2>1, <2>2, <2>3 DEF Send, Client!Transmit, Ledger!Arrive
<1>5. ASSUME PrintRequest PROVE TypeOK'
  BY <1>5, QueueFacts DEF PrintRequest, Printed, Ledger!Request
<1>6. ASSUME Record PROVE TypeOK'
  <2>1. Head(rx_queue) \in Ledger!Request /\ Tail(rx_queue) \in Seq(Ledger!Request)
    BY <1>6, QueueFacts DEF Record
  <2>2. open' \in SUBSET Ledger!Request
    BY <1>6, <2>1 DEF Record, Ledger!Record, Ledger!Superseding
  <2>3. spoiled' \in SUBSET Sessions
    BY <1>6, <2>1 DEF Record, Ledger!Request
  <2> QED
    BY <1>1, <1>6, <2>1, <2>2, <2>3 DEF Record, Ledger!Record
<1>7. ASSUME handle_line PROVE TypeOK'
  <2>1. Head(lines) \in Sessions /\ Tail(lines) \in Seq(Sessions)
    BY <1>7, QueueFacts DEF handle_line
  <2>2. Append(commands, Head(lines)) \in Seq(Sessions)
    BY <2>1
  <2>3. commands' \in Seq(Sessions)
    BY <1>7, <2>2 DEF handle_line, Commanded
  <2>4. spoiled' \in SUBSET Sessions
    BY <1>7, <2>1 DEF handle_line
  <2>5. lines' \in Seq(Sessions)
    BY <1>7, <2>1 DEF handle_line
  <2>6. UNCHANGED <<client, root, queue, command, accepted, abandoned>>
    BY <1>7 DEF handle_line
  <2> QED
    BY <2>3, <2>4, <2>5, <2>6
<1>8. ASSUME Take PROVE TypeOK'
  BY <1>8, QueueFacts, ForestAssumption DEF Take, Ledger!Take
<1>9. ASSUME Refuse PROVE TypeOK'
  BY <1>9, QueueFacts DEF Refuse
<1>10. ASSUME Answer PROVE TypeOK'
  BY <1>10 DEF Answer, Ledger!Answer, Client!Reply, Ledger!Request
<1>11. ASSUME PutBack PROVE TypeOK'
  BY <1>11 DEF PutBack, Ledger!PutBack, Ledger!Superseding, Ledger!Request
<1>12. ASSUME Expire PROVE TypeOK'
  BY <1>12 DEF Expire, Ledger!Expire
<1>13. ASSUME Accept PROVE TypeOK'
  BY <1>13 DEF Accept, Client!Accept
<1>14. ASSUME GiveUp PROVE TypeOK'
  BY <1>14 DEF GiveUp, Client!GiveUp
<1> QED
  BY <1>2, <1>3, <1>4, <1>5, <1>6, <1>7, <1>8, <1>9, <1>10, <1>11, <1>12, <1>13, <1>14
     DEF Next
-----------------------------------------------------------------------------
\* The root's part of every step keeps the invariant of the ledger.
LEMMA LedgerStep == TypeOK /\ Ledger!IInv /\ TypeOK' /\ [Next]_vars => Ledger!IInv'
<1> SUFFICES ASSUME TypeOK, Ledger!IInv, TypeOK', [Next]_vars PROVE Ledger!IInv'
  OBVIOUS
<1> USE DEF Ledger!IInv, Ledger!OneOpenPerNode, Ledger!OnePlace, root, queue
<1>1. Ledger!TypeOK /\ Ledger!TypeOK'
  BY DEF TypeOK
<1>2. CASE UNCHANGED vars
  BY <1>1, <1>2 DEF vars
<1>3. ASSUME NEW s \in Sessions, Begin(s) PROVE Ledger!IInv'
  BY <1>1, <1>3 DEF Begin
<1>4. ASSUME Send PROVE Ledger!IInv'
  BY <1>1, <1>4 DEF Send, Ledger!Arrive
<1>5. ASSUME PrintRequest \/ handle_line \/ Refuse \/ Accept \/ GiveUp PROVE Ledger!IInv'
  BY <1>1, <1>5 DEF PrintRequest, handle_line, Refuse, Accept, GiveUp
<1>6. ASSUME Record PROVE Ledger!IInv'
  <2>1. Head(rx_queue) \in ToSet(rx_queue)
    BY <1>6, QueueFacts DEF Record, TypeOK
  <2> QED
    BY <1>1, <1>6, <2>1 DEF Record, Ledger!Record, Ledger!Superseding
<1>7. ASSUME Take PROVE Ledger!IInv'
  BY <1>1, <1>7 DEF Take, Ledger!Take
<1>8. ASSUME Answer PROVE Ledger!IInv'
  BY <1>1, <1>8 DEF Answer, Ledger!Answer
<1>9. ASSUME PutBack PROVE Ledger!IInv'
  BY <1>1, <1>9 DEF PutBack, Ledger!PutBack, Ledger!Superseding
<1>10. ASSUME Expire PROVE Ledger!IInv'
  BY <1>1, <1>10 DEF Expire, Ledger!Expire
<1> QED
  BY <1>2, <1>3, <1>4, <1>5, <1>6, <1>7, <1>8, <1>9, <1>10 DEF Next

\* Only what the node has sent is ever answered.
LEMMA AnswerStep ==
  TypeOK /\ SessionsOf(responses) \subseteq sent /\ [Next]_vars
    => SessionsOf(responses)' \subseteq sent'
<1> SUFFICES ASSUME TypeOK, SessionsOf(responses) \subseteq sent, [Next]_vars
             PROVE  SessionsOf(responses)' \subseteq sent'
  OBVIOUS
<1> USE DEF SessionsOf, client
<1>1. ASSUME UNCHANGED vars \/ PrintRequest \/ Record \/ handle_line \/ Take \/ Refuse
                \/ PutBack \/ Expire
      PROVE  UNCHANGED <<responses, sent>>
  BY <1>1 DEF vars, PrintRequest, Record, handle_line, Take, Refuse, PutBack, Expire
<1>2. ASSUME (\E s \in Sessions : Begin(s)) \/ Accept \/ GiveUp
      PROVE  UNCHANGED <<responses, sent>>
  BY <1>2 DEF Begin, Client!Begin, Accept, Client!Accept, GiveUp, Client!GiveUp
<1>3. CASE Send
  BY <1>3 DEF Send, Client!Transmit
<1>4. CASE Answer
  BY <1>4 DEF Answer, Client!Reply
<1> QED
  BY <1>1, <1>2, <1>3, <1>4 DEF Next
-----------------------------------------------------------------------------
\* No step brings a second piece of the session that goes on, or one of another.
LEMMA OwnStep == IInv /\ TypeOK' /\ [Next]_vars => (abandoned = {} => Own)'
<1> SUFFICES ASSUME IInv, TypeOK', [Next]_vars, abandoned' = {} PROVE Own'
  OBVIOUS
<1> USE DEF root, queue, serial, client
<1>1. TypeOK /\ Ledger!IInv /\ SessionsOf(responses) \subseteq sent
  BY DEF IInv
<1>2. abandoned = {} \/ UNCHANGED abandoned \/ GiveUp
  BY DEF Next, vars, Begin, Send, PrintRequest, Record, handle_line, Take, Refuse, Answer,
         PutBack, Expire, Accept
<1>3. ~GiveUp
  BY DEF GiveUp
<1>4. Own
  BY <1>2, <1>3 DEF IInv
<1>5. \A r \in responses : r.session \in sent
  BY <1>1 DEF SessionsOf
<1>6. CASE UNCHANGED vars
  BY <1>4, <1>6 DEF vars, Own, Underway, Quiet, RequestOf
<1>7. ASSUME NEW s \in Sessions, Begin(s) PROVE Own'
  BY <1>4, <1>5, <1>7 DEF Begin, Client!Begin, Own, Quiet
<1>8. ASSUME Send PROVE Own'
  <2> DEFINE r == RequestOf(current)
  <2>1. Quiet /\ waiting /\ waiting' /\ current \in sent' /\ current' = current
    BY <1>4, <1>8 DEF Own, Send, Client!Transmit
  <2>2. rx_queue' \in {<<>>, <<r>>}
    BY <1>8, <2>1 DEF Send, Quiet
  <2>3. UNCHANGED <<responses, accepted, lines, commands, command, open, held>>
    BY <1>8 DEF Send, Client!Transmit, Ledger!Arrive
  <2>4. Underway'
    BY <2>1, <2>2, <2>3 DEF Underway, Quiet, RequestOf
  <2>5. \A a \in responses : a.session # current
    BY <1>5, <1>8 DEF Send, Client!Transmit
  <2> QED
    BY <1>4, <2>1, <2>3, <2>4, <2>5 DEF Own
<1>9. ASSUME rx_queue # <<>> \/ lines # <<>> \/ commands # <<>> \/ held # {} \/ open # {}
      PROVE  /\ waiting /\ current \in sent
             /\ Underway
             /\ \A a \in responses : a.session # current
  BY <1>4, <1>9 DEF Own, Quiet
<1>10. ASSUME UNCHANGED <<client, accepted>>, Underway', ~Quiet
       PROVE  Own'
  <2>1. waiting /\ current \in sent /\ \A a \in responses : a.session # current
    BY <1>4, <1>10 DEF Own
  <2> QED
    BY <1>4, <1>10, <2>1 DEF Own
<1>11. ASSUME PrintRequest PROVE Own'
  <2>1. rx_queue = <<RequestOf(current)>> /\ Underway /\ ~printed
    BY <1>9, <1>11 DEF PrintRequest, Underway
  <2>2. lines' = <<current>>
    BY <1>11, <2>1 DEF PrintRequest, Printed, Underway, RequestOf
  <2>3. Underway'
    BY <1>11, <2>1, <2>2 DEF PrintRequest, Underway, RequestOf
  <2> QED
    BY <1>10, <1>11, <2>1, <2>3 DEF PrintRequest, Quiet
<1>12. ASSUME Record PROVE Own'
  <2>1. Underway /\ rx_queue # <<>>
    BY <1>1, <1>9, <1>12 DEF Record, TypeOK
  <2>2. rx_queue = <<RequestOf(current)>> /\ rx_queue' = <<>>
    <3>1. rx_queue = <<RequestOf(current)>>
      BY <2>1 DEF Underway
    <3> QED
      BY <1>12, <3>1, SingleFacts DEF Record
  <2>3. open' \subseteq {RequestOf(current)} /\ held' = held
    BY <1>12, <2>1, <2>2 DEF Record, Ledger!Record, Ledger!Superseding, Underway
  <2>4. Underway'
    BY <1>12, <2>1, <2>2, <2>3 DEF Record, Underway, RequestOf
  <2> QED
    BY <1>10, <1>12, <2>1, <2>4 DEF Record, Quiet
<1>13. ASSUME handle_line PROVE Own'
  <2>1. Underway /\ lines # <<>>
    BY <1>9, <1>13 DEF handle_line
  <2>2. lines = <<current>> /\ commands = <<>> /\ command = NoSession
    BY <2>1 DEF Underway
  <2>3. lines' = <<>> /\ commands' \in {<<>>, <<current>>}
    BY <1>13, <2>2 DEF handle_line, Commanded
  <2>4. Underway'
    BY <1>13, <2>1, <2>2, <2>3 DEF handle_line, Underway, RequestOf
  <2> QED
    BY <1>10, <1>13, <2>1, <2>4 DEF handle_line, Quiet
<1>14. ASSUME Take PROVE Own'
  <2>1. Underway /\ commands # <<>>
    BY <1>9, <1>14 DEF Take
  <2>2. lines = <<>> /\ commands = <<current>>
    BY <2>1 DEF Underway
  <2>3. commands' = <<>> /\ command' = current
    BY <1>14, <2>2 DEF Take
  <2>4. open' \subseteq {RequestOf(current)} /\ held' \subseteq {RequestOf(current)}
    BY <1>14, <2>1 DEF Take, Ledger!Take, Underway
  <2>5. Underway'
    BY <1>14, <2>1, <2>2, <2>3, <2>4 DEF Take, Underway, RequestOf
  <2> QED
    BY <1>10, <1>14, <2>1, <2>5 DEF Take, Quiet
<1>15. ASSUME Refuse PROVE Own'
  <2>1. Underway /\ commands # <<>>
    BY <1>9, <1>15 DEF Refuse
  <2>2. lines = <<>> /\ commands' = <<>> /\ command = NoSession
    <3>1. lines = <<>> /\ commands = <<current>> /\ command = NoSession
      BY <2>1 DEF Underway
    <3> QED
      BY <1>15, <3>1 DEF Refuse
  <2>3. Underway'
    BY <1>15, <2>1, <2>2 DEF Refuse, Underway, RequestOf
  <2> QED
    BY <1>10, <1>15, <2>1, <2>3 DEF Refuse, Quiet
<1>16. ASSUME Answer PROVE Own'
  <2>1. PICK r \in held : Ledger!Answer(r)
                          /\ Client!Reply([session |-> r.session, color |-> command])
    BY <1>16 DEF Answer
  <2>2. waiting /\ current \in sent /\ Underway
    BY <1>9, <2>1
  <2>3. r = RequestOf(current) /\ held = {r}
    BY <2>1, <2>2 DEF Underway
  <2>4. command = current /\ lines = <<>> /\ commands = <<>>
    BY <1>1, <2>2, <2>3 DEF TypeOK, Underway
  <2>5. rx_queue = <<>> /\ open = {}
    <3>1. r \in Ledger!Request
      BY <1>1, <2>1 DEF TypeOK, Ledger!TypeOK
    <3>2. r \notin ToSet(rx_queue) /\ r \notin open
      BY <1>1, <2>1 DEF Ledger!IInv, Ledger!OnePlace
    <3> QED
      BY <2>2, <2>3, <3>1, <3>2, SingleFacts DEF Underway
  <2>6. Quiet'
    BY <1>16, <2>1, <2>4, <2>5 DEF Answer, Ledger!Answer, Quiet
  <2>7. /\ responses' = responses \cup {[session |-> current, color |-> current]}
        /\ UNCHANGED <<current, waiting, sent, accepted>>
    BY <1>16, <2>1, <2>3, <2>4 DEF Answer, Client!Reply, RequestOf
  <2>8. Underway'
    BY <2>6 DEF Quiet, Underway
  <2> QED
    BY <1>4, <1>9, <2>1, <2>2, <2>6, <2>7, <2>8 DEF Own
<1>17. ASSUME PutBack PROVE Own'
  <2>1. held # {} /\ Underway
    BY <1>9, <1>17 DEF PutBack
  <2>2. lines = <<>> /\ commands = <<>> /\ command' = NoSession /\ held' = {}
    BY <1>1, <1>17, <2>1 DEF PutBack, Ledger!PutBack, Underway, TypeOK
  <2>3. open' \subseteq {RequestOf(current)}
    BY <1>17, <2>1 DEF PutBack, Ledger!PutBack, Ledger!Superseding, Underway
  <2>4. Underway'
    BY <1>17, <2>1, <2>2, <2>3 DEF PutBack, Underway, RequestOf
  <2> QED
    BY <1>10, <1>17, <2>1, <2>4 DEF PutBack, Quiet
<1>18. ASSUME Expire PROVE Own'
  <2>1. open # {} /\ Underway
    BY <1>9, <1>18 DEF Expire
  <2>2. open' \subseteq open /\ held' = held
    BY <1>18 DEF Expire, Ledger!Expire
  <2>3. Underway'
    BY <1>18, <2>1, <2>2 DEF Expire, Underway, RequestOf
  <2> QED
    BY <1>10, <1>18, <2>1, <2>3 DEF Expire, Quiet
<1>19. ASSUME Accept PROVE Own'
  <2>1. PICK r \in responses : Client!Accept(r) /\ accepted' = accepted \cup {r}
    BY <1>19 DEF Accept
  <2>2. r.color = r.session /\ Quiet
    BY <1>4, <2>1 DEF Own, Client!Accept
  <2>3. Quiet' /\ ~waiting'
    BY <1>19, <2>1, <2>2 DEF Accept, Client!Accept, Quiet
  <2> QED
    BY <1>4, <2>1, <2>2, <2>3 DEF Own
<1> QED
  BY <1>3, <1>6, <1>7, <1>8, <1>11, <1>12, <1>13, <1>14, <1>15, <1>16, <1>17, <1>18, <1>19
     DEF Next
-----------------------------------------------------------------------------
\* The invariant holds at the start and in every step.
LEMMA Invariant == Spec => []IInv
<1>1. Init => IInv
  <2> SUFFICES ASSUME Init PROVE IInv
    OBVIOUS
  <2>1. ToSet(rx_queue) = {}
    BY DEF Init, ToSet
  <2>2. Ledger!IInv
    BY <2>1 DEF Init, Ledger!Init, Ledger!IInv, Ledger!TypeOK, Ledger!OneOpenPerNode,
                Ledger!OnePlace
  <2>3. TypeOK
    <3>1. Ledger!TypeOK
      BY <2>2 DEF Ledger!IInv
    <3>2. rx_queue \in Seq(Ledger!Request) /\ lines \in Seq(Sessions) /\ commands \in Seq(Sessions)
      BY DEF Init
    <3> QED
      BY <3>1, <3>2 DEF Init, Client!Init, Ledger!Init, TypeOK
  <2>4. Own
    BY DEF Init, Client!Init, Ledger!Init, Own, Quiet
  <2> QED
    BY <2>2, <2>3, <2>4 DEF IInv, Init, Client!Init, SessionsOf
<1>2. IInv /\ [Next]_vars => IInv'
  <2> SUFFICES ASSUME IInv, [Next]_vars PROVE IInv'
    OBVIOUS
  <2>1. TypeOK'
    BY TypeStep DEF IInv
  <2>2. Ledger!IInv' /\ (SessionsOf(responses) \subseteq sent)'
    BY <2>1, LedgerStep, AnswerStep DEF IInv
  <2>3. (abandoned = {} => Own)'
    BY <2>1, OwnStep
  <2> QED
    BY <2>1, <2>2, <2>3 DEF IInv
<1> QED
  BY <1>1, <1>2, PTL DEF Spec

\* Every variable of the composition keeps its type; among others the color that
\* serial_task is at belongs to a request that it holds (root_main.c:379-385).
THEOREM TypeCorrect == Spec => []TypeOK
<1>1. IInv => TypeOK
  BY DEF IInv
<1> QED
  BY <1>1, Invariant, PTL

\* As long as the node gives no session up, a team gets its own color, for any
\* number of sessions and whatever the mesh and the line lose, although the
\* command of the host names the node alone (root_main.c:375).
THEOREM OwnColorHolds == Spec => []OwnColor
<1>1. IInv => OwnColor
  BY DEF IInv, Own, OwnColor
<1> QED
  BY <1>1, Invariant, PTL

\* The root's part of the composition never has a request in two places, and
\* never two open requests of the node (root_main.c:96-139).
THEOREM LedgerHolds == Spec => [](Ledger!OneOpenPerNode /\ Ledger!OnePlace)
<1>1. IInv => Ledger!OneOpenPerNode /\ Ledger!OnePlace
  BY DEF IInv, Ledger!IInv
<1> QED
  BY <1>1, Invariant, PTL
-----------------------------------------------------------------------------
\* A request that nothing happened to is somewhere at the root, if the root keeps
\* it longer than the node waits; the node waits for its answer, or has it.  Lines and commands are about sessions that were sent.
AtRoot == ToSet(rx_queue) \cup open \cup held \cup answered

Traced ==
  /\ NodeWaitsLess => \A s \in sent \ spoiled : RequestOf(s) \in AtRoot
  /\ \A s \in sent \ spoiled : (waiting /\ current = s) \/ \E a \in accepted : a.session = s
  /\ \A r \in responses : RequestOf(r.session) \in answered
  /\ \A r \in requested : r.session \in sent
  /\ ToSet(lines) \cup ToSet(commands) \subseteq sent

\* A request is that of its session.
LEMMA RequestIs ==
  ASSUME NEW r \in Ledger!Request
  PROVE  r = RequestOf(r.session) /\ r.session \in Sessions
BY DEF Ledger!Request, RequestOf

\* What is left of a queue when its head is taken, and what is added to it.
LEMMA SetOfTail ==
  ASSUME NEW S, NEW q \in Seq(S), q # <<>>
  PROVE  ToSet(Tail(q)) \subseteq ToSet(q)
<1>1. \A k \in DOMAIN Tail(q) : k + 1 \in DOMAIN q /\ Tail(q)[k] = q[k + 1]
  OBVIOUS
<1> QED
  BY <1>1 DEF ToSet

LEMMA SetOfAppend ==
  ASSUME NEW S, NEW q \in Seq(S), NEW x \in S
  PROVE  ToSet(Append(q, x)) = ToSet(q) \cup {x}
<1>1. /\ DOMAIN Append(q, x) = DOMAIN q \cup {Len(q) + 1}
      /\ \A k \in DOMAIN q : Append(q, x)[k] = q[k]
      /\ Append(q, x)[Len(q) + 1] = x
  OBVIOUS
<1> QED
  BY <1>1 DEF ToSet

\* A step of the root or the host that loses track of no request but a spoiled one.
LEMMA TracedStays ==
  ASSUME Traced, UNCHANGED <<sent, responses, requested, waiting, current, accepted>>,
         answered \subseteq answered', spoiled \subseteq spoiled',
         NodeWaitsLess =>
           \A s \in sent \ spoiled' : RequestOf(s) \in AtRoot => RequestOf(s) \in AtRoot',
         ToSet(lines') \cup ToSet(commands') \subseteq sent
  PROVE  Traced'
BY DEF Traced, RequestOf

LEMMA TracedStep == IInv /\ TypeOK' /\ Traced /\ [Next]_vars => Traced'
<1> SUFFICES ASSUME IInv, TypeOK', Traced, [Next]_vars PROVE Traced'
  OBVIOUS
<1> USE DEF root, queue, serial, client, Spoil
<1>1. /\ rx_queue \in Seq(Ledger!Request)
      /\ lines \in Seq(Sessions) /\ commands \in Seq(Sessions)
      /\ sent \in SUBSET Sessions
  BY DEF IInv, TypeOK
<1>2. /\ open \subseteq requested /\ held \subseteq requested /\ ToSet(rx_queue) \subseteq requested
      /\ requested \in SUBSET Ledger!Request
      /\ \A q, r \in held : q = r
  BY DEF IInv, Ledger!IInv, Ledger!TypeOK
<1>3. ToSet(lines) \subseteq sent /\ ToSet(commands) \subseteq sent
  BY DEF Traced
<1>4. CASE UNCHANGED vars
  BY <1>3, <1>4, TracedStays DEF vars, AtRoot
<1>5. ASSUME NEW s \in Sessions, Begin(s) PROVE Traced'
  BY <1>5 DEF Begin, Client!Begin, Traced, AtRoot, RequestOf
<1>6. ASSUME Send PROVE Traced'
  <2>1. /\ waiting /\ waiting' /\ current' = current
        /\ sent' = sent \cup {current}
        /\ requested' = requested \cup {RequestOf(current)}
        /\ RequestOf(current) \in Ledger!Request
        /\ UNCHANGED <<open, held, answered, responses, accepted, lines, commands>>
    BY <1>6 DEF Send, Client!Transmit, Ledger!Arrive
  <2>2. \/ rx_queue' = rx_queue /\ spoiled' = spoiled \cup {current}
        \/ /\ ToSet(rx_queue') = ToSet(rx_queue) \cup {RequestOf(current)}
           /\ spoiled \subseteq spoiled'
    <3>1. ToSet(Append(rx_queue, RequestOf(current))) = ToSet(rx_queue) \cup {RequestOf(current)}
      BY <1>1, <2>1, SetOfAppend
    <3> QED
      BY <1>6, <3>1 DEF Send
  <2>3. NodeWaitsLess => \A s \in sent' \ spoiled' : RequestOf(s) \in AtRoot'
    BY <2>1, <2>2 DEF Traced, AtRoot
  <2>4. \A s \in sent' \ spoiled' : (waiting' /\ current' = s) \/ \E a \in accepted' : a.session = s
    BY <2>1, <2>2 DEF Traced
  <2>5. \A r \in requested' : r.session \in sent'
    BY <2>1 DEF Traced, RequestOf
  <2> QED
    BY <2>1, <2>3, <2>4, <2>5 DEF Traced, RequestOf
<1>7. ASSUME PrintRequest PROVE Traced'
  <2>1. /\ rx_queue # <<>>
        /\ lines' = Append(lines, Head(rx_queue).session)
        /\ UNCHANGED <<client, root, rx_queue, commands, accepted, spoiled>>
    BY <1>7 DEF PrintRequest, Printed
  <2>2. Head(rx_queue) \in ToSet(rx_queue)
    BY <1>1, <2>1, QueueFacts
  <2>3. Head(rx_queue).session \in sent
    BY <1>2, <2>2 DEF Traced
  <2>4. ToSet(lines') = ToSet(lines) \cup {Head(rx_queue).session}
    BY <1>1, <2>1, <2>3, SetOfAppend
  <2> QED
    BY <1>3, <2>1, <2>3, <2>4, TracedStays DEF AtRoot
<1>8. ASSUME Record PROVE Traced'
  <2>1. /\ Ledger!Record(Head(rx_queue))
        /\ spoiled' = spoiled \cup SessionsOf((open \cup {Head(rx_queue)}) \ open')
        /\ UNCHANGED <<client, serial, accepted>>
    BY <1>8 DEF Record
  <2>2. /\ ToSet(rx_queue') = ToSet(rx_queue) \ {Head(rx_queue)}
        /\ UNCHANGED <<requested, held, answered>>
    BY <2>1 DEF Ledger!Record
  <2>3. \A s \in sent \ spoiled' : RequestOf(s) \in AtRoot => RequestOf(s) \in AtRoot'
    <3> SUFFICES ASSUME NEW s \in sent \ spoiled', RequestOf(s) \in AtRoot
                 PROVE  RequestOf(s) \in AtRoot'
      OBVIOUS
    <3>1. RequestOf(s) \notin (open \cup {Head(rx_queue)}) \ open'
      BY <2>1 DEF SessionsOf, RequestOf
    <3> QED
      BY <2>2, <3>1 DEF AtRoot
  <2> QED
    BY <1>3, <2>1, <2>2, <2>3, TracedStays
<1>9. ASSUME handle_line PROVE Traced'
  <2>1. /\ lines # <<>> /\ lines' = Tail(lines)
        /\ commands' \in {commands, Append(commands, Head(lines))}
        /\ spoiled \subseteq spoiled'
        /\ UNCHANGED <<client, root, rx_queue, accepted>>
    BY <1>9 DEF handle_line, Commanded
  <2>2. Head(lines) \in sent /\ ToSet(lines') \subseteq sent
    BY <1>1, <1>3, <2>1, QueueFacts, SetOfTail
  <2>3. ToSet(commands') \subseteq sent
    <3>1. Head(lines) \in Sessions
      BY <1>1, <2>2
    <3>2. ToSet(Append(commands, Head(lines))) = ToSet(commands) \cup {Head(lines)}
      BY <1>1, <3>1, SetOfAppend
    <3> QED
      BY <1>3, <2>1, <2>2, <3>2
  <2> QED
    BY <2>1, <2>2, <2>3, TracedStays DEF AtRoot
<1>10. ASSUME commands # <<>>, commands' = Tail(commands)
       PROVE  ToSet(commands') \subseteq sent
  BY <1>1, <1>3, <1>10, SetOfTail
<1>11. ASSUME Take PROVE Traced'
  <2>1. /\ ToSet(commands') \subseteq sent
        /\ spoiled \subseteq spoiled'
        /\ UNCHANGED <<client, queue, lines, accepted, requested, answered>>
        /\ open \cup held = open' \cup held'
    BY <1>10, <1>11 DEF Take, Ledger!Take
  <2> QED
    BY <1>3, <2>1, TracedStays DEF AtRoot
<1>12. ASSUME Refuse PROVE Traced'
  <2>1. /\ ToSet(commands') \subseteq sent
        /\ spoiled \subseteq spoiled'
        /\ UNCHANGED <<client, root, queue, lines, accepted>>
    BY <1>10, <1>12 DEF Refuse
  <2> QED
    BY <1>3, <2>1, TracedStays DEF AtRoot
<1>13. ASSUME Answer PROVE Traced'
  <2>1. PICK r \in held : /\ Ledger!Answer(r)
                          /\ Client!Reply([session |-> r.session, color |-> command])
    BY <1>13 DEF Answer
  <2>2. /\ UNCHANGED <<rx_queue, lines, commands, accepted, spoiled, requested, open,
                       current, waiting, sent>>
        /\ held' = {} /\ answered' = answered \cup {r}
        /\ responses' = responses \cup {[session |-> r.session, color |-> command]}
    BY <1>13, <2>1 DEF Answer, Ledger!Answer, Client!Reply
  <2>3. r = RequestOf(r.session)
    BY <1>2, RequestIs
  <2>4. AtRoot' = AtRoot
    BY <1>2, <2>2 DEF AtRoot
  <2>5. \A a \in responses' : RequestOf(a.session) \in answered'
    BY <2>2, <2>3 DEF Traced
  <2> QED
    BY <2>2, <2>4, <2>5 DEF Traced, RequestOf
<1>14. ASSUME PutBack PROVE Traced'
  <2>1. PICK r \in held : /\ Ledger!PutBack(r)
                          /\ spoiled' = spoiled \cup SessionsOf({r} \cup (open \ open'))
    BY <1>14 DEF PutBack
  <2>2. UNCHANGED <<client, queue, lines, commands, accepted, requested, answered>>
    BY <1>14, <2>1 DEF PutBack, Ledger!PutBack
  <2>3. \A s \in sent \ spoiled' : RequestOf(s) \in AtRoot => RequestOf(s) \in AtRoot'
    <3> SUFFICES ASSUME NEW s \in sent \ spoiled', RequestOf(s) \in AtRoot
                 PROVE  RequestOf(s) \in AtRoot'
      OBVIOUS
    <3>1. RequestOf(s) \notin {r} \cup (open \ open')
      BY <2>1 DEF SessionsOf, RequestOf
    <3> QED
      BY <1>2, <2>2, <3>1 DEF AtRoot
  <2> QED
    BY <1>3, <2>1, <2>2, <2>3, TracedStays
<1>15. ASSUME Expire PROVE Traced'
  <2>1. PICK r \in open : Overdue(r) /\ Ledger!Expire(r)
    BY <1>15 DEF Expire
  <2>2. UNCHANGED <<client, queue, lines, commands, accepted, spoiled, requested, held, answered>>
        /\ open' = open \ {r}
    BY <1>15, <2>1 DEF Expire, Ledger!Expire
  <2>3. r = RequestOf(r.session) /\ r.session \in sent
    BY <1>2, RequestIs DEF Traced
  <2>4. r \notin answered
    BY DEF IInv, Ledger!IInv, Ledger!OnePlace
  <2>5. \A a \in accepted : a.session # r.session
    <3>1. \A a \in accepted : RequestOf(a.session) \in answered
      BY DEF Traced, IInv, TypeOK
    <3> QED
      BY <2>3, <2>4, <3>1
  <2>6. NodeWaitsLess => r.session \in spoiled
    BY <2>1, <2>3, <2>5 DEF Overdue, Traced
  <2>7. NodeWaitsLess => \A s \in sent \ spoiled' : RequestOf(s) # r
    BY <2>2, <2>6 DEF RequestOf
  <2> QED
    BY <1>3, <2>2, <2>7, TracedStays DEF AtRoot
<1>16. ASSUME Accept PROVE Traced'
  <2>1. PICK r \in responses : Client!Accept(r) /\ accepted' = accepted \cup {r}
    BY <1>16 DEF Accept
  <2>2. UNCHANGED <<root, queue, serial, spoiled, sent, responses, current>> /\ r.session = current
    BY <1>16, <2>1 DEF Accept, Client!Accept
  <2>3. AtRoot' = AtRoot
    BY <2>2 DEF AtRoot
  <2>4. \A s \in sent' \ spoiled' : \E a \in accepted' : a.session = s
    BY <2>1, <2>2 DEF Traced
  <2> QED
    BY <2>2, <2>3, <2>4 DEF Traced, RequestOf
<1>17. ASSUME GiveUp PROVE Traced'
  <2>1. /\ UNCHANGED <<root, queue, serial, accepted, sent, responses, current>>
        /\ spoiled' = spoiled \cup {current}
    BY <1>17 DEF GiveUp, Client!GiveUp
  <2> QED
    BY <2>1 DEF Traced, AtRoot, RequestOf
<1> QED
  BY <1>4, <1>5, <1>6, <1>7, <1>8, <1>9, <1>11, <1>12, <1>13, <1>14, <1>15, <1>16, <1>17 DEF Next

\* If the node waits less than the root keeps a request (Kconfig allows 60 s, and the
\* root keeps one for 30 s), "ERR no pending request" is never the answer to a command
\* whose request is intact:
\* it comes for one that an earlier command has answered, that mesh_rx_task has printed
\* and is about to record, or to which something happened (root_main.c:375-385), for
\* any number of sessions.
THEOREM RefusedHolds == ASSUME NodeWaitsLess PROVE Spec => RefusedForReason
<1> DEFINE Reason ==
      Refuse =>
        LET s == Head(commands) IN
          \/ s \in spoiled
          \/ s \in SessionsOf(answered)
          \/ RequestOf(s) \in ToSet(rx_queue)
<1>1. ASSUME IInv, Traced, Refuse
      PROVE  \/ Head(commands) \in spoiled
             \/ Head(commands) \in SessionsOf(answered)
             \/ RequestOf(Head(commands)) \in ToSet(rx_queue)
  <2>1. commands # <<>> /\ open = {} /\ held = {}
    BY <1>1 DEF Refuse
  <2>2. Head(commands) \in sent
    BY <1>1, <2>1, QueueFacts DEF Traced, IInv, TypeOK
  <2>3. RequestOf(Head(commands)) \in answered => Head(commands) \in SessionsOf(answered)
    BY DEF SessionsOf, RequestOf
  <2> QED
    BY <1>1, <2>1, <2>2, <2>3 DEF Traced, AtRoot
<1>2. Init => Traced
  BY DEF Init, Client!Init, Ledger!Init, Traced, ToSet
<1>3. IInv => TypeOK
  BY DEF IInv
<1>4. IInv /\ Traced /\ [Next]_vars => [Reason]_vars
  BY <1>1
<1> HIDE DEF Reason
<1> QED
  BY <1>2, <1>3, <1>4, TracedStep, Invariant, PTL DEF Spec, RefusedForReason, Reason
-----------------------------------------------------------------------------
\* No request is in the receive queue of the root twice.
Distinct == \A j, k \in DOMAIN rx_queue : rx_queue[j] = rx_queue[k] => j = k

\* The queue gets a request that the mesh had never delivered.
LEMMA DistinctStep == IInv /\ Distinct /\ [Next]_vars => Distinct'
<1> SUFFICES ASSUME IInv, Distinct, [Next]_vars PROVE Distinct'
  OBVIOUS
<1> USE DEF root, queue, serial, client
<1>1. rx_queue \in Seq(Ledger!Request) /\ ToSet(rx_queue) \subseteq requested
  BY DEF IInv, TypeOK, Ledger!IInv
<1>2. ASSUME rx_queue' = rx_queue PROVE Distinct'
  BY <1>2 DEF Distinct
<1>3. CASE UNCHANGED vars
  BY <1>2, <1>3 DEF vars
<1>4. ASSUME Send PROVE Distinct'
  <2>1. RequestOf(current) \notin requested
    BY <1>4 DEF Send, Ledger!Arrive
  <2>2. \A k \in DOMAIN rx_queue : rx_queue[k] # RequestOf(current)
    BY <1>1, <2>1 DEF ToSet
  <2>3. CASE rx_queue' = rx_queue
    BY <1>2, <2>3
  <2>4. CASE rx_queue' = Append(rx_queue, RequestOf(current))
    <3>1. /\ DOMAIN rx_queue' = DOMAIN rx_queue \cup {Len(rx_queue) + 1}
          /\ \A k \in DOMAIN rx_queue : rx_queue'[k] = rx_queue[k]
          /\ rx_queue'[Len(rx_queue) + 1] = RequestOf(current)
      BY <1>1, <2>4
    <3> QED
      BY <2>2, <3>1 DEF Distinct
  <2> QED
    BY <1>4, <2>3, <2>4 DEF Send
<1>5. ASSUME Record PROVE Distinct'
  <2>1. rx_queue # <<>> /\ rx_queue' = Tail(rx_queue)
    BY <1>5 DEF Record, IInv, TypeOK
  <2>2. \A k \in DOMAIN rx_queue' : k \in Nat /\ k + 1 \in DOMAIN rx_queue
                                    /\ rx_queue'[k] = rx_queue[k + 1]
    BY <1>1, <2>1
  <2>3. ASSUME NEW j \in DOMAIN rx_queue', NEW k \in DOMAIN rx_queue', rx_queue'[j] = rx_queue'[k]
        PROVE  j = k
    <3>1. j + 1 = k + 1
      BY <2>2, <2>3 DEF Distinct
    <3> QED
      BY <2>2, <3>1
  <2> QED
    BY <2>3 DEF Distinct
<1>6. ASSUME (\E s \in Sessions : Begin(s)) \/ PrintRequest \/ handle_line \/ Take \/ Refuse
      PROVE  Distinct'
  BY <1>2, <1>6 DEF Begin, PrintRequest, handle_line, Take, Refuse
<1>7. ASSUME Answer \/ PutBack \/ Expire \/ Accept \/ GiveUp PROVE Distinct'
  BY <1>2, <1>7 DEF Answer, PutBack, Expire, Accept, GiveUp
<1> QED
  BY <1>3, <1>4, <1>5, <1>6, <1>7 DEF Next

\* What is left of a queue without repetitions.
LEMMA SetOfRest ==
  ASSUME NEW S, NEW q \in Seq(S), q # <<>>,
         \A j, k \in DOMAIN q : q[j] = q[k] => j = k
  PROVE  ToSet(Tail(q)) = ToSet(q) \ {Head(q)}
<1>1. /\ \A k \in DOMAIN Tail(q) : k \in Nat \ {0} /\ k + 1 \in DOMAIN q /\ Tail(q)[k] = q[k + 1]
      /\ 1 \in DOMAIN q /\ Head(q) = q[1]
  OBVIOUS
<1>2. \A k \in DOMAIN q \ {1} : k - 1 \in DOMAIN Tail(q) /\ Tail(q)[k - 1] = q[k]
  OBVIOUS
<1>3. ASSUME NEW k \in DOMAIN Tail(q) PROVE Tail(q)[k] \in ToSet(q) \ {Head(q)}
  <2>1. k + 1 # 1 /\ k + 1 \in DOMAIN q /\ Tail(q)[k] = q[k + 1]
    BY <1>1
  <2>2. q[k + 1] # q[1]
    BY <1>1, <2>1
  <2> QED
    BY <1>1, <2>1, <2>2 DEF ToSet
<1>4. ASSUME NEW k \in DOMAIN q, q[k] # Head(q) PROVE q[k] \in ToSet(Tail(q))
  <2>1. k # 1
    BY <1>1, <1>4
  <2> QED
    BY <1>2, <2>1 DEF ToSet
<1> QED
  BY <1>3, <1>4 DEF ToSet

\* What a step that belongs to the node and to the root needs of each of them.
NeverBlocked ==
  /\ waiting /\ current \notin sent =>
       RequestOf(current) \in Ledger!Request \ requested
  /\ rx_queue # <<>> =>
       /\ Head(rx_queue) \in ToSet(rx_queue)
       /\ ToSet(Tail(rx_queue)) = ToSet(rx_queue) \ {Head(rx_queue)}
  /\ \A r \in held : r.session \in sent /\ \A a \in responses : a.session # r.session

\* Neither specification holds the other back: the request that the node sends is
\* new to the root, what leaves the queue has left the ledger's inbox, and what
\* serial_task holds was sent by the node and has no response.  So the node may
\* count on one response to each session, for any number of sessions and whatever
\* is lost (node_main.c:662-668, root_main.c:375-385).
THEOREM ComposedHolds == Spec => []NeverBlocked
<1>1. Init => Distinct /\ Traced
  BY DEF Init, Client!Init, Ledger!Init, Distinct, Traced, AtRoot, ToSet
<1>2. ASSUME IInv, Traced, Distinct PROVE NeverBlocked
  <2>1. /\ rx_queue \in Seq(Ledger!Request) /\ held \in SUBSET Ledger!Request
        /\ waiting => current \in Sessions
        /\ held \subseteq requested /\ held \cap answered = {}
    BY <1>2 DEF IInv, TypeOK, Ledger!IInv, Ledger!TypeOK, Ledger!OnePlace
  <2>2. ASSUME waiting, current \notin sent
        PROVE  RequestOf(current) \in Ledger!Request \ requested
    <3>1. RequestOf(current) \in Ledger!Request /\ RequestOf(current).session = current
      BY <2>1, <2>2 DEF Ledger!Request, RequestOf
    <3> QED
      BY <1>2, <2>2, <3>1 DEF Traced
  <2>3. ASSUME rx_queue # <<>>
        PROVE  /\ Head(rx_queue) \in ToSet(rx_queue)
               /\ ToSet(Tail(rx_queue)) = ToSet(rx_queue) \ {Head(rx_queue)}
    BY <1>2, <2>1, <2>3, QueueFacts, SetOfRest DEF Distinct
  <2>4. ASSUME NEW r \in held
        PROVE  r.session \in sent /\ \A a \in responses : a.session # r.session
    <3>1. r = RequestOf(r.session) /\ r \notin answered /\ r \in requested
      BY <2>1, RequestIs
    <3> QED
      BY <1>2, <3>1 DEF Traced
  <2> QED
    BY <2>2, <2>3, <2>4 DEF NeverBlocked
<1>3. IInv /\ IInv' /\ Traced /\ [Next]_vars => Traced'
  BY TracedStep DEF IInv
<1> QED
  BY <1>1, <1>2, <1>3, Invariant, DistinctStep, PTL DEF Spec
=============================================================================
