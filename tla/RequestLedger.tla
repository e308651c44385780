--------------------------- MODULE RequestLedger ---------------------------
(***************************************************************************)
(* What the root promises about the UUID requests that reach it, without   *)
(* tasks, queues, arrays or a lock: a request waits in the inbox, is open  *)
(* while an operator may answer it, is held while an answer is on its way  *)
(* to the node, and ends answered or forgotten.  Module Root implements    *)
(* this specification (Root!Implements).                                   *)
(***************************************************************************)

CONSTANTS Nodes,     \* the mesh nodes, by station MAC
          Sessions   \* the session identifiers that nodes draw

Request == [node : Nodes, session : Sessions]

VARIABLES requested,  \* every request the mesh has delivered to the root
          inbox,      \* delivered, not yet recorded
          open,       \* recorded, waiting for a color command
          held,       \* taken by a color command whose outcome is not known
          answered    \* sent their color

vars == <<requested, inbox, open, held, answered>>

TypeOK ==
  /\ requested \in SUBSET Request
  /\ inbox \in SUBSET Request
  /\ open \in SUBSET Request
  /\ held \in SUBSET Request
  /\ answered \in SUBSET Request

Init ==
  /\ requested = {}
  /\ inbox = {}
  /\ open = {}
  /\ held = {}
  /\ answered = {}

\* The open requests once r is recorded: r replaces what its node had open.
Superseding(r) == {q \in open : q.node # r.node} \cup {r}

-----------------------------------------------------------------------------
\* A request reaches the root; a full inbox loses it.
Arrive(r) ==
  /\ r \in Request \ requested
  /\ requested' = requested \cup {r}
  /\ inbox' \in {inbox, inbox \cup {r}}
  /\ UNCHANGED <<open, held, answered>>

\* A request is recorded; a full ledger loses it.
Record(r) ==
  /\ r \in inbox
  /\ inbox' = inbox \ {r}
  /\ open' \in {open, Superseding(r)}
  /\ UNCHANGED <<requested, held, answered>>

\* An open request is given up.
Expire(r) ==
  /\ r \in open
  /\ open' = open \ {r}
  /\ UNCHANGED <<requested, inbox, held, answered>>

\* A color command takes the open request of its node, one command at a time.
Take(r) ==
  /\ r \in open
  /\ held = {}
  /\ held' = {r}
  /\ open' = open \ {r}
  /\ UNCHANGED <<requested, inbox, answered>>

\* The color of the held request is on its way to the node.
Answer(r) ==
  /\ r \in held
  /\ held' = {}
  /\ answered' = answered \cup {r}
  /\ UNCHANGED <<requested, inbox, open>>

\* The color could not be sent: the request opens again, or is lost.
PutBack(r) ==
  /\ r \in held
  /\ held' = {}
  /\ open' \in {open, Superseding(r)}
  /\ UNCHANGED <<requested, inbox, answered>>

Next ==
  \E r \in Request :
    \/ Arrive(r)
    \/ Record(r)
    \/ Expire(r)
    \/ Take(r)
    \/ Answer(r)
    \/ PutBack(r)

Spec == Init /\ [][Next]_vars

-----------------------------------------------------------------------------
\* A node has at most one open request (root_main.c: "A node can only have
\* one active LED request").
OneOpenPerNode == \A q, r \in open : q.node = r.node => q = r

\* A request is in one place at a time; in particular one that was answered
\* can never be answered again.
OnePlace ==
  /\ inbox \cap (open \cup held \cup answered) = {}
  /\ open \cap (held \cup answered) = {}
  /\ held \cap answered = {}

\* The inductive invariant: requests are in one place each, were delivered,
\* and no two commands hold one at the same time.
IInv ==
  /\ TypeOK
  /\ OneOpenPerNode
  /\ OnePlace
  /\ inbox \cup open \cup held \cup answered \subseteq requested
  /\ \A q, r \in held : q = r
=============================================================================
