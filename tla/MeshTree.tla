------------------------------ MODULE MeshTree ------------------------------
(***************************************************************************)
(* The root's table of direct children and the tree it prints              *)
(* (components/ss_mesh/src/ss_mesh_tree.c).  The mesh event task keeps the *)
(* table by the events CHILD_CONNECTED and CHILD_DISCONNECTED; serial_task *)
(* builds a tree from the routing table of ESP-MESH and the child table.   *)
(*                                                                         *)
(* The child table is used under the mutex s_tree_lock, and each use is    *)
(* one step.  The routing table is read before the mutex is taken.         *)
(***************************************************************************)
EXTENDS Integers, Sequences, FiniteSets, FiniteSetsExt

CONSTANTS
  Macs,                         \* the nodes
  CONFIG_MESH_AP_CONNECTIONS,   \* length of the child table
  CONFIG_MESH_ROUTE_TABLE_SIZE, \* length of a tree
  EventsLength                  \* bound of the model: events under way

ASSUME TreeAssumption ==
  /\ Macs # {}
  /\ CONFIG_MESH_AP_CONNECTIONS \in Nat \ {0}
  /\ CONFIG_MESH_ROUTE_TABLE_SIZE \in Nat \ {0}
  /\ EventsLength \in Nat \ {0}

Slots == 1 .. CONFIG_MESH_AP_CONNECTIONS
Event == [type : {"CHILD_CONNECTED", "CHILD_DISCONNECTED"}, mac : Macs]

\* ss_mesh_tree_t; count is the number of nodes, and the parent of each is the root.
Tree == [complete : BOOLEAN, nodes : SUBSET [mac : Macs, direct_child : BOOLEAN]]

VARIABLES
  s_children, s_child_present,  \* the child table
  children,  \* the nodes that are connected to the root
  routes,    \* the nodes in the routing table, the root's own entry left out
  events,    \* mesh events that the event task has yet to handle
  build_pc,  \* where ss_mesh_tree_build is
  read,      \* the routes that it copied
  tree,      \* the tree that it returned last
  steady,    \* history: the nodes that had a route since the build started
  stable     \* history: and those that were children, with no event under way

table == <<s_children, s_child_present>>
build == <<build_pc, read, tree>>
vars == <<table, children, routes, events, build, steady, stable>>

TypeOK ==
  /\ s_children \in [Slots -> Macs]
  /\ s_child_present \in [Slots -> BOOLEAN]
  /\ children \in SUBSET routes
  /\ Cardinality(children) <= CONFIG_MESH_AP_CONNECTIONS
  /\ routes \in SUBSET Macs
  /\ events \in Seq(Event)
  /\ Len(events) <= EventsLength
  /\ build_pc \in {"idle", "read"}
  /\ read \in SUBSET Macs
  /\ tree \in Tree
  /\ Cardinality(tree.nodes) <= CONFIG_MESH_ROUTE_TABLE_SIZE
  /\ steady \in SUBSET Macs
  /\ stable \in SUBSET Macs

\* A mesh without nodes; what a free slot holds does not matter.
Init ==
  /\ s_children = [i \in Slots |-> CHOOSE m \in Macs : TRUE]
  /\ s_child_present = [i \in Slots |-> FALSE]
  /\ children = {}
  /\ routes = {}
  /\ events = <<>>
  /\ build_pc = "idle"
  /\ read = {}
  /\ tree = [complete |-> TRUE, nodes |-> {}]
  /\ steady = {}
  /\ stable = {}

\* The slots that hold mac.
SlotsOf(mac) == {i \in Slots : s_child_present[i] /\ s_children[i] = mac}
Free == {i \in Slots : ~s_child_present[i]}
First(slots) == Min(slots)
InTable == {s_children[i] : i \in {j \in Slots : s_child_present[j]}}
-----------------------------------------------------------------------------
\* What the mesh does.  A node joins below another one,
node_joins ==
  /\ \E m \in Macs \ routes : routes' = routes \cup {m}
  /\ UNCHANGED <<table, children, events, build, steady, stable>>

\* below the root, or connects to the root again before its leaving is noticed,
child_joins ==
  /\ Len(events) < EventsLength
  /\ \E m \in Macs :
       /\ m \in children \/ Cardinality(children) < CONFIG_MESH_AP_CONNECTIONS
       /\ children' = children \cup {m}
       /\ routes' = routes \cup {m}
       /\ events' = Append(events, [type |-> "CHILD_CONNECTED", mac |-> m])
       /\ stable' = stable \ {m}
  /\ UNCHANGED <<table, build, steady>>

\* leaves,
node_leaves ==
  /\ \E m \in routes \ children :
       /\ routes' = routes \ {m}
       /\ steady' = steady \ {m}
  /\ UNCHANGED <<table, children, events, build, stable>>

\* or leaves the root, for good or for another parent.
child_leaves ==
  /\ Len(events) < EventsLength
  /\ \E m \in children :
       /\ children' = children \ {m}
       /\ \/ routes' = routes \ {m} /\ steady' = steady \ {m}
          \/ UNCHANGED <<routes, steady>>
       /\ events' = Append(events, [type |-> "CHILD_DISCONNECTED", mac |-> m])
       /\ stable' = stable \ {m}
  /\ UNCHANGED <<table, build>>
-----------------------------------------------------------------------------
\* Mutant: a child that is in the table already gets another slot.
Claim_again(mac) ==
  IF Free # {}
  THEN /\ s_children' = [s_children EXCEPT ![First(Free)] = mac]
       /\ s_child_present' = [s_child_present EXCEPT ![First(Free)] = TRUE]
  ELSE UNCHANGED table

\* A child that has no slot gets the first free one; a full table drops it.
Claim(mac) ==
  IF SlotsOf(mac) = {} /\ Free # {}
  THEN /\ s_children' = [s_children EXCEPT ![First(Free)] = mac]
       /\ s_child_present' = [s_child_present EXCEPT ![First(Free)] = TRUE]
  ELSE UNCHANGED table

ss_mesh_tree_child_connected ==
  /\ events # <<>> /\ Head(events).type = "CHILD_CONNECTED"
  /\ events' = Tail(events)
  /\ Claim(Head(events).mac)
  /\ UNCHANGED <<children, routes, build, steady, stable>>

\* Mutant: the first slot counts as not found.
Release_not_first(mac) ==
  s_child_present' = [i \in Slots |->
                        s_child_present[i] /\ ~(i \in SlotsOf(mac) \ {1} /\ i = First(SlotsOf(mac)))]

\* The first slot of a child is free again.
Release(mac) ==
  s_child_present' = [i \in Slots |->
                        s_child_present[i] /\ ~(i \in SlotsOf(mac) /\ i = First(SlotsOf(mac)))]

ss_mesh_tree_child_disconnected ==
  /\ events # <<>> /\ Head(events).type = "CHILD_DISCONNECTED"
  /\ events' = Tail(events)
  /\ Release(Head(events).mac)
  /\ UNCHANGED <<s_children, children, routes, build, steady, stable>>
-----------------------------------------------------------------------------
\* Mutant: a routing table that is longer than the tree is complete.
IsComplete_clamped(count) == TRUE

\* tree->complete: the root's own entry counts.
IsComplete(count) == count <= CONFIG_MESH_ROUTE_TABLE_SIZE

\* Mutant: one entry too many is copied.
Copied_one_more(all) ==
  {some \in SUBSET all : Cardinality(some) = Min({Cardinality(all), CONFIG_MESH_ROUTE_TABLE_SIZE + 1})}

\* The routes that fit the array, in whatever order ESP-MESH has them.  One may
\* be the root's own, which the tree leaves out.
Copied(all) ==
  IF Cardinality(all) + 1 <= CONFIG_MESH_ROUTE_TABLE_SIZE THEN {all}
  ELSE {some \in SUBSET all : Cardinality(some) \in {CONFIG_MESH_ROUTE_TABLE_SIZE,
                                                      CONFIG_MESH_ROUTE_TABLE_SIZE - 1}}

\* ss_mesh_tree_build copies the routing table,
tree_read ==
  /\ build_pc = "idle"
  /\ read' \in Copied(routes)
  /\ tree' = [complete |-> IsComplete(Cardinality(routes) + 1), nodes |-> {}]
  /\ build_pc' = "read"
  /\ steady' = routes
  /\ stable' = {m \in children : \A k \in DOMAIN events : events[k].mac # m}
  /\ UNCHANGED <<table, children, routes, events>>

\* Mutant: every route is taken for one of a direct child.
IsDirect_any(mac) == TRUE

\* Whether the child table has the node.
IsDirect(mac) == SlotsOf(mac) # {}

\* and looks under the mutex which nodes are direct children.
tree_fill ==
  /\ build_pc = "read"
  /\ tree' = [tree EXCEPT !.nodes = {[mac |-> m, direct_child |-> IsDirect(m)] : m \in read}]
  /\ build_pc' = "idle"
  /\ UNCHANGED <<table, children, routes, events, read, steady, stable>>
-----------------------------------------------------------------------------
mesh_event_handler == ss_mesh_tree_child_connected \/ ss_mesh_tree_child_disconnected
ss_mesh_tree_build == tree_read \/ tree_fill
Mesh == node_joins \/ child_joins \/ node_leaves \/ child_leaves

Next == mesh_event_handler \/ ss_mesh_tree_build \/ Mesh

Spec == Init /\ [][Next]_vars
-----------------------------------------------------------------------------
(***************************************************************************)
(* Properties.                                                             *)
(***************************************************************************)

\* A child has one slot, although it may connect twice in a row: otherwise the
\* slot that its leaving does not free would show a child that is gone.
OneSlotPerChild == \A m \in Macs : Cardinality(SlotsOf(m)) <= 1

\* The last event under way about a node.
LastEvent(mac) ==
  LET about == {k \in DOMAIN events : events[k].mac = mac}
  IN  events[Max(about)].type

\* No child is lost or left over: once the events under way are handled, the
\* table holds the children of the root, and it never overflows.
TableFollowsChildren ==
  \A m \in Macs :
    m \in children <=>
      IF \E k \in DOMAIN events : events[k].mac = m
      THEN LastEvent(m) = "CHILD_CONNECTED"
      ELSE m \in InTable

\* A tree that says it is complete shows every node that had a route all the
\* while ("print a snapshot of the mesh tree", README.md:85).
CompleteShowsAll ==
  [][tree_fill /\ tree.complete => steady \subseteq {n.mac : n \in tree'.nodes}]_vars

\* "Direct-child relationships are marked as known" (README.md:85): a node that
\* was a child all the while is marked, and one that is marked is a child, or
\* its leaving is under way.
DirectIsKnown ==
  [][tree_fill => \A n \in tree'.nodes :
       /\ n.mac \in stable => n.direct_child
       /\ n.direct_child => \/ n.mac \in children
                            \/ \E k \in DOMAIN events : events[k].mac = n.mac]_vars
=============================================================================
