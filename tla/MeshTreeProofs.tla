--------------------------- MODULE MeshTreeProofs ---------------------------
(***************************************************************************)
(* Proofs about MeshTree: the child table follows the children of the      *)
(* root, and a tree shows what it promises.                                *)
(***************************************************************************)
EXTENDS MeshTree, SequenceTheorems, FiniteSetTheorems, TLAPS

\* A set of numbers up to n has a least one.  Without one, the numbers from
\* some element on could be moved down by one and stay such numbers; but n,
\* which is one of them, is then no longer among them, and they are too many
\* for that.
LEMMA Least ==
  ASSUME NEW n \in Nat, NEW T \in SUBSET (1 .. n), T # {}
  PROVE  Min(T) \in T /\ \A t \in T : Min(T) <= t
<1> DEFINE Up == {i \in 1 .. n : \E t \in T : t <= i}
<1>1. SUFFICES ASSUME \A t \in T : \E u \in T : u < t PROVE FALSE
  <2>1. ASSUME NEW t \in T, ~ \E u \in T : u < t PROVE \A u \in T : t <= u
    BY <2>1
  <2> QED
    BY <2>1 DEF Min
<1>2. IsFiniteSet(Up) /\ Cardinality(Up) \in Nat /\ n \in Up
  <2>1. IsFiniteSet(1 .. n)
    BY FS_Interval
  <2>2. IsFiniteSet(Up)
    BY <2>1, FS_Subset
  <2>3. PICK t \in T : TRUE
    OBVIOUS
  <2>4. t \in 1 .. n /\ t <= n /\ n \in 1 .. n
    OBVIOUS
  <2> QED
    BY <2>2, <2>4, FS_CardinalityType
<1>3. IsFiniteSet(Up \ {n}) /\ Cardinality(Up \ {n}) = Cardinality(Up) - 1
  BY <1>2, FS_RemoveElement
<1>4. ASSUME NEW i \in Up PROVE i - 1 \in Up \ {n}
  <2>1. PICK t \in T : t <= i
    OBVIOUS
  <2>2. PICK u \in T : u < t
    BY <1>1
  <2>3. u \in 1 .. n /\ t \in 1 .. n /\ i \in 1 .. n
    OBVIOUS
  <2>4. u <= i - 1 /\ i - 1 \in 1 .. n /\ i - 1 # n
    BY <2>1, <2>2, <2>3
  <2> QED
    BY <2>4
<1> DEFINE f == [i \in Up |-> i - 1]
<1>5. f \in Injection(Up, Up \ {n})
  <2>1. f \in [Up -> Up \ {n}]
    BY <1>4
  <2>2. \A i, j \in Up : f[i] = f[j] => i = j
    OBVIOUS
  <2> QED
    BY <2>1, <2>2 DEF Injection, IsInjective
<1> QED
  <2> HIDE DEF f, Up
  <2>1. Cardinality(Up) <= Cardinality(Up \ {n})
    BY <1>3, <1>5, FS_Injection
  <2> QED
    BY <1>2, <1>3, <2>1

\* And a greatest one.
LEMMA Greatest ==
  ASSUME NEW n \in Nat, NEW T \in SUBSET (1 .. n), T # {}
  PROVE  Max(T) \in T /\ \A t \in T : t <= Max(T)
<1> DEFINE Mirror == {i \in 1 .. n : n + 1 - i \in T}
<1>1. \E t \in T : n + 1 - t \in Mirror
  <2>1. PICK t \in T : TRUE
    OBVIOUS
  <2>2. t \in 1 .. n /\ n + 1 - t \in 1 .. n /\ n + 1 - (n + 1 - t) = t
    OBVIOUS
  <2> QED
    BY <2>2
<1>2. Min(Mirror) \in Mirror /\ \A i \in Mirror : Min(Mirror) <= i
  BY <1>1, Least
<1> DEFINE top == n + 1 - Min(Mirror)
<1>3. top \in T
  BY <1>2
<1>4. ASSUME NEW t \in T PROVE top >= t
  <2>1. t \in 1 .. n /\ n + 1 - t \in 1 .. n /\ n + 1 - (n + 1 - t) = t
    OBVIOUS
  <2>2. Min(Mirror) <= n + 1 - t /\ Min(Mirror) \in 1 .. n
    BY <1>2, <2>1
  <2> QED
    BY <2>1, <2>2
<1> HIDE DEF top
<1>5. \E x \in T : \A y \in T : x >= y
  BY <1>3, <1>4
<1>6. Max(T) \in T /\ \A y \in T : Max(T) >= y
  BY <1>5, Zenon DEF Max
<1> QED
  BY <1>6
-----------------------------------------------------------------------------
\* The children after an event.
Applied(set, e) == IF e.type = "CHILD_CONNECTED" THEN set \cup {e.mac} ELSE set \ {e.mac}

\* The children of the root as they were at each event under way: h[0] is what
\* the table holds, and the last is what the root has now.  At no time were
\* there more than fit the table.
Past(h, c, es, t) ==
  /\ h \in [0 .. Len(es) -> SUBSET Macs]
  /\ h[0] = t
  /\ h[Len(es)] = c
  /\ \A k \in 1 .. Len(es) : h[k] = Applied(h[k - 1], es[k])
  /\ \A k \in 0 .. Len(es) :
       IsFiniteSet(h[k]) /\ Cardinality(h[k]) <= CONFIG_MESH_AP_CONNECTIONS
History == \E h : Past(h, children, events, InTable)

\* No two slots hold the same child.
Distinct ==
  \A i, j \in Slots :
    s_child_present[i] /\ s_child_present[j] /\ s_children[i] = s_children[j] => i = j

TableTypes == s_children \in [Slots -> Macs] /\ s_child_present \in [Slots -> BOOLEAN]
MeshTypes ==
  /\ routes \in SUBSET Macs
  /\ IsFiniteSet(routes)
  /\ children \in SUBSET routes
  /\ Cardinality(children) <= CONFIG_MESH_AP_CONNECTIONS
  /\ events \in Seq(Event)
  /\ Len(events) <= EventsLength
TreeTypes ==
  /\ build_pc \in {"idle", "read"}
  /\ read \in SUBSET Macs
  /\ IsFiniteSet(read)
  /\ Cardinality(read) <= CONFIG_MESH_ROUTE_TABLE_SIZE
  /\ tree \in Tree
  /\ Cardinality(tree.nodes) <= CONFIG_MESH_ROUTE_TABLE_SIZE
HistoryTypes == steady \in SUBSET Macs /\ stable \in SUBSET Macs
Types == TableTypes /\ MeshTypes /\ TreeTypes /\ HistoryTypes

\* A copy said to be complete has all nodes that have had a route since,
Shown == build_pc = "read" /\ tree.complete => steady \subseteq read

\* and a node that was a child all the while has no event under way.
Stable == \A m \in stable : m \in children /\ \A k \in DOMAIN events : events[k].mac # m

\* The inductive invariant.
IInv == Types /\ Distinct /\ History /\ Shown /\ Stable
-----------------------------------------------------------------------------
\* The assumption on the constants.
LEMMA Numbers ==
  /\ Macs # {}
  /\ CONFIG_MESH_AP_CONNECTIONS \in Nat /\ CONFIG_MESH_AP_CONNECTIONS > 0
  /\ CONFIG_MESH_ROUTE_TABLE_SIZE \in Nat /\ CONFIG_MESH_ROUTE_TABLE_SIZE > 0
  /\ EventsLength \in Nat /\ EventsLength > 0
BY TreeAssumption

\* An event that is added at the end, or handled at the front.
LEMMA EventAdded ==
  ASSUME events \in Seq(Event), NEW e \in Event, events' = Append(events, e)
  PROVE  /\ events' \in Seq(Event)
         /\ Len(events') = Len(events) + 1
         /\ Len(events) \in Nat
         /\ \A k \in 1 .. Len(events) : events'[k] = events[k]
         /\ events'[Len(events) + 1] = e
         /\ DOMAIN events = 1 .. Len(events) /\ DOMAIN events' = 1 .. Len(events')
OBVIOUS

LEMMA EventHandled ==
  ASSUME events \in Seq(Event), events # <<>>, events' = Tail(events)
  PROVE  /\ events' \in Seq(Event)
         /\ Len(events) \in Nat /\ Len(events) > 0
         /\ Len(events') = Len(events) - 1
         /\ \A k \in 1 .. Len(events) - 1 : events'[k] = events[k + 1]
         /\ Head(events) = events[1] /\ Head(events) \in Event
         /\ DOMAIN events = 1 .. Len(events) /\ DOMAIN events' = 1 .. Len(events')
OBVIOUS

\* A new event at the end: what the root had before stays past.
LEMMA HistoryAdded ==
  ASSUME events \in Seq(Event), History, NEW e \in Event, events' = Append(events, e),
         children' = Applied(children, e), children' \in SUBSET Macs,
         IsFiniteSet(children'), Cardinality(children') <= CONFIG_MESH_AP_CONNECTIONS,
         InTable' = InTable
  PROVE  History'
<1>1. PICK h : Past(h, children, events, InTable)
  BY DEF History
<1> DEFINE g == [k \in 0 .. Len(events') |-> IF k <= Len(events) THEN h[k] ELSE children']
<1>2. /\ Len(events') = Len(events) + 1
      /\ Len(events) \in Nat
      /\ \A k \in 1 .. Len(events) : events'[k] = events[k]
      /\ events'[Len(events) + 1] = e
  BY EventAdded
<1>3. g \in [0 .. Len(events') -> SUBSET Macs]
  BY <1>1, <1>2 DEF Past
<1>4. g[0] = InTable' /\ g[Len(events')] = children'
  BY <1>1, <1>2 DEF Past
<1>5. ASSUME NEW k \in 1 .. Len(events') PROVE g[k] = Applied(g[k - 1], events'[k])
  <2>1. CASE k = Len(events) + 1
    BY <1>1, <1>2, <2>1 DEF Past
  <2>2. CASE k # Len(events) + 1
    BY <1>1, <1>2, <2>2 DEF Past
  <2> QED
    BY <2>1, <2>2
<1>6. ASSUME NEW k \in 0 .. Len(events')
      PROVE  IsFiniteSet(g[k]) /\ Cardinality(g[k]) <= CONFIG_MESH_AP_CONNECTIONS
  BY <1>1, <1>2 DEF Past
<1> HIDE DEF g
<1>7. Past(g, children', events', InTable')
  BY <1>3, <1>4, <1>5, <1>6 DEF Past
<1> QED
  BY <1>7 DEF History

\* The first event is handled: the past begins one event later.
LEMMA HistoryHandled ==
  ASSUME events \in Seq(Event), History, events # <<>>, events' = Tail(events),
         InTable' = Applied(InTable, Head(events)), children' = children
  PROVE  History'
<1>1. PICK h : Past(h, children, events, InTable)
  BY DEF History
<1> DEFINE g == [k \in 0 .. Len(events') |-> h[k + 1]]
<1>2. /\ Len(events) \in Nat /\ Len(events) > 0
      /\ Len(events') = Len(events) - 1
      /\ \A k \in 1 .. Len(events) - 1 : events'[k] = events[k + 1]
      /\ Head(events) = events[1]
  BY EventHandled
<1>3. g \in [0 .. Len(events') -> SUBSET Macs]
  BY <1>1, <1>2 DEF Past
<1>4. g[0] = InTable' /\ g[Len(events')] = children'
  BY <1>1, <1>2 DEF Past
<1>5. ASSUME NEW k \in 1 .. Len(events') PROVE g[k] = Applied(g[k - 1], events'[k])
  <2>1. k + 1 \in 1 .. Len(events) /\ k \in 0 .. Len(events') /\ k - 1 \in 0 .. Len(events')
    BY <1>2
  <2>2. h[k + 1] = Applied(h[k + 1 - 1], events[k + 1])
    BY <1>1, <2>1 DEF Past
  <2>3. g[k] = h[k + 1] /\ g[k - 1] = h[k] /\ k + 1 - 1 = k
    BY <2>1
  <2> QED
    BY <1>2, <2>2, <2>3
<1>6. ASSUME NEW k \in 0 .. Len(events')
      PROVE  IsFiniteSet(g[k]) /\ Cardinality(g[k]) <= CONFIG_MESH_AP_CONNECTIONS
  BY <1>1, <1>2 DEF Past
<1> HIDE DEF g
<1>7. Past(g, children', events', InTable')
  BY <1>3, <1>4, <1>5, <1>6 DEF Past
<1> QED
  BY <1>7 DEF History
-----------------------------------------------------------------------------
\* The first of some slots is one of them.
LEMMA FirstOf == ASSUME NEW S \in SUBSET Slots, S # {} PROVE First(S) \in S
BY Least, Numbers DEF Slots, First

\* A full table has as many children as slots.
LEMMA FullTable ==
  ASSUME TableTypes, Distinct, Free = {}, IsFiniteSet(InTable)
  PROVE  CONFIG_MESH_AP_CONNECTIONS <= Cardinality(InTable)
<1>1. \A i \in Slots : s_child_present[i] /\ s_children[i] \in InTable
  BY DEF TableTypes, Free, InTable
<1>2. s_children \in Injection(Slots, InTable)
  <2>1. s_children \in [Slots -> InTable]
    BY <1>1 DEF TableTypes
  <2>2. \A i, j \in Slots : s_children[i] = s_children[j] => i = j
    BY <1>1 DEF Distinct
  <2> QED
    BY <2>1, <2>2 DEF Injection, IsInjective
<1>3. Cardinality(Slots) <= Cardinality(InTable)
  BY <1>2, FS_Injection
<1>4. Cardinality(Slots) = CONFIG_MESH_AP_CONNECTIONS
  BY FS_Interval, Numbers DEF Slots
<1> QED
  BY <1>3, <1>4

\* A child that connects finds a slot: there were never more children than
\* slots, and those that left before it have been taken out.
LEMMA ClaimStep ==
  ASSUME TableTypes, Distinct, History, events \in Seq(Event), events # <<>>,
         events' = Tail(events), Head(events).type = "CHILD_CONNECTED", Claim(Head(events).mac)
  PROVE  TableTypes' /\ Distinct' /\ InTable' = Applied(InTable, Head(events))
<1> DEFINE mac == Head(events).mac
<1>1. mac \in Macs /\ Applied(InTable, Head(events)) = InTable \cup {mac}
  BY EventHandled DEF Event, Applied
<1>2. mac \in InTable <=> SlotsOf(mac) # {}
  BY DEF InTable, SlotsOf
<1>3. CASE SlotsOf(mac) # {}
  BY <1>1, <1>2, <1>3 DEF Claim, table, TableTypes, Distinct, InTable
<1>4. CASE SlotsOf(mac) = {} /\ Free = {}
  <2>1. PICK h : Past(h, children, events, InTable)
    BY DEF History
  <2>2. Len(events) \in Nat /\ Len(events) > 0 /\ Head(events) = events[1]
    BY EventHandled
  <2>3. h[0] = InTable /\ h[1] = Applied(h[0], events[1])
    BY <2>1, <2>2 DEF Past
  <2>4. IsFiniteSet(h[0]) /\ Cardinality(h[1]) <= CONFIG_MESH_AP_CONNECTIONS
    BY <2>1, <2>2 DEF Past
  <2>5. Cardinality(InTable \cup {mac}) = Cardinality(InTable) + 1
    BY <1>2, <1>4, <2>3, <2>4, FS_AddElement
  <2>6. CONFIG_MESH_AP_CONNECTIONS <= Cardinality(InTable) /\ Cardinality(InTable) \in Nat
    BY <1>4, <2>3, <2>4, FullTable, FS_CardinalityType
  <2>7. Cardinality(InTable \cup {mac}) <= CONFIG_MESH_AP_CONNECTIONS
    BY <1>1, <2>2, <2>3, <2>4
  <2> QED
    BY <2>5, <2>6, <2>7, Numbers
<1>5. CASE SlotsOf(mac) = {} /\ Free # {}
  <2> DEFINE i == First(Free)
  <2>1. i \in Slots /\ ~s_child_present[i]
    BY <1>5, FirstOf DEF Free
  <2> HIDE DEF i
  <2>2. /\ s_children' = [s_children EXCEPT ![i] = mac]
        /\ s_child_present' = [s_child_present EXCEPT ![i] = TRUE]
    BY <1>5 DEF Claim, i
  <2>3. TableTypes'
    BY <1>1, <2>1, <2>2 DEF TableTypes
  <2>4. /\ s_children'[i] = mac /\ s_child_present'[i]
        /\ \A j \in Slots \ {i} :
             s_children'[j] = s_children[j] /\ s_child_present'[j] = s_child_present[j]
    BY <2>1, <2>2 DEF TableTypes
  <2>5. \A j \in Slots : s_child_present[j] => s_children[j] # mac
    BY <1>5 DEF SlotsOf
  <2>6. Distinct'
    BY <2>1, <2>4, <2>5 DEF Distinct
  <2>7. InTable' = InTable \cup {mac}
    BY <2>1, <2>4 DEF InTable
  <2> QED
    BY <1>1, <2>3, <2>6, <2>7
<1> QED
  BY <1>3, <1>4, <1>5

\* A child that leaves had one slot, which is free now.
LEMMA ReleaseStep ==
  ASSUME TableTypes, Distinct, events \in Seq(Event), events # <<>>,
         events' = Tail(events), Head(events).type = "CHILD_DISCONNECTED", Release(Head(events).mac),
         UNCHANGED s_children
  PROVE  TableTypes' /\ Distinct' /\ InTable' = Applied(InTable, Head(events))
<1> DEFINE mac == Head(events).mac
<1>1. mac \in Macs /\ Applied(InTable, Head(events)) = InTable \ {mac}
  BY EventHandled DEF Event, Applied
<1>2. \A i \in SlotsOf(mac) : i = First(SlotsOf(mac))
  <2>1. SlotsOf(mac) \in SUBSET Slots
    BY DEF SlotsOf
  <2>2. \A i, j \in SlotsOf(mac) : i = j
    BY DEF SlotsOf, Distinct
  <2> QED
    BY <2>1, <2>2, FirstOf
<1>3. \A i \in Slots : s_child_present'[i] = (s_child_present[i] /\ i \notin SlotsOf(mac))
  BY <1>2, Zenon DEF Release
<1>4. \A i \in Slots : s_child_present'[i] = (s_child_present[i] /\ s_children[i] # mac)
  BY <1>3 DEF SlotsOf, TableTypes
<1>5. TableTypes'
  <2>1. s_child_present' \in [Slots -> BOOLEAN]
    BY DEF Release
  <2> QED
    BY <2>1 DEF TableTypes
<1>6. Distinct'
  BY <1>4 DEF Distinct
<1>7. InTable' = InTable \ {mac}
  BY <1>4 DEF InTable
<1> QED
  BY <1>1, <1>5, <1>6, <1>7
-----------------------------------------------------------------------------
\* Every step keeps the types of the mesh,
LEMMA MeshTypesStep == MeshTypes /\ [Next]_vars => MeshTypes'
<1> SUFFICES ASSUME MeshTypes, [Next]_vars PROVE MeshTypes'
  OBVIOUS
<1> USE Numbers DEF MeshTypes
<1>0. IsFiniteSet(children) /\ Cardinality(children) \in Nat
  BY FS_Subset, FS_CardinalityType
<1>1. CASE UNCHANGED <<children, routes, events>>
  BY <1>1
<1>2. CASE node_joins
  BY <1>2, FS_AddElement DEF node_joins
<1>3. CASE child_joins
  <2>1. PICK m \in Macs :
          /\ m \in children \/ Cardinality(children) < CONFIG_MESH_AP_CONNECTIONS
          /\ children' = children \cup {m}
          /\ routes' = routes \cup {m}
          /\ events' = Append(events, [type |-> "CHILD_CONNECTED", mac |-> m])
    BY <1>3 DEF child_joins
  <2>2. /\ IsFiniteSet(routes \cup {m})
        /\ Cardinality(children \cup {m}) =
             IF m \in children THEN Cardinality(children) ELSE Cardinality(children) + 1
    BY <1>0, FS_AddElement
  <2>3. events' \in Seq(Event) /\ Len(events') <= EventsLength
    BY <1>3, <2>1 DEF child_joins, Event
  <2> QED
    BY <1>0, <2>1, <2>2, <2>3
<1>4. CASE node_leaves
  BY <1>4, FS_RemoveElement DEF node_leaves
<1>5. CASE child_leaves
  <2>1. PICK m \in children :
          /\ children' = children \ {m}
          /\ routes' = routes \ {m} \/ routes' = routes
          /\ events' = Append(events, [type |-> "CHILD_DISCONNECTED", mac |-> m])
    BY <1>5 DEF child_leaves
  <2>2. /\ IsFiniteSet(routes \ {m})
        /\ Cardinality(children \ {m}) = Cardinality(children) - 1
    BY <1>0, FS_RemoveElement
  <2>3. events' \in Seq(Event) /\ Len(events') <= EventsLength
    BY <1>5, <2>1 DEF child_leaves, Event
  <2>4. IsFiniteSet(routes') /\ children' \in SUBSET routes' /\ routes' \in SUBSET Macs
    BY <2>1, <2>2
  <2>5. Cardinality(children') <= CONFIG_MESH_AP_CONNECTIONS
    BY <1>0, <2>1, <2>2
  <2> QED
    BY <2>3, <2>4, <2>5
<1>6. CASE mesh_event_handler
  <2>1. events # <<>> /\ events' = Tail(events) /\ UNCHANGED <<children, routes>>
    BY <1>6 DEF mesh_event_handler, ss_mesh_tree_child_connected, ss_mesh_tree_child_disconnected
  <2>2. events' \in Seq(Event) /\ Len(events') <= EventsLength
    BY <2>1, EventHandled
  <2> QED
    BY <2>1, <2>2
<1>7. CASE ss_mesh_tree_build
  BY <1>7 DEF ss_mesh_tree_build, tree_read, tree_fill
<1> QED
  BY <1>1, <1>2, <1>3, <1>4, <1>5, <1>6, <1>7 DEF Next, Mesh, vars

\* those of the tree and of the histories,
LEMMA TreeTypesStep ==
  MeshTypes /\ TreeTypes /\ HistoryTypes /\ [Next]_vars => TreeTypes' /\ HistoryTypes'
<1> SUFFICES ASSUME MeshTypes, TreeTypes, HistoryTypes, [Next]_vars
             PROVE  TreeTypes' /\ HistoryTypes'
  OBVIOUS
<1> USE Numbers DEF TreeTypes, HistoryTypes
<1>0. Cardinality(routes) \in Nat /\ routes \in SUBSET Macs /\ IsFiniteSet(routes)
  BY FS_CardinalityType DEF MeshTypes
<1>1. CASE UNCHANGED <<build_pc, read, tree, steady, stable>>
  BY <1>1
<1>2. CASE Mesh
  <2>1. children \in SUBSET Macs
    BY DEF MeshTypes
  <2>2. UNCHANGED build
    BY <1>2 DEF Mesh, node_joins, child_joins, node_leaves, child_leaves
  <2>3. steady' \in SUBSET Macs /\ stable' \in SUBSET Macs
    BY <1>2 DEF Mesh, node_joins, child_joins, node_leaves, child_leaves
  <2> QED
    BY <2>2, <2>3 DEF build
<1>3. CASE tree_read
  <2>1. read' \in Copied(routes) /\ build_pc' = "read"
    BY <1>3 DEF tree_read
  <2>2. read' \in SUBSET routes /\ Cardinality(read') <= CONFIG_MESH_ROUTE_TABLE_SIZE
    BY <1>0, <2>1 DEF Copied
  <2>3. IsFiniteSet(read')
    BY <1>0, <2>2, FS_Subset
  <2>4. tree' = [complete |-> IsComplete(Cardinality(routes) + 1), nodes |-> {}]
    BY <1>3 DEF tree_read
  <2>5. tree' \in Tree /\ tree'.nodes = {}
    BY <1>0, <2>4 DEF Tree, IsComplete
  <2>6. Cardinality(tree'.nodes) <= CONFIG_MESH_ROUTE_TABLE_SIZE
    BY <2>5, FS_EmptySet
  <2>7. steady' \in SUBSET Macs /\ stable' \in SUBSET Macs
    BY <1>0, <1>3 DEF tree_read, MeshTypes
  <2> QED
    BY <1>0, <2>1, <2>2, <2>3, <2>5, <2>6, <2>7
<1>4. CASE tree_fill
  <2> DEFINE Node(m) == [mac |-> m, direct_child |-> IsDirect(m)]
  <2> DEFINE nodes == {Node(m) : m \in read}
  <2>1. tree' = [tree EXCEPT !.nodes = nodes] /\ build_pc' = "idle"
    BY <1>4 DEF tree_fill
  <2>2. nodes \in SUBSET [mac : Macs, direct_child : BOOLEAN]
    <3>1. ASSUME NEW m \in read PROVE Node(m) \in [mac : Macs, direct_child : BOOLEAN]
      <4>1. IsDirect(m) \in BOOLEAN
        BY DEF IsDirect
      <4> QED
        BY <4>1
    <3> QED
      BY <3>1
  <2>3. Cardinality(nodes) <= Cardinality(read) /\ Cardinality(read) \in Nat
        /\ IsFiniteSet(nodes) /\ Cardinality(nodes) \in Nat
    <3> DEFINE f == [m \in read |-> Node(m)]
    <3> HIDE DEF Node
    <3>0. f \in Surjection(read, nodes)
      BY DEF Surjection
    <3> HIDE DEF f
    <3>1. IsFiniteSet(nodes) /\ Cardinality(nodes) <= Cardinality(read)
      BY <3>0, FS_Surjection
    <3> QED
      BY <3>1, FS_CardinalityType
  <2> HIDE DEF nodes
  <2>4. tree' \in Tree /\ tree'.nodes = nodes
    BY <2>1, <2>2 DEF Tree
  <2>5. UNCHANGED <<read, steady, stable>>
    BY <1>4 DEF tree_fill
  <2> QED
    BY <2>1, <2>3, <2>4, <2>5
<1>5. CASE mesh_event_handler
  BY <1>5 DEF mesh_event_handler, ss_mesh_tree_child_connected, ss_mesh_tree_child_disconnected,
              build
<1> QED
  BY <1>1, <1>2, <1>3, <1>4, <1>5 DEF Next, ss_mesh_tree_build, vars, build

\* and those of the table, in which no child has two slots, while the past goes
\* on.
LEMMA TableStep ==
  Types /\ Distinct /\ History /\ [Next]_vars => TableTypes' /\ Distinct' /\ History'
<1> SUFFICES ASSUME Types, Distinct, History, [Next]_vars
             PROVE  TableTypes' /\ Distinct' /\ History'
  OBVIOUS
<1>0. TableTypes /\ MeshTypes /\ MeshTypes' /\ events \in Seq(Event)
  BY MeshTypesStep DEF Types, MeshTypes
<1>1. IsFiniteSet(children') /\ children' \in SUBSET Macs
      /\ Cardinality(children') <= CONFIG_MESH_AP_CONNECTIONS
  BY <1>0, FS_Subset DEF MeshTypes
<1>2. UNCHANGED table => TableTypes' /\ Distinct' /\ InTable' = InTable
  BY <1>0 DEF table, TableTypes, Distinct, InTable
<1>3. CASE UNCHANGED <<s_children, s_child_present, children, events>>
  BY <1>2, <1>3 DEF table, History, Past
<1>4. CASE child_joins
  <2>1. PICK m \in Macs :
          /\ children' = children \cup {m}
          /\ events' = Append(events, [type |-> "CHILD_CONNECTED", mac |-> m])
    BY <1>4 DEF child_joins
  <2> DEFINE e == [type |-> "CHILD_CONNECTED", mac |-> m]
  <2>2. e \in Event /\ children' = Applied(children, e)
    BY <2>1 DEF Event, Applied
  <2>3. UNCHANGED table
    BY <1>4 DEF child_joins
  <2> QED
    BY <1>0, <1>1, <1>2, <2>1, <2>2, <2>3, HistoryAdded
<1>5. CASE child_leaves
  <2>1. PICK m \in children :
          /\ children' = children \ {m}
          /\ events' = Append(events, [type |-> "CHILD_DISCONNECTED", mac |-> m])
    BY <1>5 DEF child_leaves
  <2> DEFINE e == [type |-> "CHILD_DISCONNECTED", mac |-> m]
  <2>2. e \in Event /\ children' = Applied(children, e)
    BY <1>0, <2>1 DEF Event, Applied, MeshTypes
  <2>3. UNCHANGED table
    BY <1>5 DEF child_leaves
  <2> QED
    BY <1>0, <1>1, <1>2, <2>1, <2>2, <2>3, HistoryAdded
<1>6. CASE ss_mesh_tree_child_connected
  BY <1>0, <1>6, ClaimStep, HistoryHandled DEF ss_mesh_tree_child_connected
<1>7. CASE ss_mesh_tree_child_disconnected
  BY <1>0, <1>7, ReleaseStep, HistoryHandled DEF ss_mesh_tree_child_disconnected
<1>8. CASE node_joins \/ node_leaves \/ ss_mesh_tree_build
  BY <1>3, <1>8 DEF node_joins, node_leaves, ss_mesh_tree_build, tree_read, tree_fill, table
<1> QED
  BY <1>3, <1>4, <1>5, <1>6, <1>7, <1>8 DEF Next, Mesh, mesh_event_handler, vars, table

\* What a build knows of the time since it started stays true.
LEMMA BuildStep ==
  Types /\ Shown /\ Stable /\ [Next]_vars => Shown' /\ Stable'
<1> SUFFICES ASSUME Types, Shown, Stable, [Next]_vars PROVE Shown' /\ Stable'
  OBVIOUS
<1>0. events \in Seq(Event) /\ Cardinality(routes) \in Nat
  BY FS_CardinalityType DEF Types, MeshTypes
<1>1. CASE UNCHANGED vars
  BY <1>1 DEF Shown, Stable, vars, build
<1>2. CASE child_joins
  <2>1. PICK m \in Macs :
          /\ children' = children \cup {m}
          /\ events' = Append(events, [type |-> "CHILD_CONNECTED", mac |-> m])
          /\ stable' = stable \ {m}
    BY <1>2 DEF child_joins
  <2> DEFINE e == [type |-> "CHILD_CONNECTED", mac |-> m]
  <2>2. e \in Event /\ e.mac = m /\ events' = Append(events, e)
    BY <2>1 DEF Event
  <2> HIDE DEF e
  <2>3. ASSUME NEW k \in DOMAIN events'
        PROVE  events'[k] = e \/ (k \in DOMAIN events /\ events'[k] = events[k])
    <3>1. /\ Len(events) \in Nat /\ DOMAIN events = 1 .. Len(events)
          /\ k \in 1 .. Len(events) + 1
          /\ \A j \in 1 .. Len(events) : events'[j] = events[j]
          /\ events'[Len(events) + 1] = e
      BY <1>0, <2>2, EventAdded
    <3>2. k \in 1 .. Len(events) \/ k = Len(events) + 1
      BY <3>1
    <3> QED
      BY <3>1, <3>2
  <2>4. Stable'
    BY <2>1, <2>2, <2>3 DEF Stable
  <2> QED
    BY <1>2, <2>4 DEF child_joins, Shown, build
<1>3. CASE child_leaves
  <2>1. PICK m \in children :
          /\ children' = children \ {m}
          /\ events' = Append(events, [type |-> "CHILD_DISCONNECTED", mac |-> m])
          /\ stable' = stable \ {m}
    BY <1>3 DEF child_leaves
  <2> DEFINE e == [type |-> "CHILD_DISCONNECTED", mac |-> m]
  <2>2. e \in Event /\ e.mac = m /\ events' = Append(events, e)
    BY <2>1 DEF Event, Types, MeshTypes
  <2> HIDE DEF e
  <2>3. ASSUME NEW k \in DOMAIN events'
        PROVE  events'[k] = e \/ (k \in DOMAIN events /\ events'[k] = events[k])
    <3>1. /\ Len(events) \in Nat /\ DOMAIN events = 1 .. Len(events)
          /\ k \in 1 .. Len(events) + 1
          /\ \A j \in 1 .. Len(events) : events'[j] = events[j]
          /\ events'[Len(events) + 1] = e
      BY <1>0, <2>2, EventAdded
    <3>2. k \in 1 .. Len(events) \/ k = Len(events) + 1
      BY <3>1
    <3> QED
      BY <3>1, <3>2
  <2>4. Stable'
    BY <2>1, <2>2, <2>3 DEF Stable
  <2>5. steady' \subseteq steady /\ UNCHANGED build
    BY <1>3 DEF child_leaves
  <2> QED
    BY <2>4, <2>5 DEF Shown, build
<1>4. CASE node_joins \/ node_leaves
  BY <1>4 DEF node_joins, node_leaves, Shown, Stable, build
<1>5. CASE mesh_event_handler
  <2>1. events # <<>> /\ events' = Tail(events) /\ UNCHANGED <<children, build, steady, stable>>
    BY <1>5 DEF mesh_event_handler, ss_mesh_tree_child_connected, ss_mesh_tree_child_disconnected
  <2>2. \A k \in DOMAIN events' : k + 1 \in DOMAIN events /\ events'[k] = events[k + 1]
    BY <1>0, <2>1, EventHandled
  <2> QED
    BY <2>1, <2>2 DEF Shown, Stable, build
<1>6. CASE tree_read
  <2>1. /\ read' \in Copied(routes)
        /\ tree' = [complete |-> IsComplete(Cardinality(routes) + 1), nodes |-> {}]
        /\ steady' = routes
        /\ stable' = {m \in children : \A k \in DOMAIN events : events[k].mac # m}
        /\ UNCHANGED <<children, events>>
    BY <1>6 DEF tree_read
  <2>2. tree'.complete => read' = routes
    BY <1>0, <2>1 DEF IsComplete, Copied
  <2> QED
    BY <2>1, <2>2 DEF Shown, Stable
<1>7. CASE tree_fill
  BY <1>7 DEF tree_fill, Shown, Stable
<1> QED
  BY <1>1, <1>2, <1>3, <1>4, <1>5, <1>6, <1>7 DEF Next, Mesh, ss_mesh_tree_build
-----------------------------------------------------------------------------
\* The invariant holds at the start and in every step.
LEMMA Invariant == Spec => []IInv
<1>1. Init => IInv
  <2> SUFFICES ASSUME Init PROVE IInv
    OBVIOUS
  <2> USE Numbers
  <2>1. IsFiniteSet({}) /\ Cardinality({}) = 0
    BY FS_EmptySet
  <2>2. TableTypes
    BY DEF Init, TableTypes
  <2>3. MeshTypes
    BY <2>1 DEF Init, MeshTypes
  <2>4. TreeTypes /\ HistoryTypes
    BY <2>1 DEF Init, TreeTypes, HistoryTypes, Tree
  <2>5. Distinct /\ Shown /\ Stable
    BY DEF Init, Distinct, Shown, Stable
  <2>6. InTable = {} /\ Len(events) = 0
    BY DEF Init, InTable
  <2> DEFINE h == [k \in 0 .. 0 |-> {}]
  <2>7. Past(h, children, events, InTable)
    BY <2>1, <2>6 DEF Init, Past
  <2> HIDE DEF h
  <2>8. History
    BY <2>7 DEF History
  <2> QED
    BY <2>2, <2>3, <2>4, <2>5, <2>8 DEF IInv, Types
<1>2. IInv /\ [Next]_vars => IInv'
  BY MeshTypesStep, TreeTypesStep, TableStep, BuildStep DEF IInv, Types
<1> QED
  BY <1>1, <1>2, PTL DEF Spec

\* What the last event about a node says is what the root has now: no event
\* after it changes that.  The first that would is none of them.
LEMMA LastEventDecides ==
  ASSUME NEW h, Past(h, children, events, InTable), events \in Seq(Event),
         NEW m \in Macs, NEW from \in 0 .. Len(events),
         \A k \in from + 1 .. Len(events) : events[k].mac # m
  PROVE  m \in children <=> m \in h[from]
<1> DEFINE wrong == {k \in 1 .. Len(events) : from <= k /\ ~(m \in h[k] <=> m \in h[from])}
<1>0. Len(events) \in Nat
  OBVIOUS
<1>1. SUFFICES ASSUME wrong # {} PROVE FALSE
  BY <1>0 DEF Past
<1>2. PICK k \in wrong : \A j \in wrong : k <= j
  BY <1>0, <1>1, Least
<1>3. k \in 1 .. Len(events) /\ from <= k /\ ~(m \in h[k] <=> m \in h[from])
  BY <1>2
<1>4. k # from /\ k - 1 >= from /\ k - 1 \in 0 .. Len(events) /\ k \in from + 1 .. Len(events)
  BY <1>0, <1>3
<1>5. h[k] = Applied(h[k - 1], events[k]) /\ events[k].mac # m
  BY <1>3, <1>4 DEF Past
<1>6. m \in h[k] <=> m \in h[k - 1]
  BY <1>5 DEF Applied
<1>7. CASE k - 1 = from
  BY <1>3, <1>6, <1>7
<1>8. CASE k - 1 # from
  <2>1. k - 1 \in wrong
    BY <1>0, <1>3, <1>4, <1>6, <1>8
  <2> QED
    BY <1>2, <1>3, <2>1
<1> QED
  BY <1>7, <1>8

\* With the past, the table and the events under way give the children.
LEMMA HistoryFollows == MeshTypes /\ History => TableFollowsChildren
<1> SUFFICES ASSUME MeshTypes, History, NEW m \in Macs
             PROVE  m \in children <=>
                      IF \E k \in DOMAIN events : events[k].mac = m
                      THEN LastEvent(m) = "CHILD_CONNECTED"
                      ELSE m \in InTable
  BY DEF TableFollowsChildren
<1>1. PICK h : Past(h, children, events, InTable)
  BY DEF History
<1>2. events \in Seq(Event) /\ Len(events) \in Nat /\ DOMAIN events = 1 .. Len(events)
  BY DEF MeshTypes
<1> DEFINE about == {k \in DOMAIN events : events[k].mac = m}
<1>3. CASE about = {}
  <2>1. \A k \in 0 + 1 .. Len(events) : events[k].mac # m
    BY <1>2, <1>3
  <2>2. m \in children <=> m \in h[0]
    BY <1>1, <1>2, <2>1, LastEventDecides
  <2> QED
    BY <1>1, <1>3, <2>2 DEF Past
<1>4. CASE about # {}
  <2> DEFINE last == Max(about)
  <2>1. last \in about /\ \A k \in about : k <= last
    BY <1>2, <1>4, Greatest
  <2> HIDE DEF last
  <2>2. last \in 1 .. Len(events) /\ events[last].mac = m
    BY <1>2, <2>1
  <2>3. \A k \in last + 1 .. Len(events) : events[k].mac # m
    BY <1>2, <2>1, <2>2
  <2>4. m \in children <=> m \in h[last]
    BY <1>1, <1>2, <2>2, <2>3, LastEventDecides
  <2>5. h[last] = Applied(h[last - 1], events[last])
    BY <1>1, <2>2 DEF Past
  <2>6. m \in h[last] <=> events[last].type = "CHILD_CONNECTED"
    BY <2>2, <2>5 DEF Applied
  <2>7. LastEvent(m) = events[last].type
    BY DEF LastEvent, last
  <2> QED
    BY <1>4, <2>4, <2>6, <2>7
<1> QED
  BY <1>3, <1>4

\* No child is lost or left over in the table, and none finds it full, for any
\* number of slots and nodes and however many events are under way
\* (ss_mesh_tree.c:34-61).
THEOREM FollowsHolds == Spec => []TableFollowsChildren
<1>1. IInv => TableFollowsChildren
  BY HistoryFollows DEF IInv, Types
<1> QED
  BY <1>1, Invariant, PTL

\* A child that connects twice has one slot (ss_mesh_tree.c:34-49).
THEOREM OneSlotHolds == Spec => []OneSlotPerChild
<1>1. ASSUME IInv, NEW m \in Macs PROVE Cardinality(SlotsOf(m)) <= 1
  <2>1. \A i, j \in SlotsOf(m) : i = j
    BY <1>1 DEF IInv, Distinct, SlotsOf
  <2>2. SlotsOf(m) = {} \/ \E i : SlotsOf(m) = {i}
    BY <2>1
  <2>3. SlotsOf(m) = {} => Cardinality(SlotsOf(m)) = 0
    BY FS_EmptySet
  <2>4. (\E i : SlotsOf(m) = {i}) => Cardinality(SlotsOf(m)) = 1
    BY FS_Singleton
  <2> QED
    BY <2>2, <2>3, <2>4
<1>2. IInv => OneSlotPerChild
  BY <1>1 DEF OneSlotPerChild
<1> QED
  BY <1>2, Invariant, PTL

\* Every variable keeps its type; a tree never exceeds its array.
THEOREM TypeCorrect == Spec => []TypeOK
<1>1. IInv => TypeOK
  BY DEF IInv, Types, TableTypes, MeshTypes, TreeTypes, HistoryTypes, TypeOK
<1> QED
  BY <1>1, Invariant, PTL

\* A tree said to be complete shows all nodes that had a route since the build
\* started (ss_mesh_tree.c:70-95).
THEOREM CompleteHolds == Spec => CompleteShowsAll
<1>1. IInv /\ [Next]_vars =>
        [tree_fill /\ tree.complete => steady \subseteq {n.mac : n \in tree'.nodes}]_vars
  <2> SUFFICES ASSUME IInv, tree_fill, tree.complete
               PROVE  steady \subseteq {n.mac : n \in tree'.nodes}
    OBVIOUS
  <2>1. steady \subseteq read
    BY DEF IInv, Shown, tree_fill
  <2>2. tree'.nodes = {[mac |-> m, direct_child |-> IsDirect(m)] : m \in read}
    BY DEF tree_fill, IInv, Types, TreeTypes, Tree
  <2>3. ASSUME NEW m \in steady PROVE m \in {n.mac : n \in tree'.nodes}
    <3> DEFINE n == [mac |-> m, direct_child |-> IsDirect(m)]
    <3>1. n \in tree'.nodes
      BY <2>1, <2>2, <2>3
    <3>2. n.mac = m
      OBVIOUS
    <3> HIDE DEF n
    <3> QED
      BY <3>1, <3>2
  <2> QED
    BY <2>3
<1> QED
  BY <1>1, Invariant, PTL DEF Spec, CompleteShowsAll

\* A node that was a child all the while is marked as a direct child, and one
\* that is marked is a child or has an event under way (ss_mesh_tree.c:83-95).
THEOREM DirectHolds == Spec => DirectIsKnown
<1> DEFINE Known ==
      tree_fill => \A n \in tree'.nodes :
        /\ n.mac \in stable => n.direct_child
        /\ n.direct_child => \/ n.mac \in children
                             \/ \E k \in DOMAIN events : events[k].mac = n.mac
<1>1. IInv /\ [Next]_vars => [Known]_vars
  <2> SUFFICES ASSUME IInv, tree_fill, NEW n \in tree'.nodes
               PROVE  /\ n.mac \in stable => n.direct_child
                      /\ n.direct_child => \/ n.mac \in children
                                           \/ \E k \in DOMAIN events : events[k].mac = n.mac
    OBVIOUS
  <2>1. tree'.nodes = {[mac |-> m, direct_child |-> IsDirect(m)] : m \in read}
    BY DEF tree_fill, IInv, Types, TreeTypes, Tree
  <2>2. PICK m \in read : n = [mac |-> m, direct_child |-> IsDirect(m)]
    BY <2>1
  <2>3. m \in Macs /\ n.mac = m /\ (n.direct_child <=> m \in InTable)
    BY <2>2 DEF IsDirect, InTable, SlotsOf, IInv, Types, TreeTypes
  <2>4. m \in children <=>
          IF \E k \in DOMAIN events : events[k].mac = m
          THEN LastEvent(m) = "CHILD_CONNECTED"
          ELSE m \in InTable
    BY <2>3, HistoryFollows DEF TableFollowsChildren, IInv, Types
  <2>5. m \in stable => m \in children /\ \A k \in DOMAIN events : events[k].mac # m
    BY DEF IInv, Stable
  <2> QED
    BY <2>3, <2>4, <2>5
<1> QED
  BY <1>1, Invariant, PTL DEF Spec, DirectIsKnown
=============================================================================
