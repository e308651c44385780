\* Three nodes; two fit below the root, and a tree has room for two routes.
CONSTANTS
  Macs = {m1, m2, m3}
  CONFIG_MESH_AP_CONNECTIONS = 2
  CONFIG_MESH_ROUTE_TABLE_SIZE = 2
  EventsLength = 2
SPECIFICATION Spec
INVARIANTS
  TypeOK
  OneSlotPerChild
  TableFollowsChildren
PROPERTIES
  CompleteShowsAll
  DirectIsKnown
