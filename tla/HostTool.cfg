\* A tool that cannot load its file has ended: the model stops there.
\* Two threads, two teams and three changes; a write fails, and the tool crashes.
CONSTANTS
  Uuids = {u1, u2}
  BAD = BAD
  Handlers = {h1, h2}
  NoHandler = NoHandler
  MaxChanges = 3
  MaxFailures = 1
  MaxCrashes = 1
SYMMETRY Symmetry
SPECIFICATION Spec
INVARIANTS
  TypeOK
  FileFollowsTable
  AckedIsSaved
  StartsAgain
CHECK_DEADLOCK FALSE
