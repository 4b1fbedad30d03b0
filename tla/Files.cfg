SPECIFICATION Spec
CONSTANTS
  Paths <- MCPaths
  Sanitized <- MCSanitized
  Contents = {x, y}
  Bad = Bad
  Dir = Dir
  None = None
  Nodes = {n, m}
  Users = {u, v}
  Topo = t
  Faults = {"api", "db"}
  MaxRequests = 4
SYMMETRY Symmetry
INVARIANT MountsSound
INVARIANT OneKind
INVARIANT SyncedIsCurrent
CHECK_DEADLOCK FALSE
