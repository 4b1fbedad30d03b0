SPECIFICATION Spec
CONSTANTS
  Namespaces = {n1, n2}
  Workers = {w1}
  Nodes = {k1}
  UIDs = {u1, u2}
  NoUid = NoUid
  Kinds = {"deploy", "clear", "summary"}
  Faults = {"crash", "stuck"}
  Serial = TRUE
  MaxRequests = 3
  MaxBorn = 1
INVARIANT UIDsUnique
INVARIANT ClearRemovesTopology
PROPERTY LockFreed
CHECK_DEADLOCK FALSE
