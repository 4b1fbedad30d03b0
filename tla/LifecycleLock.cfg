SPECIFICATION Spec
CONSTANTS
  Namespaces = {n1}
  Workers = {w1, w2}
  Nodes = {k1}
  UIDs = {u1}
  NoUid = NoUid
  Kinds = {"deploy", "clear", "configure", "summary"}
  Faults = {"crash", "api", "db", "stuck"}
  Serial = FALSE
  MaxRequests = 3
  MaxBorn = 1
SYMMETRY Symmetric
INVARIANT TypeOK
INVARIANT OneOperation
INVARIANT DeployFindsNothing
PROPERTY OneBuilder
CHECK_DEADLOCK FALSE
