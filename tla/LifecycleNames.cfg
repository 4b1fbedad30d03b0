SPECIFICATION Spec
CONSTANTS
  Namespaces = {n1}
  Workers = {w1}
  Nodes = {k1}
  UIDs = {u1}
  NoUid = NoUid
  Kinds = {"deploy", "clear", "configure", "create", "delete"}
  Faults = {"loss"}
  Serial = TRUE
  MaxRequests = 5
  MaxBorn = 2
SYMMETRY Symmetric
INVARIANT HistoryOfThisDeploy
CHECK_DEADLOCK FALSE
