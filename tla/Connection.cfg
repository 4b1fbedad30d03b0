SPECIFICATION Spec
CONSTANTS
  c1 = c1
  c2 = c2
  Clusters = {c1, c2}
  Contexts = {"lab", "prod"}
  Kubeconfigs <- MCKubeconfigs
  None = None
  Switchers = {s1, s2}
  Users = {u1, u2}
  Unreachable = {c2}
  MaxRequests = 4
INVARIANT IDsOfTheirCluster
INVARIANT ContextsOfTheirCluster
CHECK_DEADLOCK FALSE
