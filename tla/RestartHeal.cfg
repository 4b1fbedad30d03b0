SPECIFICATION Spec
CONSTANTS
  a = a
  s = s
  g = g
  as = as
  sg = sg
  up = up
  Pods <- MCPods
  Rank <- MCRank
  Type <- MCType
  Guests = {g}
  Links = {as, sg, up}
  Ends <- MCEnds
  Tunnels = {sg}
  Broken <- MCBroken
  Ops <- MCOps
  Targets <- MCAll
  Restarters = {r1, r2}
  Healers = {h}
  MaxRounds = 2
  Overlap = FALSE
  Faults = {"timeout", "unwired", "api"}
  MaxRequests = 2
INVARIANT OneSideSkips
INVARIANT CleanRename
INVARIANT NetworkRestored
PROPERTY RequestsEnd
CHECK_DEADLOCK FALSE
