SPECIFICATION Spec
CONSTANTS
  Nodes <- MCNodes
  Qemu = {"r"}
  Links <- MCLinks
  Ends <- MCEnds
  File <- MCFile
  NoCount = NoCount
  Start <- MCStart
  Requests <- MCRequests
  Faults = {"api"}
  MaxReplicas = 2
  MaxRequests = 2
INVARIANT ModifyTakesEffect
INVARIANT SharedMountsKept
PROPERTY BothEndsBeforeStart
PROPERTY NoInheritedHistory
CHECK_DEADLOCK FALSE
