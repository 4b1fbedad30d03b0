SPECIFICATION ShapingSpec
CONSTANTS
  a = a
  b = b
  ab = ab
  up = up
  voice = voice
  bulk = bulk
  Pods = {a, b}
  Links = {ab, up}
  Joins <- MCJoins
  Entries <- MCEntries
  Reverses <- MCReverses
  Named <- MCNamed
  Packets = {voice, bulk}
  Images <- MCImages
  None = None
  Tools = {t}
  ToolPod <- MCToolPod
  Faults = {"tc", "pull", "look"}
  MaxRequests = 2
INVARIANT KernelAsRecorded
INVARIANT FirstMatchWins
INVARIANT ValidIsAccepted
INVARIANT OneToolbox
CHECK_DEADLOCK FALSE
