SPECIFICATION Spec
CONSTANTS
  a = a
  b = b
  g = g
  ab = ab
  bg = bg
  w1 = w1
  w2 = w2
  Pods = {a, b, g}
  Guests = {g}
  Links = {ab, bg}
  Joins <- MCJoins
  Workers = {w1, w2}
  Worker <- MCWorker
  Cap <- MCCap
  VethMTU = 1500
  Target = 1450
  Explicit = FALSE
  Extra <- MCExtra
  Named <- MCNamed
  Asked = {0, 1300}
  Procs = {p, q}
  Kinds = {"restart", "heal", "configure", "deploy"}
  Faults = {"crash", "list", "attrs", "read", "history", "write", "guest"}
  Given <- MCGiven
  MaxEvents = 2
SYMMETRY Symmetry
INVARIANT PassInForce
INVARIANT LoweringJustified
INVARIANT TwoRoundsEnough
CHECK_DEADLOCK FALSE
