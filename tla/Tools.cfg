SPECIFICATION Spec
CONSTANTS
  a = a
  b = b
  c1 = c1
  d = d
  e = e
  r1 = r1
  r2 = r2
  Runs = {r1, r2}
  Pods = {a, b, c1, d, e}
  Routers = {c1, e}
  Scenarios <- MCScenarios
  Outside = Outside
  None = None
  Ports = {1, 2}
  MaxConsecutiveTraceTimeouts = 2
  MaxTTL = 3
  Faults = {"exec", "slow", "kill"}
INVARIANT PathsReal
INVARIANT OutcomeTold
INVARIANT ProgramsAccounted
PROPERTY RunsEnd
CHECK_DEADLOCK FALSE
