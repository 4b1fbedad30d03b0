SPECIFICATION Spec
CONSTANTS
  Jobs = {j1}
  Restarters = {r1}
  Actions <- LinkActions
  NoState = ""
  Unset = "unset"
  Desc <- MCDesc
  Requests <- LinkRequests
  Fits <- AllFit
  Guest = TRUE
  Serial = FALSE
  Faults = {"loss", "crash", "slow", "timeout","transient","db","api"}
  Resolution = 1
  MaxAttempts = 2
  MaxRequests = 3
  MaxLosses = 1
INVARIANT ReplaySettlesOwnRows
PROPERTY PruneAfterRetries
PROPERTY RequestsEnd
CHECK_DEADLOCK FALSE
