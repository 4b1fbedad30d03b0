SPECIFICATION Spec
CONSTANTS
  Jobs = {j1}
  Restarters = {r1}
  Actions <- AllActions
  NoState = ""
  Unset = "unset"
  Desc <- MCDesc
  Requests <- MixRequests
  Fits <- MixedFit
  Guest = FALSE
  Serial = TRUE
  Faults = {"loss", "slow", "transient"}
  Resolution = 1
  MaxAttempts = 4
  MaxRequests = 3
  MaxLosses = 1
INVARIANT TypeOK
INVARIANT HistoryIsLastWord
INVARIANT ReplayRestores
INVARIANT NoMasking
INVARIANT OneRowPerState
CHECK_DEADLOCK FALSE
