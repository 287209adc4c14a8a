SPECIFICATION AgentSpec
INVARIANT ObservationOfOneEpoch
CONSTANTS
  MaxCounter = 3
  Profiles <- MCProfiles
  MaxAttempts = 2
  TotalBudget = 2
  FailuresToOpen = 2
  SuccessesToClose = 1
  RequirePrice = FALSE
  Requests <- MCRequests
  MaxCalls = 2
  MaxEpoch = 1
  a = a
  b = b
  w = w
  Lag = 0
CHECK_DEADLOCK FALSE
