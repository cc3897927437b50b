SPECIFICATION FairSpec
CONSTANTS
  Executions = {w1, w2}
  Nobody = nobody
  N = 1
  Limit <- Crashes
CHECK_DEADLOCK FALSE
INVARIANTS
  ReservationCoversIO
PROPERTIES
  StopSettles
  RunningSettles
  VerificationSettles
