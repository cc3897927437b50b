SPECIFICATION Spec
CONSTANTS
  Executions = {w1}
  Nobody = nobody
  N = 2
  Limit <- Undisturbed
CHECK_DEADLOCK FALSE
INVARIANTS
  FinishedPassContinues
