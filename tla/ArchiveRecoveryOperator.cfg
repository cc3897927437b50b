SPECIFICATION Spec
CONSTANTS
  Executions = {w1}
  Nobody = nobody
  N = 1
  Limit <- Operated
CHECK_DEADLOCK FALSE
INVARIANTS
  StoppedIsQuiescent
  StatusesAgree
  DirtyEvidenceIsGuarded
