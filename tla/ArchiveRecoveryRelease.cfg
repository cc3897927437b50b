SPECIFICATION Spec
CONSTANTS
  Executions = {w1, w2}
  Nobody = nobody
  N = 1
  Limit <- StalledReconciler
SYMMETRY Symmetry
CHECK_DEADLOCK FALSE
INVARIANTS
  ReservationCoversIO
