SPECIFICATION Spec
CONSTANTS
  Executions = {w1, w2}
  Nobody = nobody
  N = 2
  Limit <- Passes
SYMMETRY Symmetry
CHECK_DEADLOCK FALSE
INVARIANTS
  PassAccounting
  CompletedIsWhole
