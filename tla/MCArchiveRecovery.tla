------------------------- MODULE MCArchiveRecovery -------------------------
(* Bounds for ArchiveRecovery: how often each disturbance may happen.      *)
EXTENDS ArchiveRecovery, TLC

Once(budgets) == [b \in Budgets |-> IF b \in budgets THEN 1 ELSE 0]

(* What happens to passes: an execution dies, one stalls past its lease.   *)
Passes == Once({"crash", "stall"})

(* What an operator does around one execution that may die and stall.      *)
Operated == Once({"crash", "stall", "resume", "reconcile", "reconStall",
                  "preview", "insert"})

(* Nobody stalls, so that the liveness of stops and passes is at stake.    *)
Crashes == Once({"crash", "overrun"})

(* The three disagreements between the code and its documents.             *)
Undisturbed == Once({})
StalledPass == Once({"stall"})
StalledReconciler == Once({"reconcile", "reconStall"})

Symmetry == Permutations(Executions)
=============================================================================
