------------------------ MODULE MCRecoveryCheckpoint ------------------------
(* RecoveryCheckpoint on small instances: two sectors of two storage units *)
(* each, three revisions (two batches), one process id.  Each .cfg bounds  *)
(* the interruptions and names its properties.                             *)
EXTENDS RecoveryCheckpoint
=============================================================================
