-------------------------- MODULE ArchiveRecovery --------------------------
(***************************************************************************)
(* Who may recover one archive, and when.                                  *)
(*                                                                         *)
(* Worker executions share a SQLite catalog.  Each runs three pollers side *)
(* by side: the recovery pass (dvd-recovery-worker), disc verification     *)
(* (dvd-disc-verifier) and reconciliation (dvd-recovery-reconciliation-    *)
(* worker).  An operator submits, confirms, resumes, stops and reconciles. *)
(* Every action is one database transaction, or one step between two       *)
(* awaits, of one of them; pollers interleave, stall past their leases,    *)
(* and die together with their process.                                    *)
(*                                                                         *)
(* Claim tokens are not numbered: by names the execution whose poller      *)
(* still holds the current token, Nobody when no poller does.  Only the    *)
(* latest verification is kept; an earlier one matters only as what a      *)
(* reservation is bound to.  What a batch and a repair do to the files is  *)
(* RecoveryCheckpoint; here evidence keeps how far the last batch got.     *)
(***************************************************************************)
EXTENDS Naturals

CONSTANTS
  Executions,   \* worker executions
  Nobody,       \* holder of a claim whose token no poller holds
  N,            \* unrecovered sectors at the start
  Limit         \* bounds, see Budgets

Budgets == {"crash", "stall", "reconStall", "resume", "reconcile", "preview",
            "insert", "overrun"}

ASSUME RecoveryConstants ==
  /\ Nobody \notin Executions
  /\ N \in Nat \ {0}
  /\ Limit \in [Budgets -> Nat]

VARIABLES
  rec,       \* archive_recoveries row
  work,      \* archive_recovery_work row: the reservation
  left,      \* unrecovered sectors of the projected checkpoint
  ver,       \* latest dvd_disc_verifications row, with its confirmation
  recon,     \* latest dvd_recovery_reconciliations row
  disc,      \* insertion: "none", "verified" (that of ver) or "new"
  preview,   \* damage preview holding the recovery: "none", "pending", "reading"
  evidence,  \* evidence files, see EvidenceStates
  orphans,   \* helpers that outlived their execution: "device", "image"
  run,       \* what each execution's pollers are doing
  used       \* how much of each budget is spent

vars == <<rec, work, left, ver, recon, disc, preview, evidence, orphans, run,
          used>>

Holders  == Executions \union {Nobody}
Statuses == {"eligible", "waiting_for_disc", "running", "paused", "stopping",
             "stopped", "faulted", "completed"}

(* "undo": journal reserved, image perhaps written; "recovered", "failed": *)
(* pointer replaced, database behind; "spent": projected, journal left.    *)
EvidenceStates == {"clean", "undo", "recovered", "failed", "spent"}
Outcomes == {"recovered", "failed"}

(* Pass poller.  "stopping" calls prepareStop; then a stop or a takeover   *)
(* locks the device, repairs the checkpoint, and finishes.                 *)
PassSteps == {"down", "idle", "load", "next", "ready", "reading", "read",
              "batch", "settle", "failing", "stopping",
              "stop_device", "stop_repair", "stop_done",
              "take_device", "take_repair", "take_done"}
Faults == {"none", "changed", "stale", "fault", "retained", "storage",
           "unsupported", "preview"}

NoWork == [status |-> "none", bound |-> "none", conf |-> FALSE, by |-> Nobody,
           fresh |-> FALSE, started |-> FALSE, start |-> 0, recovered |-> 0,
           failed |-> 0, admitted |-> FALSE]
NoVerification == [status |-> "none", outcome |-> "none", by |-> Nobody,
                   fresh |-> FALSE, conf |-> "none", base |-> FALSE,
                   attempt |-> 0, admitted |-> FALSE]
NoReconciliation == [status |-> "none", by |-> Nobody, fresh |-> FALSE]
IdlePass == [pc |-> "idle", attempt |-> 0, conf |-> FALSE, out |-> "none",
             fault |-> "none", locked |-> FALSE]
Quiet == [pass |-> IdlePass, verify |-> "idle", reconcile |-> "idle"]

(* One type invariant: the values every row and poller can have.           *)
TypeOK ==
  /\ rec \in [status : Statuses, pause : {"none", "no_progress", "storage_fault"},
              attempt : 1..Limit["resume"] + 1]
  /\ work \in [status : {"none", "requested", "claimed"},
               bound : {"none", "latest", "older"}, conf : BOOLEAN,
               by : Holders, fresh : BOOLEAN, started : BOOLEAN,
               start : 0..N, recovered : 0..N, failed : 0..N,
               admitted : BOOLEAN]
  /\ left \in 0..N
  /\ ver \in [status : {"none", "queued", "running", "completed", "failed"},
              outcome : {"none", "match", "uncertain", "interrupted"},
              by : Holders, fresh : BOOLEAN,
              conf : {"none", "live", "expired"}, base : BOOLEAN,
              attempt : 0..Limit["resume"] + 1, admitted : BOOLEAN]
  /\ recon \in [status : {"none", "queued", "running", "completed", "failed"},
                by : Holders, fresh : BOOLEAN]
  /\ disc \in {"none", "verified", "new"}
  /\ preview \in {"none", "pending", "reading"}
  /\ evidence \in EvidenceStates
  /\ orphans \subseteq {"device", "image"}
  /\ run \in [Executions ->
                [pass : [pc : PassSteps, attempt : 0..Limit["resume"] + 1,
                         conf : BOOLEAN, out : Outcomes \union {"none"},
                         fault : Faults, locked : BOOLEAN],
                 verify : {"idle", "claimed", "owned", "sampling"},
                 reconcile : {"idle", "claimed", "repaired", "released"}]]
  /\ used \in [Budgets -> Nat] /\ \A b \in Budgets : used[b] <= Limit[b]

Init ==
  /\ rec = [status |-> "eligible", pause |-> "none", attempt |-> 1]
  /\ work = NoWork /\ left = N
  /\ ver = NoVerification /\ recon = NoReconciliation
  /\ disc \in {"none", "new"}
  /\ preview = "none" /\ evidence = "clean" /\ orphans = {}
  /\ run = [w \in Executions |-> Quiet]
  /\ used = [b \in Budgets |-> 0]

(***************************************************************************)
(* Shared predicates and updates.                                          *)
(***************************************************************************)
Spend(b) == /\ used[b] < Limit[b]
            /\ used' = [used EXCEPT ![b] = @ + 1]

At(w, step) == run[w].pass.pc = step
Become(w, pass) == run' = [run EXCEPT ![w].pass = pass]
Go(w, step) == Become(w, [run[w].pass EXCEPT !.pc = step])
Fail(w, f)  == Become(w, [run[w].pass EXCEPT !.pc = "failing", !.fault = f,
                                             !.out = "none"])
ToIdle(w)   == Become(w, IdlePass)

(* requireCurrentArchiveRecoveryClaim: w's token is the current one.       *)
HasClaim(w) == work.status = "claimed" /\ work.by = w
HasVerification(w)   == ver.status = "running" /\ ver.by = w
HasReconciliation(w) == recon.status = "running" /\ recon.by = w

(* A poller that returns without releasing forgets its token.              *)
Abandoned(w) == IF HasClaim(w) THEN [work EXCEPT !.by = Nobody] ELSE work
Dismiss(w)   == ToIdle(w) /\ work' = Abandoned(w)

(* Slip: only a reconciliation under way counts, not a failed one.       *)
NoActiveReconciliation == recon.status \notin {"queued", "running"}
NoPendingReconciliation == recon.status \in {"none", "completed"}
ActiveVerification == ver.status \in {"queued", "running"}
Resumed == rec.attempt > 1
Todo == work.start - (work.recovered + work.failed)

(* Image ownership: exclusive for a batch (kept by its orphaned helper),   *)
(* shared for a verification; a conflict is refused at once.  A preview    *)
(* takes the head of the admission queue, and whoever comes waits for it.  *)
ImageWritten == "image" \in orphans \/ \E w \in Executions : At(w, "batch")
ImageRead == \E w \in Executions : run[w].verify \in {"owned", "sampling"}
ImageFree == ~ImageWritten /\ ~ImageRead
ImageTurn == preview # "reading"

(* A source helper that may read, one that waits for the word, or a lock   *)
(* that proves there is none; the last two end with their execution.       *)
Doing(w) == run[w].pass.pc \in {"reading", "batch"}
Reads(w) == At(w, "reading") \/ run[w].verify = "sampling"
UsesDevice(w) == Reads(w) \/ At(w, "ready") \/ run[w].pass.locked
DeviceFree == "device" \notin orphans /\ \A w \in Executions : ~UsesDevice(w)

(* expireInvalidDvdDiscConfirmations, called by execution w.  Once the     *)
(* execution of a claimed confirmation is dead (by is Nobody twice) nobody *)
(* can use it any more, whether it counts as bound to the claim or not.    *)
ConfirmationInvalid(w) ==
  \/ ver.attempt # rec.attempt \/ ver.status # "completed"
  \/ ver.by # w /\ ~(/\ work.status = "claimed" /\ work.conf /\ work.fresh
                     /\ work.bound = "latest" /\ work.by = ver.by)
  \/ disc # "verified"
  \/ ~ver.base /\ ~(work.conf /\ work.bound = "latest")
Confirmed(w) == ver.conf = "live" /\ ~ConfirmationInvalid(w)

(* insertQueuedDvdDiscVerification.                                        *)
Queued(base) ==
  [NoVerification EXCEPT !.status = "queued", !.base = base,
     !.attempt = rec'.attempt,
     !.admitted = ver.admitted /\ ver.attempt = rec'.attempt]

(* Slip: a claimed pass does not count what a repair projects.           *)
ProjectUncounted(outcome) ==
  /\ left' = left - (IF outcome = "recovered" THEN 1 ELSE 0)
  /\ ver' = [ver EXCEPT !.base = FALSE]
  /\ UNCHANGED <<rec, work>>

(* projectDvdRecoveryCheckpoint: the next checkpoint enters the database,  *)
(* and the claimed pass, if there is one, counts its observation.          *)
Project(outcome) ==
  LET hit == IF outcome = "recovered" THEN 1 ELSE 0 IN
  /\ left' = left - hit
  /\ ver' = [ver EXCEPT !.base = FALSE]
  /\ work' = IF work.status = "claimed"
             THEN [work EXCEPT !.recovered = @ + hit, !.failed = @ + (1 - hit)]
             ELSE work
  /\ rec' = IF rec.status \in {"stopping", "faulted", "paused"} THEN rec
            ELSE [rec EXCEPT !.status =
                    IF work.status = "claimed" THEN "running"
                    ELSE IF left' = 0 THEN "completed" ELSE "eligible"]

(* Statuses from which a checkpoint may still be projected.                *)
Projectable == \/ rec.status \in {"eligible", "running", "stopping", "faulted"}
               \/ rec.status = "paused" /\ rec.pause = "storage_fault"

(* reconcileDvdRecoveryCheckpoint under exclusive ownership: roll back an  *)
(* uncommitted batch, project a committed one, drop the journal.           *)
Repair ==
  /\ evidence' = "clean"
  /\ IF evidence \in Outcomes
     THEN Projectable /\ Project(evidence)
     ELSE UNCHANGED <<rec, work, left, ver>>

(* Slip: complete once every sector was tried.                           *)
RequeueWhenTried(w) ==
  IF Todo = 0
  THEN /\ work' = NoWork
       /\ rec' = [rec EXCEPT !.status = "completed"]
  ELSE /\ work' = [work EXCEPT !.status = "requested", !.by = Nobody]
       /\ rec' = [rec EXCEPT !.status = "eligible"]

(* archiveRecoveryCompletionAfterInterruption and requeue: the pass keeps  *)
(* its position; a checkpoint with nothing left completes the recovery.    *)
Requeue(w) ==
  IF left = 0
  THEN /\ work' = NoWork
       /\ rec' = [rec EXCEPT !.status = "completed"]
  ELSE /\ work' = [work EXCEPT !.status = "requested", !.by = Nobody,
                               !.fresh = FALSE, !.admitted = FALSE]
       /\ rec' = [rec EXCEPT !.status = "eligible"]

(***************************************************************************)
(* The recovery pass: pollDvdRecoveryPass.                                 *)
(***************************************************************************)

(* Polling as w expires the confirmation it may not use.                   *)
ExpireConfirmation(w) ==
  /\ At(w, "idle") /\ ver.conf = "live" /\ ConfirmationInvalid(w)
  /\ ver' = [ver EXCEPT !.conf = "expired"]
  /\ UNCHANGED <<rec, work, left, recon, disc, preview, evidence, orphans, run,
                 used>>

(* claimNextVerifiedCandidate.                                             *)
Claim(w) ==
  /\ At(w, "idle")
  /\ rec.status = "eligible" /\ work.status # "claimed"
  /\ preview = "none" /\ NoPendingReconciliation
  /\ ver.status = "completed" /\ ver.attempt = rec.attempt
  /\ ver.outcome = "match" \/ Confirmed(w)
  /\ \/ ver.base
     \/ /\ work.status = "requested" /\ work.bound = "latest"
        /\ work.conf = (ver.outcome # "match")
  /\ work' = [work EXCEPT
                !.status = "claimed", !.bound = "latest",
                !.conf = ver.outcome # "match", !.by = w, !.fresh = TRUE,
                !.started = TRUE, !.start = IF work.started THEN @ ELSE left]
  /\ rec' = [rec EXCEPT !.status = "running"]
  /\ Become(w, [IdlePass EXCEPT !.pc = "load", !.attempt = rec.attempt,
                                 !.conf = ver.outcome # "match"])
  /\ UNCHANGED <<left, ver, recon, disc, preview, evidence, orphans, used>>

(* readDvdCheckpoint: refused while evidence is unsettled or being written.*)
Load(w) ==
  /\ At(w, "load") /\ ImageTurn
  /\ IF evidence = "clean" /\ ~ImageWritten THEN Go(w, "next")
     ELSE Fail(w, "fault")
  /\ UNCHANGED <<rec, work, left, ver, recon, disc, preview, evidence, orphans,
                 used>>

(* The top of the sector loop, and the check after each batch; a renewal   *)
(* that was refused (no longer running, claim lost) is noticed here.       *)
NextSector(w) ==
  /\ At(w, "next")
  /\ \/ rec.attempt # run[w].pass.attempt /\ Fail(w, "changed")
     \/ /\ rec.attempt = run[w].pass.attempt
        /\ \/ rec.status = "stopping" /\ Go(w, "stopping")
           \/ rec.status # "running" /\ Fail(w, "changed")
           \/ /\ rec.status = "running" /\ ~HasClaim(w)
              /\ \E f \in {"changed", "fault"} : Fail(w, f)
           \/ /\ rec.status = "running" /\ HasClaim(w)
              /\ \/ Todo = 0 /\ Go(w, "settle")
                 \/ Todo # 0 /\ preview # "none" /\ Fail(w, "preview")
                 \/ /\ Todo # 0 /\ preview = "none"
                    /\ disc # "verified" /\ Fail(w, "changed")
                 \/ /\ Todo # 0 /\ preview = "none" /\ disc = "verified"
                    /\ IF DeviceFree THEN Go(w, "ready") ELSE Fail(w, "fault")
  /\ UNCHANGED <<rec, work, left, ver, recon, disc, preview, evidence, orphans,
                 used>>

(* admitSourceRead: the helper holds the device and waits for the word.    *)
Admit(w) ==
  LET refusal == IF ~HasClaim(w) \/ rec.status # "running" THEN "fault"
                 ELSE IF preview # "none" THEN "preview"
                 ELSE IF ~NoPendingReconciliation THEN "fault"
                 ELSE IF disc # "verified" \/ (work.conf /\ ~Confirmed(w))
                 THEN "changed" ELSE "none"
  IN
  /\ At(w, "ready")
  /\ ver' = IF HasClaim(w) /\ work.conf /\ ver.conf = "live" /\ ~Confirmed(w)
            THEN [ver EXCEPT !.conf = "expired"] ELSE ver
  /\ IF refusal = "none"
     THEN Go(w, "reading") /\ work' = [work EXCEPT !.admitted = TRUE]
     ELSE Fail(w, refusal) /\ UNCHANGED work
  /\ UNCHANGED <<rec, left, recon, disc, preview, evidence, orphans, used>>

(* waitForRead: the helper ends or is cancelled by a stop, and is closed.  *)
EndRead(w) ==
  /\ At(w, "reading")
  /\ \/ rec.attempt # run[w].pass.attempt /\ Fail(w, "changed")
     \/ /\ rec.attempt = run[w].pass.attempt
        /\ \/ rec.status = "stopping" /\ Go(w, "stopping")
           \/ /\ rec.status # "stopping"
              /\ \/ disc # "verified" /\ Fail(w, "changed")
                 \/ disc = "verified" /\ Fail(w, "fault")
                 \/ /\ disc = "verified"
                    /\ \E o \in Outcomes :
                         Become(w, [run[w].pass EXCEPT !.pc = "read", !.out = o])
  /\ UNCHANGED <<rec, work, left, ver, recon, disc, preview, evidence, orphans,
                 used>>

(* assertRecoveryWriteAuthority.                                           *)
Authorized(w) ==
  /\ HasClaim(w) /\ rec.attempt = run[w].pass.attempt
  /\ work.bound = "latest" /\ ver.status = "completed" /\ disc = "verified"
  /\ work.conf = run[w].pass.conf
  /\ IF work.conf THEN ver.conf = "live" /\ ver.by = w ELSE ver.outcome = "match"

(* commitDvdRecoveryBatch up to its first step.                            *)
BeginBatch(w) ==
  /\ At(w, "read") /\ ImageTurn
  /\ IF ~HasClaim(w) THEN Fail(w, "fault")
     ELSE IF ~Authorized(w) THEN Fail(w, "stale")
     ELSE IF ~ImageFree THEN Fail(w, "retained")
     ELSE IF \/ rec.status \notin {"running", "stopping"}
             \/ ~NoPendingReconciliation \/ evidence # "clean"
     THEN Fail(w, "fault")
     ELSE Go(w, "batch") \/ Fail(w, "unsupported")
  /\ UNCHANGED <<rec, work, left, ver, recon, disc, preview, evidence, orphans,
                 used>>

(* The batch's next step on the files, when the database is not concerned. *)
NextEvidence(w) == CASE evidence = "clean" ->
                          IF run[w].pass.out = "recovered" THEN "undo" ELSE "failed"
                     [] evidence = "undo"  -> "recovered"
                     [] OTHER              -> evidence

EndBatch(w) == Become(w, [run[w].pass EXCEPT !.pc = "next", !.out = "none"])

(* One step of runOwnedBatch: its checks, then its work.  A check that     *)
(* fails before the work gives the reservation up.                         *)
BatchStep(w) ==
  /\ At(w, "batch")
  /\ IF ~Authorized(w)
     THEN /\ Fail(w, IF HasClaim(w) THEN "stale" ELSE "fault")
          /\ UNCHANGED <<rec, work, left, ver, evidence>>
     ELSE \/ /\ evidence \in {"clean", "undo"}
             /\ evidence' = NextEvidence(w)
             /\ UNCHANGED <<rec, work, left, ver, run>>
          \/ /\ evidence \in Outcomes
             /\ Project(evidence)
             /\ IF evidence = "recovered"
                THEN evidence' = "spent" /\ UNCHANGED run
                ELSE evidence' = "clean" /\ EndBatch(w)
          \/ /\ evidence = "spent" /\ evidence' = "clean"
             /\ EndBatch(w)
             /\ UNCHANGED <<rec, work, left, ver>>
  /\ UNCHANGED <<recon, disc, preview, orphans, used>>

(* A step fails once its work has begun: the reservation is kept.          *)
BatchStepFails(w) ==
  /\ At(w, "batch") /\ Authorized(w)
  /\ evidence' \in {evidence, NextEvidence(w)}
  /\ \E f \in {"retained", "storage"} : Fail(w, f)
  /\ UNCHANGED <<rec, work, left, ver, recon, disc, preview, orphans, used>>

(* settlePass, with queueNextArchiveRecoveryPassVerification: the next     *)
(* pass needs a bound verification that matched.                           *)
Settle(w) ==
  LET ends  == HasClaim(w) /\ rec.status = "running"
      sound == work.start - left = work.recovered
      next  == ver.status = "completed" /\ ver.outcome = "match"
  IN
  /\ At(w, "settle")
  /\ \/ ~HasClaim(w) /\ Fail(w, "fault") /\ UNCHANGED <<rec, work, ver>>
     \/ /\ HasClaim(w) /\ rec.status # "running"
        /\ Dismiss(w) /\ UNCHANGED <<rec, ver>>
     \/ /\ ends /\ (~sound \/ (left # 0 /\ work.recovered > 0 /\ ~next))
        /\ Fail(w, "fault") /\ UNCHANGED <<rec, work, ver>>
     \/ /\ ends /\ sound /\ left = 0
        /\ rec' = [rec EXCEPT !.status = "completed"]
        /\ work' = NoWork /\ ToIdle(w) /\ UNCHANGED ver
     \/ /\ ends /\ sound /\ left # 0 /\ work.recovered > 0 /\ next
        /\ rec' = [rec EXCEPT !.status = "eligible"]
        /\ work' = [NoWork EXCEPT !.status = "requested"]
        /\ ver' = Queued(TRUE) /\ ToIdle(w)
     \/ /\ ends /\ sound /\ left # 0 /\ work.recovered = 0
        /\ rec' = [rec EXCEPT !.status = "paused", !.pause = "no_progress"]
        /\ work' = [work EXCEPT !.status = "requested", !.by = Nobody,
                                !.fresh = FALSE, !.admitted = FALSE]
        /\ ToIdle(w) /\ UNCHANGED ver
  /\ UNCHANGED <<left, recon, disc, preview, evidence, orphans, used>>

(* Slip: the reservation is given up whatever is left behind.            *)
MarkFaultReleases(w, retain, storage) ==
  IF HasClaim(w) /\ rec.status = "running"
  THEN /\ rec' = [rec EXCEPT !.status = IF storage THEN "paused" ELSE "faulted",
                             !.pause = IF storage THEN "storage_fault" ELSE "none"]
       /\ work' = NoWork
  ELSE UNCHANGED rec /\ work' = Abandoned(w)

(* markFault as the holder of a running pass; otherwise it throws.         *)
MarkFault(w, retain, storage) ==
  IF HasClaim(w) /\ rec.status = "running"
  THEN /\ rec' = IF storage
                 THEN [rec EXCEPT !.status = "paused", !.pause = "storage_fault"]
                 ELSE [rec EXCEPT !.status = "faulted"]
       /\ work' = IF retain THEN Abandoned(w) ELSE NoWork
  ELSE UNCHANGED rec /\ work' = Abandoned(w)

(* The catch clause of pollDvdRecoveryPass.                                *)
Catch(w) ==
  LET f == run[w].pass.fault
      expires == /\ run[w].pass.conf /\ ver.conf = "live" /\ ver.by = w
                 /\ f = "changed" \/ (f = "stale" /\ ConfirmationInvalid(w))
  IN
  /\ At(w, "failing")
  /\ ver' = IF expires THEN [ver EXCEPT !.conf = "expired"] ELSE ver
  /\ \/ rec.attempt # run[w].pass.attempt /\ Dismiss(w) /\ UNCHANGED rec
     \/ /\ rec.attempt = run[w].pass.attempt /\ rec.status = "stopping"
        /\ Become(w, [run[w].pass EXCEPT !.pc = "stopping", !.fault = "none"])
        /\ UNCHANGED <<rec, work>>
     \/ /\ rec.attempt = run[w].pass.attempt /\ rec.status # "stopping"
        /\ IF f = "preview"
           THEN IF HasClaim(w) /\ rec.status = "running"
                THEN Requeue(w) ELSE work' = Abandoned(w) /\ UNCHANGED rec
           ELSE MarkFault(w, f \in {"retained", "storage"},
                             f \in {"storage", "unsupported"})
        /\ ToIdle(w)
  /\ UNCHANGED <<left, recon, disc, preview, evidence, orphans, used>>

(***************************************************************************)
(* Stop: requestStop by the operator, finalizeStop by a pass poller.       *)
(***************************************************************************)

(* findNextStopping: an idle poller takes the stop up.                     *)
FindStopping(w) ==
  /\ At(w, "idle") /\ rec.status = "stopping"
  /\ Become(w, [IdlePass EXCEPT !.pc = "stopping", !.attempt = rec.attempt])
  /\ UNCHANGED <<rec, work, left, ver, recon, disc, preview, evidence, orphans,
                 used>>

CurrentStop(w) == rec.status = "stopping" /\ rec.attempt = run[w].pass.attempt

(* evaluatePersistedDvdDiscVerification of an interrupted verification.    *)
Interrupted == IF disc = "verified" /\ ver.base
               THEN {"interrupted", "uncertain"} ELSE {"uncertain"}

(* Slip: wait for the holder even when its lease has run out.            *)
AwaitsAnyHolder(w) == work.status = "claimed" /\ ~HasClaim(w)
AwaitsHolder(w) == work.status = "claimed" /\ work.fresh /\ ~HasClaim(w)

(* prepareStop: wait for a live claim that is not this poller's, and for   *)
(* verifications of the attempt.                                           *)
PrepareStop(w) ==
  LET mine == ver.attempt = rec.attempt IN
  /\ At(w, "stopping")
  /\ IF ~CurrentStop(w) \/ AwaitsHolder(w) THEN Dismiss(w) /\ UNCHANGED ver
     ELSE /\ \/ /\ mine /\ ver.status = "queued"
                /\ ver' = [ver EXCEPT !.status = "failed"]
             \/ /\ mine /\ ver.status = "running" /\ ~ver.fresh
                /\ \E o \in Interrupted :
                     ver' = [ver EXCEPT !.status = "completed", !.outcome = o]
             \/ /\ ~(mine /\ (\/ ver.status = "queued"
                              \/ ver.status = "running" /\ ~ver.fresh))
                /\ UNCHANGED ver
          /\ IF mine /\ ver'.status = "running"
             THEN Dismiss(w)
             ELSE Go(w, "stop_device") /\ UNCHANGED work
  /\ UNCHANGED <<rec, left, recon, disc, preview, evidence, orphans, used>>

(* Slip: only the pass admitted a device, no verification did.           *)
AdmittedByPass(w) == work.admitted
AdmittedDevice(w) ==
  work.admitted \/ (ver.admitted /\ ver.attempt = run[w].pass.attempt)

(* withDeviceIdentitiesInactive: every device identity the attempt         *)
(* admitted must be inactive; it stays locked until the stop is done.      *)
StopDevice(w) ==
  /\ At(w, "stop_device")
  /\ IF ~AdmittedDevice(w)
     THEN Go(w, "stop_repair") /\ UNCHANGED work
     ELSE IF DeviceFree
     THEN /\ Become(w, [run[w].pass EXCEPT !.pc = "stop_repair",
                                           !.locked = TRUE])
          /\ UNCHANGED work
     ELSE Dismiss(w)
  /\ UNCHANGED <<rec, left, ver, recon, disc, preview, evidence, orphans, used>>

StopRepair(w) ==
  /\ At(w, "stop_repair") /\ ImageTurn /\ ImageFree
  /\ Repair /\ Go(w, "stop_done")
  /\ UNCHANGED <<recon, disc, preview, orphans, used>>

(* WRITER_NOT_QUIESCENT: deferStop.                                        *)
DeferStop(w) ==
  /\ At(w, "stop_repair") /\ ImageTurn /\ ~ImageFree
  /\ Dismiss(w)
  /\ UNCHANGED <<rec, left, ver, recon, disc, preview, evidence, orphans, used>>

(* markStopFault: the reservation is kept.                                 *)
StopFaults(w) ==
  /\ rec' = IF CurrentStop(w) THEN [rec EXCEPT !.status = "faulted"] ELSE rec
  /\ Dismiss(w)

(* The repair faults, or finds a checkpoint it may not project.            *)
StopRepairFaults(w) ==
  /\ At(w, "stop_repair") /\ ImageTurn /\ ImageFree
  /\ StopFaults(w)
  /\ UNCHANGED <<left, ver, recon, disc, preview, evidence, orphans, used>>

(* completeStop.                                                           *)
CompleteStop(w) ==
  /\ At(w, "stop_done")
  /\ IF ~CurrentStop(w) \/ (ActiveVerification /\ ver.attempt = rec.attempt)
     THEN StopFaults(w)
     ELSE /\ rec' = [rec EXCEPT !.status = "stopped"]
          /\ work' = NoWork /\ ToIdle(w)
  /\ UNCHANGED <<left, ver, recon, disc, preview, evidence, orphans, used>>

(***************************************************************************)
(* Takeover of an interrupted pass: reclaimInterruptedPass.                *)
(***************************************************************************)

(* Slip: only a claim that admitted a source read is interrupted.        *)
InterruptedReading == rec.status = "running" /\ work.admitted /\ ~work.fresh
InterruptedClaim ==
  rec.status = "running" /\ work.status = "claimed" /\ ~work.fresh

(* findNextInterrupted, beginInterruptedTakeover.                          *)
BeginTakeover(w) ==
  /\ At(w, "idle") /\ InterruptedClaim
  /\ work' = [work EXCEPT !.by = w, !.fresh = TRUE]
  /\ Become(w, [IdlePass EXCEPT
                  !.attempt = rec.attempt,
                  !.pc = IF work.admitted THEN "take_device" ELSE "take_repair"])
  /\ UNCHANGED <<rec, left, ver, recon, disc, preview, evidence, orphans, used>>

(* deferInterruptedTakeover: the claim is made to look expired again.      *)
DeferTakeover(w) ==
  /\ work' = IF HasClaim(w) THEN [work EXCEPT !.by = Nobody, !.fresh = FALSE]
             ELSE work
  /\ ToIdle(w)

TakeDevice(w) ==
  /\ At(w, "take_device")
  /\ IF DeviceFree
     THEN /\ Become(w, [run[w].pass EXCEPT !.pc = "take_repair",
                                           !.locked = TRUE])
          /\ UNCHANGED work
     ELSE DeferTakeover(w)
  /\ UNCHANGED <<rec, left, ver, recon, disc, preview, evidence, orphans, used>>

(* Slip: a writer that may still be alive does not defer it.             *)
TakeRepairAnyway(w) ==
  /\ At(w, "take_repair") /\ HasClaim(w) /\ ImageTurn
  /\ Repair /\ Go(w, "take_done")
  /\ UNCHANGED <<recon, disc, preview, orphans, used>>

TakeRepair(w) ==
  /\ At(w, "take_repair") /\ HasClaim(w) /\ ImageTurn
  /\ IF ImageFree
     THEN Repair /\ Go(w, "take_done")
     ELSE DeferTakeover(w) /\ UNCHANGED <<rec, left, ver, evidence>>
  /\ UNCHANGED <<recon, disc, preview, orphans, used>>

(* The claim was lost, or the repair faults: the reservation is kept.      *)
TakeoverFaults(w) ==
  /\ At(w, "take_repair") /\ ImageTurn
  /\ ImageFree \/ ~HasClaim(w)
  /\ \E storage \in BOOLEAN : MarkFault(w, TRUE, storage)
  /\ ToIdle(w)
  /\ UNCHANGED <<left, ver, recon, disc, preview, evidence, orphans, used>>

FinishTakeover(w) ==
  /\ At(w, "take_done")
  /\ IF HasClaim(w) /\ rec.status = "running"
     THEN Requeue(w) ELSE work' = Abandoned(w) /\ UNCHANGED rec
  /\ ToIdle(w)
  /\ UNCHANGED <<left, ver, recon, disc, preview, evidence, orphans, used>>

(* activateWaitingResume: an insertion the last verification did not see.  *)
ActivateWaiting(w) ==
  /\ At(w, "idle") /\ rec.status = "waiting_for_disc"
  /\ work.status = "requested" /\ disc = "new" /\ NoPendingReconciliation
  /\ rec' = [rec EXCEPT !.status = "eligible"]
  /\ work' = [work EXCEPT !.bound = "latest", !.conf = FALSE]
  /\ ver' = Queued(TRUE) /\ disc' = "verified"
  /\ UNCHANGED <<left, recon, preview, evidence, orphans, run, used>>

(***************************************************************************)
(* Disc verification: pollDvdDiscVerification.                             *)
(***************************************************************************)

(* settleGeneratedContinuationVerification: what the end of a verification *)
(* means for a pass that waits for it ("failed" when it has no outcome).   *)
Settled(outcome) ==
  LET waits   == /\ rec.status = "eligible" /\ ver.attempt = rec.attempt
                 /\ work.status = "requested"
      resume  == waits /\ Resumed /\ work.bound = "latest"
      goes_on == waits /\ work.bound = "none" /\ ~work.started
  IN
  /\ rec' = IF resume /\ outcome \notin {"match", "interrupted"}
            THEN [rec EXCEPT !.status = "waiting_for_disc"]
            ELSE IF goes_on /\ outcome \notin {"match", "interrupted"}
            THEN [rec EXCEPT !.status = "faulted"] ELSE rec
  /\ ver' = IF outcome = "interrupted" /\ (resume \/ goes_on)
            THEN Queued(ver.base)
            ELSE IF outcome = "failed"
            THEN [ver EXCEPT !.status = "failed", !.fresh = FALSE]
            ELSE [ver EXCEPT !.status = "completed", !.outcome = outcome,
                             !.fresh = FALSE]

VerifierIdle(w) == run[w].verify = "idle" /\ ~At(w, "down")
VerifierGoes(w, s) == run' = [run EXCEPT ![w].verify = s]
CanVerify(w) == /\ HasVerification(w) /\ rec.status = "eligible"
                /\ ver.attempt = rec.attempt

(* Slip: an execution expires only the verification it holds.            *)
ExpireOwnVerification(w) ==
  /\ VerifierIdle(w) /\ HasVerification(w) /\ ~ver.fresh
  /\ \E o \in Interrupted : Settled(o)
  /\ UNCHANGED <<work, left, recon, disc, preview, evidence, orphans, run, used>>

(* recoverExpiredClaims.                                                   *)
ExpireVerification(w) ==
  /\ VerifierIdle(w) /\ ver.status = "running" /\ ~ver.fresh
  /\ \E o \in Interrupted : Settled(o)
  /\ UNCHANGED <<work, left, recon, disc, preview, evidence, orphans, run, used>>

ClaimVerification(w) ==
  /\ VerifierIdle(w) /\ ver.status = "queued"
  /\ ver.attempt = rec.attempt /\ rec.status = "eligible"
  /\ ver' = [ver EXCEPT !.status = "running", !.by = w, !.fresh = TRUE]
  /\ VerifierGoes(w, "claimed")
  /\ UNCHANGED <<rec, work, left, recon, disc, preview, evidence, orphans, used>>

(* fail: settles only the verification whose token it holds.               *)
VerificationFails(w) ==
  /\ IF HasVerification(w) THEN Settled("failed") ELSE UNCHANGED <<rec, ver>>
  /\ VerifierGoes(w, "idle")

(* complete with what is known, after a device contention.                 *)
VerificationInterrupted(w) ==
  IF CanVerify(w)
  THEN (\E o \in Interrupted : Settled(o)) /\ VerifierGoes(w, "idle")
  ELSE VerificationFails(w)

(* withDvdCurrentCheckpoint: shared ownership of a settled checkpoint.     *)
OwnCheckpoint(w) ==
  /\ run[w].verify = "claimed" /\ ImageTurn
  /\ IF ~ImageWritten /\ evidence = "clean"
     THEN VerifierGoes(w, "owned") /\ UNCHANGED <<rec, ver>>
     ELSE VerificationFails(w)
  /\ UNCHANGED <<work, left, recon, disc, preview, evidence, orphans, used>>

(* admitSourceRead for one sample.                                         *)
Sample(w) ==
  /\ run[w].verify = "owned"
  /\ \/ ~DeviceFree /\ VerificationInterrupted(w)
     \/ /\ DeviceFree
        /\ IF CanVerify(w) /\ disc = "verified"
           THEN /\ VerifierGoes(w, "sampling") /\ UNCHANGED rec
                /\ ver' = [ver EXCEPT !.admitted = TRUE, !.fresh = TRUE]
           ELSE VerificationFails(w)
  /\ UNCHANGED <<work, left, recon, disc, preview, evidence, orphans, used>>

(* The sample's helper closes; complete records the outcome, which a       *)
(* changed insertion or checkpoint makes inconclusive.                     *)
EndVerification(w) ==
  /\ run[w].verify = "sampling"
  /\ IF ~CanVerify(w) THEN VerificationFails(w)
     ELSE /\ \E o \in IF disc = "verified" /\ ver.base
                      THEN {"match", "uncertain"} ELSE {"uncertain"} : Settled(o)
          /\ VerifierGoes(w, "idle")
  /\ UNCHANGED <<work, left, recon, disc, preview, evidence, orphans, used>>

(***************************************************************************)
(* Reconciliation: pollDvdRecoveryReconciliation.                          *)
(***************************************************************************)
ReconcilerGoes(w, s) == run' = [run EXCEPT ![w].reconcile = s]
ReconcilerIdle(w) == run[w].reconcile = "idle" /\ ~At(w, "down")
Reconciled(w, status) ==
  recon' = IF HasReconciliation(w)
           THEN [recon EXCEPT !.status = status, !.fresh = FALSE] ELSE recon

ExpireReconciliation(w) ==
  /\ ReconcilerIdle(w) /\ recon.status = "running" /\ ~recon.fresh
  /\ recon' = [NoReconciliation EXCEPT !.status = "queued"]
  /\ UNCHANGED <<rec, work, left, ver, disc, preview, evidence, orphans, run, used>>

ClaimReconciliation(w) ==
  /\ ReconcilerIdle(w) /\ recon.status = "queued"
  /\ recon' = [status |-> "running", by |-> w, fresh |-> TRUE]
  /\ ReconcilerGoes(w, "claimed")
  /\ UNCHANGED <<rec, work, left, ver, disc, preview, evidence, orphans, used>>

(* Every boundary of the repair proves the reconciliation claim.           *)
RunReconciliation(w) ==
  /\ run[w].reconcile = "claimed" /\ HasReconciliation(w)
  /\ ImageTurn /\ ImageFree
  /\ Repair /\ ReconcilerGoes(w, "repaired")
  /\ UNCHANGED <<recon, disc, preview, orphans, used>>

(* Ownership is gone: the release proves the attempt, not the claim.       *)
ReleaseAfterReconciliation(w) ==
  /\ run[w].reconcile = "repaired"
  /\ ReconcilerGoes(w, "released")
  /\ IF rec.status = "stopping" \/ work.status = "none"
     THEN UNCHANGED <<rec, work>>
     ELSE /\ work' = NoWork
          /\ rec' = IF rec.status = "running"
                    THEN [rec EXCEPT !.status =
                            IF left = 0 THEN "completed" ELSE "eligible"]
                    ELSE rec
  /\ UNCHANGED <<left, ver, recon, disc, preview, evidence, orphans, used>>

CompleteReconciliation(w) ==
  /\ run[w].reconcile = "released"
  /\ Reconciled(w, "completed") /\ ReconcilerGoes(w, "idle")
  /\ UNCHANGED <<rec, work, left, ver, disc, preview, evidence, orphans, used>>

(* The image is busy, the claim is lost, or the repair faults.             *)
FailReconciliation(w) ==
  /\ run[w].reconcile = "claimed"
  /\ Reconciled(w, "failed") /\ ReconcilerGoes(w, "idle")
  /\ UNCHANGED <<rec, work, left, ver, disc, preview, evidence, orphans, used>>

(***************************************************************************)
(* Operators.                                                              *)
(***************************************************************************)

(* Submitting a verification of the disc now in the drive.                 *)
SubmitVerification ==
  /\ rec.status = "eligible" /\ disc # "none" /\ ~ActiveVerification
  /\ ver' = [NoVerification EXCEPT !.status = "queued", !.base = TRUE,
               !.attempt = rec.attempt,
               !.admitted = ver.admitted /\ ver.attempt = rec.attempt]
  /\ disc' = "verified"
  /\ work' = IF work.bound = "latest" THEN [work EXCEPT !.bound = "older"]
             ELSE work
  /\ UNCHANGED <<rec, left, recon, preview, evidence, orphans, run, used>>

(* Confirming the disc in spite of a verification that did not match.      *)
Confirm ==
  LET waiting == /\ rec.status = "waiting_for_disc" /\ Resumed
                 /\ work.status = "requested" /\ work.bound = "latest"
  IN
  /\ rec.status = "eligible" \/ waiting
  /\ ver.status = "completed" /\ ver.outcome # "match"
  /\ ver.base /\ ver.attempt = rec.attempt /\ disc = "verified"
  /\ ver.conf # "expired" /\ (ver.conf = "none" \/ waiting)
  /\ ver' = [ver EXCEPT !.conf = "live"]
  /\ IF waiting
     THEN /\ rec' = [rec EXCEPT !.status = "eligible"]
          /\ work' = [work EXCEPT !.conf = TRUE]
     ELSE UNCHANGED <<rec, work>>
  /\ UNCHANGED <<left, recon, disc, preview, evidence, orphans, run, used>>

(* requestResume: a new attempt, bound to the disc in the drive if any.    *)
RequestResume ==
  /\ Spend("resume")
  /\ rec.status \in {"paused", "stopped"}
  /\ NoPendingReconciliation /\ work.status # "claimed"
  /\ evidence = "clean" /\ ~ImageWritten
  /\ rec' = [status |-> IF disc = "none" THEN "waiting_for_disc" ELSE "eligible",
             pause |-> "none", attempt |-> rec.attempt + 1]
  /\ work' = [NoWork EXCEPT !.status = "requested",
                            !.bound = IF disc = "none" THEN "none" ELSE "latest"]
  /\ IF disc = "none"
     THEN UNCHANGED <<ver, disc>>
     ELSE ver' = Queued(TRUE) /\ disc' = "verified"
  /\ UNCHANGED <<left, recon, preview, evidence, orphans, run>>

(* requestStop.                                                            *)
RequestStop ==
  /\ rec.status \in {"eligible", "waiting_for_disc", "running", "paused"}
  /\ rec' = [rec EXCEPT !.status = "stopping", !.pause = "none"]
  /\ work' = IF work.status = "none" THEN [NoWork EXCEPT !.status = "requested"]
             ELSE work
  /\ ver' = IF ver.status = "queued" /\ ver.attempt = rec.attempt
            THEN [ver EXCEPT !.status = "failed"] ELSE ver
  /\ UNCHANGED <<left, recon, disc, preview, evidence, orphans, run, used>>

(* Submitting a reconciliation.                                            *)
SubmitReconciliation ==
  /\ Spend("reconcile")
  /\ rec.status \notin {"running", "stopping"}
  /\ ~(/\ rec.status \in {"eligible", "paused", "waiting_for_disc"}
       /\ work.status = "requested")
  /\ recon.status \notin {"queued", "running"}
  /\ recon' = [NoReconciliation EXCEPT !.status = "queued"]
  /\ UNCHANGED <<rec, work, left, ver, disc, preview, evidence, orphans, run>>

(* A damage preview holds the recovery until its reader has closed; it     *)
(* reads the committed image once no pass holds the reservation, with      *)
(* exclusive ownership.  What else may make it give up is not modelled.    *)
RequestPreview ==
  /\ Spend("preview") /\ preview = "none" /\ preview' = "pending"
  /\ UNCHANGED <<rec, work, left, ver, recon, disc, evidence, orphans, run>>

PreviewReads ==
  /\ preview = "pending" /\ work.status # "claimed"
  /\ rec.status \notin {"stopping", "faulted"}
  /\ ImageFree /\ evidence = "clean"
  /\ preview' = "reading"
  /\ UNCHANGED <<rec, work, left, ver, recon, disc, evidence, orphans, run, used>>

PreviewEnds ==
  /\ preview # "none" /\ preview' = "none"
  /\ UNCHANGED <<rec, work, left, ver, recon, disc, evidence, orphans, run, used>>

(***************************************************************************)
(* What happens around them: discs, leases, processes.                     *)
(***************************************************************************)
Eject ==
  /\ disc # "none" /\ disc' = "none"
  /\ UNCHANGED <<rec, work, left, ver, recon, preview, evidence, orphans, run,
                 used>>

Insert ==
  /\ Spend("insert") /\ disc = "none" /\ disc' = "new"
  /\ UNCHANGED <<rec, work, left, ver, recon, preview, evidence, orphans, run>>

(* A lease passes its end: at once when nobody renews it, else because its *)
(* holder stalled.  A pass renews while the recovery is running; once it   *)
(* is stopping, only a long read or batch outlasts the lease.  A takeover  *)
(* does not renew and may overrun.                                         *)
Unrenewed ==
  work.by \notin {w \in Executions : rec.status = "running" \/ ~Doing(w)}
TakingOver(w) == run[w].pass.pc \in {"take_device", "take_repair", "take_done"}
VerificationRenewed == \E w \in Executions : CanVerify(w)
(* A lease that somebody renews ends only when the renewing poller stalls. *)
Stalls(b, renewed) == IF renewed THEN Spend(b) ELSE UNCHANGED used

WorkLeaseEnds ==
  /\ work.status = "claimed" /\ work.fresh
  /\ \/ Unrenewed /\ UNCHANGED used
     \/ /\ ~Unrenewed
        /\ Spend(IF TakingOver(work.by) THEN "overrun" ELSE "stall")
  /\ work' = [work EXCEPT !.fresh = FALSE]
  /\ UNCHANGED <<rec, left, ver, recon, disc, preview, evidence, orphans, run>>

VerificationLeaseEnds ==
  /\ ver.status = "running" /\ ver.fresh
  /\ Stalls("stall", VerificationRenewed)
  /\ ver' = [ver EXCEPT !.fresh = FALSE]
  /\ UNCHANGED <<rec, work, left, recon, disc, preview, evidence, orphans, run>>

ReconciliationLeaseEnds ==
  /\ recon.status = "running" /\ recon.fresh
  /\ Stalls("reconStall", recon.by # Nobody)
  /\ recon' = [recon EXCEPT !.fresh = FALSE]
  /\ UNCHANGED <<rec, work, left, ver, disc, preview, evidence, orphans, run>>

(* A stalled holder comes back and renews, if its token is still current.  *)
Renew(w) ==
  /\ \/ /\ HasClaim(w) /\ ~work.fresh /\ rec.status = "running" /\ ~TakingOver(w)
        /\ work' = [work EXCEPT !.fresh = TRUE] /\ UNCHANGED <<ver, recon>>
     \/ /\ CanVerify(w) /\ ~ver.fresh
        /\ ver' = [ver EXCEPT !.fresh = TRUE] /\ UNCHANGED <<work, recon>>
     \/ /\ HasReconciliation(w) /\ ~recon.fresh
        /\ recon' = [recon EXCEPT !.fresh = TRUE] /\ UNCHANGED <<work, ver>>
  /\ UNCHANGED <<rec, left, disc, preview, evidence, orphans, run, used>>

(* An execution dies with its pollers; a helper it had started may go on.  *)
Crash(w) ==
  /\ Spend("crash") /\ ~At(w, "down")
  /\ run' = [run EXCEPT ![w] = [Quiet EXCEPT !.pass.pc = "down"]]
  /\ work' = [work EXCEPT !.by = IF @ = w THEN Nobody ELSE @]
  /\ ver' = [ver EXCEPT !.by = IF @ = w THEN Nobody ELSE @]
  /\ recon' = [recon EXCEPT !.by = IF @ = w THEN Nobody ELSE @]
  /\ orphans' = orphans \union (IF Reads(w) THEN {"device"} ELSE {})
                        \union (IF At(w, "batch") THEN {"image"} ELSE {})
  /\ UNCHANGED <<rec, left, disc, preview, evidence>>

(* expireForWorkerExecution, before the first poll.                        *)
Restart(w) ==
  /\ At(w, "down")
  /\ run' = [run EXCEPT ![w] = Quiet]
  /\ ver' = IF ver.conf = "live" /\ ConfirmationInvalid(w)
            THEN [ver EXCEPT !.conf = "expired"] ELSE ver
  /\ UNCHANGED <<rec, work, left, recon, disc, preview, evidence, orphans, used>>

HelperEnds ==
  /\ \E o \in orphans : orphans' = orphans \ {o}
  /\ UNCHANGED <<rec, work, left, ver, recon, disc, preview, evidence, run, used>>

PassStep(w) ==
  \/ ExpireConfirmation(w) \/ Claim(w) \/ Load(w) \/ NextSector(w) \/ Admit(w)
  \/ EndRead(w) \/ BeginBatch(w) \/ BatchStep(w) \/ BatchStepFails(w)
  \/ Settle(w) \/ Catch(w) \/ FindStopping(w) \/ PrepareStop(w)
  \/ StopDevice(w) \/ StopRepair(w) \/ DeferStop(w) \/ StopRepairFaults(w)
  \/ CompleteStop(w) \/ BeginTakeover(w) \/ TakeDevice(w) \/ TakeRepair(w)
  \/ TakeoverFaults(w) \/ FinishTakeover(w) \/ ActivateWaiting(w)

VerifierStep(w) == \/ ExpireVerification(w) \/ ClaimVerification(w)
                   \/ OwnCheckpoint(w) \/ Sample(w) \/ EndVerification(w)

ReconcilerStep(w) ==
  \/ ExpireReconciliation(w) \/ ClaimReconciliation(w) \/ RunReconciliation(w)
  \/ ReleaseAfterReconciliation(w) \/ CompleteReconciliation(w)
  \/ FailReconciliation(w)

LeaseEnds == \/ WorkLeaseEnds \/ VerificationLeaseEnds
             \/ ReconciliationLeaseEnds

Operate == \/ SubmitVerification \/ Confirm \/ RequestResume \/ RequestStop
           \/ SubmitReconciliation \/ RequestPreview

Next ==
  \/ \E w \in Executions : \/ PassStep(w) \/ VerifierStep(w)
                           \/ ReconcilerStep(w) \/ Renew(w)
                           \/ Crash(w) \/ Restart(w)
  \/ Operate \/ PreviewReads \/ PreviewEnds \/ Eject \/ Insert
  \/ LeaseEnds \/ HelperEnds

Spec == Init /\ [][Next]_vars

(* Pollers keep polling, a dead execution is restarted, a lease nobody     *)
(* renews runs out, an orphaned helper and a preview come to their end.    *)
(* Nothing obliges an operator to act.                                     *)
FairSpec ==
  /\ Spec
  /\ \A w \in Executions :
       /\ WF_vars(PassStep(w)) /\ WF_vars(VerifierStep(w))
       /\ WF_vars(ReconcilerStep(w)) /\ WF_vars(Restart(w))
  /\ WF_vars(WorkLeaseEnds /\ Unrenewed)
  /\ WF_vars(VerificationLeaseEnds /\ ~VerificationRenewed)
  /\ WF_vars(ReconciliationLeaseEnds /\ recon.by = Nobody)
  /\ WF_vars(HelperEnds) /\ WF_vars(PreviewEnds)

(***************************************************************************)
(* Properties.                                                             *)
(***************************************************************************)
(* A recovery that says stopped has come to rest: no reservation, no       *)
(* unsettled evidence, no verification of the attempt, and nobody, alive   *)
(* or orphaned, still reading the disc or writing the image.               *)
StoppedIsQuiescent ==
  rec.status = "stopped" =>
    /\ work.status = "none" /\ evidence = "clean"
    /\ ~(ActiveVerification /\ ver.attempt = rec.attempt)
    /\ \A w \in Executions : ~Doing(w) /\ run[w].verify # "sampling"
    /\ orphans = {}

(* The reservation outlives whoever works under it: while a pass reads the *)
(* disc or writes the image, even after its lease or its process ended,    *)
(* the reservation is still held.                                          *)
ReservationCoversIO ==
  (ImageWritten \/ \E w \in Executions : Doing(w)) => work.status = "claimed"

(* Status, reservation and verification agree: a running recovery has its  *)
(* reservation and no verification under way; an eligible one is free.     *)
ReservationMatchesStatus ==
  /\ rec.status = "running" => /\ work.status = "claimed"
                               /\ ~(ActiveVerification /\ ver.attempt = rec.attempt)
  /\ rec.status \in {"eligible", "waiting_for_disc"} => work.status # "claimed"

(* Every sector a pass recovered is counted once, whoever projected it:    *)
(* the pass, a takeover, a stop or a reconciliation.                       *)
PassAccounting == work.started => work.start = left + work.recovered

(* Unsettled evidence is never up for grabs: the reservation is held, or   *)
(* the recovery is faulted and waits for a reconciliation.                 *)
DirtyEvidenceIsGuarded ==
  evidence # "clean" => work.status = "claimed" \/ rec.status = "faulted"

(* A pass never runs beside a reconciliation that is not done.             *)
ReconciliationExcludesPass ==
  recon.status \in {"queued", "running", "failed"} => rec.status # "running"

(* The rows of recovery, reservation, verification and reconciliation      *)
(* agree, although each transaction writes only some of them.              *)
StatusesAgree == ReservationMatchesStatus /\ ReconciliationExcludesPass

(* A completed recovery has every sector, settled files, no reservation.   *)
CompletedIsWhole ==
  rec.status = "completed" =>
    left = 0 /\ evidence = "clean" /\ work.status = "none"

(* A pass that tried every sector, recovered some and left its evidence    *)
(* settled goes on to its settlement: "Pass settlement then removes the    *)
(* claim and atomically marks Recovery completed when the source map is    *)
(* empty or eligible when more source evidence remains"                    *)
(* (docs/dvd-recovery-batch-v1.md).                                        *)
FinishedPassContinues ==
  \A w \in Executions :
    At(w, "failing") /\ HasClaim(w) /\ rec.status = "running"
      => ~(/\ work.started /\ Todo = 0 /\ work.recovered > 0
           /\ evidence = "clean" /\ run[w].pass.fault = "fault")

(* A stop comes to an end: stopped, or faulted for an operator to see.     *)
StopSettles == rec.status = "stopping" ~> rec.status # "stopping"

(* A running recovery does not run for ever, whoever dies or stalls.       *)
RunningSettles == rec.status = "running" ~> rec.status # "running"

(* A verification of the current attempt ends, however often it is         *)
(* interrupted and queued again.                                           *)
VerificationSettles ==
  (ActiveVerification /\ ver.attempt = rec.attempt)
    ~> ~(ActiveVerification /\ ver.attempt = rec.attempt)
=============================================================================
