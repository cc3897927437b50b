----------------------- MODULE ArchiveRecoveryProofs ------------------------
(***************************************************************************)
(* Proofs about ArchiveRecovery, for every set of executions, every number *)
(* of sectors and every budget of crashes, stalls, resumes and the rest.   *)
(*                                                                         *)
(* IInv (ArchiveRecoveryInvariant) is inductive.  One lemma per conjunct   *)
(* says that a step of Next keeps it; in each, the actions that leave the  *)
(* conjunct's variables alone are the first step, and every other action   *)
(* has a step of its own.                                                  *)
(***************************************************************************)
EXTENDS ArchiveRecoveryInvariant, TLAPS

(* ------------ the operators that the actions share ------------------- *)
(* Updates of a reservation stay in Works.                                 *)
LEMMA NoWorkTyped == NoWork \in Works
  <1>1. FALSE \in BOOLEAN /\ Nobody \in Holders /\ 0 \in Int
    BY DEF Holders
  <1> QED
    BY <1>1 DEF NoWork, Works

LEMMA WorksStatus ==
  ASSUME NEW x \in Works, NEW s \in {"none", "requested", "claimed"}
  PROVE  [x EXCEPT !.status = s] \in Works
  BY DEF Works

LEMMA WorksRequeued ==
  ASSUME NEW x \in Works
  PROVE  [x EXCEPT !.status = "requested", !.by = Nobody, !.fresh = FALSE,
                   !.admitted = FALSE] \in Works
  <1>1. FALSE \in BOOLEAN /\ Nobody \in Holders
    BY DEF Holders
  <1> QED
    BY <1>1 DEF Works

LEMMA WorksCount ==
  ASSUME NEW x \in Works, NEW r \in Int, NEW f \in Int
  PROVE  [x EXCEPT !.recovered = r, !.failed = f] \in Works
  BY DEF Works

LEMMA WorksUpdates ==
  ASSUME NEW x \in Works
  PROVE  /\ [x EXCEPT !.admitted = TRUE] \in Works
         /\ [x EXCEPT !.by = Nobody, !.fresh = FALSE] \in Works
  BY DEF Works, Holders

(* What a pass poller knows stays in PassStates.                           *)
LEMMA IdleTyped == IdlePass \in PassStates
  BY DEF IdlePass, PassStates, PassSteps, Faults

LEMMA PassOf ==
  ASSUME RunTyped, NEW w \in Executions
  PROVE  run[w].pass \in PassStates
  BY DEF RunTyped, Runs

(* A poller that comes to know p: run stays typed, and knows no attempt    *)
(* that the recovery has not reached.                                      *)
LEMMA PassRuns ==
  ASSUME Typed, RunsBounded, NEW w \in Executions, NEW p \in PassStates,
         p.attempt <= rec.attempt, Become(w, p)
  PROVE  RunTyped' /\ AttemptsSeen
  BY DEF Typed, RunTyped, Runs, Become, RunsBounded, AttemptsSeen

(* The same for each way a pass poller moves on.                           *)
LEMMA GoRuns ==
  ASSUME Typed, RunsBounded, NEW w \in Executions, NEW s \in PassSteps,
         Go(w, s)
  PROVE  RunTyped' /\ AttemptsSeen
  <1> DEFINE p == [run[w].pass EXCEPT !.pc = s]
  <1>1. p \in PassStates /\ p.attempt = run[w].pass.attempt
    BY PassOf DEF PassStates, Typed
  <1> QED
    BY <1>1, PassRuns DEF Go, RunsBounded

LEMMA PassUpdates ==
  ASSUME NEW p \in PassStates, NEW c \in PassSteps, NEW f \in Faults,
         NEW o \in Outcomes \union {"none"}, NEW l \in BOOLEAN
  PROVE  /\ [p EXCEPT !.pc = c, !.fault = f, !.out = o] \in PassStates
         /\ [p EXCEPT !.pc = c, !.fault = f] \in PassStates
         /\ [p EXCEPT !.pc = c, !.out = o] \in PassStates
         /\ [p EXCEPT !.pc = c, !.locked = l] \in PassStates
  BY DEF PassStates

LEMMA FaultRuns ==
  ASSUME Typed, RunsBounded, NEW w \in Executions, NEW c \in PassSteps,
         NEW x \in Faults,
         Become(w, [run[w].pass EXCEPT !.pc = c, !.fault = x])
  PROVE  RunTyped' /\ AttemptsSeen
  <1> DEFINE p == [run[w].pass EXCEPT !.pc = c, !.fault = x]
  <1>1. p \in PassStates /\ p.attempt = run[w].pass.attempt
    BY PassOf DEF PassStates, Typed
  <1> QED
    BY <1>1, PassRuns DEF RunsBounded

LEMMA OutRuns ==
  ASSUME Typed, RunsBounded, NEW w \in Executions, NEW c \in PassSteps,
         NEW x \in Outcomes \union {"none"},
         Become(w, [run[w].pass EXCEPT !.pc = c, !.out = x])
  PROVE  RunTyped' /\ AttemptsSeen
  <1> DEFINE p == [run[w].pass EXCEPT !.pc = c, !.out = x]
  <1>1. p \in PassStates /\ p.attempt = run[w].pass.attempt
    BY PassOf DEF PassStates, Typed
  <1> QED
    BY <1>1, PassRuns DEF RunsBounded

LEMMA LockRuns ==
  ASSUME Typed, RunsBounded, NEW w \in Executions, NEW c \in PassSteps,
         NEW x \in BOOLEAN,
         Become(w, [run[w].pass EXCEPT !.pc = c, !.locked = x])
  PROVE  RunTyped' /\ AttemptsSeen
  <1> DEFINE p == [run[w].pass EXCEPT !.pc = c, !.locked = x]
  <1>1. p \in PassStates /\ p.attempt = run[w].pass.attempt
    BY PassOf DEF PassStates, Typed
  <1> QED
    BY <1>1, PassRuns DEF RunsBounded

LEMMA FreshRuns ==
  ASSUME Typed, RunsBounded, NEW w \in Executions, NEW c \in PassSteps,
         NEW b \in BOOLEAN,
         \/ Become(w, [IdlePass EXCEPT !.pc = c, !.attempt = rec.attempt,
                                       !.conf = b])
         \/ Become(w, [IdlePass EXCEPT !.pc = c, !.attempt = rec.attempt])
         \/ Become(w, [IdlePass EXCEPT !.attempt = rec.attempt, !.pc = c])
  PROVE  RunTyped' /\ AttemptsSeen
  <1> DEFINE P == {[IdlePass EXCEPT !.pc = c, !.attempt = rec.attempt,
                                    !.conf = b],
                   [IdlePass EXCEPT !.pc = c, !.attempt = rec.attempt],
                   [IdlePass EXCEPT !.attempt = rec.attempt, !.pc = c]}
  <1>1. rec.attempt \in Nat
    BY DEF Typed, RecTyped, Recs
  <1>2. \A p \in P : p \in PassStates
    BY <1>1 DEF IdlePass, PassStates, Faults
  <1>3. \A p \in P : p.attempt = rec.attempt
    BY DEF IdlePass
  <1>4. PICK p \in P : Become(w, p)
    OBVIOUS
  <1>5. rec.attempt <= rec.attempt
    BY <1>1
  <1> HIDE DEF P
  <1> QED
    BY <1>2, <1>3, <1>4, <1>5, PassRuns

(* The same for the other pollers, a crash and a restart.                  *)
LEMMA PollerRuns ==
  ASSUME Typed, RunsBounded, NEW w \in Executions,
         \/ \E s \in {"idle", "claimed", "owned", "sampling"} :
              VerifierGoes(w, s)
         \/ \E s \in {"idle", "claimed", "repaired", "released"} :
              ReconcilerGoes(w, s)
         \/ run' = [run EXCEPT ![w] = Quiet]
         \/ run' = [run EXCEPT ![w] = [Quiet EXCEPT !.pass.pc = "down"]]
  PROVE  RunTyped' /\ AttemptsSeen
  <1>1. rec.attempt \in Nat /\ run \in Runs /\ IdlePass \in PassStates
    BY IdleTyped DEF Typed, RecTyped, Recs, RunTyped
  <1>2. CASE \E s \in {"idle", "claimed", "owned", "sampling"} :
               VerifierGoes(w, s)
    BY <1>1, <1>2 DEF VerifierGoes, Runs, RunTyped, RunsBounded, AttemptsSeen
  <1>3. CASE \E s \in {"idle", "claimed", "repaired", "released"} :
               ReconcilerGoes(w, s)
    BY <1>1, <1>3 DEF ReconcilerGoes, Runs, RunTyped, RunsBounded, AttemptsSeen
  <1>4. CASE run' = [run EXCEPT ![w] = Quiet]
    <2>1. IdlePass.attempt = 0
      BY DEF IdlePass
    <2> QED
      BY <1>1, <1>4, <2>1 DEF Quiet, Runs, RunTyped, RunsBounded, AttemptsSeen
  <1>5. CASE run' = [run EXCEPT ![w] = [Quiet EXCEPT !.pass.pc = "down"]]
    <2> DEFINE p == [IdlePass EXCEPT !.pc = "down"]
    <2>1. p \in PassStates /\ p.attempt = 0
      BY DEF IdlePass, PassStates, PassSteps, Faults
    <2>2. [Quiet EXCEPT !.pass.pc = "down"]
            = [pass |-> p, verify |-> "idle", reconcile |-> "idle"]
      BY DEF Quiet
    <2>3. run' = [run EXCEPT ![w] =
                    [pass |-> p, verify |-> "idle", reconcile |-> "idle"]]
      BY <1>5, <2>2, Zenon
    <2> HIDE DEF p
    <2> QED
      BY <1>1, <2>1, <2>3 DEF Runs, RunTyped, RunsBounded, AttemptsSeen
  <1> QED
    BY <1>2, <1>3, <1>4, <1>5

LEMMA FailRuns ==
  ASSUME Typed, RunsBounded, NEW w \in Executions, NEW f \in Faults, Fail(w, f)
  PROVE  RunTyped' /\ AttemptsSeen
  <1> DEFINE p == [run[w].pass EXCEPT !.pc = "failing", !.fault = f,
                                      !.out = "none"]
  <1>1. p \in PassStates
    BY PassOf, PassUpdates DEF PassSteps, Typed
  <1>2. p.attempt = run[w].pass.attempt
    BY PassOf DEF PassStates, Typed
  <1> QED
    BY <1>1, <1>2, PassRuns DEF Fail, RunsBounded

LEMMA IdleRuns ==
  ASSUME Typed, RunsBounded, NEW w \in Executions, ToIdle(w)
  PROVE  RunTyped' /\ AttemptsSeen
  <1>1. IdlePass.attempt = 0
    BY DEF IdlePass
  <1>2. rec.attempt \in Nat
    BY DEF Typed, RecTyped, Recs
  <1> QED
    BY <1>1, <1>2, IdleTyped, PassRuns DEF ToIdle

(* A token that is forgotten leaves the reservation as it is.              *)
LEMMA AbandonedTyped ==
  ASSUME WorkTyped, NEW w
  PROVE  Abandoned(w) \in Works /\ Abandoned(w).status = work.status
  BY DEF WorkTyped, Works, Abandoned, Holders

(* The shared updates keep the types.                                      *)
LEMMA ProjectTyped ==
  ASSUME Typed, NEW o \in Outcomes, Project(o)
  PROVE  WorkTyped' /\ rec' \in Recs /\ VerTyped' /\ left' \in Int
  <1>0. PICK hit \in {0, 1} :
          /\ left' = left - hit
          /\ \/ work' = work
             \/ work' = [work EXCEPT !.recovered = @ + hit,
                                     !.failed = @ + (1 - hit)]
    BY DEF Project
  <1>1. WorkTyped'
    <2>1. /\ work \in Works /\ work.recovered + hit \in Int
          /\ work.failed + (1 - hit) \in Int
      BY DEF Typed, WorkTyped, Works
    <2>2. CASE work' = work
      BY <2>1, <2>2 DEF WorkTyped
    <2>3. CASE work' = [work EXCEPT !.recovered = @ + hit,
                                    !.failed = @ + (1 - hit)]
      BY <2>1, <2>3, WorksCount DEF WorkTyped
    <2> QED
      BY <1>0, <2>2, <2>3
  <1>2. rec' \in Recs
    BY DEF Project, Typed, RecTyped, Recs, Statuses
  <1>3. VerTyped'
    BY DEF Project, Typed, VerTyped, Verifications
  <1>4. left' \in Int
    BY <1>0 DEF Typed, RecTyped
  <1> QED
    BY <1>1, <1>2, <1>3, <1>4

LEMMA RepairTyped ==
  ASSUME Typed, Repair
  PROVE  /\ WorkTyped' /\ rec' \in Recs /\ VerTyped' /\ left' \in Int
         /\ evidence' \in EvidenceStates
  BY ProjectTyped DEF Repair, Typed, RecTyped, WorkTyped, VerTyped,
     EvidenceStates

LEMMA RequeueTyped ==
  ASSUME Typed, NEW w, Requeue(w) PROVE WorkTyped' /\ rec' \in Recs
  <1>1. WorkTyped'
    BY NoWorkTyped, WorksRequeued DEF Requeue, Typed, WorkTyped
  <1>2. rec' \in Recs
    BY DEF Requeue, Typed, RecTyped, Recs, Statuses
  <1> QED
    BY <1>1, <1>2

LEMMA QueuedTyped ==
  ASSUME VerTyped, rec' \in Recs, NEW b \in BOOLEAN
  PROVE  Queued(b) \in Verifications
  BY Zenon DEF Queued, NoVerification, Verifications, Holders, VerTyped, Recs

LEMMA SettledTyped ==
  ASSUME Typed, NEW o \in {"match", "uncertain", "interrupted", "failed"},
         Settled(o)
  PROVE rec' \in Recs /\ VerTyped'
  <1>1. rec' \in Recs
    BY DEF Settled, Typed, RecTyped, Recs, Statuses
  <1>2. ver.base \in BOOLEAN
    BY DEF Typed, VerTyped, Verifications
  <1>3. Queued(ver.base) \in Verifications
    BY <1>1, <1>2, QueuedTyped DEF Typed
  <1>4. VerTyped'
    BY <1>3 DEF Settled, Typed, VerTyped, Verifications
  <1> QED
    BY <1>1, <1>4

(* Spending a budget keeps the budgets, and only a resume counts attempts. *)
LEMMA SpendBudget ==
  ASSUME used \in [Budgets -> Nat], Budgeted, NEW b \in Budgets, Spend(b)
  PROVE  Budgeted' /\ (b # "resume" => used'["resume"] = used["resume"])
  BY RecoveryConstants DEF Budgeted, Spend, Budgets

(* Of the shared updates none starts an attempt.                           *)
LEMMA ProjectAttempts ==
  ASSUME Typed, NEW o, Project(o)
  PROVE  rec'.attempt = rec.attempt /\ ver'.attempt = ver.attempt
  BY DEF Project, Typed, RecTyped, Recs, VerTyped, Verifications

LEMMA RepairAttempts ==
  ASSUME Typed, Repair
  PROVE  rec'.attempt = rec.attempt /\ ver'.attempt = ver.attempt
  BY ProjectAttempts DEF Repair

LEMMA RequeueAttempts ==
  ASSUME Typed, NEW w, Requeue(w)
  PROVE  rec'.attempt = rec.attempt
  BY DEF Requeue, Typed, RecTyped, Recs

LEMMA QueuedAttempt ==
  ASSUME NEW b
  PROVE  Queued(b).attempt = rec'.attempt /\ Queued(b).status = "queued"
  BY DEF Queued, NoVerification

LEMMA SettledAttempts ==
  ASSUME Typed, NEW o, Settled(o)
  PROVE  /\ rec'.attempt = rec.attempt
         /\ ver'.attempt \in {ver.attempt, rec.attempt}
  <1>1. rec'.attempt = rec.attempt
    BY DEF Settled, Typed, RecTyped, Recs
  <1> QED
    BY <1>1, QueuedAttempt DEF Settled, Typed, VerTyped, Verifications

(* No reservation is claimed by nobody.                                    *)
LEMMA NoWorkStatus == NoWork.status = "none"
  BY DEF NoWork

(* The shared updates keep status, reservation and verification in step:   *)
(* a projection changes neither whose reservation it is nor an attempt.    *)
LEMMA ProjectRows ==
  ASSUME Typed, Rows, NEW o \in Outcomes, Project(o), UNCHANGED recon,
         Projectable \/ work.status = "claimed"
  PROVE  Rows'
  <1>0. work.status = "claimed" =>
          rec.status \in {"running", "stopping", "faulted", "paused"}
    BY DEF Rows, ClaimedIsUnsettled
  <1>1. /\ \/ rec'.status = rec.status
           \/ /\ work.status # "claimed"
              /\ rec'.status \in {"completed", "eligible"}
        /\ rec'.attempt = rec.attempt
    BY <1>0 DEF Project, Projectable, Typed, RecTyped, Recs
  <1>2. work'.status = work.status
    BY DEF Project, Typed, WorkTyped, Works
  <1>3. ver'.status = ver.status /\ ver'.attempt = ver.attempt
    BY DEF Project, Typed, VerTyped, Verifications
  <1> QED
    BY <1>1, <1>2, <1>3
       DEF Rows, ClaimedIsUnsettled, ReservationMatchesStatus,
           ActiveVerification, ReconciliationExcludesPass

LEMMA RepairRows ==
  ASSUME Typed, Rows, Repair, UNCHANGED recon
  PROVE  Rows'
  <1>1. CASE evidence \in Outcomes
    BY <1>1, ProjectRows DEF Repair
  <1>2. CASE evidence \notin Outcomes
    BY <1>2 DEF Repair, Rows, ClaimedIsUnsettled, ReservationMatchesStatus,
       ActiveVerification, ReconciliationExcludesPass
  <1> QED
    BY <1>1, <1>2

(* A verification that ends moves only a recovery nobody has claimed.      *)
LEMMA SettledRows ==
  ASSUME Typed, Rows, NEW o, Settled(o), UNCHANGED <<work, recon>>
  PROVE  Rows'
  <1>1. \/ rec' = rec
        \/ /\ rec.status = "eligible"
           /\ rec'.status \in {"waiting_for_disc", "faulted"}
    BY DEF Settled, Typed, RecTyped, Recs
  <1>2. rec.status = "running" =>
          ver'.status \in {"completed", "failed"} \/ ver' = ver
    BY DEF Settled, Typed, VerTyped, Verifications
  <1>3. work.status = "claimed" => rec.status # "eligible"
    BY DEF Rows, ReservationMatchesStatus
  <1> QED
    BY <1>1, <1>2, <1>3
       DEF Rows, ClaimedIsUnsettled, ReservationMatchesStatus,
           ActiveVerification, ReconciliationExcludesPass

LEMMA RequeueRows ==
  ASSUME Typed, Rows, NEW w, Requeue(w), UNCHANGED recon
  PROVE  Rows'
  <1>1. work'.status \in {"none", "requested"}
    <2>1. \/ work' = NoWork
          \/ work' = [work EXCEPT !.status = "requested", !.by = Nobody,
                                  !.fresh = FALSE, !.admitted = FALSE]
      BY DEF Requeue
    <2> QED
      BY <2>1, NoWorkStatus DEF Typed, WorkTyped, Works
  <1>2. rec'.status \in {"completed", "eligible"}
    BY DEF Requeue, Typed, RecTyped, Recs
  <1> QED
    BY <1>1, <1>2 DEF Rows, ClaimedIsUnsettled, ReservationMatchesStatus,
       ReconciliationExcludesPass, ActiveVerification

LEMMA MarkFaultRows ==
  ASSUME Typed, Rows, NEW w, NEW retain, NEW storage,
         MarkFault(w, retain, storage),
         ver'.status = ver.status, ver'.attempt = ver.attempt, UNCHANGED recon
  PROVE  Rows'
  <1>1. \/ rec' = rec /\ work'.status = work.status
        \/ /\ rec'.status \in {"faulted", "paused"}
           /\ work'.status \in {work.status, "none"}
    <2>1. Abandoned(w).status = work.status
      BY AbandonedTyped DEF Typed
    <2>2. CASE HasClaim(w) /\ rec.status = "running"
      <3>1. rec'.status \in {"faulted", "paused"}
        BY <2>2 DEF MarkFault, Typed, RecTyped, Recs
      <3>2. work'.status \in {work.status, "none"}
        BY <2>1, <2>2, NoWorkStatus, Zenon DEF MarkFault
      <3> QED
        BY <3>1, <3>2
    <2>3. CASE ~(HasClaim(w) /\ rec.status = "running")
      BY <2>1, <2>3, Zenon DEF MarkFault
    <2> QED
      BY <2>2, <2>3
  <1> QED
    BY <1>1 DEF Rows, ClaimedIsUnsettled, ReservationMatchesStatus,
       ActiveVerification, ReconciliationExcludesPass

(* Counted depends on the reservation's counts alone.                      *)
LEMMA StillCounted ==
  ASSUME Counted, left' = left,
         work'.started = work.started, work'.start = work.start,
         work'.recovered = work.recovered, work'.failed = work.failed,
         \/ work'.status = work.status
         \/ work.status = "claimed" /\ work'.status = "requested"
  PROVE  Counted'
  BY DEF Counted, PassAccounting, Todo

(* A reservation that starts afresh counts nothing.                        *)
LEMMA ClearedCounted ==
  ASSUME Counted, left' = left,
         \/ work' = NoWork
         \/ work' = [NoWork EXCEPT !.status = "requested"]
         \/ \E b \in {"none", "latest"} :
              work' = [NoWork EXCEPT !.status = "requested", !.bound = b]
  PROVE  Counted'
  <1>1. /\ work'.status # "claimed" /\ ~work'.started
        /\ work'.start = 0 /\ work'.recovered = 0 /\ work'.failed = 0
    <2>1. CASE work' = NoWork
      BY <2>1 DEF NoWork
    <2>2. CASE work' = [NoWork EXCEPT !.status = "requested"]
      BY <2>2 DEF NoWork
    <2>3. CASE \E b \in {"none", "latest"} :
                 work' = [NoWork EXCEPT !.status = "requested", !.bound = b]
      BY <2>3 DEF NoWork
    <2> QED
      BY <2>1, <2>2, <2>3
  <1>2. 0 \in 0..N /\ 0 - (0 + 0) >= 0
    BY RecoveryConstants
  <1>3. Todo' >= 0
    BY <1>1 DEF Todo
  <1> QED
    BY <1>1, <1>2, <1>3 DEF Counted, PassAccounting

(* Updates of a reservation that leave its counts alone.                   *)
LEMMA WorkKept ==
  ASSUME Typed, NEW w,
         \/ work' = work \/ work' = Abandoned(w)
         \/ work' = [work EXCEPT !.status = "requested", !.by = Nobody,
                                 !.fresh = FALSE, !.admitted = FALSE]
         \/ work' = [work EXCEPT !.by = Nobody, !.fresh = FALSE]
         \/ work' = [work EXCEPT !.admitted = TRUE]
  PROVE  /\ work'.started = work.started /\ work'.start = work.start
         /\ work'.recovered = work.recovered /\ work'.failed = work.failed
         /\ work'.status \in {work.status, "requested"}
  BY DEF Typed, WorkTyped, Works, Abandoned, Holders

LEMMA WorkCounted ==
  ASSUME Typed, Counted, left' = left, NEW w,
         \/ work' = work \/ work' = Abandoned(w)
         \/ work.status = "claimed" /\
              work' = [work EXCEPT !.status = "requested", !.by = Nobody,
                                   !.fresh = FALSE, !.admitted = FALSE]
         \/ work.status = "claimed" /\
              work' = [work EXCEPT !.by = Nobody, !.fresh = FALSE]
         \/ work' = [work EXCEPT !.admitted = TRUE]
         \/ work' = NoWork
         \/ work' = [NoWork EXCEPT !.status = "requested"]
  PROVE  Counted'
  <1>1. CASE work' = NoWork \/ work' = [NoWork EXCEPT !.status = "requested"]
    BY <1>1, ClearedCounted
  <1>2. CASE work' = Abandoned(w)
    BY <1>2, AbandonedTyped, WorkKept, StillCounted DEF Typed
  <1>3. CASE work' = [work EXCEPT !.admitted = TRUE]
    BY <1>3, WorkKept, StillCounted DEF Typed, WorkTyped, Works
  <1>4. CASE work' = work
    BY <1>4, StillCounted
  <1>5. CASE /\ work.status = "claimed"
             /\ \/ work' = [work EXCEPT !.status = "requested", !.by = Nobody,
                                        !.fresh = FALSE, !.admitted = FALSE]
                \/ work' = [work EXCEPT !.by = Nobody, !.fresh = FALSE]
    BY <1>5, WorkKept, StillCounted
  <1> QED
    BY <1>1, <1>2, <1>3, <1>4, <1>5

(* A projection counts its sector once: in a claimed pass as one more that *)
(* was tried, and otherwise there is no started pass, because one that     *)
(* waits leaves no evidence behind.                                        *)
LEMMA ProjectCounted ==
  ASSUME Typed, Counted, Uncounted, evidence \in Outcomes, Project(evidence)
  PROVE  Counted'
  <1> DEFINE hit == IF evidence = "recovered" THEN 1 ELSE 0
  <1>0. hit \in 0..1 /\ left' = left - hit /\ left >= 1
    BY DEF Project, Uncounted, Outcomes, Counted
  <1>1. work \in Works /\ left \in Int
    BY DEF Typed, WorkTyped, RecTyped
  <1> HIDE DEF hit
  <1>2. CASE work.status = "claimed"
    <2>1. work' = [work EXCEPT !.recovered = work.recovered + hit,
                               !.failed = work.failed + (1 - hit)]
      BY <1>2 DEF Project, hit
    <2>2. /\ work'.status = "claimed" /\ work'.started = work.started
          /\ work'.start = work.start
          /\ work'.recovered = work.recovered + hit
          /\ work'.failed = work.failed + (1 - hit)
      BY <1>1, <1>2, <2>1 DEF Works
    <2>3. Todo >= 1
      BY <1>2 DEF Uncounted, Outcomes
    <2>4. /\ work.start \in Int /\ work.recovered \in Int
          /\ work.failed \in Int /\ N \in Int
      BY <1>1, RecoveryConstants DEF Works
    <2>5. left' \in 0..N
      BY <1>0, <1>1, <2>4 DEF Counted
    <2>6. Todo' >= 0
      BY <1>0, <2>2, <2>3, <2>4 DEF Todo
    <2>7. PassAccounting'
      BY <1>0, <1>1, <2>2, <2>4 DEF Counted, PassAccounting
    <2>8. work'.recovered >= 0 /\ work'.failed >= 0
      BY <1>0, <2>2, <2>4 DEF Counted
    <2> QED
      BY <1>2, <2>2, <2>5, <2>6, <2>7, <2>8 DEF Counted
  <1>3. CASE work.status # "claimed"
    <2>1. work' = work
      BY <1>3 DEF Project
    <2>2. ~work.started
      BY <1>1, <1>3 DEF Uncounted, Counted, Outcomes, Works
    <2>3. left' \in 0..N
      BY <1>0, <1>1, RecoveryConstants DEF Counted
    <2> QED
      BY <2>1, <2>2, <2>3 DEF Counted, PassAccounting, Todo
  <1> QED
    BY <1>2, <1>3

LEMMA RepairCounted ==
  ASSUME Typed, Counted, Uncounted, Repair
  PROVE  Counted'
  <1>1. CASE evidence \in Outcomes
    BY <1>1, ProjectCounted DEF Repair
  <1>2. CASE evidence \notin Outcomes
    BY <1>2, StillCounted DEF Repair
  <1> QED
    BY <1>1, <1>2

LEMMA RequeueCounted ==
  ASSUME Typed, Counted, NEW w, Requeue(w), HasClaim(w), left' = left
  PROVE  Counted'
  <1>1. CASE work' = NoWork
    BY <1>1, ClearedCounted
  <1>2. CASE work' = [work EXCEPT !.status = "requested", !.by = Nobody,
                                  !.fresh = FALSE, !.admitted = FALSE]
    BY <1>2, WorkKept, StillCounted DEF HasClaim
  <1> QED
    BY <1>1, <1>2 DEF Requeue

LEMMA MarkFaultCounted ==
  ASSUME Typed, Counted, NEW w, NEW retain, NEW storage,
         MarkFault(w, retain, storage), left' = left
  PROVE  Counted'
  <1>1. work' = NoWork \/ work' = Abandoned(w)
    BY Zenon DEF MarkFault
  <1>2. CASE work' = Abandoned(w)
    BY <1>2, AbandonedTyped, WorkKept, StillCounted DEF Typed
  <1> QED
    BY <1>1, <1>2, ClearedCounted

(* Uncounted survives what leaves evidence and counts alone.               *)
LEMMA WorkUncounted ==
  ASSUME Typed, Uncounted, UNCHANGED <<left, evidence>>, NEW w,
         \/ work' = work \/ work' = Abandoned(w) \/ work' = NoWork
         \/ work' = [NoWork EXCEPT !.status = "requested"]
  PROVE  Uncounted'
  <1>1. CASE work' = NoWork \/ work' = [NoWork EXCEPT !.status = "requested"]
    <2>1. work'.status # "claimed" /\ ~work'.started
      BY <1>1 DEF NoWork
    <2> QED
      BY <2>1 DEF Uncounted
  <1>2. CASE work' = work \/ work' = Abandoned(w)
    <2>1. /\ work'.started = work.started /\ work'.start = work.start
          /\ work'.recovered = work.recovered /\ work'.failed = work.failed
          /\ work'.status = work.status
      BY <1>2, WorkKept, AbandonedTyped DEF Typed
    <2> QED
      BY <2>1 DEF Uncounted, Todo
  <1> QED
    BY <1>1, <1>2

(* Settled evidence has nothing to count.                                  *)
LEMMA CleanUncounted ==
  ASSUME evidence' = "clean"
  PROVE  Uncounted'
  BY DEF Uncounted

(* A batch under way has a sector of its own to count.                     *)
LEMMA BatchHasWork ==
  ASSUME Typed, Counted, Uncounted, Control, NEW w \in Executions,
         At(w, "batch"), HasClaim(w), evidence # "spent"
  PROVE  Todo >= 1 /\ left >= 1
  <1>1. CASE evidence = "clean"
    <2>1. Todo >= 1
      BY <1>1 DEF Control, PassSafe, At
    <2> QED
      BY <2>1 DEF Typed, WorkTyped, Works, RecTyped, HasClaim, Counted,
         PassAccounting, Todo
  <1>2. CASE evidence # "clean"
    BY <1>2 DEF Uncounted, HasClaim, Typed, RecTyped, EvidenceStates
  <1> QED
    BY <1>1, <1>2

(* The next step of a batch on the files leaves that sector uncounted.     *)
LEMMA NextUncounted ==
  ASSUME Typed, Counted, Uncounted, Control, NEW w \in Executions,
         At(w, "batch"), HasClaim(w),
         evidence' \in {evidence, NextEvidence(w)}, UNCHANGED <<work, left>>
  PROVE  Uncounted'
  <1>1. work'.status = "claimed"
    BY DEF HasClaim
  <1>2. CASE evidence = "spent"
    BY <1>1, <1>2 DEF Uncounted, NextEvidence, Outcomes
  <1>3. CASE evidence # "spent"
    BY <1>1, <1>3, BatchHasWork DEF Uncounted, Todo
  <1> QED
    BY <1>2, <1>3

(* Old passes stay safe when claims, counts and evidence are kept.         *)
LEMMA KeptSafe ==
  ASSUME Control, ClaimsKept, evidence' = evidence
  PROVE  OldPassesSafe
  BY DEF Control, ClaimsKept, OldPassesSafe

(* Updates of a reservation that give no claim and count nothing.          *)
LEMMA KeptClaims ==
  ASSUME Typed, NEW w,
         \/ work' = work \/ work' = Abandoned(w) \/ work' = NoWork
         \/ work' = [NoWork EXCEPT !.status = "requested"]
         \/ work' = [work EXCEPT !.admitted = TRUE]
         \/ work' = [work EXCEPT !.by = Nobody, !.fresh = FALSE]
         \/ work' = [work EXCEPT !.status = "requested", !.by = Nobody,
                                 !.fresh = FALSE, !.admitted = FALSE]
  PROVE  ClaimsKept
  <1>1. CASE work' = NoWork \/ work' = [NoWork EXCEPT !.status = "requested"]
    <2>1. work'.status # "claimed"
      BY <1>1 DEF NoWork
    <2> QED
      BY <2>1 DEF ClaimsKept, HasClaim
  <1>2. CASE \/ work' = work \/ work' = Abandoned(w)
             \/ work' = [work EXCEPT !.admitted = TRUE]
             \/ work' = [work EXCEPT !.by = Nobody, !.fresh = FALSE]
             \/ work' = [work EXCEPT !.status = "requested", !.by = Nobody,
                                     !.fresh = FALSE, !.admitted = FALSE]
    <2>1. /\ work'.by \in {work.by, Nobody}
          /\ work'.status \in {work.status, "requested"}
          /\ work'.start = work.start
          /\ work'.recovered = work.recovered /\ work'.failed = work.failed
      BY <1>2 DEF Typed, WorkTyped, Works, Abandoned, Holders
    <2> QED
      BY <2>1, RecoveryConstants DEF ClaimsKept, HasClaim, Todo
  <1> QED
    BY <1>1, <1>2

(* One poller moves to p, the others stay: all are safe afterwards.        *)
LEMMA PassSafeStep ==
  ASSUME Typed, NEW w \in Executions, NEW p, Become(w, p),
         \A v \in Executions \ {w} :
           HasClaim(v)' => PassSafe(run[v].pass, evidence', Todo'),
         HasClaim(w)' => PassSafe(p, evidence', Todo')
  PROVE  Control'
  BY DEF Typed, RunTyped, Runs, Become, Control

(* No pass poller moves.                                                   *)
LEMMA SamePassSafe ==
  ASSUME OldPassesSafe, \A w \in Executions : run'[w].pass = run[w].pass
  PROVE  Control'
  BY DEF OldPassesSafe, Control

(* The ways a pass poller moves on.                                        *)
LEMMA GoSafe ==
  ASSUME Typed, OldPassesSafe, NEW w \in Executions,
         NEW s \in PassSteps \ {"failing"}, Go(w, s),
         HasClaim(w)' =>
           /\ s \in Loaded => evidence' = "clean"
           /\ s \in {"ready", "reading", "read", "batch"} => Todo' >= 1
  PROVE  Control'
  <1> DEFINE p == [run[w].pass EXCEPT !.pc = s]
  <1>1. p.pc = s
    BY PassOf DEF Typed, PassStates
  <1>2. HasClaim(w)' => PassSafe(p, evidence', Todo')
    BY <1>1 DEF PassSafe
  <1>3. Become(w, p)
    BY DEF Go
  <1> QED
    BY <1>2, <1>3, PassSafeStep DEF OldPassesSafe

LEMMA FailSafe ==
  ASSUME Typed, OldPassesSafe, NEW w \in Executions, NEW f \in Faults,
         Fail(w, f),
         HasClaim(w)' /\ f = "preview" => evidence' = "clean"
  PROVE  Control'
  <1> DEFINE p == [run[w].pass EXCEPT !.pc = "failing", !.fault = f,
                                      !.out = "none"]
  <1>1. p.pc = "failing" /\ p.fault = f
    BY PassOf DEF Typed, PassStates
  <1>2. HasClaim(w)' => PassSafe(p, evidence', Todo')
    BY <1>1 DEF PassSafe, Loaded
  <1>3. Become(w, p)
    BY DEF Fail
  <1> QED
    BY <1>2, <1>3, PassSafeStep DEF OldPassesSafe

LEMMA IdleSafe ==
  ASSUME Typed, OldPassesSafe, NEW w \in Executions, ToIdle(w)
  PROVE  Control'
  <1>1. IdlePass.pc = "idle"
    BY DEF IdlePass
  <1>2. PassSafe(IdlePass, evidence', Todo')
    BY <1>1 DEF PassSafe, Loaded
  <1> QED
    BY <1>2, PassSafeStep DEF ToIdle, OldPassesSafe

(* A repair disturbs no pass: nobody is in a batch, and a pass with a claim*)
(* that works on loaded evidence leaves it nothing to project.             *)
LEMMA RepairSafe ==
  ASSUME Typed, Control, Repair, ImageFree
  PROVE  OldPassesSafe
  <1> SUFFICES ASSUME NEW w \in Executions, HasClaim(w)'
               PROVE  PassSafe(run[w].pass, evidence', Todo')
    BY DEF OldPassesSafe
  <1>1. run[w].pass.pc # "batch" /\ evidence' = "clean"
    BY DEF ImageFree, ImageWritten, At, Repair
  <1>2. CASE evidence \in Outcomes
    <2>1. HasClaim(w)
      BY <1>2 DEF Repair, Project, HasClaim, Typed, WorkTyped, Works
    <2>2. run[w].pass.pc \notin Loaded
      BY <1>2, <2>1 DEF Control, PassSafe, Outcomes
    <2> QED
      BY <1>1, <2>2 DEF PassSafe, Loaded
  <1>3. CASE evidence \notin Outcomes
    BY <1>1, <1>3 DEF Repair, Control, PassSafe, Loaded, HasClaim, Todo
  <1> QED
    BY <1>2, <1>3

(* ------------------- the conjuncts of the invariant ------------------ *)
(* The recovery row, the count of unrecovered sectors and the evidence.    *)
LEMMA RecStep ==
  ASSUME Typed, Next
  PROVE  RecTyped'
  <1>1. ASSUME UNCHANGED <<rec, left, evidence>>
        PROVE  RecTyped'
    BY <1>1 DEF Typed, RecTyped
  <1>2. ASSUME NEW w \in Executions, Claim(w) PROVE RecTyped'
    BY <1>2 DEF Claim, Typed, RecTyped, Recs, Statuses
  <1>3. ASSUME NEW w \in Executions, BatchStep(w) PROVE RecTyped'
    BY <1>3, ProjectTyped DEF BatchStep, NextEvidence, Typed, RecTyped,
       EvidenceStates
  <1>4. ASSUME NEW w \in Executions, BatchStepFails(w) PROVE RecTyped'
    BY <1>4 DEF BatchStepFails, NextEvidence, Typed, RecTyped, EvidenceStates
  <1>5. ASSUME NEW w \in Executions, Settle(w) PROVE RecTyped'
    BY <1>5 DEF Settle, Typed, RecTyped, Recs, Statuses
  <1>6. ASSUME NEW w \in Executions, Catch(w) PROVE RecTyped'
    BY <1>6, RequeueTyped DEF Catch, MarkFault, Typed, RecTyped, Recs, Statuses
  <1>7. ASSUME NEW w \in Executions, StopRepair(w) PROVE RecTyped'
    BY <1>7, RepairTyped DEF StopRepair, RecTyped
  <1>8. ASSUME NEW w \in Executions, StopRepairFaults(w) PROVE RecTyped'
    BY <1>8 DEF StopRepairFaults, StopFaults, Typed, RecTyped, Recs, Statuses
  <1>9. ASSUME NEW w \in Executions, CompleteStop(w) PROVE RecTyped'
    BY <1>9 DEF CompleteStop, StopFaults, Typed, RecTyped, Recs, Statuses
  <1>10. ASSUME NEW w \in Executions, TakeRepair(w) PROVE RecTyped'
    BY <1>10, RepairTyped DEF TakeRepair, Typed, RecTyped
  <1>11. ASSUME NEW w \in Executions, TakeoverFaults(w) PROVE RecTyped'
    BY <1>11 DEF TakeoverFaults, MarkFault, Typed, RecTyped, Recs, Statuses
  <1>12. ASSUME NEW w \in Executions, FinishTakeover(w) PROVE RecTyped'
    BY <1>12, RequeueTyped DEF FinishTakeover, Typed, RecTyped
  <1>13. ASSUME NEW w \in Executions, ActivateWaiting(w) PROVE RecTyped'
    BY <1>13 DEF ActivateWaiting, Typed, RecTyped, Recs, Statuses
  <1>14. ASSUME NEW w \in Executions, ExpireVerification(w) PROVE RecTyped'
    BY <1>14, SettledTyped DEF ExpireVerification, Interrupted, Typed, RecTyped
  <1>15. ASSUME NEW w \in Executions, OwnCheckpoint(w) PROVE RecTyped'
    BY <1>15, SettledTyped DEF OwnCheckpoint, VerificationFails, Typed,
       RecTyped
  <1>16. ASSUME NEW w \in Executions, Sample(w) PROVE RecTyped'
    BY <1>16, SettledTyped DEF Sample, VerificationInterrupted,
       VerificationFails, Interrupted, Typed, RecTyped
  <1>17. ASSUME NEW w \in Executions, EndVerification(w) PROVE RecTyped'
    BY <1>17, SettledTyped DEF EndVerification, VerificationFails, Typed,
       RecTyped
  <1>18. ASSUME NEW w \in Executions, RunReconciliation(w) PROVE RecTyped'
    BY <1>18, RepairTyped DEF RunReconciliation, RecTyped
  <1>19. ASSUME NEW w \in Executions, ReleaseAfterReconciliation(w)
        PROVE  RecTyped'
    BY <1>19 DEF ReleaseAfterReconciliation, Typed, RecTyped, Recs, Statuses
  <1>20. ASSUME Confirm PROVE RecTyped'
    BY <1>20 DEF Confirm, Typed, RecTyped, Recs, Statuses
  <1>21. ASSUME RequestResume PROVE RecTyped'
    BY <1>21 DEF RequestResume, Typed, RecTyped, Recs, Statuses
  <1>22. ASSUME RequestStop PROVE RecTyped'
    BY <1>22 DEF RequestStop, Typed, RecTyped, Recs, Statuses
  <1> QED
    BY <1>1, <1>2, <1>3, <1>4, <1>5, <1>6, <1>7, <1>8, <1>9, <1>10, <1>11,
       <1>12, <1>13, <1>14, <1>15, <1>16, <1>17, <1>18, <1>19, <1>20, <1>21,
       <1>22 DEF Next, PassStep, VerifierStep, ReconcilerStep, LeaseEnds,
       Operate, ExpireConfirmation, Load, NextSector, Admit, EndRead,
       BeginBatch, FindStopping, PrepareStop, StopDevice, DeferStop,
       BeginTakeover, TakeDevice, ClaimVerification, ExpireReconciliation,
       ClaimReconciliation, CompleteReconciliation, FailReconciliation, Renew,
       Crash, Restart, SubmitVerification, SubmitReconciliation,
       RequestPreview, PreviewReads, PreviewEnds, Eject, Insert, WorkLeaseEnds,
       VerificationLeaseEnds, ReconciliationLeaseEnds, HelperEnds

(* The reservation.                                                        *)
LEMMA WorkStep ==
  ASSUME Typed, Next
  PROVE  WorkTyped'
  <1>1. ASSUME UNCHANGED <<work>>
        PROVE  WorkTyped'
    BY <1>1 DEF Typed, WorkTyped
  <1>2. ASSUME NEW w \in Executions, Claim(w) PROVE WorkTyped'
    BY <1>2 DEF Claim, Typed, WorkTyped, Works, Holders, RecTyped
  <1>3. ASSUME NEW w \in Executions, Admit(w) PROVE WorkTyped'
    BY <1>3, WorksUpdates DEF Admit, Typed, WorkTyped
  <1>4. ASSUME NEW w \in Executions, BatchStep(w) PROVE WorkTyped'
    BY <1>4, ProjectTyped DEF BatchStep, Typed, WorkTyped
  <1>5. ASSUME NEW w \in Executions, Settle(w) PROVE WorkTyped'
    <2>1. work \in Works /\ NoWork \in Works
      BY NoWorkTyped DEF Typed, WorkTyped
    <2>2. \/ work' = work \/ work' = Abandoned(w) \/ work' = NoWork
          \/ work' = [NoWork EXCEPT !.status = "requested"]
          \/ work' = [work EXCEPT !.status = "requested", !.by = Nobody,
                                  !.fresh = FALSE, !.admitted = FALSE]
      BY <1>5 DEF Settle, Dismiss
    <2> QED
      BY <2>1, <2>2, AbandonedTyped, WorksStatus, WorksRequeued
         DEF Typed, WorkTyped
  <1>6. ASSUME NEW w \in Executions, Catch(w) PROVE WorkTyped'
    BY <1>6, AbandonedTyped, NoWorkTyped, RequeueTyped DEF Catch, Dismiss,
       MarkFault, Typed, WorkTyped
  <1>7. ASSUME NEW w \in Executions, PrepareStop(w) PROVE WorkTyped'
    <2>1. work' = work \/ work' = Abandoned(w)
      BY <1>7 DEF PrepareStop, Dismiss
    <2> QED
      BY <2>1, AbandonedTyped DEF Typed, WorkTyped
  <1>8. ASSUME NEW w \in Executions, StopDevice(w) PROVE WorkTyped'
    BY <1>8, AbandonedTyped DEF StopDevice, Dismiss, Typed, WorkTyped
  <1>9. ASSUME NEW w \in Executions, StopRepair(w) PROVE WorkTyped'
    BY <1>9, RepairTyped DEF StopRepair
  <1>10. ASSUME NEW w \in Executions, DeferStop(w) PROVE WorkTyped'
    BY <1>10, AbandonedTyped DEF DeferStop, Dismiss, Typed, WorkTyped
  <1>11. ASSUME NEW w \in Executions, StopRepairFaults(w) PROVE WorkTyped'
    BY <1>11, AbandonedTyped DEF StopRepairFaults, StopFaults, Dismiss, Typed,
       WorkTyped
  <1>12. ASSUME NEW w \in Executions, CompleteStop(w) PROVE WorkTyped'
    BY <1>12, AbandonedTyped, NoWorkTyped DEF CompleteStop, StopFaults,
       Dismiss, Typed, WorkTyped
  <1>13. ASSUME NEW w \in Executions, BeginTakeover(w) PROVE WorkTyped'
    BY <1>13 DEF BeginTakeover, Typed, WorkTyped, Works, Holders
  <1>14. ASSUME NEW w \in Executions, TakeDevice(w) PROVE WorkTyped'
    BY <1>14, WorksUpdates DEF TakeDevice, DeferTakeover, Typed, WorkTyped
  <1>15. ASSUME NEW w \in Executions, TakeRepair(w) PROVE WorkTyped'
    BY <1>15, RepairTyped DEF TakeRepair, DeferTakeover, Typed, WorkTyped,
       Works, Holders
  <1>16. ASSUME NEW w \in Executions, TakeoverFaults(w) PROVE WorkTyped'
    BY <1>16, AbandonedTyped DEF TakeoverFaults, MarkFault, Typed, WorkTyped
  <1>17. ASSUME NEW w \in Executions, FinishTakeover(w) PROVE WorkTyped'
    BY <1>17, RequeueTyped, AbandonedTyped DEF FinishTakeover, Typed, WorkTyped
  <1>18. ASSUME NEW w \in Executions, ActivateWaiting(w) PROVE WorkTyped'
    BY <1>18 DEF ActivateWaiting, Typed, WorkTyped, Works
  <1>19. ASSUME NEW w \in Executions, RunReconciliation(w) PROVE WorkTyped'
    BY <1>19, RepairTyped DEF RunReconciliation
  <1>20. ASSUME NEW w \in Executions, ReleaseAfterReconciliation(w)
        PROVE  WorkTyped'
    BY <1>20, NoWorkTyped DEF ReleaseAfterReconciliation, Typed, WorkTyped
  <1>21. ASSUME NEW w \in Executions, Renew(w) PROVE WorkTyped'
    BY <1>21 DEF Renew, Typed, WorkTyped, Works
  <1>22. ASSUME NEW w \in Executions, Crash(w) PROVE WorkTyped'
    BY <1>22 DEF Crash, Typed, WorkTyped, Works, Holders
  <1>23. ASSUME SubmitVerification PROVE WorkTyped'
    BY <1>23 DEF SubmitVerification, Typed, WorkTyped, Works
  <1>24. ASSUME Confirm PROVE WorkTyped'
    BY <1>24 DEF Confirm, Typed, WorkTyped, Works
  <1>25. ASSUME RequestResume PROVE WorkTyped'
    BY <1>25, NoWorkTyped DEF RequestResume, WorkTyped, Works
  <1>26. ASSUME RequestStop PROVE WorkTyped'
    BY <1>26, NoWorkTyped DEF RequestStop, Typed, WorkTyped, Works
  <1>27. ASSUME WorkLeaseEnds PROVE WorkTyped'
    BY <1>27 DEF WorkLeaseEnds, Typed, WorkTyped, Works
  <1> QED
    BY <1>1, <1>2, <1>3, <1>4, <1>5, <1>6, <1>7, <1>8, <1>9, <1>10, <1>11,
       <1>12, <1>13, <1>14, <1>15, <1>16, <1>17, <1>18, <1>19, <1>20, <1>21,
       <1>22, <1>23, <1>24, <1>25, <1>26, <1>27 DEF Next, PassStep,
       VerifierStep, ReconcilerStep, LeaseEnds, Operate, ExpireConfirmation,
       Load, NextSector, EndRead, BeginBatch, BatchStepFails, FindStopping,
       ExpireVerification, ClaimVerification, OwnCheckpoint, Sample,
       EndVerification, ExpireReconciliation, ClaimReconciliation,
       CompleteReconciliation, FailReconciliation, Restart,
       SubmitReconciliation, RequestPreview, PreviewReads, PreviewEnds, Eject,
       Insert, VerificationLeaseEnds, ReconciliationLeaseEnds, HelperEnds

(* The latest verification.                                                *)
LEMMA VerStep ==
  ASSUME Typed, RecTyped', Next
  PROVE  VerTyped'
  <1>1. ASSUME UNCHANGED <<ver>>
        PROVE  VerTyped'
    BY <1>1 DEF Typed, VerTyped
  <1>2. ASSUME NEW w \in Executions, ExpireConfirmation(w) PROVE VerTyped'
    BY <1>2 DEF ExpireConfirmation, Typed, VerTyped, Verifications
  <1>3. ASSUME NEW w \in Executions, Admit(w) PROVE VerTyped'
    BY <1>3 DEF Admit, Typed, VerTyped, Verifications
  <1>4. ASSUME NEW w \in Executions, BatchStep(w) PROVE VerTyped'
    BY <1>4, ProjectTyped DEF BatchStep, Typed, VerTyped
  <1>5. ASSUME NEW w \in Executions, Settle(w) PROVE VerTyped'
    <2>1. rec' \in Recs
      BY DEF RecTyped
    <2>2. Queued(TRUE) \in Verifications
      BY <2>1, QueuedTyped DEF Typed
    <2> QED
      BY <1>5, <2>2 DEF Settle, Typed, VerTyped
  <1>6. ASSUME NEW w \in Executions, Catch(w) PROVE VerTyped'
    BY <1>6 DEF Catch, Typed, VerTyped, Verifications
  <1>7. ASSUME NEW w \in Executions, PrepareStop(w) PROVE VerTyped'
    <2>1. \/ ver' = ver
          \/ ver' = [ver EXCEPT !.status = "failed"]
          \/ \E o \in Interrupted :
               ver' = [ver EXCEPT !.status = "completed", !.outcome = o]
      BY <1>7 DEF PrepareStop
    <2>2. Interrupted \subseteq {"uncertain", "interrupted"}
      BY DEF Interrupted
    <2> QED
      BY <2>1, <2>2 DEF Typed, VerTyped, Verifications
  <1>8. ASSUME NEW w \in Executions, StopRepair(w) PROVE VerTyped'
    BY <1>8, RepairTyped DEF StopRepair
  <1>9. ASSUME NEW w \in Executions, TakeRepair(w) PROVE VerTyped'
    BY <1>9, RepairTyped DEF TakeRepair, Typed, VerTyped
  <1>10. ASSUME NEW w \in Executions, ActivateWaiting(w) PROVE VerTyped'
    <2>1. rec' \in Recs
      BY DEF RecTyped
    <2>2. Queued(TRUE) \in Verifications
      BY <2>1, QueuedTyped DEF Typed
    <2> QED
      BY <1>10, <2>2 DEF ActivateWaiting, Typed, VerTyped
  <1>11. ASSUME NEW w \in Executions, ExpireVerification(w) PROVE VerTyped'
    BY <1>11, SettledTyped DEF ExpireVerification, Interrupted
  <1>12. ASSUME NEW w \in Executions, ClaimVerification(w) PROVE VerTyped'
    BY <1>12 DEF ClaimVerification, Typed, VerTyped, Verifications, Holders
  <1>13. ASSUME NEW w \in Executions, OwnCheckpoint(w) PROVE VerTyped'
    BY <1>13, SettledTyped DEF OwnCheckpoint, VerificationFails, Typed,
       VerTyped
  <1>14. ASSUME NEW w \in Executions, Sample(w) PROVE VerTyped'
    <2>1. ASSUME NEW o \in {"match", "uncertain", "interrupted", "failed"},
                 Settled(o)
          PROVE  VerTyped'
      BY <2>1, SettledTyped
    <2>2. CASE VerificationFails(w)
      BY <2>1, <2>2 DEF VerificationFails, Typed, VerTyped
    <2>3. CASE \E o \in Interrupted : Settled(o)
      BY <2>1, <2>3 DEF Interrupted
    <2>4. CASE ver' = [ver EXCEPT !.admitted = TRUE, !.fresh = TRUE]
      BY <2>4 DEF Typed, VerTyped, Verifications
    <2> QED
      BY <1>14, <2>2, <2>3, <2>4 DEF Sample, VerificationInterrupted
  <1>15. ASSUME NEW w \in Executions, EndVerification(w) PROVE VerTyped'
    BY <1>15, SettledTyped DEF EndVerification, VerificationFails, Typed,
       VerTyped
  <1>16. ASSUME NEW w \in Executions, RunReconciliation(w) PROVE VerTyped'
    BY <1>16, RepairTyped DEF RunReconciliation
  <1>17. ASSUME NEW w \in Executions, Renew(w) PROVE VerTyped'
    BY <1>17 DEF Renew, Typed, VerTyped, Verifications
  <1>18. ASSUME NEW w \in Executions, Crash(w) PROVE VerTyped'
    BY <1>18 DEF Crash, Typed, VerTyped, Verifications, Holders
  <1>19. ASSUME NEW w \in Executions, Restart(w) PROVE VerTyped'
    BY <1>19 DEF Restart, Typed, VerTyped, Verifications
  <1>20. ASSUME SubmitVerification PROVE VerTyped'
    <2> DEFINE x == [NoVerification EXCEPT !.status = "queued", !.base = TRUE,
                       !.attempt = rec.attempt,
                       !.admitted = ver.admitted /\ ver.attempt = rec.attempt]
    <2>1. rec.attempt \in Nat
      BY DEF Typed, RecTyped, Recs
    <2>2. ver'.admitted \in BOOLEAN /\ ver' = x
      BY <1>20, Zenon DEF SubmitVerification, NoVerification
    <2> QED
      BY <2>1, <2>2, Zenon
         DEF NoVerification, VerTyped, Verifications, Holders
  <1>21. ASSUME Confirm PROVE VerTyped'
    BY <1>21 DEF Confirm, Typed, VerTyped, Verifications
  <1>22. ASSUME RequestResume PROVE VerTyped'
    <2>1. rec' \in Recs
      BY DEF RecTyped
    <2>2. Queued(TRUE) \in Verifications
      BY <2>1, QueuedTyped DEF Typed
    <2> QED
      BY <1>22, <2>2 DEF RequestResume, Typed, VerTyped
  <1>23. ASSUME RequestStop PROVE VerTyped'
    BY <1>23 DEF RequestStop, Typed, VerTyped, Verifications
  <1>24. ASSUME VerificationLeaseEnds PROVE VerTyped'
    BY <1>24 DEF VerificationLeaseEnds, Typed, VerTyped, Verifications
  <1> QED
    BY <1>1, <1>2, <1>3, <1>4, <1>5, <1>6, <1>7, <1>8, <1>9, <1>10, <1>11,
       <1>12, <1>13, <1>14, <1>15, <1>16, <1>17, <1>18, <1>19, <1>20, <1>21,
       <1>22, <1>23, <1>24 DEF Next, PassStep, VerifierStep, ReconcilerStep,
       LeaseEnds, Operate, Claim, Load, NextSector, EndRead, BeginBatch,
       BatchStepFails, FindStopping, StopDevice, DeferStop, StopRepairFaults,
       CompleteStop, BeginTakeover, TakeDevice, TakeoverFaults, FinishTakeover,
       ExpireReconciliation, ClaimReconciliation, ReleaseAfterReconciliation,
       CompleteReconciliation, FailReconciliation, SubmitReconciliation,
       RequestPreview, PreviewReads, PreviewEnds, Eject, Insert, WorkLeaseEnds,
       ReconciliationLeaseEnds, HelperEnds

(* The latest reconciliation.                                              *)
LEMMA ReconStep ==
  ASSUME Typed, Next
  PROVE  ReconTyped'
  <1>1. ASSUME UNCHANGED <<recon>>
        PROVE  ReconTyped'
    BY <1>1 DEF Typed, ReconTyped
  <1>2. ASSUME NEW w \in Executions, ExpireReconciliation(w) PROVE ReconTyped'
    BY <1>2 DEF ExpireReconciliation, NoReconciliation, ReconTyped,
       Reconciliations, Holders
  <1>3. ASSUME NEW w \in Executions, ClaimReconciliation(w) PROVE ReconTyped'
    BY <1>3 DEF ClaimReconciliation, ReconTyped, Reconciliations, Holders
  <1>4. ASSUME NEW w \in Executions, CompleteReconciliation(w)
        PROVE  ReconTyped'
    BY <1>4 DEF CompleteReconciliation, Reconciled, Typed, ReconTyped,
       Reconciliations
  <1>5. ASSUME NEW w \in Executions, FailReconciliation(w) PROVE ReconTyped'
    BY <1>5 DEF FailReconciliation, Reconciled, Typed, ReconTyped,
       Reconciliations
  <1>6. ASSUME NEW w \in Executions, Renew(w) PROVE ReconTyped'
    BY <1>6 DEF Renew, Typed, ReconTyped, Reconciliations
  <1>7. ASSUME NEW w \in Executions, Crash(w) PROVE ReconTyped'
    BY <1>7 DEF Crash, Typed, ReconTyped, Reconciliations, Holders
  <1>8. ASSUME SubmitReconciliation PROVE ReconTyped'
    BY <1>8 DEF SubmitReconciliation, NoReconciliation, ReconTyped,
       Reconciliations, Holders
  <1>9. ASSUME ReconciliationLeaseEnds PROVE ReconTyped'
    BY <1>9 DEF ReconciliationLeaseEnds, Typed, ReconTyped, Reconciliations
  <1> QED
    BY <1>1, <1>2, <1>3, <1>4, <1>5, <1>6, <1>7, <1>8, <1>9, ZenonT(60)
       DEF Next, PassStep, VerifierStep, ReconcilerStep, LeaseEnds, Operate,
       ExpireConfirmation, Claim, Load, NextSector, Admit, EndRead, BeginBatch,
       BatchStep, BatchStepFails, Settle, Catch, FindStopping, PrepareStop,
       StopDevice, StopRepair, DeferStop, StopRepairFaults, CompleteStop,
       BeginTakeover, TakeDevice, TakeRepair, TakeoverFaults, FinishTakeover,
       ActivateWaiting, ExpireVerification, ClaimVerification, OwnCheckpoint,
       Sample, EndVerification, RunReconciliation, ReleaseAfterReconciliation,
       Restart, SubmitVerification, Confirm, RequestResume, RequestStop,
       RequestPreview, PreviewReads, PreviewEnds, Eject, Insert, WorkLeaseEnds,
       VerificationLeaseEnds, HelperEnds

(* Disc, preview, orphaned helpers and what is spent.                      *)
LEMMA RestStep ==
  ASSUME Typed, Next
  PROVE  RestTyped'
  <1>1. ASSUME UNCHANGED <<disc, preview, orphans, used>>
        PROVE  RestTyped'
    BY <1>1 DEF Typed, RestTyped
  <1>2. ASSUME NEW w \in Executions, ActivateWaiting(w) PROVE RestTyped'
    BY <1>2 DEF ActivateWaiting, Typed, RestTyped
  <1>3. ASSUME NEW w \in Executions, Crash(w) PROVE RestTyped'
    BY <1>3 DEF Crash, Spend, Typed, RestTyped, Budgets
  <1>4. ASSUME SubmitVerification PROVE RestTyped'
    BY <1>4 DEF SubmitVerification, Typed, RestTyped
  <1>5. ASSUME RequestResume PROVE RestTyped'
    BY <1>5 DEF RequestResume, Spend, Queued, Typed, RestTyped, Budgets
  <1>6. ASSUME SubmitReconciliation PROVE RestTyped'
    BY <1>6 DEF SubmitReconciliation, Spend, Typed, RestTyped, Budgets
  <1>7. ASSUME RequestPreview PROVE RestTyped'
    BY <1>7 DEF RequestPreview, Spend, Typed, RestTyped, Budgets
  <1>8. ASSUME PreviewReads PROVE RestTyped'
    BY <1>8 DEF PreviewReads, Typed, RestTyped
  <1>9. ASSUME PreviewEnds PROVE RestTyped'
    BY <1>9 DEF PreviewEnds, Typed, RestTyped
  <1>10. ASSUME Eject PROVE RestTyped'
    BY <1>10 DEF Eject, Typed, RestTyped
  <1>11. ASSUME Insert PROVE RestTyped'
    BY <1>11 DEF Insert, Spend, Typed, RestTyped, Budgets
  <1>12. ASSUME WorkLeaseEnds PROVE RestTyped'
    BY <1>12 DEF WorkLeaseEnds, Spend, Typed, RestTyped
  <1>13. ASSUME VerificationLeaseEnds PROVE RestTyped'
    BY <1>13 DEF VerificationLeaseEnds, Stalls, Spend, Typed, RestTyped
  <1>14. ASSUME ReconciliationLeaseEnds PROVE RestTyped'
    BY <1>14 DEF ReconciliationLeaseEnds, Stalls, Spend, Typed, RestTyped
  <1>15. ASSUME HelperEnds PROVE RestTyped'
    BY <1>15 DEF HelperEnds, Typed, RestTyped
  <1> QED
    BY <1>1, <1>2, <1>3, <1>4, <1>5, <1>6, <1>7, <1>8, <1>9, <1>10, <1>11,
       <1>12, <1>13, <1>14, <1>15, ZenonT(60) DEF Next, PassStep, VerifierStep,
       ReconcilerStep, LeaseEnds, Operate, ExpireConfirmation, Claim, Load,
       NextSector, Admit, EndRead, BeginBatch, BatchStep, BatchStepFails,
       Settle, Catch, FindStopping, PrepareStop, StopDevice, StopRepair,
       DeferStop, StopRepairFaults, CompleteStop, BeginTakeover, TakeDevice,
       TakeRepair, TakeoverFaults, FinishTakeover, ExpireVerification,
       ClaimVerification, OwnCheckpoint, Sample, EndVerification,
       ExpireReconciliation, ClaimReconciliation, RunReconciliation,
       ReleaseAfterReconciliation, CompleteReconciliation, FailReconciliation,
       Renew, Restart, Confirm, RequestStop

(* The pollers, and that no pass knows an attempt still to come.           *)
LEMMA RunStep ==
  ASSUME Typed, Bounded, Next
  PROVE  RunTyped' /\ AttemptsSeen
  <1>1. ASSUME UNCHANGED <<run>>
        PROVE  RunTyped' /\ AttemptsSeen
    BY <1>1 DEF Typed, RunTyped, Bounded, RunsBounded, AttemptsSeen
  <1>2. ASSUME NEW w \in Executions, Claim(w) PROVE RunTyped' /\ AttemptsSeen
    BY <1>2, FreshRuns DEF Claim, Bounded, PassSteps
  <1>3. ASSUME NEW w \in Executions, Load(w) PROVE RunTyped' /\ AttemptsSeen
    BY <1>3, GoRuns, FailRuns DEF Load, Bounded, PassSteps, Faults
  <1>4. ASSUME NEW w \in Executions, NextSector(w)
        PROVE  RunTyped' /\ AttemptsSeen
    BY <1>4, GoRuns, FailRuns DEF NextSector, Bounded, PassSteps, Faults
  <1>5. ASSUME NEW w \in Executions, Admit(w) PROVE RunTyped' /\ AttemptsSeen
    BY <1>5, GoRuns, FailRuns DEF Admit, Bounded, PassSteps, Faults
  <1>6. ASSUME NEW w \in Executions, EndRead(w) PROVE RunTyped' /\ AttemptsSeen
    <2>1. \/ \E f \in Faults : Fail(w, f)
          \/ Go(w, "stopping")
          \/ \E o \in Outcomes :
               Become(w, [run[w].pass EXCEPT !.pc = "read", !.out = o])
      BY <1>6 DEF EndRead, Faults
    <2> QED
      BY <2>1, FailRuns, GoRuns, OutRuns DEF Bounded, PassSteps
  <1>7. ASSUME NEW w \in Executions, BeginBatch(w)
        PROVE  RunTyped' /\ AttemptsSeen
    BY <1>7, GoRuns, FailRuns DEF BeginBatch, Bounded, PassSteps, Faults
  <1>8. ASSUME NEW w \in Executions, BatchStep(w)
        PROVE  RunTyped' /\ AttemptsSeen
    <2>1. \/ UNCHANGED run
          \/ \E f \in Faults : Fail(w, f)
          \/ Become(w, [run[w].pass EXCEPT !.pc = "next", !.out = "none"])
      BY <1>8 DEF BatchStep, EndBatch, Faults
    <2>2. CASE UNCHANGED run
      BY <1>1, <2>2
    <2> QED
      BY <2>1, <2>2, FailRuns, OutRuns DEF Bounded, PassSteps
  <1>9. ASSUME NEW w \in Executions, BatchStepFails(w)
        PROVE  RunTyped' /\ AttemptsSeen
    BY <1>9, FailRuns DEF BatchStepFails, Bounded, Faults
  <1>10. ASSUME NEW w \in Executions, Settle(w) PROVE RunTyped' /\ AttemptsSeen
    BY <1>10, FailRuns, IdleRuns DEF Settle, Dismiss, Bounded, Faults
  <1>11. ASSUME NEW w \in Executions, Catch(w) PROVE RunTyped' /\ AttemptsSeen
    <2>1. \/ ToIdle(w)
          \/ Become(w, [run[w].pass EXCEPT !.pc = "stopping",
                                            !.fault = "none"])
      BY <1>11 DEF Catch, Dismiss
    <2> QED
      BY <2>1, IdleRuns, FaultRuns DEF Bounded, PassSteps, Faults
  <1>12. ASSUME NEW w \in Executions, FindStopping(w)
        PROVE  RunTyped' /\ AttemptsSeen
    BY <1>12, FreshRuns DEF FindStopping, Bounded, PassSteps
  <1>13. ASSUME NEW w \in Executions, PrepareStop(w)
        PROVE  RunTyped' /\ AttemptsSeen
    BY <1>13, GoRuns, IdleRuns DEF PrepareStop, Dismiss, Bounded, PassSteps
  <1>14. ASSUME NEW w \in Executions, StopDevice(w)
        PROVE  RunTyped' /\ AttemptsSeen
    <2>1. \/ ToIdle(w) \/ Go(w, "stop_repair")
          \/ Become(w, [run[w].pass EXCEPT !.pc = "stop_repair",
                                            !.locked = TRUE])
      BY <1>14 DEF StopDevice, Dismiss
    <2> QED
      BY <2>1, IdleRuns, GoRuns, LockRuns DEF Bounded, PassSteps
  <1>15. ASSUME NEW w \in Executions, StopRepair(w)
        PROVE  RunTyped' /\ AttemptsSeen
    BY <1>15, GoRuns DEF StopRepair, Bounded, PassSteps
  <1>16. ASSUME NEW w \in Executions, DeferStop(w)
        PROVE  RunTyped' /\ AttemptsSeen
    BY <1>16, IdleRuns DEF DeferStop, Dismiss, Bounded
  <1>17. ASSUME NEW w \in Executions, StopRepairFaults(w)
        PROVE  RunTyped' /\ AttemptsSeen
    BY <1>17, IdleRuns DEF StopRepairFaults, StopFaults, Dismiss, Bounded
  <1>18. ASSUME NEW w \in Executions, CompleteStop(w)
        PROVE  RunTyped' /\ AttemptsSeen
    BY <1>18, IdleRuns DEF CompleteStop, StopFaults, Dismiss, Bounded
  <1>19. ASSUME NEW w \in Executions, BeginTakeover(w)
        PROVE  RunTyped' /\ AttemptsSeen
    BY <1>19, FreshRuns DEF BeginTakeover, Bounded, PassSteps
  <1>20. ASSUME NEW w \in Executions, TakeDevice(w)
        PROVE  RunTyped' /\ AttemptsSeen
    <2>1. \/ ToIdle(w)
          \/ Become(w, [run[w].pass EXCEPT !.pc = "take_repair",
                                            !.locked = TRUE])
      BY <1>20 DEF TakeDevice, DeferTakeover
    <2> QED
      BY <2>1, IdleRuns, LockRuns DEF Bounded, PassSteps
  <1>21. ASSUME NEW w \in Executions, TakeRepair(w)
        PROVE  RunTyped' /\ AttemptsSeen
    BY <1>21, GoRuns, IdleRuns DEF TakeRepair, DeferTakeover, Bounded,
       PassSteps
  <1>22. ASSUME NEW w \in Executions, TakeoverFaults(w)
        PROVE  RunTyped' /\ AttemptsSeen
    BY <1>22, IdleRuns DEF TakeoverFaults, Bounded
  <1>23. ASSUME NEW w \in Executions, FinishTakeover(w)
        PROVE  RunTyped' /\ AttemptsSeen
    BY <1>23, IdleRuns DEF FinishTakeover, Bounded
  <1>24. ASSUME NEW w \in Executions, ClaimVerification(w)
        PROVE  RunTyped' /\ AttemptsSeen
    BY <1>24, PollerRuns DEF ClaimVerification, Bounded
  <1>25. ASSUME NEW w \in Executions, OwnCheckpoint(w)
        PROVE  RunTyped' /\ AttemptsSeen
    BY <1>25, PollerRuns DEF OwnCheckpoint, VerificationFails, Bounded
  <1>26. ASSUME NEW w \in Executions, Sample(w) PROVE RunTyped' /\ AttemptsSeen
    BY <1>26, PollerRuns DEF Sample, VerificationInterrupted,
       VerificationFails, Bounded
  <1>27. ASSUME NEW w \in Executions, EndVerification(w)
        PROVE  RunTyped' /\ AttemptsSeen
    BY <1>27, PollerRuns DEF EndVerification, VerificationFails, Bounded
  <1>28. ASSUME NEW w \in Executions, ClaimReconciliation(w)
        PROVE  RunTyped' /\ AttemptsSeen
    BY <1>28, PollerRuns DEF ClaimReconciliation, Bounded
  <1>29. ASSUME NEW w \in Executions, RunReconciliation(w)
        PROVE  RunTyped' /\ AttemptsSeen
    BY <1>29, PollerRuns DEF RunReconciliation, Bounded
  <1>30. ASSUME NEW w \in Executions, ReleaseAfterReconciliation(w)
        PROVE  RunTyped' /\ AttemptsSeen
    BY <1>30, PollerRuns DEF ReleaseAfterReconciliation, Bounded
  <1>31. ASSUME NEW w \in Executions, CompleteReconciliation(w)
        PROVE  RunTyped' /\ AttemptsSeen
    BY <1>31, PollerRuns DEF CompleteReconciliation, Bounded
  <1>32. ASSUME NEW w \in Executions, FailReconciliation(w)
        PROVE  RunTyped' /\ AttemptsSeen
    <2>1. ReconcilerGoes(w, "idle")
      BY <1>32 DEF FailReconciliation
    <2> QED
      BY <2>1, PollerRuns DEF Bounded
  <1>33. ASSUME NEW w \in Executions, Crash(w) PROVE RunTyped' /\ AttemptsSeen
    BY <1>33, PollerRuns DEF Crash, Bounded
  <1>34. ASSUME NEW w \in Executions, Restart(w)
        PROVE  RunTyped' /\ AttemptsSeen
    BY <1>34, PollerRuns DEF Restart, Bounded
  <1> QED
    BY <1>1, <1>2, <1>3, <1>4, <1>5, <1>6, <1>7, <1>8, <1>9, <1>10, <1>11,
       <1>12, <1>13, <1>14, <1>15, <1>16, <1>17, <1>18, <1>19, <1>20, <1>21,
       <1>22, <1>23, <1>24, <1>25, <1>26, <1>27, <1>28, <1>29, <1>30, <1>31,
       <1>32, <1>33, <1>34 DEF Next, PassStep, VerifierStep, ReconcilerStep,
       LeaseEnds, Operate, ExpireConfirmation, ActivateWaiting,
       ExpireVerification, ExpireReconciliation, Renew, SubmitVerification,
       Confirm, RequestResume, RequestStop, SubmitReconciliation,
       RequestPreview, PreviewReads, PreviewEnds, Eject, Insert, WorkLeaseEnds,
       VerificationLeaseEnds, ReconciliationLeaseEnds, HelperEnds

(* No budget is overspent.                                                 *)
LEMMA BudgetStep ==
  ASSUME Typed, Bounded, Next
  PROVE  Budgeted'
  <1>1. ASSUME UNCHANGED <<used>>
        PROVE  Budgeted'
    BY <1>1 DEF Bounded, Budgeted
  <1>2. ASSUME NEW w \in Executions, Crash(w) PROVE Budgeted'
    BY <1>2, SpendBudget DEF Crash, Typed, RestTyped, Bounded, Budgets
  <1>3. ASSUME RequestResume PROVE Budgeted'
    BY <1>3, SpendBudget DEF RequestResume, Typed, RestTyped, Bounded, Budgets
  <1>4. ASSUME SubmitReconciliation PROVE Budgeted'
    BY <1>4, SpendBudget DEF SubmitReconciliation, Typed, RestTyped, Bounded,
       Budgets
  <1>5. ASSUME RequestPreview PROVE Budgeted'
    BY <1>5, SpendBudget DEF RequestPreview, Typed, RestTyped, Bounded, Budgets
  <1>6. ASSUME Insert PROVE Budgeted'
    BY <1>6, SpendBudget DEF Insert, Typed, RestTyped, Bounded, Budgets
  <1>7. ASSUME WorkLeaseEnds PROVE Budgeted'
    BY <1>7, SpendBudget DEF WorkLeaseEnds, Typed, RestTyped, Budgeted,
       Bounded, Budgets
  <1>8. ASSUME VerificationLeaseEnds PROVE Budgeted'
    BY <1>8, SpendBudget DEF VerificationLeaseEnds, Stalls, Typed, RestTyped,
       Budgeted, Bounded, Budgets
  <1>9. ASSUME ReconciliationLeaseEnds PROVE Budgeted'
    BY <1>9, SpendBudget DEF ReconciliationLeaseEnds, Stalls, Typed, RestTyped,
       Budgeted, Bounded, Budgets
  <1> QED
    BY <1>1, <1>2, <1>3, <1>4, <1>5, <1>6, <1>7, <1>8, <1>9, ZenonT(60)
       DEF Next, PassStep, VerifierStep, ReconcilerStep, LeaseEnds, Operate,
       ExpireConfirmation, Claim, Load, NextSector, Admit, EndRead, BeginBatch,
       BatchStep, BatchStepFails, Settle, Catch, FindStopping, PrepareStop,
       StopDevice, StopRepair, DeferStop, StopRepairFaults, CompleteStop,
       BeginTakeover, TakeDevice, TakeRepair, TakeoverFaults, FinishTakeover,
       ActivateWaiting, ExpireVerification, ClaimVerification, OwnCheckpoint,
       Sample, EndVerification, ExpireReconciliation, ClaimReconciliation,
       RunReconciliation, ReleaseAfterReconciliation, CompleteReconciliation,
       FailReconciliation, Renew, Restart, SubmitVerification, Confirm,
       RequestStop, PreviewReads, PreviewEnds, Eject, HelperEnds, Typed,
       VerTyped, Verifications, WorkTyped, Works

(* Only a resume starts an attempt, and a verification belongs to one that *)
(* was started.                                                            *)
LEMMA AttemptStep ==
  ASSUME Typed, Bounded, Next
  PROVE  Attempts' /\ rec.attempt <= rec'.attempt
  <1>1. ASSUME UNCHANGED <<rec, ver, used>>
        PROVE  Attempts' /\ rec.attempt <= rec'.attempt
    BY <1>1 DEF Typed, RecTyped, Recs, Bounded, Attempts
  <1>2. ASSUME NEW w \in Executions, ExpireConfirmation(w)
        PROVE  Attempts' /\ rec.attempt <= rec'.attempt
    BY <1>2 DEF ExpireConfirmation, Typed, RecTyped, Recs, Attempts, Bounded
  <1>3. ASSUME NEW w \in Executions, Claim(w)
        PROVE  Attempts' /\ rec.attempt <= rec'.attempt
    BY <1>3 DEF Claim, Attempts, Bounded
  <1>4. ASSUME NEW w \in Executions, Admit(w)
        PROVE  Attempts' /\ rec.attempt <= rec'.attempt
    BY <1>4 DEF Admit, Typed, RecTyped, Recs, Attempts, Bounded
  <1>5. ASSUME NEW w \in Executions, BatchStep(w)
        PROVE  Attempts' /\ rec.attempt <= rec'.attempt
    BY <1>5, ProjectAttempts DEF BatchStep, Typed, RecTyped, Recs, Attempts,
       Bounded
  <1>6. ASSUME NEW w \in Executions, Settle(w)
        PROVE  Attempts' /\ rec.attempt <= rec'.attempt
    <2>1. rec'.attempt = rec.attempt
      BY <1>6 DEF Settle, Typed, RecTyped, Recs
    <2>2. UNCHANGED ver \/ ver' = Queued(TRUE)
      BY <1>6 DEF Settle
    <2>3. UNCHANGED used
      BY <1>6 DEF Settle
    <2>4. Queued(TRUE).attempt = rec'.attempt
      BY QueuedAttempt, Zenon
    <2>5. ver'.attempt = ver.attempt \/ ver'.attempt = rec'.attempt
      BY <2>2, <2>4, Zenon
    <2> QED
      BY <2>1, <2>3, <2>5
         DEF Attempts, Bounded, Typed, RecTyped, Recs
  <1>7. ASSUME NEW w \in Executions, Catch(w)
        PROVE  Attempts' /\ rec.attempt <= rec'.attempt
    <2>1. \/ UNCHANGED rec \/ Requeue(w)
          \/ rec' = [rec EXCEPT !.status = "faulted"]
          \/ rec' = [rec EXCEPT !.status = "paused", !.pause = "storage_fault"]
      BY <1>7 DEF Catch, MarkFault
    <2>2. rec'.attempt = rec.attempt
      BY <2>1, RequeueAttempts DEF Typed, RecTyped, Recs
    <2>3. ver'.attempt = ver.attempt
      BY <1>7 DEF Catch, Typed, VerTyped, Verifications
    <2>4. UNCHANGED used
      BY <1>7 DEF Catch
    <2> QED
      BY <2>2, <2>3, <2>4 DEF Attempts, Bounded, Typed, RecTyped, Recs
  <1>8. ASSUME NEW w \in Executions, PrepareStop(w)
        PROVE  Attempts' /\ rec.attempt <= rec'.attempt
    <2>1. \/ UNCHANGED ver
          \/ ver' = [ver EXCEPT !.status = "failed"]
          \/ \E o \in Interrupted :
               ver' = [ver EXCEPT !.status = "completed", !.outcome = o]
      BY <1>8 DEF PrepareStop
    <2>2. ver'.attempt = ver.attempt
      BY <2>1 DEF Typed, VerTyped, Verifications
    <2>3. UNCHANGED <<rec, used>>
      BY <1>8 DEF PrepareStop
    <2> QED
      BY <2>2, <2>3 DEF Attempts, Bounded, Typed, RecTyped, Recs
  <1>9. ASSUME NEW w \in Executions, StopRepair(w)
        PROVE  Attempts' /\ rec.attempt <= rec'.attempt
    BY <1>9, RepairAttempts DEF StopRepair, Typed, RecTyped, Recs, Attempts,
       Bounded
  <1>10. ASSUME NEW w \in Executions, StopRepairFaults(w)
        PROVE  Attempts' /\ rec.attempt <= rec'.attempt
    BY <1>10 DEF StopRepairFaults, StopFaults, Typed, RecTyped, Recs, Attempts,
       Bounded
  <1>11. ASSUME NEW w \in Executions, CompleteStop(w)
        PROVE  Attempts' /\ rec.attempt <= rec'.attempt
    BY <1>11 DEF CompleteStop, StopFaults, Typed, RecTyped, Recs, Attempts,
       Bounded
  <1>12. ASSUME NEW w \in Executions, TakeRepair(w)
        PROVE  Attempts' /\ rec.attempt <= rec'.attempt
    BY <1>12, RepairAttempts DEF TakeRepair, Typed, RecTyped, Recs, Attempts,
       Bounded
  <1>13. ASSUME NEW w \in Executions, TakeoverFaults(w)
        PROVE  Attempts' /\ rec.attempt <= rec'.attempt
    <2>1. \/ UNCHANGED rec
          \/ rec' = [rec EXCEPT !.status = "faulted"]
          \/ rec' = [rec EXCEPT !.status = "paused", !.pause = "storage_fault"]
      BY <1>13 DEF TakeoverFaults, MarkFault
    <2>2. rec'.attempt = rec.attempt
      BY <2>1 DEF Typed, RecTyped, Recs
    <2>3. UNCHANGED <<ver, used>>
      BY <1>13 DEF TakeoverFaults
    <2> QED
      BY <2>2, <2>3 DEF Attempts, Bounded, Typed, RecTyped, Recs
  <1>14. ASSUME NEW w \in Executions, FinishTakeover(w)
        PROVE  Attempts' /\ rec.attempt <= rec'.attempt
    BY <1>14, RequeueAttempts DEF FinishTakeover, Typed, RecTyped, Recs,
       Attempts, Bounded
  <1>15. ASSUME NEW w \in Executions, ActivateWaiting(w)
        PROVE  Attempts' /\ rec.attempt <= rec'.attempt
    <2>1. rec'.attempt = rec.attempt
      BY <1>15 DEF ActivateWaiting, Typed, RecTyped, Recs
    <2>2. ver'.attempt \in {ver.attempt, rec.attempt}
      BY <1>15, <2>1, QueuedAttempt DEF ActivateWaiting, Typed, VerTyped,
         Verifications
    <2>3. UNCHANGED used
      BY <1>15 DEF ActivateWaiting
    <2> QED
      BY <2>1, <2>2, <2>3 DEF Attempts, Bounded, Typed, RecTyped, Recs
  <1>16. ASSUME NEW w \in Executions, ExpireVerification(w)
        PROVE  Attempts' /\ rec.attempt <= rec'.attempt
    BY <1>16, SettledAttempts DEF ExpireVerification, Typed, RecTyped, Recs,
       Attempts, Bounded
  <1>17. ASSUME NEW w \in Executions, ClaimVerification(w)
        PROVE  Attempts' /\ rec.attempt <= rec'.attempt
    BY <1>17 DEF ClaimVerification, Attempts, Bounded
  <1>18. ASSUME NEW w \in Executions, OwnCheckpoint(w)
        PROVE  Attempts' /\ rec.attempt <= rec'.attempt
    BY <1>18, SettledAttempts DEF OwnCheckpoint, VerificationFails, Typed,
       RecTyped, Recs, Attempts, Bounded
  <1>19. ASSUME NEW w \in Executions, Sample(w)
        PROVE  Attempts' /\ rec.attempt <= rec'.attempt
    <2>1. ASSUME NEW o, Settled(o)
          PROVE  rec'.attempt = rec.attempt /\ ver'.attempt <= rec.attempt
      BY <2>1, SettledAttempts DEF Bounded, Attempts, Typed, RecTyped, Recs
    <2>2. \/ \E o \in Interrupted \union {"failed"} : Settled(o)
          \/ /\ UNCHANGED rec
             /\ ver' = [ver EXCEPT !.admitted = TRUE, !.fresh = TRUE]
          \/ UNCHANGED <<rec, ver>>
      BY <1>19 DEF Sample, VerificationInterrupted, VerificationFails
    <2>3. rec'.attempt = rec.attempt /\ ver'.attempt <= rec.attempt
      BY <2>1, <2>2 DEF Bounded, Attempts, Typed, VerTyped, Verifications
    <2>4. UNCHANGED used
      BY <1>19 DEF Sample
    <2> QED
      BY <2>3, <2>4 DEF Attempts, Bounded, Typed, RecTyped, Recs
  <1>20. ASSUME NEW w \in Executions, EndVerification(w)
        PROVE  Attempts' /\ rec.attempt <= rec'.attempt
    BY <1>20, SettledAttempts DEF EndVerification, VerificationFails, Typed,
       RecTyped, Recs, Attempts, Bounded
  <1>21. ASSUME NEW w \in Executions, RunReconciliation(w)
        PROVE  Attempts' /\ rec.attempt <= rec'.attempt
    BY <1>21, RepairAttempts DEF RunReconciliation, Typed, RecTyped, Recs,
       Attempts, Bounded
  <1>22. ASSUME NEW w \in Executions, ReleaseAfterReconciliation(w)
        PROVE  Attempts' /\ rec.attempt <= rec'.attempt
    BY <1>22 DEF ReleaseAfterReconciliation, Typed, RecTyped, Recs, Attempts,
       Bounded
  <1>23. ASSUME NEW w \in Executions, Renew(w)
        PROVE  Attempts' /\ rec.attempt <= rec'.attempt
    BY <1>23 DEF Renew, Typed, RecTyped, Recs, VerTyped, Verifications,
       Attempts, Bounded
  <1>24. ASSUME NEW w \in Executions, Crash(w)
        PROVE  Attempts' /\ rec.attempt <= rec'.attempt
    BY <1>24, SpendBudget DEF Crash, Typed, RestTyped, Attempts, Bounded,
       Budgets
  <1>25. ASSUME NEW w \in Executions, Restart(w)
        PROVE  Attempts' /\ rec.attempt <= rec'.attempt
    BY <1>25 DEF Restart, Typed, RecTyped, Recs, Attempts, Bounded
  <1>26. ASSUME SubmitVerification
        PROVE  Attempts' /\ rec.attempt <= rec'.attempt
    BY <1>26 DEF SubmitVerification, Typed, RecTyped, Recs, Attempts, Bounded
  <1>27. ASSUME Confirm PROVE Attempts' /\ rec.attempt <= rec'.attempt
    BY <1>27 DEF Confirm, Typed, RecTyped, Recs, Attempts, Bounded
  <1>28. ASSUME RequestResume PROVE Attempts' /\ rec.attempt <= rec'.attempt
    <2>1. used'["resume"] = used["resume"] + 1 /\ used["resume"] \in Nat
      BY <1>28 DEF RequestResume, Spend, Typed, RestTyped, Budgets
    <2>2. rec'.attempt = rec.attempt + 1
      BY <1>28 DEF RequestResume
    <2>3. ver' = ver \/ ver' = Queued(TRUE)
      BY <1>28 DEF RequestResume
    <2>4. rec.attempt \in Nat /\ ver.attempt \in Nat
      BY DEF Typed, RecTyped, Recs, VerTyped, Verifications
    <2>5. Queued(TRUE).attempt = rec'.attempt
      BY QueuedAttempt, Zenon
    <2>6. ver'.attempt = ver.attempt \/ ver'.attempt = rec'.attempt
      BY <2>3, <2>5, Zenon
    <2> QED
      BY <2>1, <2>2, <2>4, <2>6 DEF Attempts, Bounded
  <1>29. ASSUME RequestStop PROVE Attempts' /\ rec.attempt <= rec'.attempt
    BY <1>29 DEF RequestStop, Typed, RecTyped, Recs, Attempts, Bounded
  <1>30. ASSUME SubmitReconciliation
        PROVE  Attempts' /\ rec.attempt <= rec'.attempt
    BY <1>30, SpendBudget DEF SubmitReconciliation, Typed, RestTyped, Attempts,
       Bounded, Budgets
  <1>31. ASSUME RequestPreview PROVE Attempts' /\ rec.attempt <= rec'.attempt
    BY <1>31, SpendBudget DEF RequestPreview, Typed, RestTyped, Attempts,
       Bounded, Budgets
  <1>32. ASSUME Insert PROVE Attempts' /\ rec.attempt <= rec'.attempt
    BY <1>32, SpendBudget DEF Insert, Typed, RestTyped, Attempts, Bounded,
       Budgets
  <1>33. ASSUME WorkLeaseEnds PROVE Attempts' /\ rec.attempt <= rec'.attempt
    BY <1>33, SpendBudget DEF WorkLeaseEnds, Typed, RestTyped, Attempts,
       Bounded, Budgets
  <1>34. ASSUME VerificationLeaseEnds
        PROVE  Attempts' /\ rec.attempt <= rec'.attempt
    BY <1>34, SpendBudget DEF VerificationLeaseEnds, Stalls, Typed, RestTyped,
       Attempts, Bounded, Budgets
  <1>35. ASSUME ReconciliationLeaseEnds
        PROVE  Attempts' /\ rec.attempt <= rec'.attempt
    BY <1>35, SpendBudget DEF ReconciliationLeaseEnds, Stalls, Typed,
       RestTyped, Attempts, Bounded, Budgets
  <1> QED
    BY <1>1, <1>2, <1>3, <1>4, <1>5, <1>6, <1>7, <1>8, <1>9, <1>10, <1>11,
       <1>12, <1>13, <1>14, <1>15, <1>16, <1>17, <1>18, <1>19, <1>20, <1>21,
       <1>22, <1>23, <1>24, <1>25, <1>26, <1>27, <1>28, <1>29, <1>30, <1>31,
       <1>32, <1>33, <1>34, <1>35 DEF Next, PassStep, VerifierStep,
       ReconcilerStep, LeaseEnds, Operate, Load, NextSector, EndRead,
       BeginBatch, BatchStepFails, FindStopping, StopDevice, DeferStop,
       BeginTakeover, TakeDevice, ExpireReconciliation, ClaimReconciliation,
       CompleteReconciliation, FailReconciliation, PreviewReads, PreviewEnds,
       Eject, HelperEnds

(* Status, reservation, verification and reconciliation agree.             *)
LEMMA RowsStep ==
  ASSUME Typed, Bounded, Rows, Next
  PROVE  Rows'
  <1>1. ASSUME UNCHANGED <<rec, work, ver, recon>>
        PROVE  Rows'
    BY <1>1 DEF Rows, ClaimedIsUnsettled, ReservationMatchesStatus,
       ActiveVerification, ReconciliationExcludesPass
  <1>2. ASSUME NEW w \in Executions, ExpireConfirmation(w) PROVE Rows'
    BY <1>2 DEF ExpireConfirmation, Rows, ClaimedIsUnsettled,
       ReservationMatchesStatus, ActiveVerification, ReconciliationExcludesPass
  <1>3. ASSUME NEW w \in Executions, Claim(w) PROVE Rows'
    BY <1>3 DEF Claim, NoPendingReconciliation, Rows, ClaimedIsUnsettled,
       ReservationMatchesStatus, ActiveVerification, ReconciliationExcludesPass
  <1>4. ASSUME NEW w \in Executions, Admit(w) PROVE Rows'
    BY <1>4 DEF Admit, Typed, WorkTyped, Works, Rows, ClaimedIsUnsettled,
       ReservationMatchesStatus, ActiveVerification, ReconciliationExcludesPass
  <1>5. ASSUME NEW w \in Executions, BatchStep(w) PROVE Rows'
    BY <1>5, ProjectRows DEF BatchStep, Authorized, HasClaim, Rows,
       ClaimedIsUnsettled, ReservationMatchesStatus, ActiveVerification,
       ReconciliationExcludesPass
  <1>6. ASSUME NEW w \in Executions, Settle(w) PROVE Rows'
    <2>1. Abandoned(w).status = work.status
      BY AbandonedTyped DEF Typed
    <2>2. CASE UNCHANGED <<rec, ver>> /\ (work' = work \/ work' = Abandoned(w))
      BY <1>6, <2>1, <2>2 DEF Settle, Rows, ClaimedIsUnsettled,
         ReservationMatchesStatus, ActiveVerification,
         ReconciliationExcludesPass
    <2>3. CASE /\ \E s \in {"completed", "eligible"} :
                    rec' = [rec EXCEPT !.status = s]
               /\ work' \in {NoWork, [NoWork EXCEPT !.status = "requested"]}
      <3>1. rec'.status \in {"completed", "eligible"}
        BY <2>3 DEF Typed, RecTyped, Recs
      <3>2. work'.status \in {"none", "requested"}
        BY <2>3 DEF NoWork
      <3> QED
        BY <3>1, <3>2 DEF Rows, ClaimedIsUnsettled, ReservationMatchesStatus,
           ReconciliationExcludesPass
    <2>4. CASE /\ rec' = [rec EXCEPT !.status = "paused",
                                     !.pause = "no_progress"]
               /\ work' = [work EXCEPT !.status = "requested", !.by = Nobody,
                                       !.fresh = FALSE, !.admitted = FALSE]
      <3>1. rec'.status = "paused"
        BY <2>4 DEF Typed, RecTyped, Recs
      <3>2. work'.status = "requested"
        BY <2>4 DEF Typed, WorkTyped, Works
      <3> QED
        BY <3>1, <3>2 DEF Rows, ClaimedIsUnsettled, ReservationMatchesStatus,
           ReconciliationExcludesPass
    <2> QED
      BY <1>6, <2>2, <2>3, <2>4 DEF Settle, Dismiss
  <1>7. ASSUME NEW w \in Executions, Catch(w) PROVE Rows'
    BY <1>7, RequeueRows, MarkFaultRows DEF Catch, Dismiss, Abandoned, Typed,
       WorkTyped, Works, Rows, ClaimedIsUnsettled, ReservationMatchesStatus,
       ActiveVerification, ReconciliationExcludesPass
  <1>8. ASSUME NEW w \in Executions, PrepareStop(w) PROVE Rows'
    BY <1>8 DEF PrepareStop, Dismiss, Abandoned, Typed, WorkTyped, Works, Rows,
       ClaimedIsUnsettled, ReservationMatchesStatus, ActiveVerification,
       ReconciliationExcludesPass
  <1>9. ASSUME NEW w \in Executions, StopDevice(w) PROVE Rows'
    BY <1>9 DEF StopDevice, Dismiss, Abandoned, Typed, WorkTyped, Works, Rows,
       ClaimedIsUnsettled, ReservationMatchesStatus, ActiveVerification,
       ReconciliationExcludesPass
  <1>10. ASSUME NEW w \in Executions, StopRepair(w) PROVE Rows'
    BY <1>10, RepairRows DEF StopRepair
  <1>11. ASSUME NEW w \in Executions, DeferStop(w) PROVE Rows'
    BY <1>11 DEF DeferStop, Dismiss, Abandoned, Rows, ClaimedIsUnsettled,
       ReservationMatchesStatus, ActiveVerification, ReconciliationExcludesPass
  <1>12. ASSUME NEW w \in Executions, StopRepairFaults(w) PROVE Rows'
    BY <1>12 DEF StopRepairFaults, StopFaults, Dismiss, Abandoned, Rows,
       ClaimedIsUnsettled, ReservationMatchesStatus, ActiveVerification,
       ReconciliationExcludesPass
  <1>13. ASSUME NEW w \in Executions, CompleteStop(w) PROVE Rows'
    BY <1>13 DEF CompleteStop, StopFaults, Dismiss, Abandoned, NoWork, Typed,
       RecTyped, Recs, WorkTyped, Works, Rows, ClaimedIsUnsettled,
       ReservationMatchesStatus, ActiveVerification, ReconciliationExcludesPass
  <1>14. ASSUME NEW w \in Executions, BeginTakeover(w) PROVE Rows'
    BY <1>14 DEF BeginTakeover, Rows, ClaimedIsUnsettled,
       ReservationMatchesStatus, ActiveVerification, ReconciliationExcludesPass
  <1>15. ASSUME NEW w \in Executions, TakeDevice(w) PROVE Rows'
    BY <1>15 DEF TakeDevice, DeferTakeover, Typed, WorkTyped, Works, Rows,
       ClaimedIsUnsettled, ReservationMatchesStatus, ActiveVerification,
       ReconciliationExcludesPass
  <1>16. ASSUME NEW w \in Executions, TakeRepair(w) PROVE Rows'
    BY <1>16, RepairRows DEF TakeRepair, DeferTakeover, Typed, WorkTyped,
       Works, Rows, ClaimedIsUnsettled, ReservationMatchesStatus,
       ActiveVerification, ReconciliationExcludesPass
  <1>17. ASSUME NEW w \in Executions, TakeoverFaults(w) PROVE Rows'
    BY <1>17, MarkFaultRows DEF TakeoverFaults
  <1>18. ASSUME NEW w \in Executions, FinishTakeover(w) PROVE Rows'
    BY <1>18, RequeueRows DEF FinishTakeover, Abandoned, Typed, WorkTyped,
       Works, Rows, ClaimedIsUnsettled, ReservationMatchesStatus,
       ActiveVerification, ReconciliationExcludesPass
  <1>19. ASSUME NEW w \in Executions, ActivateWaiting(w) PROVE Rows'
    BY <1>19 DEF ActivateWaiting, Rows, ClaimedIsUnsettled,
       ReservationMatchesStatus, ReconciliationExcludesPass
  <1>20. ASSUME NEW w \in Executions, ExpireVerification(w) PROVE Rows'
    BY <1>20, SettledRows DEF ExpireVerification
  <1>21. ASSUME NEW w \in Executions, ClaimVerification(w) PROVE Rows'
    BY <1>21 DEF ClaimVerification, Rows, ClaimedIsUnsettled,
       ReservationMatchesStatus, ReconciliationExcludesPass
  <1>22. ASSUME NEW w \in Executions, OwnCheckpoint(w) PROVE Rows'
    BY <1>22, SettledRows DEF OwnCheckpoint, VerificationFails, Rows,
       ClaimedIsUnsettled, ReservationMatchesStatus, ActiveVerification,
       ReconciliationExcludesPass
  <1>23. ASSUME NEW w \in Executions, Sample(w) PROVE Rows'
    BY <1>23, SettledRows DEF Sample, VerificationInterrupted,
       VerificationFails, CanVerify, Rows, ClaimedIsUnsettled,
       ReservationMatchesStatus, ActiveVerification, ReconciliationExcludesPass
  <1>24. ASSUME NEW w \in Executions, EndVerification(w) PROVE Rows'
    BY <1>24, SettledRows DEF EndVerification, VerificationFails, Rows,
       ClaimedIsUnsettled, ReservationMatchesStatus, ActiveVerification,
       ReconciliationExcludesPass
  <1>25. ASSUME NEW w \in Executions, ExpireReconciliation(w) PROVE Rows'
    BY <1>25 DEF ExpireReconciliation, Rows, ClaimedIsUnsettled,
       ReservationMatchesStatus, ReconciliationExcludesPass
  <1>26. ASSUME NEW w \in Executions, ClaimReconciliation(w) PROVE Rows'
    BY <1>26 DEF ClaimReconciliation, Rows, ClaimedIsUnsettled,
       ReservationMatchesStatus, ReconciliationExcludesPass
  <1>27. ASSUME NEW w \in Executions, RunReconciliation(w) PROVE Rows'
    BY <1>27, RepairRows DEF RunReconciliation
  <1>28. ASSUME NEW w \in Executions, ReleaseAfterReconciliation(w) PROVE Rows'
    BY <1>28 DEF ReleaseAfterReconciliation, NoWork, Typed, RecTyped, Recs,
       Rows, ClaimedIsUnsettled, ReservationMatchesStatus,
       ReconciliationExcludesPass
  <1>29. ASSUME NEW w \in Executions, CompleteReconciliation(w) PROVE Rows'
    BY <1>29 DEF CompleteReconciliation, Reconciled, Rows, ClaimedIsUnsettled,
       ReservationMatchesStatus, ActiveVerification, ReconciliationExcludesPass
  <1>30. ASSUME NEW w \in Executions, FailReconciliation(w) PROVE Rows'
    BY <1>30 DEF FailReconciliation, Reconciled, HasReconciliation, Rows,
       ClaimedIsUnsettled, ReservationMatchesStatus, ActiveVerification,
       ReconciliationExcludesPass
  <1>31. ASSUME NEW w \in Executions, Renew(w) PROVE Rows'
    BY <1>31 DEF Renew, HasReconciliation, Typed, WorkTyped, Works, VerTyped,
       Verifications, Rows, ClaimedIsUnsettled, ReservationMatchesStatus,
       ActiveVerification, ReconciliationExcludesPass
  <1>32. ASSUME NEW w \in Executions, Crash(w) PROVE Rows'
    BY <1>32 DEF Crash, Rows, ClaimedIsUnsettled, ReservationMatchesStatus,
       ActiveVerification, ReconciliationExcludesPass
  <1>33. ASSUME NEW w \in Executions, Restart(w) PROVE Rows'
    BY <1>33 DEF Restart, Rows, ClaimedIsUnsettled, ReservationMatchesStatus,
       ActiveVerification, ReconciliationExcludesPass
  <1>34. ASSUME SubmitVerification PROVE Rows'
    BY <1>34 DEF SubmitVerification, Rows, ClaimedIsUnsettled,
       ReservationMatchesStatus, ReconciliationExcludesPass
  <1>35. ASSUME Confirm PROVE Rows'
    BY <1>35 DEF Confirm, Typed, RecTyped, Recs, WorkTyped, Works, Rows,
       ClaimedIsUnsettled, ReservationMatchesStatus, ReconciliationExcludesPass
  <1>36. ASSUME RequestResume PROVE Rows'
    BY <1>36 DEF RequestResume, Rows, ClaimedIsUnsettled,
       ReservationMatchesStatus, ReconciliationExcludesPass
  <1>37. ASSUME RequestStop PROVE Rows'
    BY <1>37 DEF RequestStop, Rows, ClaimedIsUnsettled,
       ReservationMatchesStatus, ReconciliationExcludesPass
  <1>38. ASSUME SubmitReconciliation PROVE Rows'
    BY <1>38 DEF SubmitReconciliation, Rows, ClaimedIsUnsettled,
       ReservationMatchesStatus, ReconciliationExcludesPass
  <1>39. ASSUME WorkLeaseEnds PROVE Rows'
    BY <1>39 DEF WorkLeaseEnds, Rows, ClaimedIsUnsettled,
       ReservationMatchesStatus, ActiveVerification, ReconciliationExcludesPass
  <1>40. ASSUME VerificationLeaseEnds PROVE Rows'
    BY <1>40 DEF VerificationLeaseEnds, Rows, ClaimedIsUnsettled,
       ReservationMatchesStatus, ActiveVerification, ReconciliationExcludesPass
  <1>41. ASSUME ReconciliationLeaseEnds PROVE Rows'
    BY <1>41 DEF ReconciliationLeaseEnds, Rows, ClaimedIsUnsettled,
       ReservationMatchesStatus, ReconciliationExcludesPass
  <1> QED
    BY <1>1, <1>2, <1>3, <1>4, <1>5, <1>6, <1>7, <1>8, <1>9, <1>10, <1>11,
       <1>12, <1>13, <1>14, <1>15, <1>16, <1>17, <1>18, <1>19, <1>20, <1>21,
       <1>22, <1>23, <1>24, <1>25, <1>26, <1>27, <1>28, <1>29, <1>30, <1>31,
       <1>32, <1>33, <1>34, <1>35, <1>36, <1>37, <1>38, <1>39, <1>40, <1>41
       DEF Next, PassStep, VerifierStep, ReconcilerStep, LeaseEnds, Operate,
       Load, NextSector, EndRead, BeginBatch, BatchStepFails, FindStopping,
       RequestPreview, PreviewReads, PreviewEnds, Eject, Insert, HelperEnds

(* A pass counts every sector once.                                        *)
LEMMA CountedStep ==
  ASSUME Typed, Counted, Uncounted, Next
  PROVE  Counted'
  <1>1. ASSUME UNCHANGED <<work, left>>
        PROVE  Counted'
    BY <1>1 DEF Counted, PassAccounting, Todo
  <1>2. ASSUME NEW w \in Executions, Claim(w) PROVE Counted'
    <2>1. /\ work'.status = "claimed" /\ work'.started
          /\ work'.start = (IF work.started THEN work.start ELSE left)
          /\ work'.recovered = work.recovered /\ work'.failed = work.failed
      BY <1>2 DEF Claim, Typed, WorkTyped, Works
    <2>2. left' = left /\ left \in 0..N
      BY <1>2 DEF Claim, Counted
    <2>3. CASE work.started
      BY <2>1, <2>2, <2>3 DEF Counted, PassAccounting, Todo
    <2>4. CASE ~work.started
      <3>1. work'.start = left /\ work'.recovered = 0 /\ work'.failed = 0
        BY <2>1, <2>4 DEF Counted
      <3>2. Todo' = left /\ PassAccounting'
        BY <2>2, <3>1 DEF Todo, PassAccounting
      <3> QED
        BY <2>1, <2>2, <3>1, <3>2 DEF Counted
    <2> QED
      BY <2>3, <2>4 DEF Typed, WorkTyped, Works
  <1>3. ASSUME NEW w \in Executions, Admit(w) PROVE Counted'
    BY <1>3, WorkCounted DEF Admit
  <1>4. ASSUME NEW w \in Executions, BatchStep(w) PROVE Counted'
    <2>1. CASE evidence \in Outcomes /\ Project(evidence)
      BY <2>1, ProjectCounted
    <2>2. CASE UNCHANGED <<work, left>>
      BY <2>2, WorkCounted
    <2> QED
      BY <1>4, <2>1, <2>2 DEF BatchStep
  <1>5. ASSUME NEW w \in Executions, Settle(w) PROVE Counted'
    BY <1>5, WorkCounted DEF Settle, Dismiss, HasClaim
  <1>6. ASSUME NEW w \in Executions, Catch(w) PROVE Counted'
    <2>1. left' = left
      BY <1>6 DEF Catch
    <2>2. CASE Requeue(w) /\ HasClaim(w)
      BY <2>1, <2>2, RequeueCounted
    <2>3. CASE work' \in {work, Abandoned(w), NoWork}
      BY <2>1, <2>3, WorkCounted
    <2> QED
      BY <1>6, <2>2, <2>3 DEF Catch, Dismiss, MarkFault
  <1>7. ASSUME NEW w \in Executions, PrepareStop(w) PROVE Counted'
    BY <1>7, WorkCounted DEF PrepareStop, Dismiss
  <1>8. ASSUME NEW w \in Executions, StopDevice(w) PROVE Counted'
    BY <1>8, WorkCounted DEF StopDevice, Dismiss
  <1>9. ASSUME NEW w \in Executions, StopRepair(w) PROVE Counted'
    BY <1>9, RepairCounted DEF StopRepair
  <1>10. ASSUME NEW w \in Executions, DeferStop(w) PROVE Counted'
    BY <1>10, WorkCounted DEF DeferStop, Dismiss
  <1>11. ASSUME NEW w \in Executions, StopRepairFaults(w) PROVE Counted'
    BY <1>11, WorkCounted DEF StopRepairFaults, StopFaults, Dismiss
  <1>12. ASSUME NEW w \in Executions, CompleteStop(w) PROVE Counted'
    BY <1>12, WorkCounted DEF CompleteStop, StopFaults, Dismiss
  <1>13. ASSUME NEW w \in Executions, BeginTakeover(w) PROVE Counted'
    BY <1>13 DEF BeginTakeover, Counted, PassAccounting, Todo
  <1>14. ASSUME NEW w \in Executions, TakeDevice(w) PROVE Counted'
    BY <1>14, WorkCounted DEF TakeDevice, DeferTakeover, HasClaim
  <1>15. ASSUME NEW w \in Executions, TakeRepair(w) PROVE Counted'
    BY <1>15, RepairCounted, WorkCounted DEF TakeRepair, DeferTakeover,
       HasClaim
  <1>16. ASSUME NEW w \in Executions, TakeoverFaults(w) PROVE Counted'
    BY <1>16, WorkCounted DEF TakeoverFaults, MarkFault
  <1>17. ASSUME NEW w \in Executions, FinishTakeover(w) PROVE Counted'
    BY <1>17, RequeueCounted, WorkCounted DEF FinishTakeover
  <1>18. ASSUME NEW w \in Executions, ActivateWaiting(w) PROVE Counted'
    BY <1>18 DEF ActivateWaiting, Counted, PassAccounting, Todo
  <1>19. ASSUME NEW w \in Executions, RunReconciliation(w) PROVE Counted'
    BY <1>19, RepairCounted DEF RunReconciliation
  <1>20. ASSUME NEW w \in Executions, ReleaseAfterReconciliation(w)
        PROVE  Counted'
    BY <1>20, WorkCounted DEF ReleaseAfterReconciliation
  <1>21. ASSUME NEW w \in Executions, Renew(w) PROVE Counted'
    BY <1>21 DEF Renew, Typed, WorkTyped, Works, Counted, PassAccounting, Todo
  <1>22. ASSUME NEW w \in Executions, Crash(w) PROVE Counted'
    BY <1>22 DEF Crash, Counted, PassAccounting, Todo
  <1>23. ASSUME SubmitVerification PROVE Counted'
    BY <1>23 DEF SubmitVerification, Counted, PassAccounting, Todo
  <1>24. ASSUME Confirm PROVE Counted'
    <2>1. work' = work \/ work' = [work EXCEPT !.conf = TRUE]
      BY <1>24 DEF Confirm
    <2>2. /\ work'.started = work.started /\ work'.start = work.start
          /\ work'.recovered = work.recovered /\ work'.failed = work.failed
          /\ work'.status = work.status
      BY <2>1 DEF Typed, WorkTyped, Works
    <2> QED
      BY <1>24, <2>2, StillCounted DEF Confirm
  <1>25. ASSUME RequestResume PROVE Counted'
    <2>1. \E b \in {"none", "latest"} :
            work' = [NoWork EXCEPT !.status = "requested", !.bound = b]
      BY <1>25 DEF RequestResume
    <2> QED
      BY <1>25, <2>1, ClearedCounted DEF RequestResume
  <1>26. ASSUME RequestStop PROVE Counted'
    BY <1>26 DEF RequestStop, NoWork, Counted, PassAccounting, Todo
  <1>27. ASSUME WorkLeaseEnds PROVE Counted'
    BY <1>27 DEF WorkLeaseEnds, Counted, PassAccounting, Todo
  <1> QED
    BY <1>1, <1>2, <1>3, <1>4, <1>5, <1>6, <1>7, <1>8, <1>9, <1>10, <1>11,
       <1>12, <1>13, <1>14, <1>15, <1>16, <1>17, <1>18, <1>19, <1>20, <1>21,
       <1>22, <1>23, <1>24, <1>25, <1>26, <1>27 DEF Next, PassStep,
       VerifierStep, ReconcilerStep, LeaseEnds, Operate, ExpireConfirmation,
       Load, NextSector, EndRead, BeginBatch, BatchStepFails, FindStopping,
       ExpireVerification, ClaimVerification, OwnCheckpoint, Sample,
       EndVerification, ExpireReconciliation, ClaimReconciliation,
       CompleteReconciliation, FailReconciliation, Restart,
       SubmitReconciliation, RequestPreview, PreviewReads, PreviewEnds, Eject,
       Insert, VerificationLeaseEnds, ReconciliationLeaseEnds, HelperEnds

(* Evidence the database does not know yet leaves room for its sector.     *)
LEMMA UncountedStep ==
  ASSUME Typed, Rows, Counted, Uncounted, Control, Next
  PROVE  Uncounted'
  <1>1. ASSUME UNCHANGED <<work, left, evidence>>
        PROVE  Uncounted'
    BY <1>1 DEF Uncounted, Todo
  <1>2. ASSUME NEW w \in Executions, Claim(w) PROVE Uncounted'
    BY <1>2 DEF Claim, Typed, WorkTyped, Works, Counted, Todo, Uncounted
  <1>3. ASSUME NEW w \in Executions, Admit(w) PROVE Uncounted'
    BY <1>3 DEF Admit, HasClaim, Typed, WorkTyped, Works, Todo, Uncounted
  <1>4. ASSUME NEW w \in Executions, BatchStep(w) PROVE Uncounted'
    <2>1. CASE UNCHANGED <<work, left, evidence>>
      BY <1>1, <2>1
    <2>2. CASE /\ Authorized(w) /\ evidence' = NextEvidence(w)
               /\ UNCHANGED <<work, left>>
      BY <1>4, <2>2, NextUncounted DEF BatchStep, Authorized
    <2>3. CASE evidence' = "clean"
      BY <2>3, CleanUncounted
    <2>4. CASE Authorized(w) /\ Project(evidence) /\ evidence' = "spent"
      <3>1. work'.status = "claimed"
        BY <2>4 DEF Authorized, HasClaim, Project, Typed, WorkTyped, Works
      <3> QED
        BY <2>4, <3>1 DEF Uncounted
    <2> QED
      BY <1>4, <2>1, <2>2, <2>3, <2>4 DEF BatchStep
  <1>5. ASSUME NEW w \in Executions, BatchStepFails(w) PROVE Uncounted'
    BY <1>5, NextUncounted DEF BatchStepFails, Authorized
  <1>6. ASSUME NEW w \in Executions, Settle(w) PROVE Uncounted'
    <2>1. UNCHANGED <<left, evidence>>
      BY <1>6 DEF Settle
    <2>2. CASE /\ HasClaim(w)
               /\ work' = [work EXCEPT !.status = "requested", !.by = Nobody,
                                       !.fresh = FALSE, !.admitted = FALSE]
      <3>1. evidence' = "clean"
        BY <1>6, <2>2 DEF Settle, Control, PassSafe, At, Loaded
      <3> QED
        BY <3>1, CleanUncounted
    <2>3. CASE \/ work' = work \/ work' = Abandoned(w) \/ work' = NoWork
               \/ work' = [NoWork EXCEPT !.status = "requested"]
      BY <2>1, <2>3, WorkUncounted
    <2> QED
      BY <1>6, <2>2, <2>3 DEF Settle, Dismiss
  <1>7. ASSUME NEW w \in Executions, Catch(w) PROVE Uncounted'
    <2>1. UNCHANGED <<left, evidence>>
      BY <1>7 DEF Catch
    <2>2. CASE HasClaim(w) /\ run[w].pass.fault = "preview"
      <3>1. evidence' = "clean"
        BY <1>7, <2>2 DEF Catch, Control, PassSafe, At
      <3> QED
        BY <3>1, CleanUncounted
    <2>3. CASE work' = work \/ work' = Abandoned(w) \/ work' = NoWork
      BY <2>1, <2>3, WorkUncounted
    <2> QED
      BY <1>7, <2>2, <2>3 DEF Catch, Dismiss, MarkFault
  <1>8. ASSUME NEW w \in Executions, PrepareStop(w) PROVE Uncounted'
    BY <1>8 DEF PrepareStop, Dismiss, Abandoned, Typed, WorkTyped, Works, Todo,
       Uncounted
  <1>9. ASSUME NEW w \in Executions, StopDevice(w) PROVE Uncounted'
    BY <1>9 DEF StopDevice, Dismiss, Abandoned, HasClaim, Typed, WorkTyped,
       Works, Todo, Uncounted
  <1>10. ASSUME NEW w \in Executions, StopRepair(w) PROVE Uncounted'
    BY <1>10 DEF StopRepair, Repair, Uncounted
  <1>11. ASSUME NEW w \in Executions, DeferStop(w) PROVE Uncounted'
    BY <1>11 DEF DeferStop, Dismiss, Abandoned, Todo, Uncounted
  <1>12. ASSUME NEW w \in Executions, StopRepairFaults(w) PROVE Uncounted'
    BY <1>12 DEF StopRepairFaults, StopFaults, Dismiss, Abandoned, Todo,
       Uncounted
  <1>13. ASSUME NEW w \in Executions, CompleteStop(w) PROVE Uncounted'
    BY <1>13 DEF CompleteStop, StopFaults, Dismiss, Abandoned, NoWork,
       HasClaim, Typed, WorkTyped, Works, Todo, Uncounted
  <1>14. ASSUME NEW w \in Executions, BeginTakeover(w) PROVE Uncounted'
    BY <1>14 DEF BeginTakeover, Todo, Uncounted
  <1>15. ASSUME NEW w \in Executions, TakeDevice(w) PROVE Uncounted'
    BY <1>15 DEF TakeDevice, DeferTakeover, Typed, WorkTyped, Works, Todo,
       Uncounted
  <1>16. ASSUME NEW w \in Executions, TakeRepair(w) PROVE Uncounted'
    BY <1>16 DEF TakeRepair, Repair, DeferTakeover, Typed, WorkTyped, Works,
       Todo, Uncounted
  <1>17. ASSUME NEW w \in Executions, TakeoverFaults(w) PROVE Uncounted'
    BY <1>17 DEF TakeoverFaults, MarkFault, Abandoned, HasClaim, Typed,
       WorkTyped, Works, Todo, Uncounted
  <1>18. ASSUME NEW w \in Executions, FinishTakeover(w) PROVE Uncounted'
    <2>1. UNCHANGED <<left, evidence>>
      BY <1>18 DEF FinishTakeover
    <2>2. CASE HasClaim(w)
      <3>1. evidence' = "clean"
        BY <1>18, <2>2 DEF FinishTakeover, Control, PassSafe, At, Loaded
      <3> QED
        BY <3>1, CleanUncounted
    <2>3. CASE work' = Abandoned(w)
      BY <2>1, <2>3, WorkUncounted
    <2> QED
      BY <1>18, <2>2, <2>3 DEF FinishTakeover
  <1>19. ASSUME NEW w \in Executions, ActivateWaiting(w) PROVE Uncounted'
    BY <1>19 DEF ActivateWaiting, Uncounted
  <1>20. ASSUME NEW w \in Executions, RunReconciliation(w) PROVE Uncounted'
    BY <1>20 DEF RunReconciliation, Repair, Uncounted
  <1>21. ASSUME NEW w \in Executions, ReleaseAfterReconciliation(w)
        PROVE  Uncounted'
    BY <1>21 DEF ReleaseAfterReconciliation, NoWork, Todo, Uncounted
  <1>22. ASSUME NEW w \in Executions, Renew(w) PROVE Uncounted'
    BY <1>22 DEF Renew, Typed, WorkTyped, Works, Todo, Uncounted
  <1>23. ASSUME NEW w \in Executions, Crash(w) PROVE Uncounted'
    BY <1>23 DEF Crash, Todo, Uncounted
  <1>24. ASSUME SubmitVerification PROVE Uncounted'
    BY <1>24 DEF SubmitVerification, Todo, Uncounted
  <1>25. ASSUME Confirm PROVE Uncounted'
    BY <1>25 DEF Confirm, Typed, WorkTyped, Works, Todo, Uncounted
  <1>26. ASSUME RequestResume PROVE Uncounted'
    BY <1>26 DEF RequestResume, Uncounted
  <1>27. ASSUME RequestStop PROVE Uncounted'
    BY <1>27 DEF RequestStop, NoWork, Todo, Uncounted
  <1>28. ASSUME WorkLeaseEnds PROVE Uncounted'
    BY <1>28 DEF WorkLeaseEnds, Todo, Uncounted
  <1> QED
    BY <1>1, <1>2, <1>3, <1>4, <1>5, <1>6, <1>7, <1>8, <1>9, <1>10, <1>11,
       <1>12, <1>13, <1>14, <1>15, <1>16, <1>17, <1>18, <1>19, <1>20, <1>21,
       <1>22, <1>23, <1>24, <1>25, <1>26, <1>27, <1>28 DEF Next, PassStep,
       VerifierStep, ReconcilerStep, LeaseEnds, Operate, ExpireConfirmation,
       Load, NextSector, EndRead, BeginBatch, FindStopping, ExpireVerification,
       ClaimVerification, OwnCheckpoint, Sample, EndVerification,
       ExpireReconciliation, ClaimReconciliation, CompleteReconciliation,
       FailReconciliation, Restart, SubmitReconciliation, RequestPreview,
       PreviewReads, PreviewEnds, Eject, Insert, VerificationLeaseEnds,
       ReconciliationLeaseEnds, HelperEnds

(* A poller with the claim knows what it needs for its next step.          *)
LEMMA ControlStep ==
  ASSUME Typed, Rows, Counted, Uncounted, Control, Next
  PROVE  Control'
  <1>1. ASSUME UNCHANGED <<work, evidence, run>>
        PROVE  Control'
    BY <1>1 DEF Control, HasClaim, PassSafe, Todo
  <1>2. ASSUME NEW w \in Executions, Claim(w) PROVE Control'
    <2> DEFINE p == [IdlePass EXCEPT !.pc = "load", !.attempt = rec.attempt,
                                  !.conf = ver.outcome # "match"]
    <2>1. p.pc \in {"load", "take_device", "take_repair"}
      BY DEF IdlePass
    <2>2. PassSafe(p, evidence', Todo')
      BY <2>1 DEF PassSafe, Loaded
    <2>3. \A v \in Executions : HasClaim(v)' => v = w
      BY <1>2 DEF Claim, HasClaim, Typed, WorkTyped, Works
    <2>4. Become(w, p)
      BY <1>2 DEF Claim
    <2> HIDE DEF p
    <2> QED
      BY <2>2, <2>3, <2>4, PassSafeStep
  <1>3. ASSUME NEW w \in Executions, Load(w) PROVE Control'
    <2>1. OldPassesSafe
      BY <1>3, KeptClaims, KeptSafe DEF Load
    <2> QED
      BY <1>3, <2>1, GoSafe, FailSafe DEF Load, PassSteps, Faults, Loaded
  <1>4. ASSUME NEW w \in Executions, NextSector(w) PROVE Control'
    <2>1. OldPassesSafe
      BY <1>4, KeptClaims, KeptSafe DEF NextSector
    <2>2. HasClaim(w)' => HasClaim(w) /\ evidence' = "clean"
      BY <1>4 DEF NextSector, HasClaim, Control, PassSafe, At, Loaded
    <2>3. CASE \E f \in Faults : Fail(w, f)
      BY <2>1, <2>2, <2>3, FailSafe
    <2>4. CASE Go(w, "stopping")
      BY <2>1, <2>4, GoSafe DEF PassSteps, Loaded
    <2>5. CASE Go(w, "settle")
      BY <2>1, <2>2, <2>5, GoSafe DEF PassSteps
    <2>6. CASE Todo # 0 /\ Go(w, "ready")
      <3>1. Todo' >= 1
        BY <1>4, <2>6 DEF NextSector, Typed, WorkTyped, Works, Counted, Todo
      <3> QED
        BY <2>1, <2>2, <2>6, <3>1, GoSafe DEF PassSteps
    <2> QED
      BY <1>4, <2>3, <2>4, <2>5, <2>6 DEF NextSector, Faults
  <1>5. ASSUME NEW w \in Executions, Admit(w) PROVE Control'
    <2>1. OldPassesSafe
      BY <1>5, KeptClaims, KeptSafe DEF Admit
    <2>2. HasClaim(w)' => evidence' = "clean" /\ Todo' >= 1
      BY <1>5 DEF Admit, HasClaim, Control, PassSafe, At, Loaded, Todo, Typed,
         WorkTyped, Works
    <2> QED
      BY <1>5, <2>1, <2>2, GoSafe, FailSafe DEF Admit, PassSteps, Faults
  <1>6. ASSUME NEW w \in Executions, EndRead(w) PROVE Control'
    <2>1. OldPassesSafe
      BY <1>6, KeptClaims, KeptSafe DEF EndRead
    <2>2. HasClaim(w)' => evidence' = "clean" /\ Todo' >= 1
      BY <1>6 DEF EndRead, HasClaim, Control, PassSafe, At, Loaded, Todo
    <2>3. CASE \E f \in Faults : Fail(w, f)
      BY <2>1, <2>2, <2>3, FailSafe
    <2>4. CASE Go(w, "stopping")
      BY <2>1, <2>4, GoSafe DEF PassSteps, Loaded
    <2>5. ASSUME NEW o \in Outcomes,
                 Become(w, [run[w].pass EXCEPT !.pc = "read", !.out = o])
          PROVE  Control'
      <3> DEFINE p == [run[w].pass EXCEPT !.pc = "read", !.out = o]
      <3>1. p.pc = "read"
        BY PassOf DEF Typed, PassStates
      <3>2. HasClaim(w)' => PassSafe(p, evidence', Todo')
        BY <2>2, <3>1 DEF PassSafe
      <3> QED
        BY <2>1, <2>5, <3>2, PassSafeStep DEF OldPassesSafe
    <2> QED
      BY <1>6, <2>3, <2>4, <2>5 DEF EndRead, Faults
  <1>7. ASSUME NEW w \in Executions, BeginBatch(w) PROVE Control'
    <2>1. OldPassesSafe
      BY <1>7, KeptClaims, KeptSafe DEF BeginBatch
    <2>2. HasClaim(w)' => evidence' = "clean" /\ Todo' >= 1
      BY <1>7 DEF BeginBatch, HasClaim, Control, PassSafe, At, Loaded, Todo
    <2> QED
      BY <1>7, <2>1, <2>2, GoSafe, FailSafe
         DEF BeginBatch, PassSteps, Faults, Loaded
  <1>8. ASSUME NEW w \in Executions, BatchStep(w) PROVE Control'
    <2>1. CASE ~Authorized(w)
      <3>1. OldPassesSafe
        BY <1>8, <2>1, KeptClaims, KeptSafe DEF BatchStep
      <3> QED
        BY <1>8, <2>1, <3>1, FailSafe DEF BatchStep, Faults
    <2>2. CASE Authorized(w)
      <3>1. \A v \in Executions : HasClaim(v)' => v = w
        BY <1>8, <2>2 DEF BatchStep, Authorized, HasClaim, Project, Typed,
           WorkTyped, Works
      <3>2. CASE UNCHANGED run /\ evidence' # "clean"
        <4>1. PassSafe(run[w].pass, evidence', Todo')
          BY <1>8, <3>2 DEF BatchStep, At, PassSafe, Loaded
        <4> QED
          BY <3>1, <3>2, <4>1 DEF Control
      <3>3. CASE EndBatch(w) /\ evidence' = "clean"
        <4> DEFINE p == [run[w].pass EXCEPT !.pc = "next", !.out = "none"]
        <4>1. p.pc = "next"
          BY PassOf DEF Typed, PassStates
        <4>2. PassSafe(p, evidence', Todo')
          BY <3>3, <4>1 DEF PassSafe
        <4> QED
          BY <3>1, <3>3, <4>2, PassSafeStep DEF EndBatch
      <3> QED
        BY <1>8, <2>2, <3>2, <3>3 DEF BatchStep, NextEvidence, Outcomes
    <2> QED
      BY <2>1, <2>2
  <1>9. ASSUME NEW w \in Executions, BatchStepFails(w) PROVE Control'
    <2>1. \A v \in Executions : HasClaim(v)' => v = w
      BY <1>9 DEF BatchStepFails, Authorized, HasClaim
    <2>2. PICK f \in {"retained", "storage"} : Fail(w, f)
      BY <1>9 DEF BatchStepFails
    <2> DEFINE p == [run[w].pass EXCEPT !.pc = "failing", !.fault = f,
                                        !.out = "none"]
    <2>3. p.pc = "failing" /\ p.fault = f
      BY PassOf DEF Typed, PassStates
    <2>4. PassSafe(p, evidence', Todo')
      BY <2>3 DEF PassSafe, Loaded
    <2> QED
      BY <2>1, <2>2, <2>4, PassSafeStep DEF Fail
  <1>10. ASSUME NEW w \in Executions, Settle(w) PROVE Control'
    <2>1. OldPassesSafe
      BY <1>10, KeptClaims, KeptSafe DEF Settle, Dismiss
    <2> QED
      BY <1>10, <2>1, IdleSafe, FailSafe DEF Settle, Dismiss, Faults
  <1>11. ASSUME NEW w \in Executions, Catch(w) PROVE Control'
    <2>1. OldPassesSafe
      BY <1>11, KeptClaims, KeptSafe DEF Catch, Dismiss, Requeue, MarkFault
    <2>2. CASE Become(w, [run[w].pass EXCEPT !.pc = "stopping",
                                             !.fault = "none"])
      <3> DEFINE p == [run[w].pass EXCEPT !.pc = "stopping", !.fault = "none"]
      <3>1. p.pc = "stopping"
        BY PassOf DEF Typed, PassStates
      <3>2. PassSafe(p, evidence', Todo')
        BY <3>1 DEF PassSafe, Loaded
      <3> QED
        BY <2>1, <2>2, <3>2, PassSafeStep DEF OldPassesSafe
    <2> QED
      BY <1>11, <2>1, <2>2, IdleSafe DEF Catch, Dismiss
  <1>12. ASSUME NEW w \in Executions, FindStopping(w) PROVE Control'
    <2> DEFINE p == [IdlePass EXCEPT !.pc = "stopping",
                                     !.attempt = rec.attempt]
    <2>1. OldPassesSafe
      BY <1>12, KeptClaims, KeptSafe DEF FindStopping
    <2>2. p.pc = "stopping"
      BY DEF IdlePass
    <2>3. PassSafe(p, evidence', Todo')
      BY <2>2 DEF PassSafe, Loaded
    <2> QED
      BY <1>12, <2>1, <2>3, PassSafeStep DEF FindStopping, OldPassesSafe
  <1>13. ASSUME NEW w \in Executions, PrepareStop(w) PROVE Control'
    <2>1. OldPassesSafe
      BY <1>13, KeptClaims, KeptSafe DEF PrepareStop, Dismiss
    <2> QED
      BY <1>13, <2>1, IdleSafe, GoSafe DEF PrepareStop, Dismiss, PassSteps,
         Loaded
  <1>14. ASSUME NEW w \in Executions, StopDevice(w) PROVE Control'
    <2> DEFINE p == [run[w].pass EXCEPT !.pc = "stop_repair", !.locked = TRUE]
    <2>1. OldPassesSafe
      BY <1>14, KeptClaims, KeptSafe DEF StopDevice, Dismiss
    <2>2. p.pc = "stop_repair"
      BY PassOf DEF Typed, PassStates
    <2>3. PassSafe(p, evidence', Todo')
      BY <2>2 DEF PassSafe, Loaded
    <2>4. CASE Become(w, p)
      BY <2>1, <2>3, <2>4, PassSafeStep DEF OldPassesSafe
    <2> QED
      BY <1>14, <2>1, <2>4, IdleSafe, GoSafe DEF StopDevice, Dismiss,
         PassSteps, Loaded
  <1>15. ASSUME NEW w \in Executions, StopRepair(w) PROVE Control'
    <2>1. OldPassesSafe
      BY <1>15, RepairSafe DEF StopRepair
    <2> QED
      BY <1>15, <2>1, GoSafe DEF StopRepair, PassSteps, Loaded
  <1>16. ASSUME NEW w \in Executions, DeferStop(w) PROVE Control'
    <2>1. OldPassesSafe
      BY <1>16, KeptClaims, KeptSafe DEF DeferStop, Dismiss
    <2> QED
      BY <1>16, <2>1, IdleSafe DEF DeferStop, Dismiss
  <1>17. ASSUME NEW w \in Executions, StopRepairFaults(w) PROVE Control'
    <2>1. OldPassesSafe
      BY <1>17, KeptClaims, KeptSafe DEF StopRepairFaults, StopFaults, Dismiss
    <2> QED
      BY <1>17, <2>1, IdleSafe DEF StopRepairFaults, StopFaults, Dismiss
  <1>18. ASSUME NEW w \in Executions, CompleteStop(w) PROVE Control'
    <2>1. OldPassesSafe
      BY <1>18, KeptClaims, KeptSafe DEF CompleteStop, StopFaults, Dismiss
    <2> QED
      BY <1>18, <2>1, IdleSafe DEF CompleteStop, StopFaults, Dismiss
  <1>19. ASSUME NEW w \in Executions, BeginTakeover(w) PROVE Control'
    <2> DEFINE p == [IdlePass EXCEPT
                       !.attempt = rec.attempt,
                       !.pc = IF work.admitted THEN "take_device"
                              ELSE "take_repair"]
    <2>1. p.pc \in {"load", "take_device", "take_repair"}
      BY DEF IdlePass
    <2>2. PassSafe(p, evidence', Todo')
      BY <2>1 DEF PassSafe, Loaded
    <2>3. \A v \in Executions : HasClaim(v)' => v = w
      BY <1>19 DEF BeginTakeover, HasClaim, Typed, WorkTyped, Works
    <2>4. Become(w, p)
      BY <1>19 DEF BeginTakeover
    <2> HIDE DEF p
    <2> QED
      BY <2>2, <2>3, <2>4, PassSafeStep
  <1>20. ASSUME NEW w \in Executions, TakeDevice(w) PROVE Control'
    <2> DEFINE p == [run[w].pass EXCEPT !.pc = "take_repair", !.locked = TRUE]
    <2>1. OldPassesSafe
      BY <1>20, KeptClaims, KeptSafe DEF TakeDevice, DeferTakeover
    <2>2. p.pc = "take_repair"
      BY PassOf DEF Typed, PassStates
    <2>3. PassSafe(p, evidence', Todo')
      BY <2>2 DEF PassSafe, Loaded
    <2>4. CASE Become(w, p)
      BY <2>1, <2>3, <2>4, PassSafeStep DEF OldPassesSafe
    <2> QED
      BY <1>20, <2>1, <2>4, IdleSafe DEF TakeDevice, DeferTakeover
  <1>21. ASSUME NEW w \in Executions, TakeRepair(w) PROVE Control'
    <2>1. CASE Repair /\ ImageFree /\ Go(w, "take_done")
      <3>1. OldPassesSafe
        BY <2>1, RepairSafe
      <3>2. evidence' = "clean"
        BY <2>1 DEF Repair
      <3> QED
        BY <2>1, <3>1, <3>2, GoSafe DEF PassSteps
    <2>2. CASE DeferTakeover(w) /\ evidence' = evidence
      <3>1. OldPassesSafe
        BY <2>2, KeptClaims, KeptSafe DEF DeferTakeover
      <3> QED
        BY <2>2, <3>1, IdleSafe DEF DeferTakeover
    <2> QED
      BY <1>21, <2>1, <2>2 DEF TakeRepair
  <1>22. ASSUME NEW w \in Executions, TakeoverFaults(w) PROVE Control'
    <2>1. OldPassesSafe
      BY <1>22, KeptClaims, KeptSafe DEF TakeoverFaults, MarkFault
    <2> QED
      BY <1>22, <2>1, IdleSafe DEF TakeoverFaults, MarkFault
  <1>23. ASSUME NEW w \in Executions, FinishTakeover(w) PROVE Control'
    <2>1. OldPassesSafe
      BY <1>23, KeptClaims, KeptSafe DEF FinishTakeover, Requeue
    <2> QED
      BY <1>23, <2>1, IdleSafe DEF FinishTakeover, Requeue
  <1>24. ASSUME NEW w \in Executions, ActivateWaiting(w) PROVE Control'
    BY <1>24 DEF ActivateWaiting, Control, HasClaim
  <1>25. ASSUME NEW w \in Executions, ClaimVerification(w) PROVE Control'
    BY <1>25 DEF ClaimVerification, VerifierGoes, Todo, Control, HasClaim
  <1>26. ASSUME NEW w \in Executions, OwnCheckpoint(w) PROVE Control'
    BY <1>26 DEF OwnCheckpoint, VerifierGoes, VerificationFails,
       HasVerification, Typed, RunTyped, Runs, Todo, Control, HasClaim
  <1>27. ASSUME NEW w \in Executions, Sample(w) PROVE Control'
    <2>1. OldPassesSafe
      BY <1>27, KeptClaims, KeptSafe DEF Sample
    <2>2. \E s : VerifierGoes(w, s)
      BY <1>27 DEF Sample, VerificationInterrupted, VerificationFails
    <2>3. \A v \in Executions : run'[v].pass = run[v].pass
      BY <2>2 DEF VerifierGoes, Typed, RunTyped, Runs
    <2> QED
      BY <2>1, <2>3, SamePassSafe
  <1>28. ASSUME NEW w \in Executions, EndVerification(w) PROVE Control'
    <2>1. OldPassesSafe
      BY <1>28, KeptClaims, KeptSafe DEF EndVerification
    <2>2. \E s : VerifierGoes(w, s)
      BY <1>28 DEF EndVerification, VerificationFails
    <2>3. \A v \in Executions : run'[v].pass = run[v].pass
      BY <2>2 DEF VerifierGoes, Typed, RunTyped, Runs
    <2> QED
      BY <2>1, <2>3, SamePassSafe
  <1>29. ASSUME NEW w \in Executions, ClaimReconciliation(w) PROVE Control'
    BY <1>29 DEF ClaimReconciliation, ReconcilerGoes, Todo, Control, HasClaim
  <1>30. ASSUME NEW w \in Executions, RunReconciliation(w) PROVE Control'
    <2>1. OldPassesSafe
      BY <1>30, RepairSafe DEF RunReconciliation
    <2>2. \E s : ReconcilerGoes(w, s)
      BY <1>30 DEF RunReconciliation
    <2>3. \A v \in Executions : run'[v].pass = run[v].pass
      BY <2>2 DEF ReconcilerGoes, Typed, RunTyped, Runs
    <2> QED
      BY <2>1, <2>3, SamePassSafe
  <1>31. ASSUME NEW w \in Executions, ReleaseAfterReconciliation(w)
        PROVE  Control'
    BY <1>31 DEF ReleaseAfterReconciliation, ReconcilerGoes, NoWork, Todo,
       Control, HasClaim
  <1>32. ASSUME NEW w \in Executions, CompleteReconciliation(w) PROVE Control'
    BY <1>32 DEF CompleteReconciliation, ReconcilerGoes, Todo, Control,
       HasClaim
  <1>33. ASSUME NEW w \in Executions, FailReconciliation(w) PROVE Control'
    BY <1>33 DEF FailReconciliation, ReconcilerGoes, Todo, Control, HasClaim
  <1>34. ASSUME NEW w \in Executions, Renew(w) PROVE Control'
    BY <1>34 DEF Renew, HasClaim, Typed, WorkTyped, Works, Todo, Control
  <1>35. ASSUME NEW w \in Executions, Crash(w) PROVE Control'
    <2>1. \A v \in Executions : HasClaim(v)' => v # w /\ HasClaim(v)
      BY <1>35, RecoveryConstants
         DEF Crash, HasClaim, Typed, WorkTyped, Works
    <2>2. Todo' = Todo /\ evidence' = evidence
      BY <1>35 DEF Crash, Todo, Typed, WorkTyped, Works
    <2>3. \A v \in Executions : v # w => run'[v] = run[v]
      BY <1>35 DEF Crash, Typed, RunTyped, Runs
    <2> QED
      BY <2>1, <2>2, <2>3 DEF Control
  <1>36. ASSUME NEW w \in Executions, Restart(w) PROVE Control'
    BY <1>36 DEF Restart, Quiet, IdlePass, Todo, Control, PassSafe, HasClaim,
       Loaded
  <1>37. ASSUME SubmitVerification PROVE Control'
    BY <1>37 DEF SubmitVerification, Todo, Control, HasClaim
  <1>38. ASSUME Confirm PROVE Control'
    BY <1>38 DEF Confirm, Typed, WorkTyped, Works, Todo, Control, HasClaim
  <1>39. ASSUME RequestResume PROVE Control'
    BY <1>39 DEF RequestResume, Control, HasClaim
  <1>40. ASSUME RequestStop PROVE Control'
    BY <1>40 DEF RequestStop, Todo, Control, HasClaim
  <1>41. ASSUME WorkLeaseEnds PROVE Control'
    BY <1>41 DEF WorkLeaseEnds, Todo, Control, HasClaim
  <1> QED
    BY <1>1, <1>2, <1>3, <1>4, <1>5, <1>6, <1>7, <1>8, <1>9, <1>10, <1>11,
       <1>12, <1>13, <1>14, <1>15, <1>16, <1>17, <1>18, <1>19, <1>20, <1>21,
       <1>22, <1>23, <1>24, <1>25, <1>26, <1>27, <1>28, <1>29, <1>30, <1>31,
       <1>32, <1>33, <1>34, <1>35, <1>36, <1>37, <1>38, <1>39, <1>40, <1>41
       DEF Next, PassStep, VerifierStep, ReconcilerStep, LeaseEnds, Operate,
       ExpireConfirmation, ExpireVerification, ExpireReconciliation,
       SubmitReconciliation, RequestPreview, PreviewReads, PreviewEnds, Eject,
       Insert, VerificationLeaseEnds, ReconciliationLeaseEnds, HelperEnds

(***************************************************************************)
(* The invariant, and what follows from it.                                *)
(***************************************************************************)

(* At the start nobody holds anything, and nothing was counted.            *)
LEMMA InvInit == Init => IInv
  <1> SUFFICES ASSUME Init
               PROVE  IInv
    OBVIOUS
  <1> USE DEF Init
  <1>1. RecTyped /\ ReconTyped /\ RestTyped
    <2>1. left \in Int
      BY RecoveryConstants
    <2>2. used \in [Budgets -> Nat]
      OBVIOUS
    <2> QED
      BY <2>1, <2>2 DEF RecTyped, Recs, Statuses, EvidenceStates, ReconTyped,
         NoReconciliation, Reconciliations, Holders, RestTyped
  <1>2. WorkTyped
    BY NoWorkTyped DEF WorkTyped
  <1>3. VerTyped
    BY DEF VerTyped, NoVerification, Verifications, Holders
  <1>4. RunTyped
    BY IdleTyped DEF RunTyped, Runs, Quiet
  <1>5. Bounded
    <2>1. Budgeted
      BY RecoveryConstants DEF Budgeted
    <2>2. Attempts
      BY DEF Attempts, Budgets, NoVerification
    <2>3. RunsBounded
      <3>1. \A w \in Executions : run[w].pass = IdlePass
        BY DEF Quiet
      <3>2. IdlePass.attempt = 0 /\ rec.attempt = 1
        BY DEF IdlePass
      <3>3. 0 <= 1
        OBVIOUS
      <3> QED
        BY <3>1, <3>2, <3>3, Zenon DEF RunsBounded
    <2> QED
      BY <2>1, <2>2, <2>3 DEF Bounded
  <1>6. Rows
    BY DEF Rows, ClaimedIsUnsettled, ReservationMatchesStatus,
       ReconciliationExcludesPass, NoWork
  <1>7. Counted
    <2>1. work = NoWork /\ left = N
      OBVIOUS
    <2>2. /\ work.status = "none" /\ ~work.started /\ work.start = 0
          /\ work.recovered = 0 /\ work.failed = 0
      BY <2>1 DEF NoWork
    <2>3. Todo >= 0
      BY <2>2 DEF Todo
    <2> QED
      BY <2>1, <2>2, <2>3, RecoveryConstants DEF Counted, PassAccounting
  <1>8. Uncounted
    BY DEF Uncounted, NoWork
  <1>9. Control
    BY DEF Control, HasClaim, NoWork
  <1> QED
    BY <1>1, <1>2, <1>3, <1>4, <1>5, <1>6, <1>7, <1>8, <1>9 DEF IInv, Typed

(* Every step keeps it: one lemma above per conjunct.                      *)
LEMMA InvStep == IInv /\ [Next]_vars => IInv'
  <1> SUFFICES ASSUME IInv, [Next]_vars
               PROVE  IInv'
    OBVIOUS
  <1>1. CASE Next
    <2>1. Typed /\ Bounded /\ Rows /\ Counted /\ Uncounted /\ Control
      BY DEF IInv
    <2>2. RecTyped'
      BY <1>1, <2>1, RecStep
    <2>3. Typed'
      BY <1>1, <2>1, <2>2, WorkStep, VerStep, ReconStep, RestStep, RunStep
         DEF Typed
    <2>4. RunsBounded'
      <3> SUFFICES ASSUME NEW w \in Executions
                   PROVE  run'[w].pass.attempt <= rec'.attempt
        BY DEF RunsBounded
      <3>1. /\ run'[w].pass.attempt <= rec.attempt
            /\ rec.attempt <= rec'.attempt
        BY <1>1, <2>1, RunStep, AttemptStep DEF AttemptsSeen
      <3>2. /\ run'[w].pass.attempt \in Nat
            /\ rec.attempt \in Nat /\ rec'.attempt \in Nat
        BY <2>1, <2>3 DEF Typed, RunTyped, Runs, PassStates, RecTyped, Recs
      <3> QED
        BY <3>1, <3>2
    <2>5. Bounded'
      BY <1>1, <2>1, <2>4, BudgetStep, AttemptStep DEF Bounded
    <2>6. Rows' /\ Counted' /\ Uncounted' /\ Control'
      BY <1>1, <2>1, RowsStep, CountedStep, UncountedStep, ControlStep
    <2> QED
      BY <2>3, <2>5, <2>6 DEF IInv
  <1>2. CASE UNCHANGED vars
    <2> USE <1>2 DEF vars, IInv
    <2>1. Typed'
      BY DEF Typed, RecTyped, WorkTyped, VerTyped, ReconTyped, RestTyped,
         RunTyped
    <2>2. Bounded'
      BY DEF Bounded, Budgeted, Attempts, RunsBounded
    <2>3. Rows'
      BY DEF Rows, ClaimedIsUnsettled, ReservationMatchesStatus,
         ActiveVerification, ReconciliationExcludesPass
    <2>4. Counted' /\ Uncounted'
      BY DEF Counted, Uncounted, PassAccounting, Todo
    <2>5. Control'
      BY DEF Control, HasClaim, Todo
    <2> QED
      BY <2>1, <2>2, <2>3, <2>4, <2>5
  <1> QED
    BY <1>1, <1>2

LEMMA InvAlways == Spec => []IInv
  BY InvInit, InvStep, PTL DEF Spec

(* The bounds of the rows and of what the pollers know, from the counts.   *)
LEMMA InvTypes == IInv => TypeOK
  <1> SUFFICES ASSUME IInv
               PROVE  TypeOK
    OBVIOUS
  <1>1. Typed /\ Bounded /\ Counted
    BY DEF IInv
  <1> DEFINE Last == Limit["resume"] + 1
  <1>2. Limit["resume"] \in Nat /\ used["resume"] \in Nat
        /\ used["resume"] <= Limit["resume"]
    BY <1>1, RecoveryConstants DEF Typed, RestTyped, Bounded, Budgeted, Budgets
  <1>3. rec.attempt \in 1..Last
    BY <1>1, <1>2 DEF Bounded, Attempts
  <1> HIDE DEF Last
  <1>4. rec \in [status : Statuses,
                 pause : {"none", "no_progress", "storage_fault"},
                 attempt : 1..Last]
    BY <1>1, <1>3 DEF Typed, RecTyped, Recs
  <1>5. work \in [status : {"none", "requested", "claimed"},
                  bound : {"none", "latest", "older"}, conf : BOOLEAN,
                  by : Holders, fresh : BOOLEAN, started : BOOLEAN,
                  start : 0..N, recovered : 0..N, failed : 0..N,
                  admitted : BOOLEAN]
    <2>1. work \in Works
      BY <1>1 DEF Typed, WorkTyped
    <2>2. /\ work.start \in 0..N /\ work.recovered >= 0 /\ work.failed >= 0
          /\ work.start - (work.recovered + work.failed) >= 0
      BY <1>1 DEF Counted, Todo
    <2>3. /\ work.start \in Int /\ work.recovered \in Int
          /\ work.failed \in Int /\ N \in Int
      BY <2>1, RecoveryConstants DEF Works
    <2>4. work.recovered \in 0..N /\ work.failed \in 0..N
      BY <2>2, <2>3
    <2> QED
      BY <2>1, <2>2, <2>4 DEF Works
  <1>6. Last \in Nat
    BY <1>2 DEF Last
  <1>7. ver \in [status : {"none", "queued", "running", "completed", "failed"},
                 outcome : {"none", "match", "uncertain", "interrupted"},
                 by : Holders, fresh : BOOLEAN,
                 conf : {"none", "live", "expired"}, base : BOOLEAN,
                 attempt : 0..Last, admitted : BOOLEAN]
    <2>1. ver.attempt \in 0..Last
      BY <1>1, <1>3, <1>6 DEF Bounded, Attempts, Typed, VerTyped, Verifications
    <2> QED
      BY <1>1, <2>1 DEF Typed, VerTyped, Verifications
  <1>8. run \in [Executions ->
                   [pass : [pc : PassSteps, attempt : 0..Last, conf : BOOLEAN,
                            out : Outcomes \union {"none"}, fault : Faults,
                            locked : BOOLEAN],
                    verify : {"idle", "claimed", "owned", "sampling"},
                    reconcile : {"idle", "claimed", "repaired", "released"}]]
    <2>1. run \in Runs
      BY <1>1 DEF Typed, RunTyped
    <2>2. ASSUME NEW w \in Executions
          PROVE  run[w].pass \in
                   [pc : PassSteps, attempt : 0..Last, conf : BOOLEAN,
                    out : Outcomes \union {"none"}, fault : Faults,
                    locked : BOOLEAN]
      <3>1. run[w].pass \in PassStates
        BY <2>1 DEF Runs
      <3>2. run[w].pass.attempt \in 0..Last
        BY <1>1, <1>3, <1>6, <3>1 DEF Bounded, RunsBounded, PassStates
      <3> QED
        BY <3>1, <3>2 DEF PassStates
    <2> QED
      BY <2>1, <2>2 DEF Runs
  <1>9. left \in 0..N
    BY <1>1 DEF Counted
  <1> QED
    BY <1>1, <1>4, <1>5, <1>7, <1>8, <1>9
       DEF TypeOK, Typed, RecTyped, ReconTyped, Reconciliations, RestTyped,
           Bounded, Budgeted, Last

(* Type correctness: rows and pollers only ever hold the values of TypeOK. *)
THEOREM TypeCorrect == Spec => []TypeOK
  BY InvAlways, InvTypes, PTL

(* Whoever projects a recovered sector, the pass, a takeover, a stop or a  *)
(* reconciliation, and whatever dies in between, a started pass counts it  *)
(* exactly once (projectDvdRecoveryCheckpoint, settlePass).                *)
THEOREM SectorsCountedOnce == Spec => []PassAccounting
  <1>1. IInv => PassAccounting
    BY DEF IInv, Counted
  <1> QED
    BY <1>1, InvAlways, PTL

(* The status of a recovery and its reservation agree: nothing runs        *)
(* without the reservation or beside a verification of its attempt, and    *)
(* what may be claimed is not claimed (claimNextVerifiedCandidate).        *)
THEOREM StatusMatchesReservation == Spec => []ReservationMatchesStatus
  <1>1. IInv => ReservationMatchesStatus
    BY DEF IInv, Rows
  <1> QED
    BY <1>1, InvAlways, PTL

(* A recovery runs only when no reconciliation of it is to do              *)
(* (requireNoPendingReconciliation).                                       *)
THEOREM ReconciliationAlone == Spec => []ReconciliationExcludesPass
  <1>1. IInv => ReconciliationExcludesPass
    BY DEF IInv, Rows
  <1> QED
    BY <1>1, InvAlways, PTL

(* The rows agree after every transaction of pollers and operators.        *)
THEOREM RowsAgree == Spec => []StatusesAgree
  BY StatusMatchesReservation, ReconciliationAlone, PTL DEF StatusesAgree

(***************************************************************************)
(* Leases.  What the actions leave of the rows and of the pollers, then    *)
(* the conjuncts of LeaseInv, then the properties that need leases.        *)
(***************************************************************************)
(* Only this execution moves; of it, only the pass poller.                 *)
OthersStay(w) == \A v \in Executions : v # w => run'[v] = run[v]
PassOnly(w) == /\ OthersStay(w) /\ run'[w].verify = run[w].verify
               /\ run'[w].reconcile = run[w].reconcile

(* What the helpers of the actions make of a poller.                       *)
LEMMA Becomes ==
  ASSUME RunTyped, NEW w \in Executions, NEW p, Become(w, p)
  PROVE  PassOnly(w) /\ run'[w].pass = p
  BY DEF RunTyped, Runs, Become, PassOnly, OthersStay

LEMMA Goes ==
  ASSUME RunTyped, NEW w \in Executions, NEW s, Go(w, s)
  PROVE  /\ PassOnly(w) /\ run'[w].pass.pc = s
         /\ run'[w].pass.attempt = run[w].pass.attempt
         /\ run'[w].pass.fault = run[w].pass.fault
  <1> DEFINE p == [run[w].pass EXCEPT !.pc = s]
  <1>1. /\ p.pc = s /\ p.attempt = run[w].pass.attempt
        /\ p.fault = run[w].pass.fault
    BY PassOf DEF PassStates
  <1>2. Become(w, p)
    BY DEF Go, Fail
  <1> HIDE DEF p
  <1> QED
    BY <1>1, <1>2, Becomes

LEMMA Locks ==
  ASSUME RunTyped, NEW w \in Executions, NEW s, NEW l,
         Become(w, [run[w].pass EXCEPT !.pc = s, !.locked = l])
  PROVE  /\ PassOnly(w) /\ run'[w].pass.pc = s
         /\ run'[w].pass.attempt = run[w].pass.attempt
  <1> DEFINE p == [run[w].pass EXCEPT !.pc = s, !.locked = l]
  <1>1. p.pc = s /\ p.attempt = run[w].pass.attempt
    BY PassOf DEF PassStates
  <1>2. Become(w, p)
    BY DEF Go, Fail
  <1> HIDE DEF p
  <1> QED
    BY <1>1, <1>2, Becomes

LEMMA Outs ==
  ASSUME RunTyped, NEW w \in Executions, NEW s, NEW o,
         Become(w, [run[w].pass EXCEPT !.pc = s, !.out = o])
  PROVE  /\ PassOnly(w) /\ run'[w].pass.pc = s
         /\ run'[w].pass.attempt = run[w].pass.attempt
  <1> DEFINE p == [run[w].pass EXCEPT !.pc = s, !.out = o]
  <1>1. p.pc = s /\ p.attempt = run[w].pass.attempt
    BY PassOf DEF PassStates
  <1>2. Become(w, p)
    BY DEF Go, Fail
  <1> HIDE DEF p
  <1> QED
    BY <1>1, <1>2, Becomes

LEMMA BackToStop ==
  ASSUME RunTyped, NEW w \in Executions,
         Become(w, [run[w].pass EXCEPT !.pc = "stopping", !.fault = "none"])
  PROVE  /\ PassOnly(w) /\ run'[w].pass.pc = "stopping"
         /\ run'[w].pass.attempt = run[w].pass.attempt
  <1> DEFINE p == [run[w].pass EXCEPT !.pc = "stopping", !.fault = "none"]
  <1>1. p.pc = "stopping" /\ p.attempt = run[w].pass.attempt
    BY PassOf DEF PassStates
  <1>2. Become(w, p)
    BY DEF Go, Fail
  <1> HIDE DEF p
  <1> QED
    BY <1>1, <1>2, Becomes

LEMMA Begins ==
  ASSUME RunTyped, NEW w \in Executions, NEW s, NEW a, NEW c,
         \/ Become(w, [IdlePass EXCEPT !.pc = s, !.attempt = a, !.conf = c])
         \/ Become(w, [IdlePass EXCEPT !.pc = s, !.attempt = a])
         \/ Become(w, [IdlePass EXCEPT !.attempt = a, !.pc = s])
  PROVE  PassOnly(w) /\ run'[w].pass.pc = s /\ run'[w].pass.attempt = a
  <1> DEFINE P == {[IdlePass EXCEPT !.pc = s, !.attempt = a, !.conf = c],
                   [IdlePass EXCEPT !.pc = s, !.attempt = a],
                   [IdlePass EXCEPT !.attempt = a, !.pc = s]}
  <1>1. \A p \in P : p.pc = s /\ p.attempt = a
    BY DEF IdlePass
  <1>2. PICK p \in P : Become(w, p)
    OBVIOUS
  <1> HIDE DEF P
  <1> QED
    BY <1>1, <1>2, Becomes

LEMMA Fails ==
  ASSUME RunTyped, NEW w \in Executions, NEW f, Fail(w, f)
  PROVE  /\ PassOnly(w) /\ run'[w].pass.pc = "failing"
         /\ run'[w].pass.fault = f
         /\ run'[w].pass.attempt = run[w].pass.attempt
  <1> DEFINE p == [run[w].pass EXCEPT !.pc = "failing", !.fault = f,
                                      !.out = "none"]
  <1>1. /\ p.pc = "failing" /\ p.fault = f
        /\ p.attempt = run[w].pass.attempt
    BY PassOf DEF PassStates
  <1>2. Become(w, p)
    BY DEF Go, Fail
  <1> HIDE DEF p
  <1> QED
    BY <1>1, <1>2, Becomes

LEMMA Idles ==
  ASSUME RunTyped, NEW w \in Executions, ToIdle(w)
  PROVE  /\ PassOnly(w) /\ run'[w].pass.pc = "idle"
  BY Becomes DEF ToIdle, IdlePass

LEMMA Verifies ==
  ASSUME RunTyped, NEW w \in Executions, NEW s, VerifierGoes(w, s)
  PROVE  /\ OthersStay(w) /\ run'[w].pass = run[w].pass /\ run'[w].verify = s
         /\ run'[w].reconcile = run[w].reconcile
  BY DEF RunTyped, Runs, VerifierGoes, OthersStay

LEMMA Reconciles ==
  ASSUME RunTyped, NEW w \in Executions, NEW s, ReconcilerGoes(w, s)
  PROVE  /\ OthersStay(w) /\ run'[w].pass = run[w].pass
         /\ run'[w].reconcile = s
         /\ run'[w].verify = run[w].verify
  BY DEF RunTyped, Runs, ReconcilerGoes, OthersStay

LEMMA Dies ==
  ASSUME RunTyped, NEW w \in Executions,
           run' = [run EXCEPT ![w] = [Quiet EXCEPT !.pass.pc = "down"]]
  PROVE  /\ OthersStay(w) /\ run'[w].pass.pc = "down"
         /\ run'[w].verify = "idle"
         /\ run'[w].reconcile = "idle"
  BY DEF RunTyped, Runs, OthersStay, Quiet, IdlePass

LEMMA Revives ==
  ASSUME RunTyped, NEW w \in Executions, run' = [run EXCEPT ![w] = Quiet]
  PROVE  /\ OthersStay(w) /\ run'[w].pass.pc = "idle"
         /\ run'[w].verify = "idle"
         /\ run'[w].reconcile = "idle"
  BY DEF RunTyped, Runs, OthersStay, Quiet, IdlePass

(* What the helpers of the actions make of the rows.                       *)
LEMMA Forgets ==
  ASSUME WorkTyped, NEW w \in Executions, work' = Abandoned(w)
  PROVE  /\ work'.status = work.status /\ work'.fresh = work.fresh
         /\ work'.admitted = work.admitted
         /\ ~HasClaim(w) => work' = work
         /\ \A v \in Executions : HasClaim(v)' <=> HasClaim(v) /\ v # w
  BY RecoveryConstants DEF WorkTyped, Works, Abandoned, HasClaim

LEMMA NoWorkFields ==
  /\ NoWork.status = "none" /\ ~NoWork.admitted
  /\ [NoWork EXCEPT !.status = "requested"].status = "requested"
  /\ ~[NoWork EXCEPT !.status = "requested"].admitted
  BY DEF NoWork

LEMMA Requeues ==
  ASSUME Typed, NEW w, Requeue(w)
  PROVE  /\ rec'.status \in {"completed", "eligible"}
         /\ rec'.attempt = rec.attempt
         /\ work'.status \in {"none", "requested"} /\ ~work'.admitted
         /\ rec'.status = "completed" => left = 0 /\ work'.status = "none"
  <1>1. /\ rec' = IF left = 0 THEN [rec EXCEPT !.status = "completed"]
                            ELSE [rec EXCEPT !.status = "eligible"]
        /\ work' = IF left = 0 THEN NoWork
                   ELSE [work EXCEPT !.status = "requested", !.by = Nobody,
                               !.fresh = FALSE, !.admitted = FALSE]
    BY DEF Requeue
  <1>2. /\ rec'.attempt = rec.attempt
        /\ rec'.status = IF left = 0 THEN "completed" ELSE "eligible"
    BY <1>1 DEF Typed, RecTyped, Recs
  <1>3. /\ work'.status = IF left = 0 THEN "none" ELSE "requested"
        /\ ~work'.admitted
    <2>1. CASE left = 0
      BY <1>1, <2>1, NoWorkFields
    <2>2. CASE left # 0
      BY <1>1, <2>2 DEF Typed, WorkTyped, Works
    <2> QED
      BY <2>1, <2>2
  <1> QED
    BY <1>2, <1>3

LEMMA Projects ==
  ASSUME Typed, NEW o \in Outcomes, Project(o)
  PROVE  /\ work'.status = work.status /\ work'.by = work.by
         /\ work'.fresh = work.fresh
         /\ work'.admitted = work.admitted
         /\ rec'.attempt = rec.attempt
         /\ rec.status \in {"stopping", "faulted", "paused"} => rec' = rec
         /\ work.status = "claimed" => rec'.status \in {"running", rec.status}
         /\ rec'.status = "running" =>
              "running" = rec.status \/ work.status = "claimed"
         /\ rec' = rec \/ rec'.status \in {"running", "completed", "eligible"}
         /\ ver'.status = ver.status /\ ver'.admitted = ver.admitted
         /\ ver'.by = ver.by
         /\ ver'.attempt = ver.attempt /\ ver'.fresh = ver.fresh
  <1>1. /\ work'.status = work.status /\ work'.by = work.by
        /\ work'.fresh = work.fresh /\ work'.admitted = work.admitted
    BY DEF Project, Typed, WorkTyped, Works
  <1>2. /\ rec'.attempt = rec.attempt
        /\ rec.status \in {"stopping", "faulted", "paused"} => rec' = rec
        /\ work.status = "claimed" => rec'.status \in {"running", rec.status}
        /\ rec'.status = "running" =>
             "running" = rec.status \/ work.status = "claimed"
        /\ rec' = rec \/ rec'.status \in {"running", "completed", "eligible"}
    BY DEF Project, Typed, RecTyped, Recs
  <1>3. /\ ver'.status = ver.status /\ ver'.admitted = ver.admitted
        /\ ver'.by = ver.by
        /\ ver'.attempt = ver.attempt /\ ver'.fresh = ver.fresh
    BY DEF Project, Typed, VerTyped, Verifications
  <1> QED
    BY <1>1, <1>2, <1>3

LEMMA Repairs ==
  ASSUME Typed, Repair
  PROVE  /\ evidence' = "clean"
         /\ work'.status = work.status /\ work'.by = work.by
         /\ work'.fresh = work.fresh
         /\ work'.admitted = work.admitted
         /\ rec'.attempt = rec.attempt
         /\ rec.status \in {"stopping", "faulted", "paused"} => rec' = rec
         /\ work.status = "claimed" => rec'.status \in {"running", rec.status}
         /\ rec'.status = "running" =>
              "running" = rec.status \/ work.status = "claimed"
         /\ rec' = rec \/ rec'.status \in {"running", "completed", "eligible"}
         /\ evidence = "clean" => UNCHANGED <<rec, work, left, ver>>
         /\ evidence \in Outcomes => Projectable
         /\ evidence \notin Outcomes => UNCHANGED <<rec, work, left, ver>>
         /\ ver'.status = ver.status /\ ver'.admitted = ver.admitted
         /\ ver'.by = ver.by
         /\ ver'.attempt = ver.attempt /\ ver'.fresh = ver.fresh
  <1>1. CASE evidence \in Outcomes
    BY <1>1, Projects DEF Repair, Outcomes
  <1>2. CASE evidence \notin Outcomes
    BY <1>2 DEF Repair
  <1> QED
    BY <1>1, <1>2

LEMMA SettledEffects ==
  ASSUME Typed, NEW o \in {"match", "uncertain", "interrupted", "failed"},
           Settled(o)
  PROVE  /\ rec'.attempt = rec.attempt
         /\ rec' = rec
            \/ (rec.status = "eligible"
               /\ rec'.status \in {"waiting_for_disc", "faulted"})
         /\ ver'.attempt = ver.attempt /\ ver'.admitted = ver.admitted
         /\ ver'.status \in {"completed", "failed"}
            \/ (rec.status = "eligible" /\ ver'.status = "queued")
  <1>1. /\ rec'.attempt = rec.attempt
        /\ rec' = rec
           \/ (rec.status = "eligible"
              /\ rec'.status \in {"waiting_for_disc", "faulted"})
    BY DEF Settled, Typed, RecTyped, Recs
  <1>2. ASSUME NEW b, ver' = Queued(b), ver.attempt = rec.attempt,
                 rec.status = "eligible"
        PROVE  /\ ver'.attempt = ver.attempt /\ ver'.admitted = ver.admitted
               /\ ver'.status = "queued"
    BY <1>1, <1>2 DEF Queued, NoVerification, Typed, VerTyped, Verifications
  <1>3. \/ \E b : ver' = Queued(b) /\ ver.attempt = rec.attempt
           /\ rec.status = "eligible"
        \/ ver' = [ver EXCEPT !.status = "failed", !.fresh = FALSE]
        \/ ver' = [ver EXCEPT !.status = "completed", !.outcome = o,
             !.fresh = FALSE]
    BY DEF Settled
  <1>4. CASE \/ ver' = [ver EXCEPT !.status = "failed", !.fresh = FALSE]
             \/ ver' = [ver EXCEPT !.status = "completed", !.outcome = o,
                  !.fresh = FALSE]
    BY <1>1, <1>4 DEF Typed, VerTyped, Verifications
  <1> QED
    BY <1>1, <1>2, <1>3, <1>4

LEMMA MarksFault ==
  ASSUME Typed, NEW w \in Executions, NEW r \in BOOLEAN, NEW s \in BOOLEAN,
           MarkFault(w, r, s)
  PROVE  /\ rec'.attempt = rec.attempt
         /\ rec' = rec
            \/ (HasClaim(w) /\ rec.status = "running"
               /\ rec'.status \in {"paused", "faulted"})
         /\ HasClaim(w) /\ rec.status = "running" =>
              rec'.status = IF s THEN "paused" ELSE "faulted"
         /\ work' = Abandoned(w)
            \/ (HasClaim(w) /\ rec.status = "running" /\ ~r /\ work' = NoWork)
  BY DEF MarkFault, Typed, RecTyped, Recs

(* A poller's step moves that poller only.                                 *)
LEMMA PassMoves ==
  ASSUME RunTyped, NEW w \in Executions, PassStep(w)
  PROVE  PassOnly(w) /\ UNCHANGED <<recon, orphans, used, preview>>
  <1>1. UNCHANGED <<recon, orphans, used, preview>>
    BY DEF PassStep, ExpireConfirmation, Claim, Load, NextSector, Admit,
       EndRead, BeginBatch, BatchStep, BatchStepFails, Settle, Catch,
       FindStopping, PrepareStop, StopDevice, StopRepair, DeferStop,
       StopRepairFaults, CompleteStop, BeginTakeover, TakeDevice, TakeRepair,
       TakeoverFaults, FinishTakeover, ActivateWaiting
  <1>2. run' = run \/ \E p : Become(w, p)
    <2>1. CASE ExpireConfirmation(w) \/ Claim(w) \/ Load(w) \/ NextSector(w)
               \/ Admit(w) \/ EndRead(w) \/ BeginBatch(w)
      BY <2>1 DEF ExpireConfirmation, Claim, Load, NextSector, Admit,
         EndRead, BeginBatch, Go, Fail
    <2>2. CASE BatchStep(w) \/ BatchStepFails(w) \/ Settle(w) \/ Catch(w)
      BY <2>2 DEF BatchStep, EndBatch, BatchStepFails, Settle, Catch, Dismiss,
         ToIdle, Fail
    <2>3. CASE \/ FindStopping(w) \/ PrepareStop(w) \/ StopDevice(w)
               \/ StopRepair(w) \/ DeferStop(w) \/ StopRepairFaults(w)
               \/ CompleteStop(w)
      BY <2>3 DEF FindStopping, PrepareStop, StopDevice, StopRepair, DeferStop,
         StopRepairFaults, CompleteStop, StopFaults, Dismiss, ToIdle, Go
    <2>4. CASE \/ BeginTakeover(w) \/ TakeDevice(w) \/ TakeRepair(w)
               \/ TakeoverFaults(w) \/ FinishTakeover(w) \/ ActivateWaiting(w)
      BY <2>4 DEF BeginTakeover, TakeDevice, TakeRepair, TakeoverFaults,
         FinishTakeover, ActivateWaiting, DeferTakeover, ToIdle, Go
    <2> QED
      BY <2>1, <2>2, <2>3, <2>4 DEF PassStep
  <1>3. PassOnly(w)
    <2>1. CASE run' = run
      BY <2>1 DEF PassOnly, OthersStay
    <2> QED
      BY <1>2, <2>1, Becomes
  <1> QED
    BY <1>1, <1>3

LEMMA VerifierMoves ==
  ASSUME RunTyped, NEW w \in Executions, VerifierStep(w)
  PROVE  /\ OthersStay(w) /\ run'[w].pass = run[w].pass
         /\ run'[w].reconcile = run[w].reconcile
         /\ UNCHANGED <<work, left, recon, disc, preview, evidence, orphans,
              used>>
  <1>1. UNCHANGED <<work, left, recon, disc, preview, evidence, orphans, used>>
    BY DEF VerifierStep, ExpireVerification, ClaimVerification, OwnCheckpoint,
       Sample, EndVerification
  <1>2. run' = run \/ \E s : VerifierGoes(w, s)
    BY DEF VerifierStep, ExpireVerification, ClaimVerification, OwnCheckpoint,
       Sample, EndVerification, VerificationInterrupted, VerificationFails
  <1>3. CASE run' = run
    BY <1>1, <1>3 DEF OthersStay
  <1> QED
    BY <1>1, <1>2, <1>3, Verifies

LEMMA ReconcilerMoves ==
  ASSUME RunTyped, NEW w \in Executions, ReconcilerStep(w)
  PROVE  /\ OthersStay(w) /\ run'[w].pass = run[w].pass
         /\ run'[w].verify = run[w].verify
         /\ UNCHANGED <<disc, preview, orphans, used>>
  <1>1. UNCHANGED <<disc, preview, orphans, used>>
    BY DEF ReconcilerStep, ExpireReconciliation, ClaimReconciliation,
       RunReconciliation, ReleaseAfterReconciliation, CompleteReconciliation,
       FailReconciliation
  <1>2. run' = run \/ \E s : ReconcilerGoes(w, s)
    BY DEF ReconcilerStep, ExpireReconciliation, ClaimReconciliation,
       RunReconciliation, ReleaseAfterReconciliation, CompleteReconciliation,
       FailReconciliation
  <1>3. CASE run' = run
    BY <1>1, <1>3 DEF OthersStay
  <1> QED
    BY <1>1, <1>2, <1>3, Reconciles

(* What was used of a budget stays used.                                   *)
LEMMA SpendGrows ==
  ASSUME Typed, NEW b, Spend(b), NEW c \in Budgets
  PROVE  used'[c] >= used[c] /\ (b = c => used'[c] > 0)
  BY DEF Spend, Typed, RestTyped

LEMMA UsedGrows ==
  ASSUME Typed, Next, NEW c \in Budgets
  PROVE  used'[c] >= used[c]
  <1>1. CASE UNCHANGED used
    BY <1>1 DEF Typed, RestTyped
  <1>2. CASE \E b : Spend(b)
    BY <1>2, SpendGrows
  <1>3. UNCHANGED used \/ \E b : Spend(b)
    <2>1. ASSUME NEW w \in Executions, PassStep(w) PROVE UNCHANGED used
      BY <2>1, PassMoves DEF Typed
    <2>2. ASSUME NEW w \in Executions, VerifierStep(w) PROVE UNCHANGED used
      BY <2>2, VerifierMoves DEF Typed
    <2>3. ASSUME NEW w \in Executions, ReconcilerStep(w) PROVE UNCHANGED used
      BY <2>3, ReconcilerMoves DEF Typed
    <2>4. ASSUME NEW w \in Executions, Renew(w) \/ Crash(w) \/ Restart(w)
          PROVE  UNCHANGED used \/ \E b : Spend(b)
      BY <2>4 DEF Renew, Crash, Restart
    <2>5. CASE Operate
      BY <2>5 DEF Operate, SubmitVerification, Confirm, RequestResume,
         RequestStop, SubmitReconciliation, RequestPreview
    <2>6. CASE LeaseEnds
      BY <2>6 DEF LeaseEnds, WorkLeaseEnds, VerificationLeaseEnds,
         ReconciliationLeaseEnds, Stalls
    <2>7. CASE PreviewReads \/ PreviewEnds \/ Eject \/ Insert \/ HelperEnds
      BY <2>7 DEF PreviewReads, PreviewEnds, Eject, Insert, HelperEnds
    <2> QED
      BY <2>1, <2>2, <2>3, <2>4, <2>5, <2>6, <2>7 DEF Next
  <1> QED
    BY <1>1, <1>2, <1>3

LEMMA NobodyStalledYet ==
  ASSUME Typed, Next
  PROVE  (Prompt' => Prompt) /\ (Punctual' => Punctual)
  <1>1. /\ used["stall"] \in Nat /\ used["reconStall"] \in Nat
        /\ used'["stall"] >= used["stall"]
        /\ used'["reconStall"] >= used["reconStall"]
    BY UsedGrows DEF Budgets, Typed, RestTyped
  <1> QED
    BY <1>1 DEF Prompt, Punctual

(* A reconciler that never outlasts its lease holds the operation for as   *)
(* long as it works.                                                       *)
LEMMA ReconcilersHoldStep ==
  ASSUME Typed, Next, Prompt', ReconcilersHold
  PROVE  ReconcilersHold'
  <1>1. ASSUME UNCHANGED recon,
               \A w \in Executions : run'[w].reconcile = run[w].reconcile
        PROVE  ReconcilersHold'
    BY <1>1 DEF ReconcilersHold, HasReconciliation
  <1>2. ASSUME NEW w \in Executions, PassStep(w) PROVE ReconcilersHold'
    BY <1>1, <1>2, PassMoves DEF Typed, PassOnly, OthersStay
  <1>3. ASSUME NEW w \in Executions, VerifierStep(w) PROVE ReconcilersHold'
    BY <1>1, <1>3, VerifierMoves DEF Typed, OthersStay
  <1>4. ASSUME NEW w \in Executions, ReconcilerStep(w) PROVE ReconcilersHold'
    <2> USE DEF ReconcilersHold, HasReconciliation
    <2>1. CASE ExpireReconciliation(w)
      <3>1. \A v \in Executions : ~HasReconciliation(v)
        BY <2>1, RecoveryConstants DEF ExpireReconciliation
      <3>2. UNCHANGED run /\ recon'.status = "queued"
        BY <2>1 DEF ExpireReconciliation, NoReconciliation
      <3> QED
        BY <3>1, <3>2
    <2>2. CASE ClaimReconciliation(w)
      BY <2>2, Reconciles DEF ClaimReconciliation, OthersStay, Typed
    <2>3. CASE RunReconciliation(w)
      BY <2>3, Reconciles DEF RunReconciliation, OthersStay, Typed
    <2>4. CASE ReleaseAfterReconciliation(w)
      BY <2>4, Reconciles DEF ReleaseAfterReconciliation, OthersStay, Typed
    <2>5. CASE CompleteReconciliation(w) \/ FailReconciliation(w)
      <3>1. run[w].reconcile # "idle"
        BY <2>5 DEF CompleteReconciliation, FailReconciliation
      <3>2. /\ recon'.status \in {"completed", "failed"}
            /\ OthersStay(w) /\ run'[w].reconcile = "idle"
        BY <2>5, <3>1, Reconciles DEF CompleteReconciliation,
           FailReconciliation, Reconciled, Typed, ReconTyped, Reconciliations
      <3> QED
        BY <3>1, <3>2 DEF OthersStay
    <2> QED
      BY <1>4, <2>1, <2>2, <2>3, <2>4, <2>5 DEF ReconcilerStep
  <1>5. ASSUME NEW w \in Executions, Renew(w) PROVE ReconcilersHold'
    BY <1>5 DEF Renew, ReconcilersHold, HasReconciliation, Typed, ReconTyped,
       Reconciliations
  <1>6. ASSUME NEW w \in Executions, Crash(w) PROVE ReconcilersHold'
    <2>1. /\ OthersStay(w) /\ run'[w].reconcile = "idle"
          /\ recon'.status = recon.status /\ recon'.fresh = recon.fresh
          /\ recon'.by = IF recon.by = w THEN Nobody ELSE recon.by
      BY <1>6, Dies DEF Crash, Typed, ReconTyped, Reconciliations
    <2> QED
      BY <2>1 DEF ReconcilersHold, HasReconciliation, OthersStay
  <1>7. ASSUME NEW w \in Executions, Restart(w) PROVE ReconcilersHold'
    <2>1. UNCHANGED recon /\ OthersStay(w) /\ run'[w].reconcile = "idle"
      BY <1>7, Revives DEF Restart, Typed
    <2> QED
      BY <2>1 DEF ReconcilersHold, HasReconciliation, OthersStay
  <1>8. CASE SubmitReconciliation
    BY <1>8 DEF SubmitReconciliation, NoReconciliation, ReconcilersHold,
       HasReconciliation
  <1>9. CASE ReconciliationLeaseEnds
    <2>1. recon.by = Nobody
      BY <1>9, SpendGrows DEF ReconciliationLeaseEnds, Stalls, Prompt, Budgets
    <2> QED
      BY <1>9, <2>1, RecoveryConstants DEF ReconciliationLeaseEnds,
         ReconcilersHold, HasReconciliation, Typed, ReconTyped, Reconciliations
  <1>10. CASE UNCHANGED <<recon, run>>
    BY <1>1, <1>10
  <1> QED
    BY <1>2, <1>3, <1>4, <1>5, <1>6, <1>7, <1>8, <1>9, <1>10
       DEF Next, Operate, LeaseEnds, SubmitVerification, Confirm,
           RequestResume, RequestStop, RequestPreview, PreviewReads,
           PreviewEnds, Eject, Insert, WorkLeaseEnds, VerificationLeaseEnds,
           HelperEnds

(* A reservation given up by its holder, as far as anybody can see.        *)
GivenUp == work'.status \in {"none", "requested"} /\ ~work'.admitted
SameVer == /\ ver'.status = ver.status /\ ver'.by = ver.by
           /\ ver'.fresh = ver.fresh
           /\ ver'.admitted = ver.admitted /\ ver'.attempt = ver.attempt
SameWork == /\ work'.status = work.status /\ work'.by = work.by
            /\ work'.fresh = work.fresh /\ work'.admitted = work.admitted

(* A claim and a turn at the device.                                       *)
LEMMA ClaimEffect ==
  ASSUME Typed, NEW w \in Executions, Claim(w)
  PROVE  /\ run[w].pass.pc = "idle" /\ rec.status = "eligible"
         /\ work.status # "claimed" /\ NoPendingReconciliation
         /\ ver.status = "completed"
         /\ rec'.status = "running" /\ rec'.attempt = rec.attempt
         /\ HasClaim(w)' /\ work'.fresh /\ work'.admitted = work.admitted
         /\ PassOnly(w) /\ run'[w].pass.pc = "load"
         /\ run'[w].pass.attempt = rec.attempt
         /\ UNCHANGED <<left, ver, evidence>>
  <1>1. /\ rec'.status = "running" /\ rec'.attempt = rec.attempt
    BY DEF Claim, Typed, RecTyped, Recs
  <1>2. HasClaim(w)' /\ work'.fresh /\ work'.admitted = work.admitted
    BY DEF Claim, Typed, WorkTyped, Works, HasClaim
  <1>3. PassOnly(w) /\ run'[w].pass.pc = "load"
        /\ run'[w].pass.attempt = rec.attempt
    BY Begins, ZenonT(60) DEF Claim, Typed
  <1> QED
    BY <1>1, <1>2, <1>3 DEF Claim, At

LEMMA AdmitEffect ==
  ASSUME Typed, NEW w \in Executions, Admit(w)
  PROVE  /\ run[w].pass.pc = "ready" /\ PassOnly(w)
         /\ run'[w].pass.attempt = run[w].pass.attempt
         /\ \/ run'[w].pass.pc = "failing" /\ work' = work
               /\ run'[w].pass.fault \in {"fault", "preview", "changed"}
            \/ /\ run'[w].pass.pc = "reading" /\ HasClaim(w)
               /\ rec.status = "running"
               /\ work'.status = work.status /\ work'.by = work.by
               /\ work'.fresh = work.fresh /\ work'.admitted
         /\ SameVer
         /\ UNCHANGED <<rec, left, evidence>>
  <1>1. SameVer
    BY DEF Admit, SameVer, Typed, VerTyped, Verifications
  <1>2. \/ (\E f \in {"fault", "preview", "changed"} : Fail(w, f))
           /\ work' = work
        \/ /\ Go(w, "reading") /\ HasClaim(w) /\ rec.status = "running"
           /\ work' = [work EXCEPT !.admitted = TRUE]
    BY DEF Admit
  <1>3. CASE (\E f \in {"fault", "preview", "changed"} : Fail(w, f))
             /\ work' = work
    BY <1>1, <1>3, Fails DEF Admit, At, Typed
  <1>4. ASSUME Go(w, "reading"), HasClaim(w), rec.status = "running",
               work' = [work EXCEPT !.admitted = TRUE]
        PROVE  /\ PassOnly(w) /\ run'[w].pass.pc = "reading"
               /\ run'[w].pass.attempt = run[w].pass.attempt
               /\ work'.status = work.status /\ work'.by = work.by
               /\ work'.fresh = work.fresh /\ work'.admitted
    <2>1. "reading" \in PassSteps
      BY DEF PassSteps
    <2> QED
      BY <1>4, <2>1, Goes DEF Typed, WorkTyped, Works
  <1> QED
    BY <1>1, <1>2, <1>3, <1>4 DEF Admit, At

(* Pass steps that change no row.                                          *)
LEMMA LoadEffect ==
  ASSUME Typed, NEW w \in Executions, Load(w)
  PROVE  /\ run[w].pass.pc = "load" /\ PassOnly(w)
         /\ run'[w].pass.attempt = run[w].pass.attempt
         /\ \/ run'[w].pass.pc = "next" /\ evidence = "clean" /\ ~ImageWritten
            \/ run'[w].pass.pc = "failing" /\ run'[w].pass.fault = "fault"
         /\ UNCHANGED <<rec, work, left, ver, evidence>>
  BY Goes, Fails DEF Load, At, Typed

LEMMA NextSectorEffect ==
  ASSUME Typed, NEW w \in Executions, NextSector(w)
  PROVE  /\ run[w].pass.pc = "next" /\ PassOnly(w)
         /\ run'[w].pass.attempt = run[w].pass.attempt
         /\ \/ /\ run'[w].pass.pc = "failing"
               /\ run'[w].pass.fault \in {"changed", "fault", "preview"}
            \/ /\ run'[w].pass.pc = "stopping" /\ rec.status = "stopping"
               /\ rec.attempt = run[w].pass.attempt
            \/ /\ run'[w].pass.pc \in {"settle", "ready"} /\ HasClaim(w)
               /\ rec.status = "running" /\ rec.attempt = run[w].pass.attempt
         /\ UNCHANGED <<rec, work, left, ver, evidence>>
  <1>1. UNCHANGED <<rec, work, left, ver, evidence>> /\ run[w].pass.pc = "next"
    BY DEF NextSector, At
  <1>2. \/ \E f \in {"changed", "fault", "preview"} : Fail(w, f)
        \/ /\ Go(w, "stopping") /\ rec.status = "stopping"
           /\ rec.attempt = run[w].pass.attempt
        \/ /\ \E s \in {"settle", "ready"} : Go(w, s)
           /\ HasClaim(w)
           /\ rec.status = "running" /\ rec.attempt = run[w].pass.attempt
    BY DEF NextSector
  <1>3. CASE \E f \in {"changed", "fault", "preview"} : Fail(w, f)
    BY <1>1, <1>3, Fails DEF Typed
  <1>4. CASE \E s \in {"settle", "ready"} : Go(w, s)
    BY <1>1, <1>2, <1>4, Goes, Fails DEF Typed
  <1>5. CASE Go(w, "stopping")
    BY <1>1, <1>2, <1>5, Goes, Fails DEF Typed
  <1> QED
    BY <1>2, <1>3, <1>4, <1>5

LEMMA EndReadEffect ==
  ASSUME Typed, NEW w \in Executions, EndRead(w)
  PROVE  /\ run[w].pass.pc = "reading" /\ PassOnly(w)
         /\ run'[w].pass.attempt = run[w].pass.attempt
         /\ \/ /\ run'[w].pass.pc = "failing"
               /\ run'[w].pass.fault \in {"changed", "fault"}
            \/ /\ run'[w].pass.pc = "stopping" /\ rec.status = "stopping"
               /\ rec.attempt = run[w].pass.attempt
            \/ run'[w].pass.pc = "read" /\ rec.status # "stopping"
         /\ UNCHANGED <<rec, work, left, ver, evidence>>
  <1>1. UNCHANGED <<rec, work, left, ver, evidence>>
        /\ run[w].pass.pc = "reading"
    BY DEF EndRead, At
  <1>2. \/ \E f \in {"changed", "fault"} : Fail(w, f)
        \/ /\ Go(w, "stopping") /\ rec.status = "stopping"
           /\ rec.attempt = run[w].pass.attempt
        \/ /\ rec.status # "stopping"
           /\ \E o \in Outcomes :
                Become(w, [run[w].pass EXCEPT !.pc = "read", !.out = o])
    BY DEF EndRead
  <1>3. CASE \E f \in {"changed", "fault"} : Fail(w, f)
    BY <1>1, <1>3, Fails DEF Typed
  <1>4. CASE Go(w, "stopping") /\ rec.status = "stopping"
             /\ rec.attempt = run[w].pass.attempt
    BY <1>1, <1>4, Goes DEF Typed
  <1>5. CASE /\ rec.status # "stopping"
             /\ \E o \in Outcomes :
                  Become(w, [run[w].pass EXCEPT !.pc = "read", !.out = o])
    BY <1>1, <1>5, Outs DEF Typed
  <1> QED
    BY <1>2, <1>3, <1>4, <1>5

LEMMA BeginBatchEffect ==
  ASSUME Typed, NEW w \in Executions, BeginBatch(w)
  PROVE  /\ run[w].pass.pc = "read" /\ PassOnly(w)
         /\ run'[w].pass.attempt = run[w].pass.attempt
         /\ \/ /\ run'[w].pass.pc = "failing"
               /\ run'[w].pass.fault \in {"stale", "retained", "fault"}
            \/ /\ run'[w].pass.pc = "failing" /\ evidence = "clean"
               /\ run'[w].pass.fault = "unsupported" /\ ImageFree
            \/ /\ run'[w].pass.pc = "batch" /\ HasClaim(w) /\ ImageFree
               /\ rec.status \in {"running", "stopping"}
               /\ rec.attempt = run[w].pass.attempt
               /\ NoPendingReconciliation /\ evidence = "clean"
         /\ UNCHANGED <<rec, work, left, ver, evidence>>
  <1>1. UNCHANGED <<rec, work, left, ver, evidence>> /\ run[w].pass.pc = "read"
    BY DEF BeginBatch, At
  <1>2. \/ \E f \in {"stale", "retained", "fault"} : Fail(w, f)
        \/ Fail(w, "unsupported") /\ evidence = "clean" /\ ImageFree
        \/ /\ Go(w, "batch") /\ HasClaim(w) /\ ImageFree
           /\ rec.status \in {"running", "stopping"}
           /\ rec.attempt = run[w].pass.attempt
           /\ NoPendingReconciliation /\ evidence = "clean"
    BY DEF BeginBatch, Authorized
  <1>3. CASE \E f \in {"stale", "retained", "fault"} : Fail(w, f)
    BY <1>1, <1>3, Fails DEF Typed
  <1>4. CASE Fail(w, "unsupported") /\ evidence = "clean" /\ ImageFree
    BY <1>1, <1>4, Fails DEF Typed
  <1>5. CASE /\ Go(w, "batch") /\ HasClaim(w) /\ ImageFree
             /\ rec.status \in {"running", "stopping"}
             /\ rec.attempt = run[w].pass.attempt
             /\ NoPendingReconciliation /\ evidence = "clean"
    BY <1>1, <1>5, Goes DEF Typed
  <1> QED
    BY <1>2, <1>3, <1>4, <1>5

LEMMA FindStoppingEffect ==
  ASSUME Typed, NEW w \in Executions, FindStopping(w)
  PROVE  /\ run[w].pass.pc = "idle" /\ PassOnly(w) /\ rec.status = "stopping"
         /\ run'[w].pass.attempt = rec.attempt
         /\ run'[w].pass.pc = "stopping"
         /\ UNCHANGED <<rec, work, left, ver, evidence>>
  BY Begins DEF FindStopping, At, Typed

(* A batch, step by step.                                                  *)
LEMMA BatchStepEffect ==
  ASSUME Typed, NEW w \in Executions, BatchStep(w)
  PROVE  /\ run[w].pass.pc = "batch" /\ PassOnly(w)
         /\ run'[w].pass.attempt = run[w].pass.attempt
         /\ \/ /\ run'[w].pass.pc = "failing"
               /\ run'[w].pass.fault \in {"stale", "fault"}
               /\ UNCHANGED <<rec, work, left, ver, evidence>>
            \/ /\ HasClaim(w) /\ rec'.attempt = rec.attempt
               /\ run'[w].pass.pc \in {"batch", "next"}
               /\ rec.attempt = run[w].pass.attempt
               /\ rec.status \in {"stopping", "faulted", "paused"} =>
                    rec' = rec
               /\ rec'.status \in {"running", rec.status}
               /\ SameWork /\ SameVer
               /\ run'[w].pass.pc = "next" => evidence' = "clean"
  <1>1. run[w].pass.pc = "batch" /\ HasClaim(w) => work.status = "claimed"
    BY DEF BatchStep, At, HasClaim
  <1>2. ASSUME NEW f \in {"stale", "fault"}, Fail(w, f),
               UNCHANGED <<rec, work, left, ver, evidence>>
        PROVE  /\ PassOnly(w) /\ run'[w].pass.attempt = run[w].pass.attempt
               /\ run'[w].pass.pc = "failing" /\ run'[w].pass.fault = f
    BY <1>2, Fails DEF Typed
  <1>3. ASSUME Authorized(w), EndBatch(w)
        PROVE  /\ PassOnly(w) /\ run'[w].pass.attempt = run[w].pass.attempt
               /\ run'[w].pass.pc = "next"
    BY <1>3, Outs DEF EndBatch, Typed
  <1>4. ASSUME UNCHANGED run
        PROVE  PassOnly(w)
    BY <1>4 DEF PassOnly, OthersStay
  <1>5. ASSUME Authorized(w), NEW o \in Outcomes, Project(o)
        PROVE  /\ HasClaim(w) /\ rec'.attempt = rec.attempt
               /\ rec.attempt = run[w].pass.attempt
               /\ rec.status \in {"stopping", "faulted", "paused"} =>
                    rec' = rec
               /\ rec'.status \in {"running", rec.status}
               /\ SameWork /\ SameVer
    BY <1>5, Projects DEF Authorized, HasClaim, SameWork, SameVer
  <1>6. CASE ~Authorized(w)
    BY <1>2, <1>6 DEF BatchStep, At
  <1>7. ASSUME Authorized(w), evidence \in {"clean", "undo"},
               UNCHANGED <<rec, work, left, ver, run>>,
               run[w].pass.pc = "batch"
        PROVE  /\ PassOnly(w) /\ HasClaim(w) /\ rec'.attempt = rec.attempt
               /\ run'[w].pass.pc = "batch"
               /\ run'[w].pass.attempt = run[w].pass.attempt
               /\ rec.attempt = run[w].pass.attempt
               /\ rec' = rec /\ SameWork /\ SameVer
    BY <1>4, <1>7 DEF Authorized, SameWork, SameVer
  <1>8. ASSUME Authorized(w), evidence \in Outcomes, Project(evidence),
               IF evidence = "recovered"
               THEN evidence' = "spent" /\ UNCHANGED run
               ELSE evidence' = "clean" /\ EndBatch(w),
               run[w].pass.pc = "batch"
        PROVE  /\ PassOnly(w)
               /\ run'[w].pass.attempt = run[w].pass.attempt
               /\ run'[w].pass.pc \in {"batch", "next"}
               /\ run'[w].pass.pc = "next" => evidence' = "clean"
    BY <1>3, <1>4, <1>8
  <1>9. ASSUME Authorized(w), evidence' = "clean", EndBatch(w),
               UNCHANGED <<rec, work, left, ver>>
        PROVE  /\ HasClaim(w) /\ rec'.attempt = rec.attempt
               /\ rec.attempt = run[w].pass.attempt
               /\ rec' = rec /\ SameWork /\ SameVer
    BY <1>9 DEF Authorized, SameWork, SameVer
  <1>10. run[w].pass.pc = "batch"
    BY DEF BatchStep, At
  <1>11. CASE /\ Authorized(w) /\ evidence \in {"clean", "undo"}
              /\ UNCHANGED <<rec, work, left, ver, run>>
    BY <1>7, <1>10, <1>11
  <1>12. CASE /\ Authorized(w) /\ evidence \in Outcomes /\ Project(evidence)
              /\ IF evidence = "recovered"
                 THEN evidence' = "spent" /\ UNCHANGED run
                 ELSE evidence' = "clean" /\ EndBatch(w)
    BY <1>5, <1>8, <1>10, <1>12
  <1>13. CASE /\ Authorized(w) /\ evidence' = "clean" /\ EndBatch(w)
              /\ UNCHANGED <<rec, work, left, ver>>
    BY <1>3, <1>9, <1>10, <1>13
  <1> QED
    BY <1>6, <1>11, <1>12, <1>13 DEF BatchStep

LEMMA BatchStepFailsEffect ==
  ASSUME Typed, NEW w \in Executions, BatchStepFails(w)
  PROVE  /\ run[w].pass.pc = "batch" /\ PassOnly(w) /\ HasClaim(w)
         /\ run'[w].pass.attempt = run[w].pass.attempt
         /\ run'[w].pass.pc = "failing"
         /\ run'[w].pass.fault \in {"retained", "storage"}
         /\ UNCHANGED <<rec, work, left, ver>>
  BY Fails DEF BatchStepFails, Authorized, At, Typed

(* A token is forgotten; and what a repair does to the rows.               *)
Forgotten(w) ==
  /\ work'.status = work.status /\ work'.fresh = work.fresh
  /\ work'.admitted = work.admitted
  /\ \A v \in Executions : HasClaim(v)' <=> HasClaim(v) /\ v # w
VerKept ==
  ver.admitted /\ ver.attempt = rec.attempt
    => ver'.admitted /\ ver'.attempt = rec.attempt
RowsRepaired ==
  /\ evidence' = "clean" /\ SameWork /\ SameVer
  /\ rec'.attempt = rec.attempt
  /\ rec.status \in {"stopping", "faulted", "paused"} => rec' = rec
  /\ work.status = "claimed" => rec'.status \in {"running", rec.status}
  /\ rec'.status = "running" =>
       "running" = rec.status \/ work.status = "claimed"
  /\ rec' = rec \/ rec'.status \in {"running", "completed", "eligible"}
  /\ evidence \in Outcomes => Projectable
  /\ evidence \notin Outcomes => UNCHANGED <<rec, work, left, ver>>

LEMMA Repaired ==
  ASSUME Typed, Repair
  PROVE  RowsRepaired
  BY Repairs DEF RowsRepaired, SameWork, SameVer

LEMMA Forgetting ==
  ASSUME Typed, NEW w \in Executions, work' = Abandoned(w)
  PROVE  Forgotten(w)
  BY Forgets DEF Forgotten, Typed

LEMMA Dismissed ==
  ASSUME Typed, NEW w \in Executions, Dismiss(w)
  PROVE  Forgotten(w) /\ PassOnly(w) /\ run'[w].pass.pc = "idle"
  BY Forgetting, Idles DEF Dismiss, Typed

LEMMA QueuedKeeps ==
  ASSUME Typed, rec'.attempt = rec.attempt, NEW b, ver' = Queued(b)
  PROVE  VerKept
  <1>1. /\ ver'.attempt = rec'.attempt
        /\ ver'.admitted = (ver.admitted /\ ver.attempt = rec'.attempt)
    BY Zenon DEF Queued, NoVerification
  <1> QED
    BY <1>1 DEF VerKept

(* The end of a pass, and how a failure is caught.                         *)
LEMMA SettleEffect ==
  ASSUME Typed, NEW w \in Executions, Settle(w)
  PROVE  /\ run[w].pass.pc = "settle" /\ PassOnly(w)
         /\ UNCHANGED <<left, evidence>>
         /\ \/ /\ run'[w].pass.pc = "failing" /\ run'[w].pass.fault = "fault"
               /\ run'[w].pass.attempt = run[w].pass.attempt
               /\ UNCHANGED <<rec, work, ver>>
            \/ /\ run'[w].pass.pc = "idle" /\ Forgotten(w)
               /\ UNCHANGED <<rec, ver>>
            \/ /\ run'[w].pass.pc = "idle" /\ HasClaim(w)
               /\ rec.status = "running" /\ rec'.attempt = rec.attempt
               /\ rec'.status \in {"completed", "eligible", "paused"}
               /\ GivenUp
               /\ rec'.status = "completed" =>
                    left = 0 /\ work'.status = "none"
               /\ VerKept
               /\ \/ ver' = ver
                  \/ rec'.status = "eligible" /\ ver.status = "completed"
  <1>1. run[w].pass.pc = "settle" /\ UNCHANGED <<left, evidence>>
    BY DEF Settle, At
  <1> DEFINE Ends == HasClaim(w) /\ rec.status = "running"
  <1>2. \/ Fail(w, "fault") /\ UNCHANGED <<rec, work, ver>>
        \/ Dismiss(w) /\ UNCHANGED <<rec, ver>>
        \/ /\ Ends /\ rec' = [rec EXCEPT !.status = "completed"] /\ left = 0
           /\ work' = NoWork /\ ToIdle(w) /\ UNCHANGED ver
        \/ /\ Ends /\ rec' = [rec EXCEPT !.status = "eligible"]
           /\ work' = [NoWork EXCEPT !.status = "requested"]
           /\ ver.status = "completed" /\ ver' = Queued(TRUE) /\ ToIdle(w)
        \/ /\ Ends
           /\ rec' = [rec EXCEPT !.status = "paused", !.pause = "no_progress"]
           /\ work' = [work EXCEPT !.status = "requested", !.by = Nobody,
                                   !.fresh = FALSE, !.admitted = FALSE]
           /\ ToIdle(w) /\ UNCHANGED ver
    BY DEF Settle
  <1>3. CASE Fail(w, "fault") /\ UNCHANGED <<rec, work, ver>>
    BY <1>1, <1>3, Fails DEF Typed
  <1>4. CASE Dismiss(w) /\ UNCHANGED <<rec, ver>>
    BY <1>1, <1>4, Dismissed
  <1>5. CASE /\ Ends /\ rec' = [rec EXCEPT !.status = "completed"] /\ left = 0
             /\ work' = NoWork /\ ToIdle(w) /\ UNCHANGED ver
    <2>1. rec'.status = "completed" /\ rec'.attempt = rec.attempt
      BY <1>5 DEF Typed, RecTyped, Recs
    <2>2. PassOnly(w) /\ run'[w].pass.pc = "idle"
      BY <1>5, Idles DEF Typed
    <2>3. work'.status = "none" /\ ~work'.admitted
      BY <1>5, NoWorkFields
    <2> QED
      BY <1>1, <1>5, <2>1, <2>2, <2>3 DEF GivenUp, VerKept
  <1>6. CASE /\ Ends /\ rec' = [rec EXCEPT !.status = "eligible"]
             /\ work' = [NoWork EXCEPT !.status = "requested"]
             /\ ver.status = "completed" /\ ver' = Queued(TRUE) /\ ToIdle(w)
    <2>1. rec'.status = "eligible" /\ rec'.attempt = rec.attempt
      BY <1>6 DEF Typed, RecTyped, Recs
    <2>2. PassOnly(w) /\ run'[w].pass.pc = "idle"
      BY <1>6, Idles DEF Typed
    <2>3. work'.status = "requested" /\ ~work'.admitted
      BY <1>6, NoWorkFields
    <2>4. VerKept
      BY <1>6, <2>1, QueuedKeeps
    <2> QED
      BY <1>1, <1>6, <2>1, <2>2, <2>3, <2>4 DEF GivenUp
  <1>7. CASE /\ Ends
             /\ rec' = [rec EXCEPT !.status = "paused",
                  !.pause = "no_progress"]
             /\ work' = [work EXCEPT !.status = "requested", !.by = Nobody,
                                     !.fresh = FALSE, !.admitted = FALSE]
             /\ ToIdle(w) /\ UNCHANGED ver
    <2>1. rec'.status = "paused" /\ rec'.attempt = rec.attempt
      BY <1>7 DEF Typed, RecTyped, Recs
    <2>2. PassOnly(w) /\ run'[w].pass.pc = "idle"
      BY <1>7, Idles DEF Typed
    <2>3. work'.status = "requested" /\ ~work'.admitted
      BY <1>7 DEF Typed, WorkTyped, Works
    <2> QED
      BY <1>1, <1>7, <2>1, <2>2, <2>3 DEF GivenUp, VerKept
  <1> QED
    BY <1>2, <1>3, <1>4, <1>5, <1>6, <1>7

LEMMA CatchEffect ==
  ASSUME Typed, NEW w \in Executions, Catch(w)
  PROVE  /\ run[w].pass.pc = "failing" /\ PassOnly(w)
         /\ UNCHANGED <<left, evidence>> /\ SameVer
         /\ \/ /\ run'[w].pass.pc = "idle" /\ Forgotten(w) /\ UNCHANGED rec
            \/ /\ run'[w].pass.pc = "stopping" /\ UNCHANGED <<rec, work>>
               /\ rec.status = "stopping"
               /\ run'[w].pass.attempt = run[w].pass.attempt
               /\ rec.attempt = run[w].pass.attempt
            \/ /\ run'[w].pass.pc = "idle" /\ HasClaim(w)
               /\ rec.status = "running" /\ rec'.attempt = rec.attempt
               /\ \/ /\ run[w].pass.fault = "preview"
                     /\ rec'.status \in {"completed", "eligible"} /\ GivenUp
                     /\ rec'.status = "completed" =>
                          left = 0 /\ work'.status = "none"
                  \/ /\ run[w].pass.fault \in {"retained", "storage"}
                     /\ Forgotten(w)
                     /\ rec'.status \in {"paused", "faulted"}
                  \/ rec'.status = "paused" /\ GivenUp
                     /\ run[w].pass.fault = "unsupported"
                  \/ rec'.status = "faulted" /\ GivenUp
  <1> DEFINE f == run[w].pass.fault
  <1> DEFINE Now == rec.attempt = run[w].pass.attempt
  <1> DEFINE Ends == HasClaim(w) /\ rec.status = "running"
  <1>1. run[w].pass.pc = "failing" /\ UNCHANGED <<left, evidence>>
    BY DEF Catch, At
  <1>2. SameVer
    BY DEF Catch, SameVer, Typed, VerTyped, Verifications
  <1>3. \/ Dismiss(w) /\ UNCHANGED rec
        \/ /\ Now /\ rec.status = "stopping"
           /\ Become(w,
                [run[w].pass EXCEPT !.pc = "stopping", !.fault = "none"])
           /\ UNCHANGED <<rec, work>>
        \/ f = "preview" /\ Ends /\ Requeue(w) /\ ToIdle(w)
        \/ f = "preview" /\ work' = Abandoned(w) /\ UNCHANGED rec /\ ToIdle(w)
        \/ /\ MarkFault(w, f \in {"retained", "storage"},
                           f \in {"storage", "unsupported"})
           /\ ToIdle(w)
    BY DEF Catch
  <1>4. CASE \/ Dismiss(w) /\ UNCHANGED rec
             \/ f = "preview" /\ work' = Abandoned(w) /\ UNCHANGED rec
                /\ ToIdle(w)
    BY <1>1, <1>2, <1>4, Dismissed DEF Dismiss
  <1>5. CASE /\ Now /\ rec.status = "stopping"
             /\ Become(w,
                  [run[w].pass EXCEPT !.pc = "stopping", !.fault = "none"])
             /\ UNCHANGED <<rec, work>>
    BY <1>1, <1>2, <1>5, BackToStop DEF Typed
  <1>6. CASE f = "preview" /\ Ends /\ Requeue(w) /\ ToIdle(w)
    BY <1>1, <1>2, <1>6, Requeues, Idles DEF Typed, GivenUp
  <1>7. CASE /\ MarkFault(w, f \in {"retained", "storage"},
                             f \in {"storage", "unsupported"})
             /\ ToIdle(w)
    <2> DEFINE retain == f \in {"retained", "storage"}
    <2> DEFINE storage == f \in {"storage", "unsupported"}
    <2>1. PassOnly(w) /\ run'[w].pass.pc = "idle"
      BY <1>7, Idles DEF Typed
    <2>2. CASE ~Ends
      <3>1. UNCHANGED rec /\ Forgotten(w)
        BY <1>7, <2>2, Forgetting DEF MarkFault
      <3> QED
        BY <1>1, <1>2, <2>1, <3>1
    <2>3. CASE Ends
      <3>1. /\ rec'.attempt = rec.attempt
            /\ rec'.status = IF storage THEN "paused" ELSE "faulted"
        BY <1>7, <2>3 DEF MarkFault, Typed, RecTyped, Recs
      <3>2. CASE retain
        <4>1. Forgotten(w)
          BY <1>7, <2>3, <3>2, Forgetting DEF MarkFault
        <4> QED
          BY <1>1, <1>2, <2>1, <2>3, <3>1, <3>2, <4>1
      <3>3. CASE ~retain
        <4>1. GivenUp
          BY <1>7, <2>3, <3>3, NoWorkFields DEF MarkFault, GivenUp
        <4> QED
          BY <1>1, <1>2, <2>1, <2>3, <3>1, <3>3, <4>1
      <3> QED
        BY <3>2, <3>3
    <2> QED
      BY <2>2, <2>3
  <1> QED
    BY <1>3, <1>4, <1>5, <1>6, <1>7

(* --------------  a stop, from its preparation to its end  -------------- *)
LEMMA PrepareStopEffect ==
  ASSUME Typed, NEW w \in Executions, PrepareStop(w)
  PROVE  /\ run[w].pass.pc = "stopping" /\ PassOnly(w)
         /\ UNCHANGED <<rec, left, evidence>>
         /\ ver'.by = ver.by /\ ver'.fresh = ver.fresh
         /\ ver'.admitted = ver.admitted /\ ver'.attempt = ver.attempt
         /\ ver'.status \in {ver.status, "failed", "completed"}
         /\ ver' = ver \/ CurrentStop(w)
         /\ \/ run'[w].pass.pc = "idle" /\ Forgotten(w)
            \/ /\ run'[w].pass.pc = "stop_device" /\ work' = work
               /\ run'[w].pass.attempt = run[w].pass.attempt
               /\ CurrentStop(w) /\ ~AwaitsHolder(w)
  <1>1. run[w].pass.pc = "stopping" /\ UNCHANGED <<rec, left, evidence>>
    BY DEF PrepareStop, At
  <1>2. \/ ver' = ver
        \/ CurrentStop(w) /\ ver' = [ver EXCEPT !.status = "failed"]
        \/ CurrentStop(w)
           /\ \E o : ver' = [ver EXCEPT !.status = "completed", !.outcome = o]
    BY DEF PrepareStop
  <1>3. /\ ver'.by = ver.by /\ ver'.fresh = ver.fresh
        /\ ver'.admitted = ver.admitted /\ ver'.attempt = ver.attempt
        /\ ver'.status \in {ver.status, "failed", "completed"}
        /\ ver' = ver \/ CurrentStop(w)
    BY <1>2 DEF Typed, VerTyped, Verifications
  <1>4. \/ Dismiss(w)
        \/ Go(w, "stop_device") /\ work' = work /\ CurrentStop(w)
           /\ ~AwaitsHolder(w)
    BY DEF PrepareStop
  <1>5. CASE Dismiss(w)
    BY <1>1, <1>3, <1>5, Dismissed
  <1>6. CASE Go(w, "stop_device") /\ work' = work /\ CurrentStop(w)
             /\ ~AwaitsHolder(w)
    BY <1>1, <1>3, <1>6, Goes DEF Typed
  <1> QED
    BY <1>4, <1>5, <1>6

LEMMA StopDeviceEffect ==
  ASSUME Typed, NEW w \in Executions, StopDevice(w)
  PROVE  /\ run[w].pass.pc = "stop_device" /\ PassOnly(w)
         /\ UNCHANGED <<rec, left, ver, evidence>>
         /\ \/ run'[w].pass.pc = "idle" /\ Forgotten(w)
            \/ /\ run'[w].pass.pc = "stop_repair" /\ work' = work
               /\ run'[w].pass.attempt = run[w].pass.attempt
               /\ ~AdmittedDevice(w) \/ DeviceFree
  <1>1. run[w].pass.pc = "stop_device"
        /\ UNCHANGED <<rec, left, ver, evidence>>
    BY DEF StopDevice, At
  <1>2. CASE Dismiss(w)
    BY <1>1, <1>2, Dismissed
  <1>3. CASE Go(w, "stop_repair") /\ work' = work /\ ~AdmittedDevice(w)
    BY <1>1, <1>3, Goes DEF Typed
  <1>4. CASE /\ Become(w,
                  [run[w].pass EXCEPT !.pc = "stop_repair", !.locked = TRUE])
             /\ work' = work /\ DeviceFree
    BY <1>1, <1>4, Locks DEF Typed
  <1> QED
    BY <1>2, <1>3, <1>4 DEF StopDevice

LEMMA StopRepairEffect ==
  ASSUME Typed, NEW w \in Executions, StopRepair(w)
  PROVE  /\ run[w].pass.pc = "stop_repair" /\ PassOnly(w) /\ ImageFree
         /\ run'[w].pass.attempt = run[w].pass.attempt
         /\ run'[w].pass.pc = "stop_done" /\ RowsRepaired
  BY Repaired, Goes DEF StopRepair, At, Typed

LEMMA StopFaultsEffect ==
  ASSUME Typed, NEW w \in Executions, StopFaults(w)
  PROVE  /\ PassOnly(w) /\ run'[w].pass.pc = "idle" /\ Forgotten(w)
         /\ rec'.attempt = rec.attempt
         /\ rec' = rec \/ (rec'.status = "faulted" /\ CurrentStop(w))
         /\ CurrentStop(w) => rec'.status = "faulted"
  <1>1. /\ rec'.attempt = rec.attempt
        /\ rec' = rec \/ (rec'.status = "faulted" /\ CurrentStop(w))
        /\ CurrentStop(w) => rec'.status = "faulted"
    BY DEF StopFaults, Typed, RecTyped, Recs
  <1> QED
    BY <1>1, Dismissed DEF StopFaults

LEMMA CompleteStopEffect ==
  ASSUME Typed, NEW w \in Executions, CompleteStop(w)
  PROVE  /\ run[w].pass.pc = "stop_done" /\ PassOnly(w)
         /\ run'[w].pass.pc = "idle"
         /\ rec'.attempt = rec.attempt
         /\ UNCHANGED <<left, ver, evidence>>
         /\ \/ /\ Forgotten(w)
               /\ rec' = rec \/ (rec'.status = "faulted" /\ CurrentStop(w))
            \/ /\ CurrentStop(w) /\ rec'.status = "stopped"
               /\ ~(ActiveVerification /\ ver.attempt = rec.attempt)
               /\ work'.status = "none" /\ GivenUp
  <1>1. run[w].pass.pc = "stop_done" /\ UNCHANGED <<left, ver, evidence>>
    BY DEF CompleteStop, At
  <1>2. CASE StopFaults(w)
    BY <1>1, <1>2, StopFaultsEffect
  <1>3. CASE /\ CurrentStop(w)
             /\ ~(ActiveVerification /\ ver.attempt = rec.attempt)
             /\ rec' = [rec EXCEPT !.status = "stopped"]
             /\ work' = NoWork /\ ToIdle(w)
    <2>1. rec'.status = "stopped" /\ rec'.attempt = rec.attempt
      BY <1>3 DEF Typed, RecTyped, Recs
    <2>2. work'.status = "none" /\ GivenUp
      BY <1>3, NoWorkFields DEF GivenUp
    <2> QED
      BY <1>1, <1>3, <2>1, <2>2, Idles DEF Typed
  <1> QED
    BY <1>2, <1>3 DEF CompleteStop

(* -----------------  a takeover of an interrupted claim  ---------------- *)
LEMMA BeginTakeoverEffect ==
  ASSUME Typed, NEW w \in Executions, BeginTakeover(w)
  PROVE  /\ run[w].pass.pc = "idle" /\ PassOnly(w) /\ InterruptedClaim
         /\ run'[w].pass.attempt = rec.attempt
         /\ run'[w].pass.pc \in {"take_device", "take_repair"}
         /\ run'[w].pass.pc = "take_repair" => ~work.admitted
         /\ work'.status = "claimed" /\ work'.by = w /\ work'.fresh
         /\ work'.admitted = work.admitted
         /\ UNCHANGED <<rec, left, ver, evidence>>
  <1>1. /\ work'.status = "claimed" /\ work'.by = w /\ work'.fresh
        /\ work'.admitted = work.admitted
    BY DEF BeginTakeover, InterruptedClaim, Typed, WorkTyped, Works
  <1>2. \/ work.admitted
           /\ Become(w,
                [IdlePass EXCEPT !.attempt = rec.attempt,
                  !.pc = "take_device"])
        \/ ~work.admitted
           /\ Become(w,
                [IdlePass EXCEPT !.attempt = rec.attempt,
                  !.pc = "take_repair"])
    BY DEF BeginTakeover
  <1>3. /\ PassOnly(w) /\ run'[w].pass.attempt = rec.attempt
        /\ run'[w].pass.pc = IF work.admitted THEN "take_device"
                             ELSE "take_repair"
    BY <1>2, Begins DEF Typed
  <1> QED
    BY <1>1, <1>3 DEF BeginTakeover, At

LEMMA Defers ==
  ASSUME Typed, NEW w \in Executions, DeferTakeover(w)
  PROVE  /\ PassOnly(w) /\ run'[w].pass.pc = "idle"
         /\ work'.status = work.status /\ work'.admitted = work.admitted
         /\ work'.fresh => work.fresh
         /\ \A v \in Executions : HasClaim(v)' <=> HasClaim(v) /\ v # w
         /\ ~HasClaim(w) => work' = work
  <1>1. PassOnly(w) /\ run'[w].pass.pc = "idle"
    BY Idles DEF DeferTakeover, Typed
  <1> QED
    BY <1>1, RecoveryConstants DEF DeferTakeover, Typed, WorkTyped, Works,
       HasClaim

LEMMA TakeDeviceEffect ==
  ASSUME Typed, NEW w \in Executions, TakeDevice(w)
  PROVE  /\ run[w].pass.pc = "take_device" /\ PassOnly(w)
         /\ UNCHANGED <<rec, left, ver, evidence>>
         /\ work'.status = work.status /\ work'.admitted = work.admitted
         /\ \/ /\ run'[w].pass.pc = "take_repair" /\ work' = work /\ DeviceFree
               /\ run'[w].pass.attempt = run[w].pass.attempt
            \/ /\ run'[w].pass.pc = "idle"
               /\ ~HasClaim(w) => work' = work
               /\ \A v \in Executions : HasClaim(v)' <=> HasClaim(v) /\ v # w
  <1>1. run[w].pass.pc = "take_device"
        /\ UNCHANGED <<rec, left, ver, evidence>>
    BY DEF TakeDevice, At
  <1>2. CASE /\ Become(w,
                  [run[w].pass EXCEPT !.pc = "take_repair", !.locked = TRUE])
             /\ work' = work /\ DeviceFree
    BY <1>1, <1>2, Locks DEF Typed
  <1>3. CASE DeferTakeover(w)
    BY <1>1, <1>3, Defers
  <1> QED
    BY <1>2, <1>3 DEF TakeDevice

LEMMA TakeRepairEffect ==
  ASSUME Typed, NEW w \in Executions, TakeRepair(w)
  PROVE  /\ run[w].pass.pc = "take_repair" /\ PassOnly(w) /\ HasClaim(w)
         /\ \/ /\ ImageFree /\ RowsRepaired /\ run'[w].pass.pc = "take_done"
               /\ run'[w].pass.attempt = run[w].pass.attempt
            \/ /\ run'[w].pass.pc = "idle"
               /\ UNCHANGED <<rec, left, ver, evidence>>
               /\ work'.status = work.status /\ work'.admitted = work.admitted
               /\ \A v \in Executions : ~HasClaim(v)'
  <1>1. run[w].pass.pc = "take_repair" /\ HasClaim(w)
    BY DEF TakeRepair, At
  <1>2. CASE ImageFree /\ Repair /\ Go(w, "take_done")
    BY <1>1, <1>2, Repaired, Goes DEF Typed
  <1>3. CASE DeferTakeover(w) /\ UNCHANGED <<rec, left, ver, evidence>>
    <2>1. \A v \in Executions : HasClaim(v) => v = w
      BY <1>1 DEF HasClaim
    <2> QED
      BY <1>1, <1>3, <2>1, Defers
  <1> QED
    BY <1>2, <1>3 DEF TakeRepair

LEMMA TakeoverFaultsEffect ==
  ASSUME Typed, NEW w \in Executions, TakeoverFaults(w)
  PROVE  /\ run[w].pass.pc = "take_repair" /\ PassOnly(w)
         /\ run'[w].pass.pc = "idle"
         /\ UNCHANGED <<left, ver, evidence>> /\ Forgotten(w)
         /\ rec'.attempt = rec.attempt
         /\ \/ rec' = rec
            \/ /\ HasClaim(w) /\ rec.status = "running" /\ ImageFree
               /\ rec'.status \in {"paused", "faulted"}
  <1>1. PICK s \in BOOLEAN : MarkFault(w, TRUE, s)
    BY DEF TakeoverFaults
  <1>2. Forgotten(w)
    BY <1>1, Forgetting DEF MarkFault
  <1>3. /\ rec'.attempt = rec.attempt
        /\ rec' = rec
           \/ (HasClaim(w) /\ rec.status = "running"
              /\ rec'.status \in {"paused", "faulted"})
    BY <1>1, MarksFault
  <1>4. PassOnly(w) /\ run'[w].pass.pc = "idle"
    BY Idles DEF TakeoverFaults, Typed
  <1> QED
    BY <1>2, <1>3, <1>4 DEF TakeoverFaults, At

LEMMA FinishTakeoverEffect ==
  ASSUME Typed, NEW w \in Executions, FinishTakeover(w)
  PROVE  /\ run[w].pass.pc = "take_done" /\ PassOnly(w)
         /\ run'[w].pass.pc = "idle"
         /\ UNCHANGED <<left, ver, evidence>>
         /\ \/ rec' = rec /\ Forgotten(w)
            \/ /\ HasClaim(w) /\ rec.status = "running"
               /\ rec'.status \in {"completed", "eligible"}
               /\ rec'.attempt = rec.attempt /\ GivenUp
               /\ rec'.status = "completed" =>
                    left = 0 /\ work'.status = "none"
  <1>1. PassOnly(w) /\ run'[w].pass.pc = "idle"
    BY Idles DEF FinishTakeover, Typed
  <1>2. CASE HasClaim(w) /\ rec.status = "running"
    <2>1. Requeue(w)
      BY <1>2 DEF FinishTakeover
    <2> QED
      BY <1>1, <1>2, <2>1, Requeues DEF FinishTakeover, At, GivenUp
  <1>3. CASE ~(HasClaim(w) /\ rec.status = "running")
    <2>1. work' = Abandoned(w) /\ UNCHANGED rec
      BY <1>3 DEF FinishTakeover
    <2> QED
      BY <1>1, <2>1, Forgetting DEF FinishTakeover, At
  <1> QED
    BY <1>2, <1>3

(* What a poll does to a recovery that waits.                              *)
LEMMA ActivateWaitingEffect ==
  ASSUME Typed, NEW w \in Executions, ActivateWaiting(w)
  PROVE  /\ rec.status = "waiting_for_disc" /\ rec'.status = "eligible"
         /\ rec'.attempt = rec.attempt /\ SameWork /\ VerKept
         /\ work.status = "requested" /\ run[w].pass.pc = "idle"
         /\ UNCHANGED <<left, evidence, run>>
  <1>1. rec'.status = "eligible" /\ rec'.attempt = rec.attempt
    BY DEF ActivateWaiting, Typed, RecTyped, Recs
  <1>2. SameWork
    BY DEF ActivateWaiting, Typed, WorkTyped, Works, SameWork
  <1>3. VerKept
    BY <1>1, QueuedKeeps DEF ActivateWaiting
  <1> QED
    BY <1>1, <1>2, <1>3 DEF ActivateWaiting, At

LEMMA ExpireConfirmationEffect ==
  ASSUME Typed, NEW w \in Executions, ExpireConfirmation(w)
  PROVE  /\ SameVer /\ UNCHANGED <<rec, work, left, evidence, run>>
         /\ run[w].pass.pc = "idle"
  BY DEF ExpireConfirmation, At, SameVer, Typed, VerTyped, Verifications

(* ----------------------------- verification -------------------------- *)
RowsSettled ==
  /\ rec'.attempt = rec.attempt
  /\ rec' = rec
     \/ (rec.status = "eligible"
        /\ rec'.status \in {"waiting_for_disc", "faulted"})
  /\ ver'.attempt = ver.attempt /\ ver'.admitted = ver.admitted
  /\ ver'.status \in {"completed", "failed"}
     \/ (rec.status = "eligible" /\ ver'.status = "queued")

LEMMA Settling ==
  ASSUME Typed, NEW o \in {"match", "uncertain", "interrupted", "failed"},
           Settled(o)
  PROVE  RowsSettled
  BY SettledEffects DEF RowsSettled

LEMMA ExpireVerificationEffect ==
  ASSUME Typed, NEW w \in Executions, ExpireVerification(w)
  PROVE  /\ run[w].verify = "idle" /\ ver.status = "running" /\ ~ver.fresh
         /\ RowsSettled /\ UNCHANGED run
  BY Settling DEF ExpireVerification, Interrupted, VerifierIdle

LEMMA ClaimVerificationEffect ==
  ASSUME Typed, NEW w \in Executions, ClaimVerification(w)
  PROVE  /\ run[w].verify = "idle" /\ run'[w].verify = "claimed"
         /\ rec' = rec /\ ver.status = "queued" /\ rec.status = "eligible"
         /\ ver'.status = "running" /\ ver'.by = w
         /\ ver'.attempt = ver.attempt /\ ver'.admitted = ver.admitted
  BY Verifies DEF ClaimVerification, VerifierIdle, Typed, VerTyped,
     Verifications

LEMMA VerificationFailing ==
  ASSUME Typed, NEW w \in Executions, VerificationFails(w)
  PROVE  /\ run'[w].verify = "idle"
         /\ UNCHANGED <<rec, ver>> \/ (HasVerification(w) /\ RowsSettled)
  BY Settling, Verifies DEF VerificationFails, Typed

LEMMA OwnCheckpointEffect ==
  ASSUME Typed, NEW w \in Executions, OwnCheckpoint(w)
  PROVE  /\ run[w].verify = "claimed" /\ run'[w].verify \in {"owned", "idle"}
         /\ UNCHANGED <<rec, ver>> \/ (HasVerification(w) /\ RowsSettled)
  BY VerificationFailing, Verifies DEF OwnCheckpoint, Typed

LEMMA SampleEffect ==
  ASSUME Typed, NEW w \in Executions, Sample(w)
  PROVE  /\ run[w].verify = "owned"
         /\ \/ /\ run'[w].verify = "idle"
               /\ UNCHANGED <<rec, ver>> \/ (HasVerification(w) /\ RowsSettled)
            \/ /\ run'[w].verify = "sampling" /\ CanVerify(w) /\ DeviceFree
               /\ rec' = rec /\ ver'.status = ver.status /\ ver'.by = ver.by
               /\ ver'.attempt = ver.attempt /\ ver'.fresh /\ ver'.admitted
  <1>1. CASE VerificationFails(w)
    BY <1>1, VerificationFailing DEF Sample
  <1>2. CASE VerificationInterrupted(w) /\ ~VerificationFails(w)
    BY <1>2, Settling, Verifies DEF VerificationInterrupted, Sample,
       Interrupted, CanVerify, Typed
  <1>3. CASE /\ DeviceFree /\ CanVerify(w)
             /\ VerifierGoes(w, "sampling") /\ UNCHANGED rec
             /\ ver' = [ver EXCEPT !.admitted = TRUE, !.fresh = TRUE]
    BY <1>3, Verifies DEF Sample, Typed, VerTyped, Verifications
  <1> QED
    BY <1>1, <1>2, <1>3 DEF Sample

LEMMA EndVerificationEffect ==
  ASSUME Typed, NEW w \in Executions, EndVerification(w)
  PROVE  /\ run[w].verify = "sampling" /\ run'[w].verify = "idle"
         /\ UNCHANGED <<rec, ver>> \/ (HasVerification(w) /\ RowsSettled)
  <1>1. CASE VerificationFails(w)
    BY <1>1, VerificationFailing DEF EndVerification
  <1>2. CASE /\ CanVerify(w) /\ VerifierGoes(w, "idle")
             /\ \E o \in {"match", "uncertain"} : Settled(o)
    BY <1>2, Settling, Verifies DEF EndVerification, CanVerify, Typed
  <1> QED
    BY <1>1, <1>2 DEF EndVerification

(* ---------------------------- reconciliation ------------------------- *)
LEMMA RunReconciliationEffect ==
  ASSUME Typed, NEW w \in Executions, RunReconciliation(w)
  PROVE  /\ run[w].reconcile = "claimed" /\ run'[w].reconcile = "repaired"
         /\ HasReconciliation(w) /\ ImageFree /\ RowsRepaired
  BY Repaired, Reconciles DEF RunReconciliation, Typed

LEMMA ReleaseEffect ==
  ASSUME Typed, NEW w \in Executions, ReleaseAfterReconciliation(w)
  PROVE  /\ run[w].reconcile = "repaired" /\ run'[w].reconcile = "released"
         /\ UNCHANGED <<left, ver, evidence>>
         /\ \/ UNCHANGED <<rec, work>>
            \/ /\ rec.status # "stopping" /\ work'.status = "none" /\ GivenUp
               /\ rec'.attempt = rec.attempt
                  /\ (rec.status # "running" => rec' = rec)
  <1>1. run[w].reconcile = "repaired" /\ run'[w].reconcile = "released"
    BY Reconciles DEF ReleaseAfterReconciliation, Typed
  <1>2. CASE UNCHANGED <<rec, work>>
    BY <1>1, <1>2 DEF ReleaseAfterReconciliation
  <1>3. CASE ~(UNCHANGED <<rec, work>>)
    <2>1. /\ rec.status # "stopping" /\ work' = NoWork
          /\ rec'.attempt = rec.attempt
             /\ (rec.status # "running" => rec' = rec)
      BY <1>3 DEF ReleaseAfterReconciliation, Typed, RecTyped, Recs
    <2> QED
      BY <1>1, <2>1, NoWorkFields DEF ReleaseAfterReconciliation, GivenUp
  <1> QED
    BY <1>2, <1>3

(* ------------------------- operators and the rest -------------------- *)
LEMMA SubmitVerificationEffect ==
  ASSUME Typed, SubmitVerification
  PROVE  /\ rec.status = "eligible" /\ ~ActiveVerification /\ VerKept
         /\ SameWork
         /\ UNCHANGED <<rec, left, evidence, run, orphans>>
  <1>1. VerKept
    BY Zenon DEF SubmitVerification, NoVerification, VerKept
  <1>2. SameWork
    BY DEF SubmitVerification, Typed, WorkTyped, Works, SameWork
  <1> QED
    BY <1>1, <1>2 DEF SubmitVerification

LEMMA ConfirmEffect ==
  ASSUME Typed, Confirm
  PROVE  /\ ver.status = "completed" /\ SameVer /\ SameWork
         /\ rec'.attempt = rec.attempt
         /\ rec' = rec
            \/ (rec.status = "waiting_for_disc" /\ rec'.status = "eligible")
         /\ UNCHANGED <<left, evidence, run, orphans>>
  <1>1. SameVer
    BY DEF Confirm, Typed, VerTyped, Verifications, SameVer
  <1>2. SameWork
    BY DEF Confirm, Typed, WorkTyped, Works, SameWork
  <1>3. /\ rec'.attempt = rec.attempt
        /\ rec' = rec
           \/ (rec.status = "waiting_for_disc" /\ rec'.status = "eligible")
    BY DEF Confirm, Typed, RecTyped, Recs
  <1> QED
    BY <1>1, <1>2, <1>3 DEF Confirm

LEMMA RequestResumeEffect ==
  ASSUME Typed, RequestResume
  PROVE  /\ rec.status \in {"paused", "stopped"} /\ work.status # "claimed"
         /\ evidence = "clean" /\ ~ImageWritten
         /\ rec'.status \in {"waiting_for_disc", "eligible"}
         /\ rec'.attempt = rec.attempt + 1
         /\ work'.status = "requested" /\ ~work'.admitted
         /\ UNCHANGED <<left, evidence, run, orphans>>
  <1>1. work'.status = "requested" /\ ~work'.admitted
    BY DEF RequestResume, NoWork
  <1> QED
    BY <1>1 DEF RequestResume

LEMMA RequestStopEffect ==
  ASSUME Typed, RequestStop
  PROVE  /\ rec.status \in {"eligible", "waiting_for_disc", "running",
              "paused"}
         /\ rec'.status = "stopping" /\ rec'.attempt = rec.attempt
         /\ \/ work' = work
            \/ work.status = "none" /\ work'.status = "requested"
               /\ ~work'.admitted
         /\ ver'.attempt = ver.attempt /\ ver'.admitted = ver.admitted
         /\ UNCHANGED <<left, evidence, run, orphans>>
  <1>1. rec'.status = "stopping" /\ rec'.attempt = rec.attempt
    BY DEF RequestStop, Typed, RecTyped, Recs
  <1>2. \/ work' = work
        \/ work.status = "none" /\ work'.status = "requested"
           /\ ~work'.admitted
    BY NoWorkFields DEF RequestStop
  <1>3. ver'.attempt = ver.attempt /\ ver'.admitted = ver.admitted
    BY DEF RequestStop, Typed, VerTyped, Verifications
  <1> QED
    BY <1>1, <1>2, <1>3 DEF RequestStop

LEMMA WorkLeaseEffect ==
  ASSUME Typed, WorkLeaseEnds
  PROVE  /\ work.status = "claimed" /\ ~work'.fresh
         /\ work'.status = work.status /\ work'.by = work.by
         /\ work'.admitted = work.admitted
         /\ UNCHANGED <<rec, left, ver, recon, evidence, run, orphans>>
         /\ Punctual' => Unrenewed \/ TakingOver(work.by)
  <1>1. /\ ~work'.fresh /\ work'.status = work.status /\ work'.by = work.by
        /\ work'.admitted = work.admitted
    BY DEF WorkLeaseEnds, Typed, WorkTyped, Works
  <1>2. ASSUME Punctual', ~Unrenewed, ~TakingOver(work.by)
        PROVE  FALSE
    BY <1>2, SpendGrows DEF WorkLeaseEnds, Punctual, Budgets
  <1> QED
    BY <1>1, <1>2 DEF WorkLeaseEnds

LEMMA VerificationLeaseEffect ==
  ASSUME Typed, VerificationLeaseEnds
  PROVE  /\ ver'.status = ver.status /\ ver'.by = ver.by
         /\ ver'.admitted = ver.admitted /\ ver'.attempt = ver.attempt
         /\ UNCHANGED <<rec, work, left, recon, evidence, run, orphans>>
         /\ Punctual' => ~VerificationRenewed
  <1>1. /\ ver'.status = ver.status /\ ver'.by = ver.by
        /\ ver'.admitted = ver.admitted /\ ver'.attempt = ver.attempt
    BY DEF VerificationLeaseEnds, Typed, VerTyped, Verifications
  <1>2. ASSUME Punctual', VerificationRenewed
        PROVE  FALSE
    BY <1>2, SpendGrows DEF VerificationLeaseEnds, Stalls, Punctual, Budgets
  <1> QED
    BY <1>1, <1>2 DEF VerificationLeaseEnds

LEMMA RenewEffect ==
  ASSUME Typed, NEW w \in Executions, Renew(w)
  PROVE  /\ UNCHANGED <<rec, left, evidence, run, orphans>>
         /\ work'.status = work.status /\ work'.by = work.by
         /\ work.fresh => work'.fresh
         /\ work'.admitted = work.admitted
         /\ ver'.status = ver.status /\ ver'.by = ver.by
         /\ ver.fresh => ver'.fresh
         /\ ver'.admitted = ver.admitted /\ ver'.attempt = ver.attempt
  BY DEF Renew, Typed, WorkTyped, Works, VerTyped, Verifications

LEMMA CrashEffect ==
  ASSUME Typed, NEW w \in Executions, Crash(w)
  PROVE  /\ OthersStay(w) /\ run'[w].pass.pc = "down"
         /\ run'[w].verify = "idle" /\ run'[w].reconcile = "idle"
         /\ run'[w].pass.attempt = 0
         /\ Forgotten(w)
         /\ ver'.status = ver.status /\ ver'.fresh = ver.fresh
         /\ ver'.admitted = ver.admitted /\ ver'.attempt = ver.attempt
         /\ \A v \in Executions :
              HasVerification(v)' <=> HasVerification(v) /\ v # w
         /\ "image" \in orphans' =>
              "image" \in orphans \/ run[w].pass.pc = "batch"
         /\ "device" \in orphans' =>
              \/ "device" \in orphans \/ run[w].pass.pc = "reading"
              \/ run[w].verify = "sampling"
         /\ UNCHANGED <<rec, left, evidence>>
  <1>1. /\ OthersStay(w) /\ run'[w].pass.pc = "down"
        /\ run'[w].verify = "idle" /\ run'[w].reconcile = "idle"
    BY Dies DEF Crash, Typed
  <1>2. Forgotten(w)
    BY RecoveryConstants DEF Crash, Typed, WorkTyped, Works, Forgotten,
       HasClaim
  <1>3. /\ ver'.status = ver.status /\ ver'.fresh = ver.fresh
        /\ ver'.admitted = ver.admitted /\ ver'.attempt = ver.attempt
        /\ \A v \in Executions :
             HasVerification(v)' <=> HasVerification(v) /\ v # w
    BY RecoveryConstants DEF Crash, Typed, VerTyped, Verifications,
       HasVerification
  <1>4. /\ "image" \in orphans' =>
             "image" \in orphans \/ run[w].pass.pc = "batch"
        /\ "device" \in orphans' =>
              \/ "device" \in orphans \/ run[w].pass.pc = "reading"
              \/ run[w].verify = "sampling"
    BY DEF Crash, Reads, At
  <1>5. run'[w].pass.attempt = 0
    BY DEF Crash, Quiet, IdlePass, Typed, RunTyped, Runs
  <1> QED
    BY <1>1, <1>2, <1>3, <1>4, <1>5 DEF Crash

LEMMA RestartEffect ==
  ASSUME Typed, NEW w \in Executions, Restart(w)
  PROVE  /\ OthersStay(w) /\ run'[w].pass.pc = "idle"
         /\ run[w].pass.pc = "down"
         /\ run'[w].verify = "idle" /\ run'[w].reconcile = "idle"
         /\ run'[w].pass.attempt = 0
         /\ SameVer /\ UNCHANGED <<rec, work, left, evidence, orphans>>
  <1>1. SameVer
    BY DEF Restart, SameVer, Typed, VerTyped, Verifications
  <1>2. /\ OthersStay(w) /\ run'[w].pass.pc = "idle"
        /\ run'[w].verify = "idle" /\ run'[w].reconcile = "idle"
    BY Revives DEF Restart, Typed
  <1>3. run'[w].pass.attempt = 0
    BY DEF Restart, Quiet, IdlePass, Typed, RunTyped, Runs
  <1> QED
    BY <1>1, <1>2, <1>3 DEF Restart, At

(* Steps of nobody's poller.                                               *)
Outside == \/ Operate \/ PreviewReads \/ PreviewEnds \/ Eject \/ Insert
           \/ LeaseEnds \/ HelperEnds

LEMMA OutsideMoves ==
  ASSUME Outside
  PROVE  UNCHANGED <<left, evidence, run>> /\ orphans' \subseteq orphans
  BY DEF Outside, Operate, SubmitVerification, Confirm, RequestResume,
     RequestStop, SubmitReconciliation, RequestPreview, PreviewReads,
     PreviewEnds, Eject, Insert, LeaseEnds, WorkLeaseEnds,
     VerificationLeaseEnds, ReconciliationLeaseEnds, HelperEnds

(* A batch begins with BeginBatch.                                         *)
LEMMA BatchEntered ==
  ASSUME Typed, NEW w \in Executions, PassStep(w), run'[w].pass.pc = "batch"
  PROVE  run[w].pass.pc = "batch" \/ BeginBatch(w)
  BY ExpireConfirmationEffect, ClaimEffect, LoadEffect, NextSectorEffect,
     AdmitEffect, EndReadEffect, BatchStepEffect, BatchStepFailsEffect,
     SettleEffect, CatchEffect, FindStoppingEffect, PrepareStopEffect,
     StopDeviceEffect, StopRepairEffect, Dismissed, StopFaultsEffect,
     CompleteStopEffect, BeginTakeoverEffect, TakeDeviceEffect,
     TakeRepairEffect, TakeoverFaultsEffect, FinishTakeoverEffect,
     ActivateWaitingEffect
     DEF PassStep, DeferStop, StopRepairFaults

(* Evidence is left by a batch.                                            *)
LEMMA EvidenceLeft ==
  ASSUME Typed, Next, evidence' # "clean"
  PROVE  \/ evidence' = evidence
         \/ \E w \in Executions : BatchStep(w) \/ BatchStepFails(w)
  <1>1. ASSUME NEW w \in Executions, PassStep(w), ~BatchStep(w),
               ~BatchStepFails(w)
        PROVE  evidence' = evidence
    BY <1>1, ExpireConfirmationEffect, ClaimEffect, LoadEffect,
       NextSectorEffect, AdmitEffect, EndReadEffect, BeginBatchEffect,
       SettleEffect, CatchEffect, FindStoppingEffect, PrepareStopEffect,
       StopDeviceEffect, StopRepairEffect, CompleteStopEffect,
       BeginTakeoverEffect, TakeDeviceEffect, TakeRepairEffect,
       TakeoverFaultsEffect, FinishTakeoverEffect, ActivateWaitingEffect
       DEF PassStep, DeferStop, StopRepairFaults, RowsRepaired
  <1>2. ASSUME NEW w \in Executions, VerifierStep(w) PROVE evidence' = evidence
    BY <1>2, VerifierMoves DEF Typed
  <1>3. ASSUME NEW w \in Executions, ReconcilerStep(w)
        PROVE  evidence' = evidence
    BY <1>3, RunReconciliationEffect
       DEF ReconcilerStep, RowsRepaired, ExpireReconciliation,
           ClaimReconciliation, ReleaseAfterReconciliation,
           CompleteReconciliation, FailReconciliation
  <1>4. ASSUME NEW w \in Executions, Renew(w) \/ Crash(w) \/ Restart(w)
        PROVE  evidence' = evidence
    BY <1>4 DEF Renew, Crash, Restart
  <1>5. CASE Outside
    BY <1>5, OutsideMoves
  <1> QED
    BY <1>1, <1>2, <1>3, <1>4, <1>5 DEF Next, Outside

(* Settled evidence that nobody writes rests until a batch begins.         *)
LEMMA ImageRests ==
  ASSUME Typed, Next, evidence = "clean", ~ImageWritten,
         \A w \in Executions : BeginBatch(w) => run'[w].pass.pc # "batch"
  PROVE  evidence' = "clean" /\ ~ImageWritten'
  <1>1. evidence' = "clean"
    BY EvidenceLeft, BatchStepEffect, BatchStepFailsEffect
       DEF ImageWritten, At
  <1>2. ASSUME NEW w \in Executions, PassStep(w) PROVE ~ImageWritten'
    BY <1>2, BatchEntered, PassMoves
       DEF ImageWritten, At, Typed, PassOnly, OthersStay
  <1>3. ASSUME NEW w \in Executions, VerifierStep(w) PROVE ~ImageWritten'
    BY <1>3, VerifierMoves DEF ImageWritten, At, Typed, OthersStay
  <1>4. ASSUME NEW w \in Executions, ReconcilerStep(w) PROVE ~ImageWritten'
    BY <1>4, ReconcilerMoves DEF ImageWritten, At, Typed, OthersStay
  <1>5. ASSUME NEW w \in Executions, Renew(w) \/ Crash(w) \/ Restart(w)
        PROVE  ~ImageWritten'
    BY <1>5, RenewEffect, CrashEffect, RestartEffect
       DEF ImageWritten, At, OthersStay
  <1>6. CASE Outside
    BY <1>6, OutsideMoves DEF ImageWritten, At
  <1> QED
    BY <1>1, <1>2, <1>3, <1>4, <1>5, <1>6 DEF Next, Outside

(* Between the repair of a reconciliation and its release nobody leaves    *)
(* evidence or writes the image.                                           *)
LEMMA RepairedRestsStep ==
  ASSUME Typed, Rows, ReconcilersHold, RepairedRests, Next
  PROVE  RepairedRests'
  <1> SUFFICES ASSUME NEW w \in Executions, run'[w].reconcile = "repaired"
               PROVE  evidence' = "clean" /\ ~ImageWritten'
    BY DEF RepairedRests
  <1>1. CASE run[w].reconcile = "repaired"
    <2>1. HasReconciliation(w) /\ evidence = "clean" /\ ~ImageWritten
      BY <1>1 DEF ReconcilersHold, RepairedRests
    <2>2. \A v \in Executions : BeginBatch(v) => run'[v].pass.pc # "batch"
      BY <2>1, BeginBatchEffect DEF HasReconciliation, NoPendingReconciliation
    <2> QED
      BY <2>1, <2>2, ImageRests
  <1>2. CASE run[w].reconcile # "repaired"
    <2>1. RunReconciliation(w)
      <3>1. ASSUME NEW v \in Executions, PassStep(v) PROVE FALSE
        BY <1>2, <3>1, PassMoves DEF Typed, PassOnly, OthersStay
      <3>2. ASSUME NEW v \in Executions, VerifierStep(v) PROVE FALSE
        BY <1>2, <3>2, VerifierMoves DEF Typed, OthersStay
      <3>3. ASSUME NEW v \in Executions, ReconcilerStep(v)
            PROVE  RunReconciliation(w)
        <4>1. v = w
          BY <1>2, <3>3, ReconcilerMoves DEF Typed, OthersStay
        <4> QED
          BY <1>2, <3>3, <4>1, Reconciles, ReleaseEffect
             DEF ReconcilerStep, ExpireReconciliation, ClaimReconciliation,
                 CompleteReconciliation, FailReconciliation, Typed
      <3>4. ASSUME NEW v \in Executions, Renew(v) \/ Crash(v) \/ Restart(v)
            PROVE  FALSE
        BY <1>2, <3>4, RenewEffect, CrashEffect, RestartEffect DEF OthersStay
      <3>5. CASE Outside
        BY <1>2, <3>5, OutsideMoves
      <3> QED
        BY <3>1, <3>2, <3>3, <3>4, <3>5 DEF Next, Outside
    <2>2. evidence' = "clean" /\ ~ImageWritten
          /\ \A v \in Executions : run'[v].pass = run[v].pass
      BY <2>1, RunReconciliationEffect, ReconcilerMoves
         DEF RowsRepaired, ImageFree, ReconcilerStep, Typed, OthersStay
    <2>3. orphans' = orphans
      BY <2>1 DEF RunReconciliation
    <2> QED
      BY <2>2, <2>3 DEF ImageWritten, At
  <1> QED
    BY <1>1, <1>2

(* Who moved, when a pass poller, or a verifier, has moved.                *)
LEMMA PassMover ==
  ASSUME Typed, Next, NEW w \in Executions
  PROVE  \/ PassStep(w) \/ Crash(w) \/ Restart(w)
         \/ run'[w].pass = run[w].pass
  <1>1. ASSUME NEW v \in Executions, PassStep(v), v # w
        PROVE  run'[w].pass = run[w].pass
    BY <1>1, PassMoves DEF Typed, PassOnly, OthersStay
  <1>2. ASSUME NEW v \in Executions, VerifierStep(v)
        PROVE  run'[w].pass = run[w].pass
    BY <1>2, VerifierMoves DEF Typed, OthersStay
  <1>3. ASSUME NEW v \in Executions, ReconcilerStep(v)
        PROVE  run'[w].pass = run[w].pass
    BY <1>3, ReconcilerMoves DEF Typed, OthersStay
  <1>4. ASSUME NEW v \in Executions, Renew(v) \/ Crash(v) \/ Restart(v),
               v # w \/ Renew(v)
        PROVE  run'[w].pass = run[w].pass
    BY <1>4, RenewEffect, CrashEffect, RestartEffect DEF OthersStay
  <1>5. CASE Outside
    BY <1>5, OutsideMoves
  <1> QED
    BY <1>1, <1>2, <1>3, <1>4, <1>5 DEF Next, Outside

LEMMA VerifierMover ==
  ASSUME Typed, Next, NEW w \in Executions
  PROVE  \/ VerifierStep(w) \/ Crash(w) \/ Restart(w)
         \/ run'[w].verify = run[w].verify
  <1>1. ASSUME NEW v \in Executions, PassStep(v)
        PROVE  run'[w].verify = run[w].verify
    BY <1>1, PassMoves DEF Typed, PassOnly, OthersStay
  <1>2. ASSUME NEW v \in Executions, VerifierStep(v), v # w
        PROVE  run'[w].verify = run[w].verify
    BY <1>2, VerifierMoves DEF Typed, OthersStay
  <1>3. ASSUME NEW v \in Executions, ReconcilerStep(v)
        PROVE  run'[w].verify = run[w].verify
    BY <1>3, ReconcilerMoves DEF Typed, OthersStay
  <1>4. ASSUME NEW v \in Executions, Renew(v) \/ Crash(v) \/ Restart(v),
               v # w \/ Renew(v)
        PROVE  run'[w].verify = run[w].verify
    BY <1>4, RenewEffect, CrashEffect, RestartEffect DEF OthersStay
  <1>5. CASE Outside
    BY <1>5, OutsideMoves
  <1> QED
    BY <1>1, <1>2, <1>3, <1>4, <1>5 DEF Next, Outside

(* Only a claim or a takeover gives a poller the reservation.              *)
LEMMA ClaimGained ==
  ASSUME Typed, Next, NEW w \in Executions, HasClaim(w)', ~HasClaim(w)
  PROVE  Claim(w) \/ BeginTakeover(w)
  <1>1. ASSUME SameWork PROVE FALSE
    BY <1>1 DEF SameWork, HasClaim
  <1>2. ASSUME NEW v \in Executions, PassStep(v)
        PROVE  Claim(w) \/ BeginTakeover(w)
    <2>1. CASE Claim(v) \/ BeginTakeover(v)
      BY <2>1, ClaimEffect, BeginTakeoverEffect DEF HasClaim
    <2>2. CASE ExpireConfirmation(v) \/ Load(v) \/ NextSector(v) \/ EndRead(v)
               \/ BeginBatch(v) \/ BatchStepFails(v) \/ FindStopping(v)
      <3>1. UNCHANGED work
        BY <2>2 DEF ExpireConfirmation, Load, NextSector, EndRead, BeginBatch,
           BatchStepFails, FindStopping
      <3> QED
        BY <3>1 DEF HasClaim
    <2>3. CASE Admit(v) \/ BatchStep(v) \/ Settle(v) \/ Catch(v)
      BY <2>3, AdmitEffect, BatchStepEffect, SettleEffect, CatchEffect
         DEF HasClaim, SameWork, Forgotten, GivenUp
    <2>4. CASE PrepareStop(v) \/ StopDevice(v) \/ StopRepair(v) \/ DeferStop(v)
               \/ StopRepairFaults(v) \/ CompleteStop(v)
      BY <2>4, PrepareStopEffect, StopDeviceEffect, StopRepairEffect,
         Dismissed, StopFaultsEffect, CompleteStopEffect
         DEF HasClaim, SameWork, Forgotten, GivenUp, RowsRepaired, DeferStop,
             StopRepairFaults
    <2>5. CASE TakeDevice(v) \/ TakeRepair(v) \/ TakeoverFaults(v)
               \/ FinishTakeover(v) \/ ActivateWaiting(v)
      BY <2>5, TakeDeviceEffect, TakeRepairEffect, TakeoverFaultsEffect,
         FinishTakeoverEffect, ActivateWaitingEffect
         DEF HasClaim, SameWork, Forgotten, GivenUp, RowsRepaired
    <2> QED
      BY <1>2, <2>1, <2>2, <2>3, <2>4, <2>5 DEF PassStep
  <1>3. ASSUME NEW v \in Executions, VerifierStep(v) PROVE FALSE
    BY <1>3, VerifierMoves DEF Typed, HasClaim
  <1>4. ASSUME NEW v \in Executions, ReconcilerStep(v) PROVE FALSE
    <2>1. CASE RunReconciliation(v) \/ ReleaseAfterReconciliation(v)
      BY <1>1, <2>1, RunReconciliationEffect, ReleaseEffect
         DEF HasClaim, RowsRepaired, GivenUp
    <2>2. CASE UNCHANGED work
      BY <2>2 DEF HasClaim
    <2> QED
      BY <1>4, <2>1, <2>2 DEF ReconcilerStep, ExpireReconciliation,
         ClaimReconciliation, CompleteReconciliation, FailReconciliation
  <1>5. ASSUME NEW v \in Executions, Renew(v) \/ Crash(v) \/ Restart(v)
        PROVE  FALSE
    BY <1>5, RenewEffect, CrashEffect, RestartEffect DEF HasClaim, Forgotten
  <1>6. CASE Outside
    <2>1. CASE UNCHANGED work
      BY <2>1 DEF HasClaim
    <2>2. CASE SubmitVerification \/ Confirm \/ RequestResume \/ RequestStop
               \/ WorkLeaseEnds
      BY <1>1, <2>2, SubmitVerificationEffect, ConfirmEffect,
         RequestResumeEffect, RequestStopEffect, WorkLeaseEffect DEF HasClaim
    <2> QED
      BY <1>6, <2>1, <2>2 DEF Outside, Operate, SubmitReconciliation,
         RequestPreview, PreviewReads, PreviewEnds, Eject, Insert, LeaseEnds,
         VerificationLeaseEnds, ReconciliationLeaseEnds, HelperEnds
  <1> QED
    BY <1>2, <1>3, <1>4, <1>5, <1>6 DEF Next, Outside

(* A batch that was refused as unsupported has left no evidence.           *)
LEMMA UnsupportedEntered ==
  ASSUME Typed, NEW w \in Executions, PassStep(w),
         run'[w].pass.pc = "failing", run'[w].pass.fault = "unsupported"
  PROVE  \/ run'[w].pass = run[w].pass
         \/ evidence = "clean" /\ evidence' = evidence
  BY ExpireConfirmationEffect, ClaimEffect, LoadEffect, NextSectorEffect,
     AdmitEffect, EndReadEffect, BeginBatchEffect, BatchStepEffect,
     BatchStepFailsEffect,
     SettleEffect, CatchEffect, FindStoppingEffect, PrepareStopEffect,
     StopDeviceEffect, StopRepairEffect, Dismissed, StopFaultsEffect,
     CompleteStopEffect, BeginTakeoverEffect, TakeDeviceEffect,
     TakeRepairEffect, TakeoverFaultsEffect, FinishTakeoverEffect,
     ActivateWaitingEffect
     DEF PassStep, DeferStop, StopRepairFaults

LEMMA UnsupportedCleanStep ==
  ASSUME Typed, Next, UnsupportedClean
  PROVE  UnsupportedClean'
  <1> SUFFICES ASSUME NEW w \in Executions, HasClaim(w)',
                      run'[w].pass.pc = "failing",
                      run'[w].pass.fault = "unsupported", evidence' # "clean"
               PROVE  FALSE
    BY DEF UnsupportedClean, At
  <1>1. run'[w].pass = run[w].pass
    BY PassMover, UnsupportedEntered, CrashEffect, RestartEffect
  <1>2. HasClaim(w)
    BY <1>1, ClaimGained, ClaimEffect, BeginTakeoverEffect
  <1>3. evidence = "clean"
    BY <1>1, <1>2 DEF UnsupportedClean, At
  <1>4. PICK v \in Executions : BatchStep(v) \/ BatchStepFails(v)
    BY <1>3, EvidenceLeft
  <1>5. HasClaim(v) /\ run[v].pass.pc = "batch"
    BY <1>3, <1>4, BatchStepEffect, BatchStepFailsEffect
  <1>6. v = w
    BY <1>2, <1>5 DEF HasClaim
  <1> QED
    BY <1>1, <1>5, <1>6

(* What leaves the reservation and the recovery as they are.               *)
LEMMA RowsStay ==
  ASSUME Typed, Next
  PROVE  \/ UNCHANGED <<rec, work>>
         \/ \E w \in Executions :
              \/ Claim(w) \/ Admit(w) \/ BatchStep(w) \/ Settle(w) \/ Catch(w)
              \/ PrepareStop(w) \/ StopDevice(w) \/ StopRepair(w)
              \/ DeferStop(w) \/ StopRepairFaults(w) \/ CompleteStop(w)
              \/ BeginTakeover(w) \/ TakeDevice(w) \/ TakeRepair(w)
              \/ TakeoverFaults(w) \/ FinishTakeover(w) \/ ActivateWaiting(w)
              \/ VerifierStep(w)
              \/ RunReconciliation(w) \/ ReleaseAfterReconciliation(w)
              \/ Renew(w) \/ Crash(w)
         \/ SubmitVerification \/ Confirm \/ RequestResume \/ RequestStop
         \/ WorkLeaseEnds
  <1>1. ASSUME NEW w \in Executions,
               ExpireConfirmation(w) \/ Load(w) \/ NextSector(w) \/ EndRead(w)
               \/ BeginBatch(w) \/ BatchStepFails(w) \/ FindStopping(w)
        PROVE  UNCHANGED <<rec, work>>
    BY <1>1 DEF ExpireConfirmation, Load, NextSector, EndRead, BeginBatch,
       BatchStepFails, FindStopping
  <1>2. ASSUME NEW w \in Executions, PassStep(w)
        PROVE  \/ UNCHANGED <<rec, work>>
               \/ Claim(w) \/ Admit(w) \/ BatchStep(w) \/ Settle(w) \/ Catch(w)
               \/ PrepareStop(w) \/ StopDevice(w) \/ StopRepair(w)
               \/ DeferStop(w) \/ StopRepairFaults(w) \/ CompleteStop(w)
               \/ BeginTakeover(w) \/ TakeDevice(w) \/ TakeRepair(w)
               \/ TakeoverFaults(w) \/ FinishTakeover(w) \/ ActivateWaiting(w)
    BY <1>1, <1>2 DEF PassStep
  <1>3. ASSUME NEW w \in Executions, ReconcilerStep(w)
        PROVE  \/ UNCHANGED <<rec, work>>
               \/ RunReconciliation(w) \/ ReleaseAfterReconciliation(w)
    BY <1>3 DEF ReconcilerStep, ExpireReconciliation, ClaimReconciliation,
       CompleteReconciliation, FailReconciliation
  <1>4. ASSUME NEW w \in Executions, Restart(w) PROVE UNCHANGED <<rec, work>>
    BY <1>4 DEF Restart
  <1>5. CASE Outside
    BY <1>5 DEF Outside, Operate, SubmitReconciliation, RequestPreview,
       PreviewReads, PreviewEnds, Eject, Insert, LeaseEnds,
       VerificationLeaseEnds, ReconciliationLeaseEnds, HelperEnds
  <1> QED
    BY <1>2, <1>3, <1>4, <1>5 DEF Next, Outside

(* How a reservation may be given back.                                    *)
LEMMA ClaimLost ==
  ASSUME Typed, Next, work.status = "claimed", work'.status # "claimed"
  PROVE  \E w \in Executions :
           \/ (Settle(w) \/ Catch(w) \/ FinishTakeover(w)) /\ HasClaim(w)
              /\ rec.status = "running"
           \/ CompleteStop(w) /\ CurrentStop(w) /\ rec'.status = "stopped"
           \/ ReleaseAfterReconciliation(w) /\ rec.status # "stopping"
  <1> USE DEF SameWork, Forgotten, RowsRepaired
  <1>1. ASSUME NEW w \in Executions,
               \/ Claim(w) \/ Admit(w) \/ BatchStep(w) \/ PrepareStop(w)
               \/ StopDevice(w) \/ StopRepair(w) \/ DeferStop(w)
               \/ StopRepairFaults(w)
        PROVE  FALSE
    BY <1>1, ClaimEffect, AdmitEffect, BatchStepEffect, PrepareStopEffect,
       StopDeviceEffect, StopRepairEffect, Dismissed, StopFaultsEffect
       DEF HasClaim, DeferStop, StopRepairFaults
  <1>2. ASSUME NEW w \in Executions,
               \/ BeginTakeover(w) \/ TakeDevice(w) \/ TakeRepair(w)
               \/ TakeoverFaults(w) \/ ActivateWaiting(w)
               \/ RunReconciliation(w) \/ Renew(w) \/ Crash(w)
        PROVE  FALSE
    BY <1>2, BeginTakeoverEffect, TakeDeviceEffect, TakeRepairEffect,
       TakeoverFaultsEffect, ActivateWaitingEffect, RunReconciliationEffect,
       RenewEffect, CrashEffect DEF HasClaim
  <1>3. ASSUME NEW w \in Executions, VerifierStep(w) PROVE FALSE
    BY <1>3, VerifierMoves DEF Typed
  <1>4. CASE SubmitVerification \/ Confirm \/ RequestResume \/ RequestStop
             \/ WorkLeaseEnds
    BY <1>4, SubmitVerificationEffect, ConfirmEffect, RequestResumeEffect,
       RequestStopEffect, WorkLeaseEffect
  <1>5. ASSUME NEW w \in Executions, Settle(w) \/ Catch(w) \/ FinishTakeover(w)
        PROVE  HasClaim(w) /\ rec.status = "running"
    BY <1>5, SettleEffect, CatchEffect, FinishTakeoverEffect
  <1>6. ASSUME NEW w \in Executions, CompleteStop(w)
        PROVE  CurrentStop(w) /\ rec'.status = "stopped"
    BY <1>6, CompleteStopEffect
  <1>7. ASSUME NEW w \in Executions, ReleaseAfterReconciliation(w)
        PROVE  rec.status # "stopping"
    BY <1>7, ReleaseEffect
  <1> QED
    BY <1>1, <1>2, <1>3, <1>4, <1>5, <1>6, <1>7, RowsStay

(* A faulted recovery stays so; a stopped or completed one is left only by *)
(* a resume.                                                               *)
LEMMA EndedStays ==
  ASSUME Typed, Rows, Next, rec.status \in {"faulted", "stopped", "completed"}
  PROVE  rec' = rec \/ (rec.status = "stopped" /\ RequestResume)
  <1>1. ASSUME NEW w \in Executions,
               \/ Claim(w) \/ Admit(w) \/ Settle(w) \/ Catch(w)
               \/ PrepareStop(w) \/ StopDevice(w) \/ DeferStop(w)
               \/ StopRepairFaults(w) \/ CompleteStop(w) \/ BeginTakeover(w)
               \/ TakeDevice(w) \/ TakeoverFaults(w) \/ FinishTakeover(w)
               \/ ActivateWaiting(w) \/ Renew(w) \/ Crash(w)
        PROVE  rec' = rec
    BY <1>1, ClaimEffect, AdmitEffect, SettleEffect, CatchEffect,
       PrepareStopEffect, StopDeviceEffect, Dismissed, StopFaultsEffect,
       CompleteStopEffect, BeginTakeoverEffect, TakeDeviceEffect,
       TakeoverFaultsEffect, FinishTakeoverEffect, ActivateWaitingEffect,
       RenewEffect, CrashEffect
       DEF CurrentStop, DeferStop, StopRepairFaults
  <1>2. ASSUME NEW w \in Executions, BatchStep(w) PROVE rec' = rec
    BY <1>2, BatchStepEffect DEF HasClaim, Rows, ClaimedIsUnsettled
  <1>3. ASSUME NEW w \in Executions,
               StopRepair(w) \/ TakeRepair(w) \/ RunReconciliation(w)
        PROVE  rec' = rec
    BY <1>3, StopRepairEffect, TakeRepairEffect, RunReconciliationEffect
       DEF RowsRepaired, Projectable
  <1>4. ASSUME NEW w \in Executions, ReleaseAfterReconciliation(w)
        PROVE  rec' = rec
    BY <1>4, ReleaseEffect
  <1>5. ASSUME NEW w \in Executions, VerifierStep(w) PROVE rec' = rec
    BY <1>5, ExpireVerificationEffect, ClaimVerificationEffect,
       OwnCheckpointEffect, SampleEffect, EndVerificationEffect
       DEF VerifierStep, RowsSettled
  <1>6. ASSUME SubmitVerification \/ Confirm \/ RequestStop \/ WorkLeaseEnds
        PROVE  rec' = rec
    BY <1>6, SubmitVerificationEffect, ConfirmEffect, RequestStopEffect,
       WorkLeaseEffect
  <1>7. CASE RequestResume
    BY <1>7, RequestResumeEffect
  <1> QED
    BY <1>1, <1>2, <1>3, <1>4, <1>5, <1>6, <1>7, RowsStay

(* Evidence that is left behind is kept for whoever may settle it.         *)
LEMMA DirtyIsKeptStep ==
  ASSUME IInv, ReconcilersHold, RepairedRests, UnsupportedClean, DirtyIsKept,
         Next
  PROVE  DirtyIsKept'
  <1> SUFFICES ASSUME evidence' # "clean",
                      work'.status # "claimed",
                      rec'.status \notin {"faulted", "stopped"}
               PROVE  FALSE
    BY DEF DirtyIsKept
  <1>1. Typed /\ Rows /\ Control
    BY DEF IInv
  <1>2. work.status = "claimed"
    <2>1. CASE evidence' = evidence
      <3>1. rec.status \notin {"faulted", "stopped"}
        BY <1>1, <2>1, EndedStays, RequestResumeEffect
      <3> QED
        BY <2>1, <3>1 DEF DirtyIsKept
    <2>2. CASE evidence' # evidence
      <3>1. PICK w \in Executions : BatchStep(w) \/ BatchStepFails(w)
        BY <1>1, <2>2, EvidenceLeft
      <3> QED
        BY <1>1, <2>2, <3>1, BatchStepEffect, BatchStepFailsEffect
           DEF HasClaim
    <2> QED
      BY <2>1, <2>2
  <1>3. PICK w \in Executions :
          \/ (Settle(w) \/ Catch(w) \/ FinishTakeover(w)) /\ HasClaim(w)
          \/ ReleaseAfterReconciliation(w)
    BY <1>1, <1>2, ClaimLost
  <1>4. evidence # "clean"
    BY <1>1, <1>3, SettleEffect, CatchEffect, FinishTakeoverEffect,
       ReleaseEffect
  <1>5. CASE (Settle(w) \/ FinishTakeover(w)) /\ HasClaim(w)
    BY <1>1, <1>4, <1>5, SettleEffect, FinishTakeoverEffect
       DEF Control, PassSafe, Loaded
  <1>6. CASE Catch(w) /\ HasClaim(w)
    <2>1. run[w].pass.fault \notin {"preview", "unsupported"}
      BY <1>1, <1>4, <1>6, CatchEffect
         DEF Control, PassSafe, UnsupportedClean, At
    <2> QED
      BY <1>1, <1>2, <1>6, <2>1, CatchEffect DEF Forgotten
  <1>7. CASE ReleaseAfterReconciliation(w)
    BY <1>1, <1>4, <1>7, ReleaseEffect DEF RepairedRests
  <1> QED
    BY <1>3, <1>5, <1>6, <1>7

(* Nothing is left of an ended recovery that a step could change.          *)
LEMMA EndedRests ==
  ASSUME IInv, rec.status \in {"completed", "stopped"}, evidence = "clean",
         work.status = "none", rec' = rec, Next
  PROVE  left' = left /\ evidence' = "clean" /\ work'.status = "none"
  <1>1. /\ Typed /\ Rows /\ evidence = "clean" /\ work.status = "none"
        /\ rec' = rec /\ rec.attempt \in Nat
    BY DEF IInv, Typed, RecTyped, Recs
  <1>2. \A w \in Executions : ~HasClaim(w)
    BY <1>1 DEF HasClaim
  <1>3. evidence' = "clean"
    BY <1>1, <1>2, EvidenceLeft, BatchStepEffect, BatchStepFailsEffect
  <1>4. RowsRepaired => UNCHANGED <<work, left>>
    BY <1>1 DEF RowsRepaired, Outcomes
  <1>5. \A w \in Executions : ~BatchStep(w) \/ UNCHANGED <<work, left>>
    BY <1>1, <1>2, BatchStepEffect
  <1>6. left' = left
    <2>1. ASSUME NEW w \in Executions, PassStep(w) PROVE left' = left
      BY <1>1, <1>4, <1>5, <2>1, ExpireConfirmationEffect, ClaimEffect,
         LoadEffect, NextSectorEffect, AdmitEffect, EndReadEffect,
         BeginBatchEffect, BatchStepFailsEffect, SettleEffect, CatchEffect,
         FindStoppingEffect, PrepareStopEffect, StopDeviceEffect,
         StopRepairEffect, CompleteStopEffect, BeginTakeoverEffect,
         TakeDeviceEffect, TakeRepairEffect, TakeoverFaultsEffect,
         FinishTakeoverEffect, ActivateWaitingEffect
         DEF PassStep, DeferStop, StopRepairFaults
    <2>2. ASSUME NEW w \in Executions, ReconcilerStep(w) PROVE left' = left
      BY <1>1, <1>4, <2>2, RunReconciliationEffect, ReleaseEffect
         DEF ReconcilerStep, ExpireReconciliation, ClaimReconciliation,
             CompleteReconciliation, FailReconciliation
    <2>3. ASSUME NEW w \in Executions,
                 VerifierStep(w) \/ Renew(w) \/ Crash(w) \/ Restart(w)
          PROVE  left' = left
      BY <1>1, <2>3, VerifierMoves DEF Renew, Crash, Restart, Typed
    <2>4. CASE Outside
      BY <2>4, OutsideMoves
    <2> QED
      BY <2>1, <2>2, <2>3, <2>4 DEF Next, Outside
  <1>7. work'.status = "none"
    <2>1. ASSUME NEW w \in Executions,
               \/ Claim(w) \/ Admit(w) \/ BatchStep(w) \/ Settle(w) \/ Catch(w)
               \/ PrepareStop(w) \/ StopDevice(w) \/ StopRepair(w)
               \/ DeferStop(w) \/ StopRepairFaults(w) \/ CompleteStop(w)
          PROVE  work'.status = "none"
      BY <1>1, <1>2, <1>4, <1>5, <2>1, ClaimEffect, AdmitEffect, SettleEffect,
         CatchEffect, PrepareStopEffect, StopDeviceEffect, StopRepairEffect,
         Dismissed, StopFaultsEffect, CompleteStopEffect
         DEF Forgotten, DeferStop, StopRepairFaults
    <2>2. ASSUME NEW w \in Executions,
              \/ BeginTakeover(w) \/ TakeDevice(w) \/ TakeRepair(w)
              \/ TakeoverFaults(w) \/ FinishTakeover(w) \/ ActivateWaiting(w)
              \/ RunReconciliation(w) \/ ReleaseAfterReconciliation(w)
              \/ Renew(w) \/ Crash(w) \/ VerifierStep(w)
          PROVE  work'.status = "none"
      BY <1>1, <1>2, <1>4, <2>2, BeginTakeoverEffect, TakeDeviceEffect,
         TakeRepairEffect, TakeoverFaultsEffect, FinishTakeoverEffect,
         ActivateWaitingEffect, RunReconciliationEffect, ReleaseEffect,
         RenewEffect, CrashEffect, VerifierMoves
         DEF Forgotten, InterruptedClaim, Typed
    <2>3. CASE SubmitVerification \/ Confirm \/ RequestResume \/ RequestStop
               \/ WorkLeaseEnds
      BY <1>1, <2>3, SubmitVerificationEffect, ConfirmEffect,
         RequestResumeEffect, RequestStopEffect, WorkLeaseEffect
         DEF SameWork
    <2> QED
      BY <1>1, <2>1, <2>2, <2>3, RowsStay
  <1> QED
    BY <1>3, <1>6, <1>7

(* A recovery completes where the evidence is settled and nothing is left. *)
LEMMA CompletedIsWholeStep ==
  ASSUME IInv, ReconcilersHold, DirtyIsKept, CompletedIsWhole, Next
  PROVE  CompletedIsWhole'
  <1> SUFFICES ASSUME rec'.status = "completed"
               PROVE  left' = 0 /\ evidence' = "clean" /\ work'.status = "none"
    BY DEF CompletedIsWhole
  <1>1. Typed /\ Rows /\ Control
    BY DEF IInv
  <1>2. CASE rec.status = "completed"
    BY <1>1, <1>2, EndedRests, EndedStays DEF CompletedIsWhole
  <1>3. CASE rec.status # "completed"
    <2>1. ~RowsRepaired
      <3> SUFFICES ASSUME RowsRepaired PROVE FALSE
        OBVIOUS
      <3>1. evidence \in Outcomes /\ Projectable /\ work.status # "claimed"
        BY <1>3, <1>1 DEF RowsRepaired, Rows, ClaimedIsUnsettled
      <3>2. rec.status \in {"faulted", "stopped"}
        BY <3>1 DEF DirtyIsKept, Outcomes
      <3> QED
        BY <1>3, <3>1, <3>2 DEF RowsRepaired, Projectable
    <2>2. ASSUME NEW w \in Executions,
               \/ Claim(w) \/ Admit(w) \/ BatchStep(w)
               \/ PrepareStop(w) \/ StopDevice(w) \/ StopRepair(w)
               \/ DeferStop(w) \/ StopRepairFaults(w) \/ CompleteStop(w)
          PROVE  FALSE
      BY <1>1, <1>3, <2>1, <2>2, ClaimEffect, AdmitEffect, BatchStepEffect,
         PrepareStopEffect, StopDeviceEffect, StopRepairEffect,
         StopFaultsEffect, CompleteStopEffect DEF DeferStop, StopRepairFaults
    <2>3. ASSUME NEW w \in Executions,
              \/ BeginTakeover(w) \/ TakeDevice(w) \/ TakeRepair(w)
              \/ TakeoverFaults(w) \/ ActivateWaiting(w)
              \/ RunReconciliation(w) \/ Renew(w) \/ Crash(w)
          PROVE  FALSE
      BY <1>1, <1>3, <2>1, <2>3, BeginTakeoverEffect, TakeDeviceEffect,
         TakeRepairEffect, TakeoverFaultsEffect, ActivateWaitingEffect,
         RunReconciliationEffect, RenewEffect, CrashEffect
    <2>4. ASSUME NEW w \in Executions, VerifierStep(w) PROVE FALSE
      BY <1>1, <1>3, <2>4, ExpireVerificationEffect, ClaimVerificationEffect,
         OwnCheckpointEffect, SampleEffect, EndVerificationEffect
         DEF VerifierStep, RowsSettled
    <2>5. ASSUME NEW w \in Executions, ReleaseAfterReconciliation(w)
          PROVE  FALSE
      BY <1>1, <1>3, <2>5, ReleaseEffect
         DEF ReconcilersHold, HasReconciliation, Rows,
             ReconciliationExcludesPass
    <2>6. ASSUME SubmitVerification \/ Confirm \/ RequestResume \/ RequestStop
                 \/ WorkLeaseEnds
          PROVE  FALSE
      BY <1>1, <1>3, <2>6, SubmitVerificationEffect, ConfirmEffect,
         RequestResumeEffect, RequestStopEffect, WorkLeaseEffect
    <2>7. PICK w \in Executions : Settle(w) \/ Catch(w) \/ FinishTakeover(w)
      BY <1>1, <1>3, <2>2, <2>3, <2>4, <2>5, <2>6, RowsStay
    <2>8. left' = 0 /\ work'.status = "none" /\ HasClaim(w)
          /\ evidence' = evidence
      BY <1>1, <1>3, <2>7, SettleEffect, CatchEffect, FinishTakeoverEffect
         DEF Counted, IInv
    <2>9. evidence = "clean"
      <3>1. \/ run[w].pass.pc \in {"settle", "take_done"}
            \/ run[w].pass.pc = "failing" /\ run[w].pass.fault = "preview"
        BY <1>1, <1>3, <2>7, SettleEffect, CatchEffect, FinishTakeoverEffect
      <3> QED
        BY <1>1, <2>8, <3>1 DEF Control, PassSafe, Loaded
    <2> QED
      BY <2>8, <2>9
  <1> QED
    BY <1>2, <1>3

Stops == StopSteps \union {"stopping"}

(* A stop is taken up while the recovery is stopping.                      *)
LEMMA StopEntered ==
  ASSUME Typed, NEW w \in Executions, PassStep(w), run'[w].pass.pc \in Stops
  PROVE  /\ UNCHANGED rec \/ StopRepair(w)
         /\ run'[w].pass.pc # "stopping" => run[w].pass.pc \in Stops
         /\ \/ /\ run[w].pass.pc \in Stops
               /\ run'[w].pass.attempt = run[w].pass.attempt
            \/ rec.status = "stopping"
  BY ExpireConfirmationEffect, ClaimEffect, LoadEffect, NextSectorEffect,
     AdmitEffect, EndReadEffect, BeginBatchEffect, BatchStepEffect,
     BatchStepFailsEffect,
     SettleEffect, CatchEffect, FindStoppingEffect, PrepareStopEffect,
     StopDeviceEffect, StopRepairEffect, Dismissed, StopFaultsEffect,
     CompleteStopEffect, BeginTakeoverEffect, TakeDeviceEffect,
     TakeRepairEffect, TakeoverFaultsEffect, FinishTakeoverEffect,
     ActivateWaitingEffect
     DEF PassStep, DeferStop, StopRepairFaults, Stops, StopSteps

(* A recovery that is stopping ends stopped or faulted.                    *)
LEMMA StoppingStays ==
  ASSUME Typed, Rows, Next, rec.status = "stopping"
  PROVE  \/ rec' = rec
         \/ /\ rec'.attempt = rec.attempt
            /\ \/ rec'.status = "faulted"
               \/ rec'.status = "stopped"
                  /\ \E w \in Executions : CompleteStop(w) /\ CurrentStop(w)
  <1>1. ASSUME NEW w \in Executions,
               \/ Claim(w) \/ Admit(w) \/ BatchStep(w) \/ Settle(w) \/ Catch(w)
               \/ PrepareStop(w) \/ StopDevice(w) \/ DeferStop(w)
               \/ StopRepair(w) \/ BeginTakeover(w)
        PROVE  rec' = rec
    BY <1>1, ClaimEffect, AdmitEffect, BatchStepEffect, SettleEffect,
       CatchEffect, PrepareStopEffect, StopDeviceEffect, Dismissed,
       StopRepairEffect, BeginTakeoverEffect DEF DeferStop, RowsRepaired
  <1>2. ASSUME NEW w \in Executions,
               \/ TakeDevice(w) \/ TakeRepair(w) \/ TakeoverFaults(w)
               \/ FinishTakeover(w) \/ ActivateWaiting(w)
               \/ RunReconciliation(w) \/ ReleaseAfterReconciliation(w)
               \/ Renew(w) \/ Crash(w)
        PROVE  rec' = rec
    BY <1>2, TakeDeviceEffect, TakeRepairEffect, TakeoverFaultsEffect,
       FinishTakeoverEffect, ActivateWaitingEffect, RunReconciliationEffect,
       ReleaseEffect, RenewEffect, CrashEffect DEF RowsRepaired
  <1>3. ASSUME NEW w \in Executions, VerifierStep(w) PROVE rec' = rec
    BY <1>3, ExpireVerificationEffect, ClaimVerificationEffect,
       OwnCheckpointEffect, SampleEffect, EndVerificationEffect
       DEF VerifierStep, RowsSettled
  <1>4. ASSUME NEW w \in Executions, StopRepairFaults(w) \/ CompleteStop(w)
        PROVE  \/ rec' = rec
               \/ /\ rec'.attempt = rec.attempt
                  /\ \/ rec'.status = "faulted"
                     \/ /\ rec'.status = "stopped"
                        /\ CompleteStop(w) /\ CurrentStop(w)
    BY <1>4, StopFaultsEffect, CompleteStopEffect DEF StopRepairFaults
  <1>5. ASSUME \/ SubmitVerification \/ Confirm \/ RequestResume
               \/ RequestStop \/ WorkLeaseEnds
        PROVE  rec' = rec
    BY <1>5, SubmitVerificationEffect, ConfirmEffect, RequestResumeEffect,
       RequestStopEffect, WorkLeaseEffect
  <1> QED
    BY <1>1, <1>2, <1>3, <1>4, <1>5, RowsStay

(* An attempt follows another only by a resume.                            *)
LEMMA AttemptsGrow ==
  ASSUME Typed, Next
  PROVE  rec'.attempt = rec.attempt \/ RequestResume
  <1>1. ASSUME NEW w \in Executions,
               \/ Claim(w) \/ Admit(w) \/ BatchStep(w) \/ Settle(w) \/ Catch(w)
               \/ PrepareStop(w) \/ StopDevice(w) \/ DeferStop(w)
               \/ StopRepair(w) \/ StopRepairFaults(w) \/ CompleteStop(w)
        PROVE  rec'.attempt = rec.attempt
    BY <1>1, ClaimEffect, AdmitEffect, BatchStepEffect, SettleEffect,
       CatchEffect, PrepareStopEffect, StopDeviceEffect, StopRepairEffect,
       StopFaultsEffect, CompleteStopEffect
       DEF DeferStop, StopRepairFaults, RowsRepaired
  <1>2. ASSUME NEW w \in Executions,
               \/ BeginTakeover(w)
               \/ TakeDevice(w) \/ TakeRepair(w) \/ TakeoverFaults(w)
               \/ FinishTakeover(w) \/ ActivateWaiting(w)
               \/ RunReconciliation(w) \/ ReleaseAfterReconciliation(w)
               \/ Renew(w) \/ Crash(w)
        PROVE  rec'.attempt = rec.attempt
    BY <1>2, BeginTakeoverEffect, TakeDeviceEffect, TakeRepairEffect,
       TakeoverFaultsEffect, FinishTakeoverEffect, ActivateWaitingEffect,
       RunReconciliationEffect, ReleaseEffect, RenewEffect, CrashEffect
       DEF RowsRepaired
  <1>3. ASSUME NEW w \in Executions, VerifierStep(w)
        PROVE  rec'.attempt = rec.attempt
    BY <1>3, ExpireVerificationEffect, ClaimVerificationEffect,
       OwnCheckpointEffect, SampleEffect, EndVerificationEffect
       DEF VerifierStep, RowsSettled
  <1>4. ASSUME SubmitVerification \/ Confirm \/ RequestStop \/ WorkLeaseEnds
        PROVE  rec'.attempt = rec.attempt
    BY <1>4, SubmitVerificationEffect, ConfirmEffect, RequestStopEffect,
       WorkLeaseEffect
  <1> QED
    BY <1>1, <1>2, <1>3, <1>4, RowsStay

(* A stop that was taken up stands until it is done.                       *)
LEMMA StopStandingStep ==
  ASSUME IInv, StopStanding, Next
  PROVE  StopStanding'
  <1> SUFFICES ASSUME NEW w \in Executions, run'[w].pass.pc \in Stops,
                      run'[w].pass.attempt = rec'.attempt
               PROVE  rec'.status \in {"stopping", "stopped", "faulted"}
    BY DEF StopStanding, Stops
  <1>1. /\ Typed /\ Rows /\ rec.attempt \in Nat
        /\ run[w].pass.attempt <= rec.attempt
    BY DEF IInv, Typed, RecTyped, Recs, Bounded, RunsBounded
  <1>2. ASSUME rec.status \in {"stopping", "stopped", "faulted"},
               ~RequestResume
        PROVE  rec'.status \in {"stopping", "stopped", "faulted"}
    BY <1>1, <1>2, EndedStays, StoppingStays
  <1>3. ASSUME RequestResume PROVE FALSE
    BY <1>1, <1>3, RequestResumeEffect
  <1>4. ASSUME run[w].pass.pc \in Stops, run[w].pass.attempt = rec.attempt
        PROVE  rec.status \in {"stopping", "stopped", "faulted"}
    BY <1>4 DEF StopStanding, Stops
  <1>5. CASE run'[w].pass = run[w].pass
    <2>1. rec'.attempt = rec.attempt
      BY <1>1, <1>3, <1>5, AttemptsGrow
    <2> QED
      BY <1>2, <1>3, <1>4, <1>5, <2>1
  <1>6. CASE PassStep(w)
    <2>1. rec'.attempt = rec.attempt
      BY <1>1, <1>6, StopEntered, StopRepairEffect DEF RowsRepaired
    <2> QED
      BY <1>1, <1>2, <1>3, <1>4, <1>6, <2>1, StopEntered
  <1>7. ~Crash(w) /\ ~Restart(w)
    BY <1>1, CrashEffect, RestartEffect DEF Stops, StopSteps
  <1> QED
    BY <1>1, <1>5, <1>6, <1>7, PassMover

(* How a pass comes to read the disc or write the image.                   *)
LEMMA BusyEntered ==
  ASSUME Typed, NEW w \in Executions, PassStep(w), run'[w].pass.pc \in Busy
  PROVE  /\ SameWork \/ Admit(w)
         /\ \/ NextSector(w) /\ run'[w].pass.pc = "ready"
            \/ Admit(w) /\ run'[w].pass.pc = "reading"
            \/ EndRead(w) /\ run'[w].pass.pc = "read"
            \/ BeginBatch(w) /\ run'[w].pass.pc = "batch"
            \/ BatchStep(w) /\ run'[w].pass.pc = "batch"
  BY ExpireConfirmationEffect, ClaimEffect, LoadEffect, NextSectorEffect,
     AdmitEffect, EndReadEffect, BeginBatchEffect, BatchStepEffect,
     BatchStepFailsEffect,
     SettleEffect, CatchEffect, FindStoppingEffect, PrepareStopEffect,
     StopDeviceEffect, StopRepairEffect, Dismissed, StopFaultsEffect,
     CompleteStopEffect, BeginTakeoverEffect, TakeDeviceEffect,
     TakeRepairEffect, TakeoverFaultsEffect, FinishTakeoverEffect,
     ActivateWaitingEffect
     DEF PassStep, DeferStop, StopRepairFaults, Busy, SameWork

(* How a poller may lose the reservation to somebody else.                 *)
LEMMA ClaimTaken ==
  ASSUME Typed, Next, NEW w \in Executions, HasClaim(w), ~HasClaim(w)'
  PROVE  \/ PassStep(w) \/ Crash(w)
         \/ \E v \in Executions :
              \/ BeginTakeover(v)
              \/ CompleteStop(v) /\ CurrentStop(v) /\ rec'.status = "stopped"
              \/ ReleaseAfterReconciliation(v) /\ rec.status # "stopping"
  <1> USE DEF SameWork, Forgotten, RowsRepaired, HasClaim
  <1>1. ASSUME NEW v \in Executions, v # w,
               \/ Claim(v) \/ Admit(v) \/ BatchStep(v) \/ Settle(v) \/ Catch(v)
               \/ PrepareStop(v) \/ StopDevice(v) \/ StopRepair(v)
               \/ DeferStop(v) \/ StopRepairFaults(v)
        PROVE  FALSE
    BY <1>1, ClaimEffect, AdmitEffect, BatchStepEffect, SettleEffect,
       CatchEffect, PrepareStopEffect, StopDeviceEffect, StopRepairEffect,
       Dismissed, StopFaultsEffect
       DEF DeferStop, StopRepairFaults
  <1>2. ASSUME NEW v \in Executions, v # w,
               \/ TakeDevice(v) \/ TakeRepair(v)
               \/ TakeoverFaults(v) \/ FinishTakeover(v) \/ ActivateWaiting(v)
               \/ Crash(v)
        PROVE  FALSE
    BY <1>2, TakeDeviceEffect, TakeRepairEffect,
       TakeoverFaultsEffect, FinishTakeoverEffect, ActivateWaitingEffect,
       CrashEffect
  <1>3. ASSUME NEW v \in Executions,
               VerifierStep(v) \/ RunReconciliation(v) \/ Renew(v)
        PROVE  FALSE
    BY <1>3, VerifierMoves, RunReconciliationEffect, RenewEffect DEF Typed
  <1>4. ASSUME SubmitVerification \/ Confirm \/ RequestResume \/ RequestStop
               \/ WorkLeaseEnds
        PROVE  FALSE
    BY <1>4, SubmitVerificationEffect, ConfirmEffect, RequestResumeEffect,
       RequestStopEffect, WorkLeaseEffect
  <1>5. ASSUME NEW v \in Executions, CompleteStop(v), v # w
        PROVE  CurrentStop(v) /\ rec'.status = "stopped"
    BY <1>5, CompleteStopEffect
  <1>6. ASSUME NEW v \in Executions, ReleaseAfterReconciliation(v)
        PROVE  rec.status # "stopping"
    BY <1>6, ReleaseEffect
  <1>7. ~PassStep(w) /\ ~Crash(w) =>
          \E v \in Executions :
              \/ BeginTakeover(v)
              \/ CompleteStop(v) /\ CurrentStop(v) /\ rec'.status = "stopped"
              \/ ReleaseAfterReconciliation(v) /\ rec.status # "stopping"
    BY <1>1, <1>2, <1>3, <1>4, <1>5, <1>6, RowsStay DEF PassStep
  <1> QED
    BY <1>7

(* The lease of a reservation that is still held, and the device it        *)
(* admitted, unless its holder gives it back.                              *)
LEMMA HeldStays ==
  ASSUME Typed, Next, NEW w \in Executions, HasClaim(w), HasClaim(w)'
  PROVE  /\ work.fresh => work'.fresh \/ WorkLeaseEnds
         /\ work.admitted => work'.admitted
  <1> USE DEF SameWork, Forgotten, RowsRepaired, HasClaim, GivenUp
  <1>1. ASSUME NEW v \in Executions,
               \/ Claim(v) \/ Admit(v) \/ BatchStep(v) \/ Settle(v) \/ Catch(v)
               \/ PrepareStop(v) \/ StopDevice(v) \/ StopRepair(v)
               \/ DeferStop(v) \/ StopRepairFaults(v) \/ CompleteStop(v)
        PROVE  /\ work.fresh => work'.fresh
               /\ work.admitted => work'.admitted
    BY <1>1, ClaimEffect, AdmitEffect, BatchStepEffect, SettleEffect,
       CatchEffect, PrepareStopEffect, StopDeviceEffect, StopRepairEffect,
       Dismissed, StopFaultsEffect, CompleteStopEffect
       DEF DeferStop, StopRepairFaults
  <1>2. ASSUME NEW v \in Executions,
               \/ BeginTakeover(v) \/ TakeDevice(v) \/ TakeRepair(v)
               \/ TakeoverFaults(v) \/ FinishTakeover(v) \/ ActivateWaiting(v)
               \/ Crash(v)
        PROVE  /\ work.fresh => work'.fresh
               /\ work.admitted => work'.admitted
    BY <1>2, BeginTakeoverEffect, TakeDeviceEffect, TakeRepairEffect,
       TakeoverFaultsEffect, FinishTakeoverEffect, ActivateWaitingEffect,
       CrashEffect
  <1>3. ASSUME NEW v \in Executions,
               \/ VerifierStep(v) \/ RunReconciliation(v) \/ Renew(v)
               \/ ReleaseAfterReconciliation(v)
        PROVE  /\ work.fresh => work'.fresh
               /\ work.admitted => work'.admitted
    BY <1>3, VerifierMoves, RunReconciliationEffect, RenewEffect, ReleaseEffect
       DEF Typed
  <1>4. ASSUME SubmitVerification \/ Confirm \/ RequestResume \/ RequestStop
               \/ WorkLeaseEnds
        PROVE  /\ work.fresh => work'.fresh \/ WorkLeaseEnds
               /\ work.admitted => work'.admitted
    BY <1>4, SubmitVerificationEffect, ConfirmEffect, RequestResumeEffect,
       RequestStopEffect, WorkLeaseEffect
  <1> QED
    BY <1>1, <1>2, <1>3, <1>4, RowsStay

(* A claimed recovery runs only if it ran before.                          *)
LEMMA RunningEntered ==
  ASSUME Typed, Rows, Next, rec'.status = "running", rec.status # "running"
  PROVE  \E w \in Executions : Claim(w)
  <1> USE DEF RowsRepaired
  <1>1. ASSUME NEW v \in Executions,
               \/ Admit(v) \/ Settle(v) \/ Catch(v) \/ PrepareStop(v)
               \/ StopDevice(v) \/ DeferStop(v) \/ StopRepairFaults(v)
               \/ CompleteStop(v) \/ BeginTakeover(v) \/ TakeDevice(v)
               \/ TakeoverFaults(v) \/ FinishTakeover(v) \/ ActivateWaiting(v)
               \/ Renew(v) \/ Crash(v)
        PROVE  FALSE
    BY <1>1, AdmitEffect, SettleEffect,
       CatchEffect, PrepareStopEffect, StopDeviceEffect, Dismissed,
       StopFaultsEffect, CompleteStopEffect, BeginTakeoverEffect,
       TakeDeviceEffect, TakeoverFaultsEffect, FinishTakeoverEffect,
       ActivateWaitingEffect, RenewEffect, CrashEffect
       DEF DeferStop, StopRepairFaults
  <1>2. ASSUME NEW v \in Executions, BatchStep(v) PROVE FALSE
    BY <1>2, BatchStepEffect DEF HasClaim, Rows, ClaimedIsUnsettled
  <1>3. ASSUME RowsRepaired PROVE FALSE
    <2>1. evidence \in Outcomes /\ Projectable
      BY <1>3
    <2>2. work.status # "claimed"
      BY <1>3 DEF Rows, ClaimedIsUnsettled
    <2> QED
      BY <1>3, <2>2
  <1>4. ASSUME NEW v \in Executions,
               StopRepair(v) \/ TakeRepair(v) \/ RunReconciliation(v)
        PROVE  FALSE
    BY <1>3, <1>4, StopRepairEffect, TakeRepairEffect, RunReconciliationEffect
  <1>5. ASSUME NEW v \in Executions,
               VerifierStep(v) \/ ReleaseAfterReconciliation(v)
        PROVE  FALSE
    BY <1>5, ExpireVerificationEffect, ClaimVerificationEffect,
       OwnCheckpointEffect, SampleEffect, EndVerificationEffect, ReleaseEffect
       DEF VerifierStep, RowsSettled
  <1>6. ASSUME SubmitVerification \/ Confirm \/ RequestResume \/ RequestStop
               \/ WorkLeaseEnds
        PROVE  FALSE
    BY <1>6, SubmitVerificationEffect, ConfirmEffect, RequestResumeEffect,
       RequestStopEffect, WorkLeaseEffect
  <1> QED
    BY <1>1, <1>2, <1>4, <1>5, <1>6, RowsStay

(* A takeover goes on or gives the claim back.                             *)
LEMMA TakeoverGoesOn ==
  ASSUME Typed, NEW w \in Executions, PassStep(w), TakingOver(w), HasClaim(w)'
  PROVE  TakingOver(w)'
  <1> USE DEF TakingOver, Forgotten
  <1>1. \/ TakeDevice(w) \/ TakeRepair(w) \/ TakeoverFaults(w)
        \/ FinishTakeover(w)
    BY ExpireConfirmationEffect, ClaimEffect, LoadEffect, NextSectorEffect,
     AdmitEffect, EndReadEffect, BeginBatchEffect, BatchStepEffect,
     BatchStepFailsEffect, SettleEffect, CatchEffect, FindStoppingEffect,
     PrepareStopEffect, StopDeviceEffect, StopRepairEffect,
     CompleteStopEffect, BeginTakeoverEffect, ActivateWaitingEffect
     DEF PassStep, DeferStop, StopRepairFaults, At
  <1>2. CASE TakeDevice(w) \/ TakeRepair(w)
    BY <1>2, TakeDeviceEffect, TakeRepairEffect
  <1>3. CASE TakeoverFaults(w)
    BY <1>3, TakeoverFaultsEffect
  <1>4. CASE FinishTakeover(w)
    BY <1>4, FinishTakeoverEffect DEF GivenUp, HasClaim
  <1> QED
    BY <1>1, <1>2, <1>3, <1>4

(* The pass that holds the claim of a running recovery keeps it fresh.     *)
LEMMA HolderRenewsStep ==
  ASSUME IInv, HolderRenews, Next, Punctual'
  PROVE  HolderRenews'
  <1> SUFFICES ASSUME NEW w \in Executions, HasClaim(w)',
                      rec'.status = "running", ~work'.fresh
               PROVE  TakingOver(w)'
    BY DEF HolderRenews
  <1>1. Typed /\ Rows
    BY DEF IInv
  <1>2. HasClaim(w)
    BY <1>1, ClaimGained, ClaimEffect, BeginTakeoverEffect
  <1>3. rec.status = "running"
    BY <1>1, <1>2, RunningEntered, ClaimEffect DEF HasClaim
  <1>4. TakingOver(w)
    <2>1. CASE ~work.fresh
      BY <1>2, <1>3, <2>1 DEF HolderRenews
    <2>2. CASE work.fresh
      <3>1. WorkLeaseEnds
        BY <1>1, <1>2, <2>2, HeldStays
      <3>2. Unrenewed \/ TakingOver(work.by)
        BY <1>1, <3>1, WorkLeaseEffect
      <3> QED
        BY <1>2, <1>3, <3>2 DEF HasClaim, Unrenewed
    <2> QED
      BY <2>1, <2>2
  <1>5. CASE run'[w].pass = run[w].pass
    BY <1>4, <1>5 DEF TakingOver
  <1>6. CASE PassStep(w)
    BY <1>1, <1>4, <1>6, TakeoverGoesOn
  <1>7. ~Crash(w) /\ ~Restart(w)
    BY <1>1, <1>4, CrashEffect, RestartEffect DEF Forgotten, TakingOver
  <1> QED
    BY <1>1, <1>5, <1>6, <1>7, PassMover

(* How a recovery ceases to be worked on.                                  *)
LEMMA WorkedOnLeft ==
  ASSUME Typed, Rows, Next, rec.status \in {"running", "stopping"},
         rec'.status \notin {"running", "stopping"}
  PROVE  \E v \in Executions :
           \/ PassStep(v) /\ HasClaim(v)
           \/ (StopRepairFaults(v) \/ CompleteStop(v)) /\ CurrentStop(v)
           \/ ReleaseAfterReconciliation(v) /\ rec.status # "stopping"
  <1>1. ASSUME RowsRepaired PROVE FALSE
    BY <1>1 DEF RowsRepaired, Rows, ReservationMatchesStatus
  <1>2. ASSUME NEW v \in Executions,
               \/ Claim(v) \/ Admit(v) \/ BatchStep(v)
               \/ PrepareStop(v) \/ StopDevice(v) \/ DeferStop(v)
               \/ StopRepair(v) \/ BeginTakeover(v)
        PROVE  FALSE
    BY <1>1, <1>2, ClaimEffect, AdmitEffect, BatchStepEffect,
       PrepareStopEffect, StopDeviceEffect, Dismissed,
       StopRepairEffect, BeginTakeoverEffect DEF DeferStop
  <1>3. ASSUME NEW v \in Executions,
               \/ TakeDevice(v) \/ TakeRepair(v) \/ ActivateWaiting(v)
               \/ VerifierStep(v)
               \/ RunReconciliation(v) \/ Renew(v) \/ Crash(v)
        PROVE  FALSE
    <2>1. ~VerifierStep(v)
      BY ExpireVerificationEffect, ClaimVerificationEffect,
         OwnCheckpointEffect, SampleEffect, EndVerificationEffect
         DEF VerifierStep, RowsSettled
    <2> QED
      BY <1>1, <1>3, <2>1, TakeDeviceEffect, TakeRepairEffect,
         ActivateWaitingEffect, RunReconciliationEffect, RenewEffect,
         CrashEffect
  <1>4. ASSUME NEW v \in Executions,
               Settle(v) \/ Catch(v) \/ TakeoverFaults(v) \/ FinishTakeover(v)
        PROVE  PassStep(v) /\ HasClaim(v)
    BY <1>4, SettleEffect, CatchEffect, TakeoverFaultsEffect,
       FinishTakeoverEffect DEF PassStep
  <1>5. ASSUME NEW v \in Executions, StopRepairFaults(v) \/ CompleteStop(v)
        PROVE  CurrentStop(v)
    BY <1>5, StopFaultsEffect, CompleteStopEffect DEF StopRepairFaults
  <1>6. ASSUME NEW v \in Executions, ReleaseAfterReconciliation(v)
        PROVE  rec.status # "stopping"
    BY <1>6, ReleaseEffect
  <1>7. ASSUME \/ SubmitVerification \/ Confirm \/ RequestResume
               \/ RequestStop \/ WorkLeaseEnds
        PROVE  FALSE
    BY <1>7, SubmitVerificationEffect, ConfirmEffect, RequestResumeEffect,
       RequestStopEffect, WorkLeaseEffect
  <1> QED
    BY <1>2, <1>3, <1>4, <1>5, <1>6, <1>7, RowsStay

(* Neither a stop nor a reconciliation ends while somebody works.          *)
LEMMA WorkersExcluded ==
  ASSUME IInv, ReconcilersHold, BusyHolds, StopAlone, StopRepaired,
         NEW w \in Executions, run[w].pass.pc \in Busy, NEW v \in Executions
  PROVE  /\ ~((StopRepairFaults(v) \/ CompleteStop(v)) /\ CurrentStop(v))
         /\ ~(ReleaseAfterReconciliation(v) /\ rec.status # "stopping")
  <1>1. Typed /\ Rows
    BY DEF IInv
  <1>2. ASSUME StopRepairFaults(v) \/ CompleteStop(v), CurrentStop(v)
        PROVE  FALSE
    <2>1. /\ run[v].pass.pc \in {"stop_repair", "stop_done"}
          /\ StopRepairFaults(v) => ImageFree
          /\ CompleteStop(v) => run[v].pass.pc = "stop_done"
      BY <1>2 DEF StopRepairFaults, CompleteStop, At
    <2>2. run[w].pass.pc = "batch"
      BY <1>2, <2>1 DEF StopAlone, StopSteps, At, Busy
    <2>3. ImageWritten
      BY <2>2 DEF ImageWritten, At
    <2> QED
      BY <1>2, <2>1, <2>3 DEF ImageFree, StopRepaired, At
  <1>3. ASSUME ReleaseAfterReconciliation(v), rec.status # "stopping"
        PROVE  FALSE
    <2>1. rec.status = "running"
      BY <1>3 DEF BusyHolds
    <2>2. recon.status = "running"
      BY <1>1, <1>3, ReleaseEffect DEF ReconcilersHold, HasReconciliation
    <2> QED
      BY <1>1, <2>1, <2>2 DEF Rows, ReconciliationExcludesPass
  <1> QED
    BY <1>2, <1>3

(* Who starts to read or write holds the claim, and the lease is fresh.    *)
LEMMA BusyBegins ==
  ASSUME IInv, BusyHolds, HolderRenews', NEW w \in Executions, PassStep(w),
         run'[w].pass.pc \in Busy
  PROVE  /\ HasClaim(w)' /\ rec'.status \in {"running", "stopping"}
         /\ run'[w].pass.attempt = rec'.attempt
         /\ run'[w].pass.pc \in {"ready", "read"} => work'.fresh
         /\ run'[w].pass.pc = "reading" => work'.admitted
  <1>1. Typed /\ HasClaim(w)' = (work'.status = "claimed" /\ work'.by = w)
    BY DEF IInv, HasClaim
  <1>2. ASSUME HasClaim(w)', rec'.status = "running",
               run'[w].pass.pc \in {"ready", "read"}
        PROVE  work'.fresh
    BY <1>2 DEF HolderRenews, TakingOver
  <1>3. CASE NextSector(w) /\ run'[w].pass.pc = "ready"
    BY <1>1, <1>2, <1>3, NextSectorEffect DEF HasClaim
  <1>4. CASE Admit(w) /\ run'[w].pass.pc = "reading"
    BY <1>1, <1>4, AdmitEffect DEF HasClaim, BusyHolds, Busy
  <1>5. CASE EndRead(w) /\ run'[w].pass.pc = "read"
    BY <1>1, <1>2, <1>5, EndReadEffect DEF HasClaim, BusyHolds, Busy
  <1>6. CASE BeginBatch(w) /\ run'[w].pass.pc = "batch"
    BY <1>1, <1>6, BeginBatchEffect DEF HasClaim
  <1>7. CASE BatchStep(w) /\ run'[w].pass.pc = "batch"
    BY <1>1, <1>7, BatchStepEffect DEF HasClaim, BusyHolds, Busy, SameWork
  <1> QED
    BY <1>1, <1>3, <1>4, <1>5, <1>6, <1>7, BusyEntered

(* Who reads the disc or writes the image keeps the claim.                 *)
LEMMA BusyHoldsStep ==
  ASSUME IInv, ReconcilersHold, HolderRenews, HolderRenews', BusyHolds,
         StopAlone, StopRepaired, Next, Punctual'
  PROVE  BusyHolds'
  <1> SUFFICES ASSUME NEW w \in Executions, run'[w].pass.pc \in Busy
               PROVE  /\ HasClaim(w)'
                      /\ rec'.status \in {"running", "stopping"}
                      /\ run'[w].pass.attempt = rec'.attempt
                      /\ run'[w].pass.pc \in {"ready", "read"} => work'.fresh
                      /\ run'[w].pass.pc = "reading" => work'.admitted
    BY DEF BusyHolds
  <1>1. Typed /\ Rows
    BY DEF IInv
  <1>2. CASE PassStep(w)
    BY <1>2, BusyBegins
  <1>3. CASE ~PassStep(w)
    <2>1. run'[w].pass = run[w].pass /\ ~Crash(w)
      BY <1>1, <1>3, PassMover, CrashEffect, RestartEffect DEF Busy
    <2>2. /\ run[w].pass.pc \in Busy /\ HasClaim(w)
          /\ rec.status \in {"running", "stopping"}
          /\ run[w].pass.attempt = rec.attempt
          /\ run[w].pass.pc \in {"ready", "read"} => work.fresh
          /\ run[w].pass.pc = "reading" => work.admitted
      BY <2>1 DEF BusyHolds
    <2>3. HasClaim(w)'
      <3>1. ASSUME NEW v \in Executions, BeginTakeover(v) PROVE FALSE
        BY <1>1, <2>2, <3>1, BeginTakeoverEffect
           DEF InterruptedClaim, HolderRenews, TakingOver, Busy
      <3> QED
        BY <1>1, <1>3, <2>1, <2>2, <3>1, ClaimTaken, WorkersExcluded
    <2>4. rec'.attempt = rec.attempt
      BY <1>1, <2>2, AttemptsGrow, RequestResumeEffect DEF HasClaim
    <2>5. rec'.status \in {"running", "stopping"}
      <3>1. \A v \in Executions : HasClaim(v) => v = w
        BY <2>2 DEF HasClaim
      <3> QED
        BY <1>1, <1>3, <2>2, <3>1, WorkedOnLeft, WorkersExcluded
    <2>6. run[w].pass.pc \in {"ready", "read"} => work'.fresh
      BY <1>1, <2>2, <2>3, HeldStays, WorkLeaseEffect
         DEF Unrenewed, Doing, TakingOver, HasClaim
    <2>7. run[w].pass.pc = "reading" => work'.admitted
      BY <1>1, <2>2, <2>3, HeldStays
    <2> QED
      BY <2>1, <2>2, <2>3, <2>4, <2>5, <2>6, <2>7
  <1> QED
    BY <1>2, <1>3

(* A stop goes on from step to step while the recovery is stopping.        *)
LEMMA StopMoves ==
  ASSUME Typed, NEW w \in Executions, PassStep(w),
         run'[w].pass.pc \in StopSteps
  PROVE  \/ PrepareStop(w) /\ run'[w].pass.pc = "stop_device"
         \/ StopDevice(w) /\ run'[w].pass.pc = "stop_repair"
         \/ StopRepair(w) /\ run'[w].pass.pc = "stop_done"
         \/ run'[w].pass = run[w].pass
  BY ExpireConfirmationEffect, ClaimEffect, LoadEffect, NextSectorEffect,
     AdmitEffect, EndReadEffect, BeginBatchEffect, BatchStepEffect,
     BatchStepFailsEffect,
     SettleEffect, CatchEffect, FindStoppingEffect, PrepareStopEffect,
     StopDeviceEffect, StopRepairEffect, Dismissed, StopFaultsEffect,
     CompleteStopEffect, BeginTakeoverEffect, TakeDeviceEffect,
     TakeRepairEffect, TakeoverFaultsEffect, FinishTakeoverEffect,
     ActivateWaitingEffect
     DEF PassStep, DeferStop, StopRepairFaults, StopSteps

LEMMA StopGoesOn ==
  ASSUME IInv, StopStanding, Next, NEW w \in Executions, CurrentStop(w)',
         run'[w].pass.pc \in StopSteps
  PROVE  /\ CurrentStop(w) /\ rec' = rec
         /\ \/ PrepareStop(w) /\ run'[w].pass.pc = "stop_device"
            \/ StopDevice(w) /\ run'[w].pass.pc = "stop_repair"
            \/ StopRepair(w) /\ run'[w].pass.pc = "stop_done"
            \/ run'[w].pass = run[w].pass
  <1>1. /\ Typed /\ Rows /\ rec.attempt \in Nat
        /\ run[w].pass.attempt <= rec.attempt
    BY DEF IInv, Typed, RecTyped, Recs, Bounded, RunsBounded
  <1>2. rec'.status = "stopping" /\ rec'.attempt = run'[w].pass.attempt
    BY DEF CurrentStop
  <1>3. ~Crash(w) /\ ~Restart(w)
    BY <1>1, CrashEffect, RestartEffect DEF StopSteps
  <1>4. \/ PrepareStop(w) /\ run'[w].pass.pc = "stop_device"
        \/ StopDevice(w) /\ run'[w].pass.pc = "stop_repair"
        \/ StopRepair(w) /\ run'[w].pass.pc = "stop_done"
        \/ run'[w].pass = run[w].pass
    BY <1>1, <1>3, PassMover, StopMoves
  <1>5. run[w].pass.pc \in Stops /\ run'[w].pass.attempt = run[w].pass.attempt
    BY <1>1, <1>4, PrepareStopEffect, StopDeviceEffect, StopRepairEffect
       DEF Stops, StopSteps
  <1>6. ~RequestResume
    BY <1>1, <1>2, RequestResumeEffect
  <1>7. rec'.attempt = rec.attempt
    BY <1>1, <1>6, AttemptsGrow
  <1>8. rec.status \in {"stopping", "stopped", "faulted"}
    BY <1>2, <1>5, <1>7 DEF StopStanding, Stops
  <1>9. rec' = rec
    BY <1>1, <1>2, <1>6, <1>8, EndedStays, StoppingStays
  <1> QED
    BY <1>2, <1>4, <1>5, <1>7, <1>9 DEF CurrentStop

(* A verifier samples the disc only after CanVerify.                       *)
LEMMA SamplingEntered ==
  ASSUME Typed, NEW w \in Executions, VerifierStep(w),
         run'[w].verify = "sampling"
  PROVE  /\ CanVerify(w) /\ DeviceFree
         /\ rec' = rec /\ ver'.status = ver.status /\ ver'.by = ver.by
         /\ ver'.attempt = ver.attempt /\ ver'.fresh /\ ver'.admitted
  BY ExpireVerificationEffect, ClaimVerificationEffect, OwnCheckpointEffect,
     SampleEffect, EndVerificationEffect DEF VerifierStep

(* A stop that found the device free keeps it free.                        *)
LEMMA StopAloneStep ==
  ASSUME IInv, StopStanding, BusyHolds, SamplingCounts, StopAlone, Next
  PROVE  StopAlone'
  <1> SUFFICES ASSUME NEW w \in Executions, NEW v \in Executions,
                      CurrentStop(w)', run'[w].pass.pc \in StopSteps
               PROVE  /\ run'[v].pass.pc \notin {"ready", "read"}
                      /\ run'[w].pass.pc # "stop_device" =>
                           /\ run'[v].pass.pc # "reading"
                           /\ run'[v].verify # "sampling"
    BY DEF StopAlone, At
  <1>1. Typed /\ Rows
    BY DEF IInv
  <1>2. /\ rec.status = "stopping" /\ rec.attempt = run[w].pass.attempt
        /\ CurrentStop(w)
        /\ \/ PrepareStop(w) /\ run'[w].pass.pc = "stop_device"
           \/ StopDevice(w) /\ run'[w].pass.pc = "stop_repair"
           \/ StopRepair(w) /\ run'[w].pass.pc = "stop_done"
           \/ run'[w].pass = run[w].pass
    BY StopGoesOn DEF CurrentStop
  <1>3. ASSUME run'[v].pass.pc \in {"ready", "read", "reading"}
        PROVE  run'[v].pass = run[v].pass
    BY <1>1, <1>2, <1>3, PassMover, BusyEntered, NextSectorEffect,
       AdmitEffect, EndReadEffect, CrashEffect, RestartEffect DEF Busy
  <1>4. ASSUME run'[v].pass.pc \in {"ready", "read"}
        PROVE  FALSE
    <2>1. run[v].pass.pc \in {"ready", "read"} /\ HasClaim(v) /\ work.fresh
      BY <1>3, <1>4 DEF BusyHolds, Busy
    <2>2. run[w].pass.pc \notin StopSteps
      BY <1>2, <2>1 DEF StopAlone
    <2>3. PrepareStop(w) /\ run'[w].pass.pc = "stop_device"
      BY <1>1, <1>2, <2>2, StopDeviceEffect, StopRepairEffect DEF StopSteps
    <2>4. ~AwaitsHolder(w) /\ run[w].pass.pc = "stopping"
      BY <1>1, <2>3, PrepareStopEffect
    <2> QED
      BY <2>1, <2>4 DEF AwaitsHolder, HasClaim
  <1>5. ASSUME Reads(v), run'[w].pass.pc # "stop_device"
        PROVE  FALSE
    <2>1. AdmittedDevice(w) /\ ~DeviceFree
      BY <1>2, <1>5 DEF Reads, At, BusyHolds, Busy, SamplingCounts,
         AdmittedDevice, DeviceFree, UsesDevice
    <2>2. ~StopDevice(w)
      BY <1>1, <1>2, <1>5, <2>1, StopDeviceEffect DEF StopSteps
    <2>3. run[w].pass.pc \in StopSteps \ {"stop_device"}
      BY <1>1, <1>2, <1>5, <2>2, StopRepairEffect DEF StopSteps
    <2> QED
      BY <1>2, <1>5, <2>3 DEF StopAlone, Reads, At
  <1>6. ASSUME run'[v].pass.pc = "reading", run'[w].pass.pc # "stop_device"
        PROVE  FALSE
    BY <1>3, <1>5, <1>6 DEF Reads, At
  <1>7. ASSUME run'[v].verify = "sampling", run'[w].pass.pc # "stop_device"
        PROVE  FALSE
    BY <1>1, <1>2, <1>5, <1>7, VerifierMover, SamplingEntered, CrashEffect,
       RestartEffect DEF CanVerify, Reads
  <1> QED
    BY <1>4, <1>6, <1>7

(* A stop that settled the evidence finds it settled at its end.           *)
LEMMA StopRepairedStep ==
  ASSUME IInv, StopStanding, StopAlone, StopRepaired, Next
  PROVE  StopRepaired'
  <1> SUFFICES ASSUME NEW w \in Executions, CurrentStop(w)',
                      run'[w].pass.pc = "stop_done"
               PROVE  evidence' = "clean" /\ ~ImageWritten'
    BY DEF StopRepaired, At
  <1>1. Typed
    BY DEF IInv
  <1>2. CurrentStop(w) /\ (StopRepair(w) \/ run'[w].pass = run[w].pass)
    BY StopGoesOn DEF StopSteps
  <1>3. CASE run'[w].pass = run[w].pass
    <2>1. evidence = "clean" /\ ~ImageWritten
      BY <1>2, <1>3 DEF StopRepaired, At
    <2>2. \A v \in Executions : run[v].pass.pc # "read"
      BY <1>2, <1>3 DEF StopAlone, StopSteps
    <2> QED
      BY <1>1, <2>1, <2>2, ImageRests, BeginBatchEffect
  <1>4. CASE StopRepair(w)
    <2>1. evidence' = "clean" /\ ~ImageWritten /\ orphans' = orphans
      BY <1>1, <1>4, StopRepairEffect DEF RowsRepaired, ImageFree, StopRepair
    <2>2. \A v \in Executions : v # w => run'[v].pass = run[v].pass
      BY <1>1, <1>4, StopRepairEffect DEF PassOnly, OthersStay
    <2> QED
      BY <2>1, <2>2 DEF ImageWritten, At
  <1> QED
    BY <1>2, <1>3, <1>4

(* What leaves the verification as it is, up to its confirmation.          *)
LEMMA VerStays ==
  ASSUME Typed, Next
  PROVE  \/ SameVer
         \/ \E w \in Executions :
              \/ Settle(w) \/ PrepareStop(w) \/ ActivateWaiting(w)
              \/ VerifierStep(w) \/ Renew(w) \/ Crash(w)
         \/ SubmitVerification \/ RequestResume \/ RequestStop
         \/ VerificationLeaseEnds
  <1>1. ASSUME UNCHANGED ver PROVE SameVer
    BY <1>1 DEF SameVer
  <1>2. ASSUME NEW w \in Executions, PassStep(w)
        PROVE  \/ SameVer
               \/ Settle(w) \/ PrepareStop(w) \/ ActivateWaiting(w)
    <2>1. CASE ExpireConfirmation(w) \/ Claim(w) \/ Load(w) \/ NextSector(w)
               \/ Admit(w) \/ EndRead(w) \/ BeginBatch(w) \/ BatchStep(w)
               \/ BatchStepFails(w) \/ Catch(w) \/ FindStopping(w)
      BY <1>1, <2>1, ExpireConfirmationEffect, ClaimEffect, LoadEffect,
         NextSectorEffect, AdmitEffect, EndReadEffect, BeginBatchEffect,
         BatchStepEffect, BatchStepFailsEffect, CatchEffect,
         FindStoppingEffect
    <2>2. CASE StopDevice(w) \/ StopRepair(w) \/ DeferStop(w)
               \/ StopRepairFaults(w) \/ CompleteStop(w) \/ BeginTakeover(w)
               \/ TakeDevice(w) \/ TakeRepair(w) \/ TakeoverFaults(w)
               \/ FinishTakeover(w)
      BY <1>1, <2>2, StopDeviceEffect, StopRepairEffect, CompleteStopEffect,
         BeginTakeoverEffect, TakeDeviceEffect, TakeRepairEffect,
         TakeoverFaultsEffect, FinishTakeoverEffect
         DEF DeferStop, StopRepairFaults, RowsRepaired
    <2> QED
      BY <1>2, <2>1, <2>2 DEF PassStep
  <1>3. ASSUME NEW w \in Executions, ReconcilerStep(w) PROVE SameVer
    BY <1>1, <1>3, RunReconciliationEffect
       DEF ReconcilerStep, RowsRepaired, ExpireReconciliation,
           ClaimReconciliation, ReleaseAfterReconciliation,
           CompleteReconciliation, FailReconciliation
  <1>4. ASSUME NEW w \in Executions, Restart(w) PROVE SameVer
    BY <1>4, RestartEffect
  <1>5. CASE Outside
    <2>1. CASE Confirm
      BY <2>1, ConfirmEffect
    <2>2. CASE ~Confirm
      BY <1>1, <1>5, <2>2
         DEF Outside, Operate, SubmitReconciliation, RequestPreview,
             PreviewReads, PreviewEnds, Eject, Insert, LeaseEnds,
             WorkLeaseEnds, ReconciliationLeaseEnds, HelperEnds
    <2> QED
      BY <2>1, <2>2
  <1> QED
    BY <1>2, <1>3, <1>4, <1>5 DEF Next, Outside

(* What an attempt's verifications admitted is not forgotten within it.    *)
LEMMA AdmittedIsKept ==
  ASSUME Typed, Next, rec'.attempt = rec.attempt
  PROVE  VerKept
  <1> SUFFICES ASSUME ver.admitted, ver.attempt = rec.attempt
               PROVE  ver'.admitted /\ ver'.attempt = rec.attempt
    BY DEF VerKept
  <1>1. ASSUME NEW w \in Executions,
               \/ Settle(w) \/ PrepareStop(w) \/ ActivateWaiting(w)
               \/ Renew(w) \/ Crash(w)
        PROVE  ver'.admitted /\ ver'.attempt = rec.attempt
    <2>1. CASE Settle(w)
      BY <2>1, SettleEffect DEF VerKept
    <2>2. CASE PrepareStop(w) \/ ActivateWaiting(w)
      BY <2>2, PrepareStopEffect, ActivateWaitingEffect DEF VerKept
    <2>3. CASE Renew(w) \/ Crash(w)
      BY <2>3, RenewEffect, CrashEffect
    <2> QED
      BY <1>1, <2>1, <2>2, <2>3
  <1>2. ASSUME NEW w \in Executions, VerifierStep(w)
        PROVE  ver'.admitted /\ ver'.attempt = rec.attempt
    BY <1>2, ExpireVerificationEffect, ClaimVerificationEffect,
       OwnCheckpointEffect, SampleEffect, EndVerificationEffect
       DEF VerifierStep, RowsSettled
  <1>3. CASE SubmitVerification \/ RequestStop \/ VerificationLeaseEnds
    BY <1>3, SubmitVerificationEffect, RequestStopEffect,
       VerificationLeaseEffect DEF VerKept
  <1>4. ~RequestResume
    BY RequestResumeEffect DEF Typed, RecTyped, Recs
  <1> QED
    BY <1>1, <1>2, <1>3, <1>4, VerStays DEF SameVer

(* While a verifier holds a fresh verification of an eligible recovery,    *)
(* nobody but itself, its crash and an operator's stop changes that.       *)
LEMMA VerifyingRests ==
  ASSUME IInv, DirtyIsKept, Next, Punctual', NEW w \in Executions,
         CanVerify(w), ver.fresh, ~VerifierStep(w), ~Crash(w), ~RequestStop
  PROVE  rec' = rec /\ HasVerification(w)' /\ ver'.fresh
  <1>1. /\ Typed /\ Rows /\ rec.status = "eligible"
        /\ ver.attempt = rec.attempt
        /\ ver.status = "running" /\ ver.by = w
    BY DEF IInv, CanVerify, HasVerification
  <1>2. /\ work.status # "claimed" /\ \A v \in Executions : ~HasClaim(v)
        /\ \A v \in Executions : ~CurrentStop(v)
    BY <1>1 DEF HasClaim, Rows, ClaimedIsUnsettled, CurrentStop
  <1>3. RowsRepaired => rec' = rec
    BY <1>1, <1>2 DEF RowsRepaired, DirtyIsKept, Outcomes
  <1>4. ASSUME NEW v \in Executions, VerifierStep(v)
        PROVE  UNCHANGED <<rec, ver>>
    <2>1. ~HasVerification(v)
      BY <1>1, <1>4 DEF HasVerification
    <2> QED
      BY <1>1, <1>4, <2>1, ExpireVerificationEffect, ClaimVerificationEffect,
         OwnCheckpointEffect, SampleEffect, EndVerificationEffect
         DEF VerifierStep, CanVerify
  <1>5. rec' = rec
    <2>1. ASSUME NEW v \in Executions,
               \/ Claim(v) \/ Admit(v) \/ BatchStep(v) \/ Settle(v) \/ Catch(v)
               \/ PrepareStop(v) \/ StopDevice(v) \/ StopRepair(v)
               \/ DeferStop(v) \/ StopRepairFaults(v) \/ CompleteStop(v)
          PROVE  rec' = rec
      BY <1>1, <1>2, <1>3, <2>1, ClaimEffect, AdmitEffect, BatchStepEffect,
         SettleEffect, CatchEffect, PrepareStopEffect, StopDeviceEffect,
         StopRepairEffect, StopFaultsEffect, CompleteStopEffect
         DEF DeferStop, StopRepairFaults
    <2>2. ASSUME NEW v \in Executions,
              \/ BeginTakeover(v) \/ TakeDevice(v) \/ TakeRepair(v)
              \/ TakeoverFaults(v) \/ FinishTakeover(v) \/ ActivateWaiting(v)
              \/ RunReconciliation(v) \/ ReleaseAfterReconciliation(v)
              \/ Renew(v) \/ Crash(v) \/ VerifierStep(v)
          PROVE  rec' = rec
      BY <1>1, <1>2, <1>3, <1>4, <2>2, BeginTakeoverEffect, TakeDeviceEffect,
         TakeRepairEffect, TakeoverFaultsEffect, FinishTakeoverEffect,
         ActivateWaitingEffect, RunReconciliationEffect, ReleaseEffect,
         RenewEffect, CrashEffect
    <2>3. CASE SubmitVerification \/ Confirm \/ RequestResume \/ WorkLeaseEnds
      BY <1>1, <2>3, SubmitVerificationEffect, ConfirmEffect,
         RequestResumeEffect, WorkLeaseEffect
    <2> QED
      BY <1>1, <2>1, <2>2, <2>3, RowsStay
  <1>6. HasVerification(w)' /\ ver'.fresh
    <2>1. ASSUME NEW v \in Executions,
                 \/ Settle(v) \/ PrepareStop(v) \/ ActivateWaiting(v)
                 \/ VerifierStep(v) \/ Renew(v) \/ Crash(v)
          PROVE  HasVerification(w)' /\ ver'.fresh
      <3>1. CASE Settle(v) \/ PrepareStop(v) \/ ActivateWaiting(v)
                 \/ VerifierStep(v)
        <4>1. ver' = ver
          BY <1>1, <1>2, <1>4, <3>1, SettleEffect, PrepareStopEffect,
             ActivateWaitingEffect
        <4> QED
          BY <1>1, <4>1 DEF HasVerification
      <3>2. CASE Renew(v)
        BY <1>1, <3>2, RenewEffect DEF HasVerification
      <3>3. CASE Crash(v)
        BY <1>1, <3>3, CrashEffect DEF HasVerification
      <3> QED
        BY <2>1, <3>1, <3>2, <3>3
    <2>2. ~SubmitVerification /\ ~RequestResume
      BY <1>1, SubmitVerificationEffect, RequestResumeEffect
         DEF ActiveVerification
    <2>3. ~VerificationLeaseEnds
      BY <1>1, VerificationLeaseEffect DEF VerificationRenewed
    <2>4. SameVer => HasVerification(w)' /\ ver'.fresh
      BY <1>1 DEF SameVer, HasVerification
    <2> QED
      BY <1>1, <2>1, <2>2, <2>3, <2>4, VerStays
  <1> QED
    BY <1>5, <1>6

(* A verifier that samples the disc is the one the rows know of.           *)
LEMMA SamplingCountsStep ==
  ASSUME IInv, DirtyIsKept, StopAlone, SamplingCounts, Next, Punctual'
  PROVE  SamplingCounts'
  <1> SUFFICES ASSUME NEW w \in Executions, run'[w].verify = "sampling"
               PROVE  /\ rec'.status \in {"eligible", "stopping", "faulted"}
                      /\ rec'.status # "faulted" =>
                           ver'.admitted /\ ver'.attempt = rec'.attempt
                      /\ rec'.status = "eligible" =>
                           HasVerification(w)' /\ ver'.fresh
    BY DEF SamplingCounts
  <1>1. Typed /\ Rows
    BY DEF IInv
  <1>2. CASE VerifierStep(w)
    BY <1>1, <1>2, SamplingEntered DEF CanVerify, HasVerification
  <1>3. CASE ~VerifierStep(w)
    <2>1. run[w].verify = "sampling" /\ ~Crash(w)
      BY <1>1, <1>3, VerifierMover, CrashEffect, RestartEffect
    <2>2. /\ rec.status \in {"eligible", "stopping", "faulted"}
          /\ rec.status # "faulted" =>
               ver.admitted /\ ver.attempt = rec.attempt
          /\ rec.status = "eligible" => HasVerification(w) /\ ver.fresh
      BY <2>1 DEF SamplingCounts
    <2>3. ~RequestResume /\ rec'.attempt = rec.attempt
      BY <1>1, <2>2, AttemptsGrow, RequestResumeEffect
    <2>4. VerKept
      BY <1>1, <2>3, AdmittedIsKept
    <2>5. CASE rec.status = "faulted"
      BY <1>1, <2>5, EndedStays
    <2>6. CASE rec.status = "stopping"
      <3>1. \A v \in Executions : ~(CompleteStop(v) /\ CurrentStop(v))
        BY <2>1 DEF CompleteStop, StopAlone, StopSteps, At
      <3> QED
        BY <1>1, <2>2, <2>3, <2>4, <2>6, <3>1, StoppingStays DEF VerKept
    <2>7. CASE rec.status = "eligible"
      <3>1. CanVerify(w) /\ ver.fresh
        BY <2>2, <2>7 DEF CanVerify
      <3>2. CASE RequestStop
        BY <1>1, <2>2, <2>3, <2>7, <3>2, RequestStopEffect
      <3>3. CASE ~RequestStop
        BY <1>3, <2>1, <2>2, <2>3, <2>4, <2>7, <3>1, <3>3, VerifyingRests
           DEF VerKept
      <3> QED
        BY <3>2, <3>3
    <2> QED
      BY <2>2, <2>5, <2>6, <2>7
  <1> QED
    BY <1>2, <1>3

(* A pass that read the checkpoint began with a claim, or as a takeover    *)
(* that found nobody writing the image.                                    *)
LEMMA ClearEntered ==
  ASSUME Typed, NEW w \in Executions, PassStep(w), run'[w].pass.pc \in Clear
  PROVE  \/ run[w].pass.pc \in Clear \/ Claim(w)
         \/ TakeRepair(w) /\ ImageFree
  BY ExpireConfirmationEffect, ClaimEffect, LoadEffect, NextSectorEffect,
     AdmitEffect, EndReadEffect, BeginBatchEffect, BatchStepEffect,
     BatchStepFailsEffect,
     SettleEffect, CatchEffect, FindStoppingEffect, PrepareStopEffect,
     StopDeviceEffect, StopRepairEffect, Dismissed, StopFaultsEffect,
     CompleteStopEffect, BeginTakeoverEffect, TakeDeviceEffect,
     TakeRepairEffect, TakeoverFaultsEffect, FinishTakeoverEffect,
     ActivateWaitingEffect
     DEF PassStep, DeferStop, StopRepairFaults, Clear, Loaded

LEMMA TakeRepairEntered ==
  ASSUME Typed, NEW w \in Executions, PassStep(w),
         run'[w].pass.pc = "take_repair"
  PROVE  \/ run'[w].pass = run[w].pass
         \/ BeginTakeover(w) \/ (TakeDevice(w) /\ DeviceFree)
  BY ExpireConfirmationEffect, ClaimEffect, LoadEffect, NextSectorEffect,
     AdmitEffect, EndReadEffect, BeginBatchEffect, BatchStepEffect,
     BatchStepFailsEffect,
     SettleEffect, CatchEffect, FindStoppingEffect, PrepareStopEffect,
     StopDeviceEffect, StopRepairEffect, Dismissed, StopFaultsEffect,
     CompleteStopEffect, BeginTakeoverEffect, TakeDeviceEffect,
     TakeRepairEffect, TakeoverFaultsEffect, FinishTakeoverEffect,
     ActivateWaitingEffect
     DEF PassStep, DeferStop, StopRepairFaults

(* Helpers outlive their execution by a crash only.                        *)
LEMMA OrphansLeft ==
  ASSUME Typed, Next
  PROVE  orphans' \subseteq orphans \/ \E w \in Executions : Crash(w)
  <1>1. ASSUME NEW w \in Executions, PassStep(w) \/ VerifierStep(w)
                                     \/ ReconcilerStep(w)
        PROVE  orphans' = orphans
    BY <1>1, PassMoves, VerifierMoves, ReconcilerMoves DEF Typed
  <1>2. ASSUME NEW w \in Executions, Renew(w) \/ Restart(w)
        PROVE  orphans' = orphans
    BY <1>2, RenewEffect, RestartEffect
  <1>3. CASE Outside
    BY <1>3, OutsideMoves
  <1> QED
    BY <1>1, <1>2, <1>3 DEF Next, Outside

(* A helper that writes the image keeps the claim from being given up.     *)
LEMMA ImageHeldStep ==
  ASSUME IInv, BusyHolds, StopRepaired, RepairedRests, ImageHeld, Next
  PROVE  ImageHeld'
  <1> SUFFICES ASSUME "image" \in orphans'
               PROVE  /\ work'.status = "claimed"
                      /\ \A w \in Executions :
                           HasClaim(w)' => run'[w].pass.pc \notin Clear
    BY DEF ImageHeld
  <1>1. Typed
    BY DEF IInv
  <1>2. CASE "image" \notin orphans
    <2>1. PICK v \in Executions : Crash(v)
      BY <1>1, <1>2, OrphansLeft
    <2>2. run[v].pass.pc = "batch"
      BY <1>1, <1>2, <2>1, CrashEffect
    <2>3. HasClaim(v)
      BY <2>2 DEF BusyHolds, Busy
    <2> QED
      BY <1>1, <2>1, <2>3, CrashEffect DEF Forgotten, HasClaim
  <1>3. CASE "image" \in orphans
    <2>1. /\ work.status = "claimed" /\ ImageWritten
          /\ \A w \in Executions : HasClaim(w) => run[w].pass.pc \notin Clear
      BY <1>3 DEF ImageHeld, ImageWritten
    <2>2. work'.status = "claimed"
      <3>1. ASSUME NEW w \in Executions, HasClaim(w),
                   Settle(w) \/ Catch(w) \/ FinishTakeover(w)
            PROVE  FALSE
        BY <1>1, <2>1, <3>1, SettleEffect, CatchEffect, FinishTakeoverEffect
           DEF Clear, Loaded
      <3>2. ASSUME NEW w \in Executions, CompleteStop(w), CurrentStop(w)
            PROVE  FALSE
        BY <2>1, <3>2 DEF CompleteStop, StopRepaired
      <3>3. ASSUME NEW w \in Executions, ReleaseAfterReconciliation(w)
            PROVE  FALSE
        BY <2>1, <3>3 DEF ReleaseAfterReconciliation, RepairedRests
      <3> QED
        BY <1>1, <2>1, <3>1, <3>2, <3>3, ClaimLost
    <2>3. ASSUME NEW w \in Executions, HasClaim(w)', run'[w].pass.pc \in Clear
          PROVE  FALSE
      <3>1. ~Claim(w)
        BY <1>1, <2>1, ClaimEffect
      <3>2. ~BeginTakeover(w)
        BY <1>1, <2>3, BeginTakeoverEffect DEF Clear, Loaded
      <3>3. HasClaim(w) /\ run[w].pass.pc \notin Clear
        BY <1>1, <2>1, <2>3, <3>1, <3>2, ClaimGained
      <3>4. ~Crash(w) /\ ~Restart(w)
        BY <1>1, <2>3, CrashEffect, RestartEffect DEF Clear, Loaded
      <3>5. ~PassStep(w)
        BY <1>1, <2>1, <2>3, <3>1, <3>3, ClearEntered DEF ImageFree
      <3> QED
        BY <1>1, <2>3, <3>3, <3>4, <3>5, PassMover
    <2> QED
      BY <2>2, <2>3
  <1> QED
    BY <1>2, <1>3

(* A recovery stops at the end of a stop.                                  *)
LEMMA StoppedEntered ==
  ASSUME Typed, Next, rec'.status = "stopped", rec.status # "stopped"
  PROVE  \E w \in Executions : CompleteStop(w) /\ CurrentStop(w)
  <1> USE DEF RowsRepaired
  <1>1. ASSUME NEW v \in Executions,
               \/ Claim(v) \/ Admit(v) \/ BatchStep(v) \/ Settle(v) \/ Catch(v)
               \/ PrepareStop(v) \/ StopDevice(v) \/ StopRepair(v)
               \/ DeferStop(v) \/ StopRepairFaults(v)
        PROVE  FALSE
    BY <1>1, ClaimEffect, AdmitEffect, BatchStepEffect,
       SettleEffect, CatchEffect, PrepareStopEffect, StopDeviceEffect,
       StopRepairEffect, StopFaultsEffect DEF DeferStop, StopRepairFaults
  <1>2. ASSUME NEW v \in Executions,
              \/ BeginTakeover(v) \/ TakeDevice(v) \/ TakeRepair(v)
              \/ TakeoverFaults(v) \/ FinishTakeover(v) \/ ActivateWaiting(v)
              \/ RunReconciliation(v) \/ Renew(v) \/ Crash(v)
        PROVE  FALSE
    BY <1>2, BeginTakeoverEffect, TakeDeviceEffect,
       TakeRepairEffect, TakeoverFaultsEffect, FinishTakeoverEffect,
       ActivateWaitingEffect, RunReconciliationEffect, RenewEffect, CrashEffect
  <1>3. ASSUME NEW v \in Executions, VerifierStep(v) PROVE FALSE
    BY <1>3, ExpireVerificationEffect, ClaimVerificationEffect,
       OwnCheckpointEffect, SampleEffect, EndVerificationEffect
       DEF VerifierStep, RowsSettled
  <1>4. ASSUME NEW v \in Executions, ReleaseAfterReconciliation(v)
        PROVE  FALSE
    BY <1>4 DEF ReleaseAfterReconciliation, Typed, RecTyped, Recs
  <1>5. ASSUME \/ SubmitVerification \/ Confirm \/ RequestResume
               \/ RequestStop \/ WorkLeaseEnds
        PROVE  FALSE
    BY <1>5, SubmitVerificationEffect, ConfirmEffect, RequestResumeEffect,
       RequestStopEffect, WorkLeaseEffect
  <1>6. ASSUME NEW v \in Executions, CompleteStop(v) PROVE CurrentStop(v)
    BY <1>6, CompleteStopEffect
  <1> QED
    BY <1>1, <1>2, <1>3, <1>4, <1>5, <1>6, RowsStay

(* A stopped recovery has nothing left to do.                              *)
LEMMA StoppedRestsStep ==
  ASSUME IInv, StopAlone, StopRepaired, StoppedRests, Next
  PROVE  StoppedRests'
  <1> SUFFICES ASSUME rec'.status = "stopped"
               PROVE  /\ work'.status = "none" /\ evidence' = "clean"
                      /\ ~ImageWritten'
                      /\ ~(ActiveVerification' /\ ver'.attempt = rec'.attempt)
    BY DEF StoppedRests
  <1>1. Typed /\ Rows
    BY DEF IInv
  <1>2. CASE rec.status = "stopped"
    <2>1. /\ work.status = "none" /\ evidence = "clean" /\ ~ImageWritten
          /\ ~(ActiveVerification /\ ver.attempt = rec.attempt)
          /\ \A w \in Executions : ~HasClaim(w) /\ ~CurrentStop(w)
      BY <1>2 DEF StoppedRests, HasClaim, CurrentStop
    <2>2. rec' = rec /\ ~RequestResume
      BY <1>1, <1>2, EndedStays, RequestResumeEffect
    <2>3. evidence' = "clean" /\ work'.status = "none"
      BY <1>2, <2>1, <2>2, EndedRests
    <2>4. ~ImageWritten'
      BY <1>1, <2>1, ImageRests, BeginBatchEffect
    <2>5. ~(ActiveVerification' /\ ver'.attempt = rec.attempt)
      <3>1. ASSUME NEW w \in Executions,
                   \/ Settle(w) \/ PrepareStop(w) \/ ActivateWaiting(w)
                   \/ Renew(w) \/ Crash(w)
            PROVE  ~(ActiveVerification' /\ ver'.attempt = rec.attempt)
        BY <1>1, <1>2, <2>1, <3>1, SettleEffect, PrepareStopEffect,
           ActivateWaitingEffect, RenewEffect, CrashEffect
           DEF ActiveVerification
      <3>2. ASSUME NEW w \in Executions, VerifierStep(w)
            PROVE  ~(ActiveVerification' /\ ver'.attempt = rec.attempt)
        BY <1>1, <1>2, <2>1, <3>2, ExpireVerificationEffect,
           ClaimVerificationEffect, OwnCheckpointEffect, SampleEffect,
           EndVerificationEffect
           DEF VerifierStep, RowsSettled, ActiveVerification, CanVerify
      <3>3. CASE SubmitVerification \/ RequestStop \/ VerificationLeaseEnds
        BY <1>1, <1>2, <2>1, <3>3, SubmitVerificationEffect,
           RequestStopEffect, VerificationLeaseEffect DEF ActiveVerification
      <3>4. CASE SameVer
        BY <2>1, <3>4 DEF SameVer, ActiveVerification
      <3> QED
        BY <1>1, <2>2, <3>1, <3>2, <3>3, <3>4, VerStays
    <2> QED
      BY <2>2, <2>3, <2>4, <2>5
  <1>3. CASE rec.status # "stopped"
    <2>1. PICK w \in Executions : CompleteStop(w) /\ CurrentStop(w)
      BY <1>1, <1>3, StoppedEntered
    <2>2. run[w].pass.pc = "stop_done"
      BY <1>1, <2>1, CompleteStopEffect
    <2>3. evidence = "clean" /\ ~ImageWritten
      BY <2>1, <2>2 DEF StopRepaired, At
    <2>4. \A v \in Executions : run[v].pass.pc # "read"
      BY <2>1, <2>2 DEF StopAlone, StopSteps
    <2>5. evidence' = "clean" /\ ~ImageWritten'
      BY <1>1, <2>3, <2>4, ImageRests, BeginBatchEffect
    <2>6. /\ work'.status = "none" /\ ver' = ver
          /\ rec'.attempt = rec.attempt
          /\ ~(ActiveVerification /\ ver.attempt = rec.attempt)
      BY <1>1, <1>3, <2>1, CompleteStopEffect
    <2> QED
      BY <2>5, <2>6 DEF ActiveVerification
  <1> QED
    BY <1>2, <1>3

(* A reservation that waits has admitted nothing, and one that is held     *)
(* keeps what it admitted.                                                 *)
LEMMA WaitingUnadmittedStep ==
  ASSUME Typed, WaitingUnadmitted, Next
  PROVE  /\ WaitingUnadmitted'
         /\ (work.status = "claimed" /\ work'.status = "claimed"
               => (work.admitted => work'.admitted))
  <1> DEFINE Goal ==
        /\ work'.status # "claimed" => ~work'.admitted
        /\ work.status = "claimed" /\ work'.status = "claimed"
             => (work.admitted => work'.admitted)
  <1> USE DEF SameWork, Forgotten, RowsRepaired, GivenUp, WaitingUnadmitted
  <1>1. ASSUME NEW v \in Executions,
               \/ Claim(v) \/ Admit(v) \/ BatchStep(v) \/ Settle(v) \/ Catch(v)
        PROVE  Goal
    BY <1>1, ClaimEffect, AdmitEffect, BatchStepEffect, SettleEffect,
       CatchEffect DEF HasClaim
  <1>2. ASSUME NEW v \in Executions,
               \/ PrepareStop(v) \/ StopDevice(v) \/ StopRepair(v)
               \/ DeferStop(v) \/ StopRepairFaults(v) \/ CompleteStop(v)
        PROVE  Goal
    BY <1>2, PrepareStopEffect, StopDeviceEffect, StopRepairEffect,
       Dismissed, StopFaultsEffect, CompleteStopEffect
       DEF DeferStop, StopRepairFaults
  <1>3. ASSUME NEW v \in Executions,
               \/ BeginTakeover(v) \/ TakeDevice(v) \/ TakeRepair(v)
               \/ TakeoverFaults(v) \/ FinishTakeover(v) \/ ActivateWaiting(v)
        PROVE  Goal
    BY <1>3, BeginTakeoverEffect, TakeDeviceEffect, TakeRepairEffect,
       TakeoverFaultsEffect, FinishTakeoverEffect, ActivateWaitingEffect
       DEF InterruptedClaim
  <1>4. ASSUME NEW v \in Executions,
               \/ VerifierStep(v) \/ RunReconciliation(v) \/ Renew(v)
               \/ ReleaseAfterReconciliation(v) \/ Crash(v)
        PROVE  Goal
    BY <1>4, VerifierMoves, RunReconciliationEffect, RenewEffect,
       ReleaseEffect, CrashEffect DEF Typed
  <1>5. ASSUME SubmitVerification \/ Confirm \/ RequestResume \/ RequestStop
               \/ WorkLeaseEnds
        PROVE  Goal
    BY <1>5, SubmitVerificationEffect, ConfirmEffect, RequestResumeEffect,
       RequestStopEffect, WorkLeaseEffect
  <1>6. CASE UNCHANGED <<rec, work>>
    BY <1>6
  <1> QED
    BY <1>1, <1>2, <1>3, <1>4, <1>5, <1>6, RowsStay

(* A recovery pauses at the end of a pass or of a takeover.                *)
LEMMA PausedEntered ==
  ASSUME Typed, Rows, Next, rec'.status = "paused", rec.status # "paused"
  PROVE  \E w \in Executions :
           /\ HasClaim(w) /\ rec.status = "running"
           /\ run[w].pass.pc \in Clear \union {"take_repair"}
  <1> USE DEF RowsRepaired
  <1>1. ASSUME NEW v \in Executions,
               \/ Claim(v) \/ Admit(v) \/ BatchStep(v)
               \/ PrepareStop(v) \/ StopDevice(v) \/ StopRepair(v)
               \/ DeferStop(v) \/ StopRepairFaults(v) \/ CompleteStop(v)
        PROVE  FALSE
    BY <1>1, ClaimEffect, AdmitEffect, BatchStepEffect,
       PrepareStopEffect, StopDeviceEffect, StopRepairEffect,
       StopFaultsEffect, CompleteStopEffect DEF DeferStop, StopRepairFaults
  <1>2. ASSUME NEW v \in Executions,
              \/ BeginTakeover(v) \/ TakeDevice(v) \/ TakeRepair(v)
              \/ FinishTakeover(v) \/ ActivateWaiting(v)
              \/ RunReconciliation(v) \/ Renew(v) \/ Crash(v)
        PROVE  FALSE
    BY <1>2, BeginTakeoverEffect, TakeDeviceEffect, TakeRepairEffect,
       FinishTakeoverEffect, ActivateWaitingEffect, RunReconciliationEffect,
       RenewEffect, CrashEffect
  <1>3. ASSUME NEW v \in Executions, VerifierStep(v) PROVE FALSE
    BY <1>3, ExpireVerificationEffect, ClaimVerificationEffect,
       OwnCheckpointEffect, SampleEffect, EndVerificationEffect
       DEF VerifierStep, RowsSettled
  <1>4. ASSUME NEW v \in Executions, ReleaseAfterReconciliation(v)
        PROVE  FALSE
    BY <1>4 DEF ReleaseAfterReconciliation, Typed, RecTyped, Recs
  <1>5. ASSUME \/ SubmitVerification \/ Confirm \/ RequestResume
               \/ RequestStop \/ WorkLeaseEnds
        PROVE  FALSE
    BY <1>5, SubmitVerificationEffect, ConfirmEffect, RequestResumeEffect,
       RequestStopEffect, WorkLeaseEffect
  <1>6. ASSUME NEW v \in Executions, Settle(v) \/ Catch(v) \/ TakeoverFaults(v)
        PROVE  /\ HasClaim(v) /\ rec.status = "running"
               /\ run[v].pass.pc \in Clear \union {"take_repair"}
    BY <1>6, SettleEffect, CatchEffect, TakeoverFaultsEffect
       DEF Clear, Loaded
  <1> QED
    BY <1>1, <1>2, <1>3, <1>4, <1>5, <1>6, RowsStay

(* Of a helper that reads the disc the rows know, as long as the recovery  *)
(* was not resumed.                                                        *)
LEMMA HelperKnownStep ==
  ASSUME IInv, ReconcilersHold, StopStanding, BusyHolds, SamplingCounts,
         StopAlone, WaitingUnadmitted, HelperKnown, Next
  PROVE  HelperKnown'
  <1> SUFFICES ASSUME rec'.attempt = 1, "device" \in orphans'
               PROVE  /\ rec'.status # "stopped"
                      /\ rec'.status # "faulted" =>
                           work'.admitted \/ VerAdmitted'
                      /\ rec'.status = "paused" => VerAdmitted'
                      /\ rec'.status # "faulted" => \A w \in Executions :
                           HasClaim(w)'
                           /\ run'[w].pass.pc \in Clear \union {"take_repair"}
                             => VerAdmitted'
                      /\ \A w \in Executions : CurrentStop(w)' =>
                           run'[w].pass.pc \notin {"stop_repair", "stop_done"}
    BY DEF HelperKnown
  <1>1. Typed /\ Rows
    BY DEF IInv
  <1>2. ~RequestResume /\ rec.attempt = 1
    <2>1. rec.attempt >= 1 /\ rec.attempt \in Nat
      BY DEF IInv, Bounded, Attempts, Typed, RestTyped, Budgets, RecTyped, Recs
    <2> QED
      BY <1>1, <2>1, AttemptsGrow, RequestResumeEffect
  <1>3. VerAdmitted => VerAdmitted'
    BY <1>1, <1>2, AdmittedIsKept DEF VerKept, VerAdmitted
  <1>4. CASE "device" \notin orphans
    <2>1. PICK v \in Executions : Crash(v)
      BY <1>1, <1>4, OrphansLeft
    <2>2. run[v].pass.pc = "reading" \/ run[v].verify = "sampling"
      BY <1>1, <1>4, <2>1, CrashEffect
    <2>3. ASSUME NEW w \in Executions, CurrentStop(w)',
                 run'[w].pass.pc \in {"stop_repair", "stop_done"}
          PROVE  FALSE
      <3>1. rec' = rec /\ w # v /\ run'[w].pass = run[w].pass
        BY <1>1, <2>1, <2>3, CrashEffect DEF OthersStay
      <3>2. CurrentStop(w)
        BY <2>3, <3>1 DEF CurrentStop
      <3> QED
        BY <2>2, <2>3, <3>1, <3>2 DEF StopAlone, StopSteps, At
    <2>4. CASE run[v].pass.pc = "reading"
      <3>1. /\ HasClaim(v) /\ rec.status \in {"running", "stopping"}
            /\ work.admitted
        BY <2>4 DEF BusyHolds, Busy
      <3>2. rec' = rec /\ work'.admitted /\ \A w \in Executions : ~HasClaim(w)'
        BY <1>1, <2>1, <3>1, CrashEffect, ZenonT(60) DEF Forgotten, HasClaim
      <3> QED
        BY <2>3, <3>1, <3>2
    <2>5. CASE run[v].verify = "sampling"
      <3>1. /\ rec.status \in {"eligible", "stopping", "faulted"}
            /\ rec.status # "faulted" => VerAdmitted
        BY <1>2, <2>5 DEF SamplingCounts, VerAdmitted
      <3>2. rec' = rec
        BY <1>1, <2>1, CrashEffect
      <3> QED
        BY <1>3, <2>3, <3>1, <3>2
    <2> QED
      BY <2>2, <2>4, <2>5
  <1>5. CASE "device" \in orphans
    <2>1. /\ rec.status # "stopped"
          /\ rec.status # "faulted" => work.admitted \/ VerAdmitted
          /\ rec.status = "paused" => VerAdmitted
          /\ rec.status # "faulted" => \A w \in Executions :
               HasClaim(w)
               /\ run[w].pass.pc \in Clear \union {"take_repair"} =>
                    VerAdmitted
          /\ \A w \in Executions : CurrentStop(w) =>
               run[w].pass.pc \notin {"stop_repair", "stop_done"}
      BY <1>2, <1>5 DEF HelperKnown
    <2>2. \A w \in Executions : ~(CompleteStop(w) /\ CurrentStop(w))
      BY <2>1 DEF CompleteStop, At
    <2>3. rec'.status # "stopped"
      BY <1>1, <2>1, <2>2, StoppedEntered
    <2>4. rec'.status # "faulted" => rec.status # "faulted"
      BY <1>1, EndedStays
    <2>5. ~DeviceFree
      BY <1>5 DEF DeviceFree
    <2>6. ASSUME rec.status # "faulted", ~VerAdmitted
          PROVE  work'.admitted
      <3>1. work.admitted /\ work.status = "claimed"
        BY <2>1, <2>6 DEF WaitingUnadmitted
      <3>2. ASSUME NEW w \in Executions, HasClaim(w),
                   Settle(w) \/ Catch(w) \/ FinishTakeover(w)
            PROVE  FALSE
        <4>1. run[w].pass.pc \in Clear
          BY <1>1, <3>2, SettleEffect, CatchEffect, FinishTakeoverEffect
             DEF Clear, Loaded
        <4> QED
          BY <2>1, <2>6, <3>2, <4>1
      <3>3. ASSUME NEW w \in Executions, ReleaseAfterReconciliation(w),
                   rec.status # "stopping"
            PROVE  FALSE
        <4>1. recon.status = "running"
          BY <1>1, <3>3, ReleaseEffect DEF ReconcilersHold, HasReconciliation
        <4> QED
          BY <1>1, <2>1, <2>6, <3>1, <3>3, <4>1
             DEF Rows, ClaimedIsUnsettled, ReconciliationExcludesPass
      <3>4. work'.status = "claimed"
        BY <1>1, <2>2, <3>1, <3>2, <3>3, ClaimLost
      <3> QED
        BY <1>1, <3>1, <3>4, WaitingUnadmittedStep
    <2>7. rec'.status = "paused" => VerAdmitted'
      BY <1>1, <1>3, <2>1, PausedEntered
    <2>8. ASSUME rec.status # "faulted", ~VerAdmitted, NEW w \in Executions,
                 HasClaim(w)', run'[w].pass.pc \in Clear \union {"take_repair"}
          PROVE  FALSE
      <3>1. work.admitted /\ work.status = "claimed"
        BY <2>1, <2>8 DEF WaitingUnadmitted
      <3>2. ~Claim(w)
        BY <1>1, <3>1, ClaimEffect
      <3>3. ~BeginTakeover(w)
        BY <1>1, <2>8, <3>1, BeginTakeoverEffect DEF Clear, Loaded
      <3>4. HasClaim(w)
        BY <1>1, <2>8, <3>2, <3>3, ClaimGained
      <3>5. run[w].pass.pc \notin Clear \union {"take_repair"}
        BY <2>1, <2>8, <3>4
      <3>6. ~Crash(w) /\ ~Restart(w)
        BY <1>1, <2>8, CrashEffect, RestartEffect DEF Clear, Loaded
      <3>7. PassStep(w) /\ run'[w].pass # run[w].pass
        BY <1>1, <2>8, <3>5, <3>6, PassMover
      <3>8. ~TakeRepair(w)
        BY <1>1, <3>5, TakeRepairEffect
      <3> QED
        BY <1>1, <2>5, <2>8, <3>2, <3>3, <3>5, <3>7, <3>8, ClearEntered,
           TakeRepairEntered
    <2>9. ASSUME NEW w \in Executions, CurrentStop(w)',
                 run'[w].pass.pc \in {"stop_repair", "stop_done"}
          PROVE  FALSE
      <3>1. /\ CurrentStop(w)
            /\ StopDevice(w) \/ StopRepair(w) \/ run'[w].pass = run[w].pass
        BY <2>9, StopGoesOn DEF StopSteps
      <3>2. run[w].pass.pc \notin {"stop_repair", "stop_done"}
        BY <2>1, <3>1
      <3>3. StopDevice(w)
        BY <1>1, <2>9, <3>1, <3>2, StopRepairEffect
      <3>4. ~AdmittedDevice(w)
        BY <1>1, <2>5, <2>9, <3>3, StopDeviceEffect
      <3> QED
        BY <1>2, <2>1, <3>1, <3>4
           DEF CurrentStop, AdmittedDevice, VerAdmitted
    <2> QED
      BY <1>3, <2>3, <2>4, <2>6, <2>7, <2>8, <2>9
  <1> QED
    BY <1>4, <1>5

(* ----------------------  the invariant of leases  ---------------------- *)
LEMMA LeaseInit == Init => LeaseInv
  <1> SUFFICES ASSUME Init
               PROVE  LeaseInv
    OBVIOUS
  <1>1. /\ rec.status = "eligible" /\ work.status = "none" /\ ~work.admitted
        /\ recon.status = "none" /\ evidence = "clean" /\ orphans = {}
    BY DEF Init, NoWork, NoReconciliation
  <1>2. \A w \in Executions : /\ run[w].pass.pc = "idle"
                              /\ run[w].verify = "idle"
                              /\ run[w].reconcile = "idle" /\ ~HasClaim(w)
    BY <1>1 DEF Init, Quiet, IdlePass, HasClaim
  <1>3. UnsupportedClean /\ StopStanding /\ WaitingUnadmitted
    BY <1>1, <1>2 DEF UnsupportedClean, StopStanding, WaitingUnadmitted,
       StopSteps
  <1>4. PromptInv
    BY <1>1, <1>2 DEF PromptInv, ReconcilersHold, RepairedRests, DirtyIsKept,
       CompletedIsWhole
  <1>5. PunctualInv
    BY <1>1, <1>2 DEF PunctualInv, BusyHolds, Busy, HolderRenews, StopAlone,
       CurrentStop, StopRepaired, ImageHeld, SamplingCounts, StoppedRests,
       HelperKnown
  <1> QED
    BY <1>3, <1>4, <1>5, InvInit DEF LeaseInv

(* A step that changes nothing keeps it.                                   *)
LEMMA LeaseStutter ==
  ASSUME LeaseInv, UNCHANGED vars
  PROVE  LeaseInv'
  <1> USE DEF vars
  <1>1. IInv'
    BY InvStep DEF LeaseInv
  <1>2. /\ UnsupportedClean' = UnsupportedClean
        /\ StopStanding' = StopStanding
        /\ WaitingUnadmitted' = WaitingUnadmitted
    BY DEF UnsupportedClean, StopStanding, WaitingUnadmitted, HasClaim, At
  <1>3. Prompt' = Prompt /\ Punctual' = Punctual
    BY DEF Prompt, Punctual
  <1>4. PromptInv' = PromptInv
    BY DEF PromptInv, ReconcilersHold, RepairedRests, DirtyIsKept,
       CompletedIsWhole, HasReconciliation, ImageWritten, At
  <1>5. /\ BusyHolds' = BusyHolds /\ HolderRenews' = HolderRenews
        /\ StopAlone' = StopAlone /\ StopRepaired' = StopRepaired
    BY DEF BusyHolds, HolderRenews, StopAlone, StopRepaired, HasClaim,
       CurrentStop, TakingOver, ImageWritten, At
  <1>6. /\ ImageHeld' = ImageHeld /\ SamplingCounts' = SamplingCounts
        /\ StoppedRests' = StoppedRests /\ HelperKnown' = HelperKnown
    BY DEF ImageHeld, SamplingCounts, StoppedRests, HelperKnown, HasClaim,
       HasVerification, ActiveVerification, VerAdmitted, CurrentStop,
       ImageWritten, At
  <1> QED
    BY <1>1, <1>2, <1>3, <1>4, <1>5, <1>6 DEF LeaseInv, PunctualInv

(* Every step of every poller and operator keeps it.                       *)
LEMMA LeaseStep == LeaseInv /\ [Next]_vars => LeaseInv'
  <1> SUFFICES ASSUME LeaseInv, [Next]_vars
               PROVE  LeaseInv'
    OBVIOUS
  <1>1. CASE Next
    <2>1. /\ IInv /\ Typed /\ Rows /\ UnsupportedClean /\ StopStanding
          /\ WaitingUnadmitted
          /\ Prompt => PromptInv
          /\ Punctual => PunctualInv
      BY DEF LeaseInv, IInv
    <2>2. (Prompt' => Prompt) /\ (Punctual' => Punctual)
          /\ (Punctual' => Prompt')
      BY <1>1, <2>1, NobodyStalledYet DEF Punctual
    <2>3. IInv'
      BY <2>1, InvStep
    <2>4. UnsupportedClean' /\ StopStanding' /\ WaitingUnadmitted'
      BY <1>1, <2>1, UnsupportedCleanStep, StopStandingStep,
         WaitingUnadmittedStep
    <2>5. ASSUME Prompt' PROVE PromptInv'
      <3>1. /\ ReconcilersHold /\ RepairedRests /\ DirtyIsKept
            /\ CompletedIsWhole
        BY <2>1, <2>2, <2>5 DEF PromptInv
      <3>2. ReconcilersHold' /\ RepairedRests'
        BY <1>1, <2>1, <2>5, <3>1, ReconcilersHoldStep, RepairedRestsStep
      <3>3. DirtyIsKept' /\ CompletedIsWhole'
        BY <1>1, <2>1, <3>1, DirtyIsKeptStep, CompletedIsWholeStep
      <3> QED
        BY <3>2, <3>3 DEF PromptInv
    <2>6. ASSUME Punctual' PROVE PunctualInv'
      <3>1. ReconcilersHold /\ RepairedRests /\ DirtyIsKept
        BY <2>1, <2>2, <2>6 DEF PromptInv
      <3>2. /\ BusyHolds /\ HolderRenews /\ StopAlone /\ StopRepaired
            /\ ImageHeld /\ SamplingCounts /\ StoppedRests /\ HelperKnown
        BY <2>1, <2>2, <2>6 DEF PunctualInv
      <3>3. HolderRenews'
        BY <1>1, <2>1, <2>6, <3>2, HolderRenewsStep
      <3>4. BusyHolds'
        BY <1>1, <2>1, <2>6, <3>1, <3>2, <3>3, BusyHoldsStep
      <3>5. StopAlone' /\ StopRepaired'
        BY <1>1, <2>1, <3>2, StopAloneStep, StopRepairedStep
      <3>6. SamplingCounts'
        BY <1>1, <2>1, <2>6, <3>1, <3>2, SamplingCountsStep
      <3>7. ImageHeld' /\ StoppedRests'
        BY <1>1, <2>1, <3>1, <3>2, ImageHeldStep, StoppedRestsStep
      <3>8. HelperKnown'
        BY <1>1, <2>1, <3>1, <3>2, HelperKnownStep
      <3> QED
        BY <3>2, <3>3, <3>4, <3>5, <3>6, <3>7, <3>8 DEF PunctualInv
    <2> QED
      BY <2>3, <2>4, <2>5, <2>6 DEF LeaseInv
  <1>2. CASE UNCHANGED vars
    BY <1>2, LeaseStutter
  <1> QED
    BY <1>1, <1>2

LEMMA LeaseAlways == Spec => []LeaseInv
  BY LeaseInit, LeaseStep, PTL DEF Spec

(* A recovery is completed only with every sector tried, its evidence      *)
(* settled and its reservation gone, whether a pass's settlement, a lost   *)
(* turn, a takeover or a reconciliation's release completed it.  Prompt:   *)
(* the release proves the attempt and not the claim, so a reconciler that  *)
(* outlasted its lease may release a pass that has evidence to settle.     *)
THEOREM CompletedIsWholeHolds == Spec => [](Prompt => CompletedIsWhole)
  <1>1. LeaseInv => (Prompt => CompletedIsWhole)
    BY DEF LeaseInv, PromptInv
  <1> QED
    BY <1>1, LeaseAlways, PTL

(* Evidence that a batch left unsettled is never up for grabs: the         *)
(* reservation is held, or the recovery is faulted and waits for           *)
(* reconcileDvdRecoveryCheckpoint.  Punctual: a pass that outlasted its    *)
(* lease may begin a batch between a stop's repair and completeStop.       *)
THEOREM EvidenceGuarded == Spec => [](Punctual => DirtyEvidenceIsGuarded)
  <1>1. LeaseInv => (Punctual => DirtyEvidenceIsGuarded)
    BY DEF LeaseInv, PromptInv, PunctualInv, Punctual, DirtyIsKept,
       StoppedRests, DirtyEvidenceIsGuarded
  <1> QED
    BY <1>1, LeaseAlways, PTL

(* While a pass reads the disc, or it or a helper that outlived it writes  *)
(* the image, the reservation is still claimed: a stop, a takeover and a   *)
(* reconciliation prove the device and the image inactive before they give *)
(* it up.  Punctual: as for EvidenceGuarded; and a reconciler that outlasted *)
(* its lease releases the reservation of whoever claimed it since.         *)
THEOREM IOCovered == Spec => [](Punctual => ReservationCoversIO)
  <1>1. LeaseInv => (Punctual => ReservationCoversIO)
    <2> SUFFICES ASSUME BusyHolds, ImageHeld,
                        ImageWritten \/ \E w \in Executions : Doing(w)
                 PROVE  work.status = "claimed"
      BY DEF LeaseInv, PunctualInv, ReservationCoversIO
    <2>1. CASE "image" \in orphans
      BY <2>1 DEF ImageHeld
    <2>2. CASE \E w \in Executions : run[w].pass.pc \in {"reading", "batch"}
      BY <2>2 DEF BusyHolds, Busy, HasClaim
    <2> QED
      BY <2>1, <2>2 DEF ImageWritten, Doing, At
  <1> QED
    BY <1>1, LeaseAlways, PTL

(* A recovery that says stopped has come to rest: no reservation, no       *)
(* evidence, no verification, nobody at the disc or the image.             *)
(* NoOldHelper: a resume forgets what the attempt before it admitted, so   *)
(* nobody looks for a helper that this attempt's execution left behind.    *)
THEOREM StoppedIsQuiet ==
  Spec => [](Punctual /\ NoOldHelper => StoppedIsQuiescent)
  <1>1. LeaseInv => (Punctual /\ NoOldHelper => StoppedIsQuiescent)
    <2> SUFFICES ASSUME LeaseInv, Punctual, NoOldHelper,
                        rec.status = "stopped"
                 PROVE  /\ work.status = "none" /\ evidence = "clean"
                        /\ ~(ActiveVerification /\ ver.attempt = rec.attempt)
                        /\ \A w \in Executions :
                             ~Doing(w) /\ run[w].verify # "sampling"
                        /\ orphans = {}
      BY DEF StoppedIsQuiescent
    <2>1. IInv /\ PunctualInv
      BY DEF LeaseInv
    <2>2. /\ work.status = "none" /\ evidence = "clean" /\ ~ImageWritten
          /\ ~(ActiveVerification /\ ver.attempt = rec.attempt)
      BY <2>1 DEF PunctualInv, StoppedRests
    <2>3. ASSUME NEW w \in Executions
          PROVE  ~Doing(w) /\ run[w].verify # "sampling"
      BY <2>1 DEF PunctualInv, BusyHolds, Busy, SamplingCounts, Doing
    <2>4. "image" \notin orphans
      BY <2>2 DEF ImageWritten
    <2>5. "device" \notin orphans
      <3>1. rec.attempt \in Nat /\ rec.attempt >= 1
        BY <2>1 DEF IInv, Bounded, Attempts, Typed, RestTyped, Budgets,
           RecTyped, Recs
      <3> QED
        BY <2>1, <3>1 DEF NoOldHelper, Resumed, PunctualInv, HelperKnown
    <2>6. orphans = {}
      BY <2>1, <2>4, <2>5 DEF IInv, Typed, RestTyped
    <2> QED
      BY <2>2, <2>3, <2>6
  <1> QED
    BY <1>1, LeaseAlways, PTL
=============================================================================
