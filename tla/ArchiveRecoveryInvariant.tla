---------------------- MODULE ArchiveRecoveryInvariant ----------------------
(***************************************************************************)
(* The inductive invariants of ArchiveRecovery: IInv, whatever happens,    *)
(* and LeaseInv, of what holds while nobody outlasts a lease.              *)
(*                                                                         *)
(* The properties are not inductive as they stand.  That a pass counts a   *)
(* sector once depends on who may hold evidence the database has not seen, *)
(* and that depends on what a poller with the claim has read of it.  That  *)
(* a stopped recovery is at rest depends on every step of the stop, on the *)
(* claims that keep others out meanwhile, and on what the rows remember of *)
(* helpers whose execution is gone.                                        *)
(***************************************************************************)
EXTENDS ArchiveRecovery, Integers

(* Typed: the rows and pollers, their numbers not yet bounded.             *)
Recs  == [status : Statuses, pause : {"none", "no_progress", "storage_fault"},
          attempt : Nat]
Works == [status : {"none", "requested", "claimed"},
          bound : {"none", "latest", "older"}, conf : BOOLEAN, by : Holders,
          fresh : BOOLEAN, started : BOOLEAN, start : Int, recovered : Int,
          failed : Int, admitted : BOOLEAN]
Verifications ==
  [status : {"none", "queued", "running", "completed", "failed"},
   outcome : {"none", "match", "uncertain", "interrupted"}, by : Holders,
   fresh : BOOLEAN, conf : {"none", "live", "expired"}, base : BOOLEAN,
   attempt : Nat, admitted : BOOLEAN]
Reconciliations ==
  [status : {"none", "queued", "running", "completed", "failed"}, by : Holders,
   fresh : BOOLEAN]
PassStates == [pc : PassSteps, attempt : Nat, conf : BOOLEAN,
               out : Outcomes \union {"none"}, fault : Faults,
               locked : BOOLEAN]
Runs == [Executions ->
           [pass : PassStates,
            verify : {"idle", "claimed", "owned", "sampling"},
            reconcile : {"idle", "claimed", "repaired", "released"}]]

RecTyped   == rec \in Recs /\ left \in Int /\ evidence \in EvidenceStates
WorkTyped  == work \in Works
VerTyped   == ver \in Verifications
ReconTyped == recon \in Reconciliations
RestTyped  == /\ disc \in {"none", "verified", "new"}
              /\ preview \in {"none", "pending", "reading"}
              /\ orphans \subseteq {"device", "image"}
              /\ used \in [Budgets -> Nat]
RunTyped   == run \in Runs
Typed == /\ RecTyped /\ WorkTyped /\ VerTyped /\ ReconTyped /\ RestTyped
         /\ RunTyped

(* Bounded: an attempt per resume, and nobody knows a later one.           *)
Budgeted     == \A b \in Budgets : used[b] <= Limit[b]
Attempts     == rec.attempt = used["resume"] + 1 /\ ver.attempt <= rec.attempt
RunsBounded  == \A w \in Executions : run[w].pass.attempt <= rec.attempt
AttemptsSeen == \A w \in Executions : run'[w].pass.attempt <= rec.attempt
Bounded == Budgeted /\ Attempts /\ RunsBounded

(* Rows: a claimed reservation belongs to a recovery that is not settled.  *)
ClaimedIsUnsettled ==
  work.status = "claimed" =>
    rec.status \in {"running", "stopping", "faulted", "paused"}
Rows == /\ ClaimedIsUnsettled
        /\ ReservationMatchesStatus /\ ReconciliationExcludesPass

(* Counted: a started pass tried no more than it started with; before it   *)
(* starts it has counted nothing.                                          *)
Counted ==
  /\ left \in 0..N /\ work.start \in 0..N
  /\ work.recovered >= 0 /\ work.failed >= 0 /\ Todo >= 0
  /\ work.status = "none" => ~work.started
  /\ work.status = "claimed" => work.started
  /\ ~work.started => work.start = 0 /\ work.recovered = 0 /\ work.failed = 0
  /\ PassAccounting

(* Uncounted: the sector of an unprojected batch is still to be counted,   *)
(* and a started pass that waits left no evidence behind.                  *)
Uncounted ==
  /\ evidence \in {"undo", "recovered", "failed"} =>
       left >= 1 /\ (work.status = "claimed" => Todo >= 1)
  /\ work.status = "requested" /\ work.started => evidence = "clean"

(* Control: the poller that holds the claim found the evidence settled at  *)
(* these steps, and has a sector to try from its turn until the batch.     *)
Loaded == {"next", "ready", "reading", "read", "settle", "take_done"}
PassSafe(p, e, todo) ==
  /\ p.pc \in Loaded \/ (p.pc = "failing" /\ p.fault = "preview")
       => e = "clean"
  /\ p.pc \in {"ready", "reading", "read"} \/ (p.pc = "batch" /\ e = "clean")
       => todo >= 1
Control ==
  \A w \in Executions : HasClaim(w) => PassSafe(run[w].pass, evidence, Todo)

IInv == Typed /\ Bounded /\ Rows /\ Counted /\ Uncounted /\ Control

(* Of an action: it gives no claim and counts no sector of a pass that     *)
(* goes on; passes that stay where they are satisfy PassSafe afterwards.   *)
ClaimsKept == \A w \in Executions : HasClaim(w)' => HasClaim(w) /\ Todo' = Todo
OldPassesSafe ==
  \A w \in Executions : HasClaim(w)' => PassSafe(run[w].pass, evidence', Todo')

(* ---------------- while nobody outlasts a lease ---------------------- *)
(* Prompt: no reconciler outlasted its lease yet; Punctual: no pass and no *)
(* verification either.                                                    *)
Prompt   == used["reconStall"] = 0
Punctual == Prompt /\ used["stall"] = 0
NoOldHelper == Resumed => "device" \notin orphans

(* Reconciled: a reconciler at work holds the operation, and between its   *)
(* repair and its release nobody leaves evidence or writes the image.      *)
ReconcilersHold ==
  /\ \A w \in Executions : run[w].reconcile # "idle" => HasReconciliation(w)
  /\ recon.status = "running" /\ recon.by # Nobody => recon.fresh
RepairedRests ==
  \A w \in Executions :
    run[w].reconcile = "repaired" => evidence = "clean" /\ ~ImageWritten

(* Kept: evidence is left behind only under a claim, after a fault, or by  *)
(* a pass that a stop overtook.                                            *)
DirtyIsKept ==
  evidence # "clean" =>
    work.status = "claimed" \/ rec.status \in {"faulted", "stopped"}
UnsupportedClean ==
  \A w \in Executions :
    HasClaim(w) /\ At(w, "failing") /\ run[w].pass.fault = "unsupported"
      => evidence = "clean"
PromptInv == /\ ReconcilersHold /\ RepairedRests /\ DirtyIsKept
             /\ CompletedIsWhole

(* Busy: who reads the disc or writes the image holds the claim.           *)
Busy == {"ready", "reading", "read", "batch"}
BusyHolds ==
  \A w \in Executions : run[w].pass.pc \in Busy =>
    /\ HasClaim(w) /\ rec.status \in {"running", "stopping"}
    /\ run[w].pass.attempt = rec.attempt
    /\ run[w].pass.pc \in {"ready", "read"} => work.fresh
    /\ run[w].pass.pc = "reading" => work.admitted
HolderRenews ==
  \A w \in Executions :
    HasClaim(w) /\ rec.status = "running" /\ ~work.fresh => TakingOver(w)

(* A stop: once its device is proven inactive nobody reads the disc, and   *)
(* after its repair nobody writes the image, until it is done.             *)
StopSteps == {"stop_device", "stop_repair", "stop_done"}
StopStanding ==
  \A w \in Executions :
    run[w].pass.pc \in StopSteps \union {"stopping"}
    /\ run[w].pass.attempt = rec.attempt
      => rec.status \in {"stopping", "stopped", "faulted"}
StopAlone ==
  \A w \in Executions : CurrentStop(w) /\ run[w].pass.pc \in StopSteps =>
    \A v \in Executions :
      /\ run[v].pass.pc \notin {"ready", "read"}
      /\ run[w].pass.pc # "stop_device" =>
           ~At(v, "reading") /\ run[v].verify # "sampling"
StopRepaired ==
  \A w \in Executions :
    CurrentStop(w) /\ At(w, "stop_done") => evidence = "clean" /\ ~ImageWritten

(* Helpers that outlived their execution: one that writes the image keeps  *)
(* the claim from whoever might release it; of one that reads the disc the *)
(* rows know, as long as the recovery was not resumed.                     *)
Clear == Loaded \union {"load", "batch", "failing"}
ImageHeld ==
  "image" \in orphans =>
    /\ work.status = "claimed"
    /\ \A w \in Executions : HasClaim(w) => run[w].pass.pc \notin Clear
SamplingCounts ==
  \A w \in Executions : run[w].verify = "sampling" =>
    /\ rec.status \in {"eligible", "stopping", "faulted"}
    /\ rec.status # "faulted" => ver.admitted /\ ver.attempt = rec.attempt
    /\ rec.status = "eligible" => HasVerification(w) /\ ver.fresh
StoppedRests ==
  rec.status = "stopped" =>
    /\ work.status = "none" /\ evidence = "clean" /\ ~ImageWritten
    /\ ~(ActiveVerification /\ ver.attempt = rec.attempt)
WaitingUnadmitted == work.status # "claimed" => ~work.admitted
VerAdmitted == ver.admitted /\ ver.attempt = 1
HelperKnown ==
  rec.attempt = 1 /\ "device" \in orphans =>
    /\ rec.status # "stopped"
    /\ rec.status # "faulted" => work.admitted \/ VerAdmitted
    /\ rec.status = "paused" => VerAdmitted
    /\ rec.status # "faulted" => \A w \in Executions :
         HasClaim(w) /\ run[w].pass.pc \in Clear \union {"take_repair"} =>
           VerAdmitted
    /\ \A w \in Executions : CurrentStop(w) =>
         run[w].pass.pc \notin {"stop_repair", "stop_done"}
PunctualInv ==
  /\ BusyHolds /\ HolderRenews /\ StopAlone /\ StopRepaired /\ ImageHeld
  /\ SamplingCounts /\ StoppedRests /\ HelperKnown

LeaseInv == /\ IInv /\ UnsupportedClean /\ StopStanding /\ WaitingUnadmitted
            /\ Prompt => PromptInv
            /\ Punctual => PunctualInv
=============================================================================
