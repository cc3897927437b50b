---------------------------- MODULE DiscInspections ----------------------------
(***************************************************************************)
(* The Disc Inspection of one optical drive: the current row, which is     *)
(* begun or resumed from the media generation a poll observes, settles by  *)
(* matching capacity observations, is scanned under a renewable claim and  *)
(* ends completed, failed or no longer current; and the Detected Discs its *)
(* scans register.  Discs are swapped, and the drive renames an insertion  *)
(* while it settles, between any two steps of a poll.  A poller holds one  *)
(* claim at most, so a claim token is named after its poller.  Bounds:     *)
(* MaxGenerations media generations, MaxInspectionFailures consecutive     *)
(* failures before a row fails (5 in the code), MaxPollStops stopped polls,*)
(* leases a live poll lets lapse and absences of the drive together, and   *)
(* MaxManualRetries retry requests.                                        *)
(***************************************************************************)
EXTENDS Integers, Sequences, FiniteSets

CONSTANTS Pollers, DriveDiscs, MaxGenerations, MaxInspectionFailures,
          StableObservations, MaxPollStops, MaxManualRetries

VARIABLES tray,       \* the media generation in the drive, 0 when it is empty
          discAt,     \* the disc behind each generation so far
          insp,       \* the current disc_inspections row of the drive
          discSeen,   \* the status of each Detected Disc
          poller, pollStops, manualRetries

inspectionVars == <<tray, discAt, insp, discSeen, poller, pollStops, manualRetries>>

NoPoll == "nobody"

\* A poll has a name of its own, and at least one observation and one failure
\* settle something.
ASSUME InspectionAssumption ==
  /\ NoPoll \notin Pollers
  /\ MaxGenerations \in Nat /\ MaxPollStops \in Nat /\ MaxManualRetries \in Nat
  /\ StableObservations \in Nat \ {0} /\ MaxInspectionFailures \in Nat \ {0}

NoInspection == [st |-> "none", ph |-> "none", gen |-> 0, tok |-> NoPoll, live |-> FALSE,
                 n |-> 0, done |-> {}, last |-> "none", fails |-> 0, stable |-> 0,
                 manual |-> FALSE, disc |-> 0]
RestingPoll == [pc |-> "idle", mine |-> FALSE, fresh |-> FALSE, gen |-> 0, disc |-> 0]

InspectionInit ==
  /\ tray = 0 /\ discAt = <<>>
  /\ insp = NoInspection
  /\ discSeen = [d \in DriveDiscs |-> "unseen"]
  /\ poller = [w \in Pollers |-> RestingPoll]
  /\ pollStops = 0 /\ manualRetries = 0

(* ------------------------------ the drive ------------------------------ *)
NewGeneration(d) ==
  /\ Len(discAt) < MaxGenerations
  /\ discAt' = Append(discAt, d) /\ tray' = Len(discAt) + 1
  /\ UNCHANGED <<insp, discSeen, poller, pollStops, manualRetries>>
\* A disc goes in, or is swapped for another between two polls.
InsertMedium == \E d \in DriveDiscs : NewGeneration(d)
\* Readiness churn gives the same insertion another generation.
GenerationChurns == tray # 0 /\ NewGeneration(discAt[tray])
EjectMedium ==
  /\ tray # 0 /\ tray' = 0
  /\ UNCHANGED <<discAt, insp, discSeen, poller, pollStops, manualRetries>>

(* ----------------------------- the claim ------------------------------- *)
\* recordSettlingObservation, renew and record: the claim names its generation.
OwnsInspection(w) ==
  /\ poller[w].mine /\ insp.st = "running" /\ insp.tok = w /\ insp.live
  /\ insp.gen = poller[w].gen
SettlingClaim(row, w, g) ==
  [row EXCEPT !.st = "running", !.ph = "settling", !.gen = g, !.tok = w, !.live = TRUE,
              !.stable = 0, !.manual = FALSE]
FreshInspection(w, g) == [SettlingClaim(NoInspection, w, g) EXCEPT !.n = 1]
\* Another execution's attempt that lost its lease is recorded as interrupted.
InterruptedAttempt(row) ==
  IF row.tok = NoPoll THEN row ELSE [row EXCEPT !.done = @ \cup {row.n}, !.n = @ + 1]
\* Generation churn is not another insertion while nothing has settled.
InsertionCanChange ==
  \/ insp.ph = "settling"
  \/ insp.ph = "retry_wait" /\ insp.last = "settling"

\* What beginOrResume leaves in the row when it grants the claim, by case.
Superseded(g) == insp.st = "none" \/ (insp.gen # g /\ ~InsertionCanChange)
ManuallyReopened == insp.st = "failed" /\ insp.manual
\* mutant: only a released claim is taken over
ClaimReleased == insp.tok = NoPoll
ClaimLapsed == insp.tok = NoPoll \/ ~insp.live
Resumable == insp.st = "running" /\ (insp.ph = "retry_wait" \/ ClaimLapsed)
ClaimsInspection(g) == Superseded(g) \/ ManuallyReopened \/ Resumable
BegunOrResumed(w, g) ==
  IF Superseded(g) THEN FreshInspection(w, g)
  ELSE IF ManuallyReopened THEN SettlingClaim([insp EXCEPT !.n = @ + 1, !.fails = 0], w, g)
  ELSE IF insp.ph = "settling" THEN SettlingClaim(InterruptedAttempt(insp), w, g)
  ELSE IF insp.ph = "retry_wait" THEN SettlingClaim([insp EXCEPT !.n = @ + 1], w, g)
  ELSE [InterruptedAttempt(insp) EXCEPT !.tok = w, !.live = TRUE]

\* The attempt ends in a row of its own; retry keeps the inspection current.
AttemptEnded(row) ==
  [row EXCEPT !.done = @ \cup {row.n}, !.last = row.ph, !.tok = NoPoll, !.live = FALSE]
Retried(row) ==
  LET ended == [AttemptEnded(row) EXCEPT !.fails = @ + 1]
  IN  IF row.fails + 1 >= MaxInspectionFailures THEN [ended EXCEPT !.st = "failed"]
      ELSE [ended EXCEPT !.ph = "retry_wait"]
Failed(row) == [AttemptEnded(row) EXCEPT !.st = "failed"]
\* clearCurrent and the abort event leave the drive without a current inspection.
Cleared == NoInspection

Settles(w) == poller' = [poller EXCEPT ![w] = RestingPoll]
OnlyInspection == UNCHANGED <<tray, discAt, discSeen, pollStops, manualRetries>>

(* ------------------------------ one poll ------------------------------- *)
\* onMediaGeneration: a claim is taken before the capacity has been read.
CallbackClaims(g) ==
  \/ insp.st = "none" \/ insp.gen # g \/ ManuallyReopened
  \/ insp.st = "running" /\ (insp.ph = "retry_wait" \/ (insp.ph = "settling" /\ ClaimLapsed))
PollObservesGeneration(w) ==
  /\ poller[w].pc = "idle" /\ tray # 0
  /\ LET claims == CallbackClaims(tray) /\ ClaimsInspection(tray)
     IN  /\ insp' = IF claims THEN BegunOrResumed(w, tray) ELSE insp
         /\ poller' = [poller EXCEPT ![w] = [RestingPoll EXCEPT !.pc = "observing",
                         !.mine = claims, !.fresh = claims /\ Superseded(tray), !.gen = tray]]
  /\ OnlyInspection
\* An empty drive: an unproven inspection this poll began is discarded, a claim is
\* given up by the abort event, and without one clearCurrent ends whatever is there.
NothingInDrive(w) ==
  \/ poller[w].mine /\ ~poller[w].fresh /\ insp' = IF OwnsInspection(w) THEN Cleared ELSE insp
  \/ (~poller[w].mine \/ poller[w].fresh) /\ insp' = Cleared
PollFindsEmpty(w) ==
  /\ poller[w].pc \in {"idle", "observing"} /\ tray = 0
  /\ poller[w].pc = "idle" => insp.st # "none"
  /\ NothingInDrive(w) /\ Settles(w) /\ OnlyInspection

\* recordSettlingObservation: a capacity that was readable and is the one before
\* counts, a changed generation or capacity starts the proof again; the quiet
\* window may need more observations than the target.
Observation(row, g, readable, same) ==
  LET matches == same /\ row.gen = g /\ row.stable > 0
      counted == IF ~readable THEN 0
                 ELSE IF ~matches THEN 1
                 ELSE IF row.stable < StableObservations THEN row.stable + 1 ELSE row.stable
  IN  [row EXCEPT !.gen = g, !.stable = counted]
SettlingOver(row) == [row EXCEPT !.ph = "reading_metadata"]
ObservesInto(w, row) ==
  /\ \E readable \in BOOLEAN, same \in BOOLEAN, quiet \in BOOLEAN :
       LET seen == Observation(row, tray, readable, same)
       IN  insp' = IF quiet /\ seen.stable = StableObservations THEN SettlingOver(seen) ELSE seen
  /\ poller' = [poller EXCEPT ![w] = [RestingPoll EXCEPT !.mine = TRUE, !.gen = tray,
                  !.pc = IF insp'.ph = "settling" THEN "settling" ELSE "scanning"]]
SettlingObserved(w) ==
  /\ poller[w].pc \in {"observing", "settling"} /\ tray # 0
  /\ OwnsInspection(w) /\ insp.ph = "settling"
  /\ ObservesInto(w, insp) /\ OnlyInspection
\* The second beginOrResume, when the callback took no claim.  The capacity it
\* passes is the first observation of a settling row; a row past settling resumes.
PollObservesMedium(w) ==
  /\ poller[w].pc = "observing" /\ ~poller[w].mine /\ tray # 0
  /\ IF ~ClaimsInspection(tray) THEN Settles(w) /\ UNCHANGED insp
     ELSE LET row == BegunOrResumed(w, tray)
          IN  \E readable \in BOOLEAN :
              /\ insp' = IF row.ph = "settling" /\ readable THEN [row EXCEPT !.stable = 1] ELSE row
              /\ poller' = [poller EXCEPT ![w] = [RestingPoll EXCEPT !.mine = TRUE, !.gen = tray,
                              !.pc = IF row.ph = "settling" THEN "settling" ELSE "scanning"]]
  /\ OnlyInspection
SettlingFindsEmpty(w) ==
  /\ poller[w].pc = "settling" /\ tray = 0 /\ OwnsInspection(w)
  /\ insp' = Cleared /\ Settles(w) /\ OnlyInspection
\* The settling deadline is a retry; an observation that fails is one too, unless
\* its error is structured as final.
SettlingTimesOut(w) ==
  /\ poller[w].pc \in {"observing", "settling"} /\ OwnsInspection(w) /\ insp.ph = "settling"
  /\ insp' \in {Retried(insp), Failed(insp)} /\ Settles(w) /\ OnlyInspection

\* scanDvd reads the disc that is there, whatever generation was asked for.
ScanReads(w) ==
  /\ poller[w].pc = "scanning" /\ OwnsInspection(w) /\ tray # 0
  /\ insp' = [insp EXCEPT !.ph = "confirming_media"]
  /\ poller' = [poller EXCEPT ![w].pc = "proving", ![w].disc = discAt[tray]]
  /\ OnlyInspection
\* mutant: any disc in the drive will do
MediumPresent(w) == tray # 0
GenerationHolds(w) == tray = poller[w].gen
\* A scan that fails, and a proof of the generation that fails, observe the
\* medium again: a changed one aborts, anything else is retried or fails.
ScanEnds(w) ==
  /\ poller[w].pc \in {"scanning", "proving"} /\ OwnsInspection(w)
  /\ \/ ~GenerationHolds(w) /\ insp' = Cleared
     \/ GenerationHolds(w) /\ poller[w].pc = "scanning" /\ insp' \in {Retried(insp), Failed(insp)}
  /\ Settles(w) /\ OnlyInspection
\* registerDetectedDisc follows the observation without another await.
RegisterDisc(w) ==
  /\ poller[w].pc = "proving" /\ GenerationHolds(w)
  /\ LET d == poller[w].disc
     IN  /\ discSeen' = [discSeen EXCEPT ![d] = IF @ = "unseen" THEN "detected" ELSE @]
         /\ poller' = [poller EXCEPT ![w].pc =
                         IF discSeen'[d] = "detected" THEN "marking" ELSE "completing"]
  /\ UNCHANGED <<tray, discAt, insp, pollStops, manualRetries>>
\* updateDetectedDiscStatus: refused when another execution has marked the disc,
\* and the refusal is persisted like any other failure of the scan.
MarkScanned(w) ==
  /\ poller[w].pc = "marking"
  /\ \/ /\ discSeen[poller[w].disc] = "detected"
        /\ discSeen' = [discSeen EXCEPT ![poller[w].disc] = "scanned"]
        /\ poller' = [poller EXCEPT ![w].pc = "completing"]
        /\ UNCHANGED insp
     \/ /\ discSeen[poller[w].disc] # "detected" /\ UNCHANGED discSeen
        /\ insp' = IF ~OwnsInspection(w) THEN insp
                   ELSE IF GenerationHolds(w) THEN Retried(insp) ELSE Cleared
        /\ Settles(w)
  /\ UNCHANGED <<tray, discAt, pollStops, manualRetries>>
CompleteInspection(w) ==
  /\ poller[w].pc = "completing" /\ OwnsInspection(w)
  /\ insp' = [AttemptEnded(insp) EXCEPT !.st = "completed", !.fails = 0, !.disc = poller[w].disc]
  /\ Settles(w) /\ OnlyInspection
\* A claim that lapsed or went to another execution: every event is refused.
ClaimRefused(w) ==
  /\ poller[w].pc \notin {"idle", "marking"} /\ poller[w].mine /\ ~OwnsInspection(w)
  /\ poller[w].pc = "observing" => tray # 0
  /\ Settles(w) /\ UNCHANGED insp /\ OnlyInspection

(* --------------------- operator, stops and leases ---------------------- *)
RequestInspectionRetry ==
  /\ insp.st = "failed" /\ ~insp.manual /\ manualRetries < MaxManualRetries
  /\ insp' = [insp EXCEPT !.manual = TRUE] /\ manualRetries' = manualRetries + 1
  /\ UNCHANGED <<tray, discAt, discSeen, poller, pollStops>>
\* The drive is gone from the discovery, or disabled, for one poll.
DriveUnavailable ==
  /\ insp.st # "none" /\ pollStops < MaxPollStops /\ pollStops' = pollStops + 1
  /\ insp' = Cleared /\ UNCHANGED <<tray, discAt, discSeen, poller, manualRetries>>
StopPoll(w) ==
  /\ poller[w].pc # "idle" /\ pollStops < MaxPollStops /\ pollStops' = pollStops + 1
  /\ Settles(w) /\ UNCHANGED <<tray, discAt, insp, discSeen, manualRetries>>
\* The heartbeat renews a lease only once the observation has been recorded; a
\* poll that stalls loses it, and nobody renews the lease of one that stopped.
Abandoned == ~\E w \in Pollers : OwnsInspection(w)
LeaseRunsOut ==
  /\ insp.st = "running" /\ insp.live
  /\ Abandoned \/ pollStops < MaxPollStops
  /\ insp' = [insp EXCEPT !.live = FALSE]
  /\ pollStops' = IF Abandoned THEN pollStops ELSE pollStops + 1
  /\ UNCHANGED <<tray, discAt, discSeen, poller, manualRetries>>

PollStep(w) ==
  \/ PollObservesGeneration(w) \/ PollFindsEmpty(w) \/ SettlingObserved(w)
  \/ PollObservesMedium(w) \/ SettlingFindsEmpty(w) \/ ScanReads(w) \/ ScanEnds(w)
  \/ RegisterDisc(w) \/ MarkScanned(w) \/ CompleteInspection(w) \/ ClaimRefused(w)
InspectionNext ==
  \/ InsertMedium \/ GenerationChurns \/ EjectMedium
  \/ RequestInspectionRetry \/ DriveUnavailable \/ LeaseRunsOut
  \/ \E w \in Pollers : PollStep(w) \/ SettlingTimesOut(w) \/ StopPoll(w)

InspectionSpec == InspectionInit /\ [][InspectionNext]_inspectionVars
(* ----------------------------- properties ------------------------------ *)
\* TypeOK: what the row, the drive and a poll may hold.
InspectionTypeOK ==
  /\ tray \in 0..Len(discAt) /\ Len(discAt) <= MaxGenerations
  /\ insp.st \in {"none", "running", "failed", "completed"}
  /\ insp.ph \in {"none", "settling", "reading_metadata", "confirming_media", "retry_wait"}
  /\ insp.gen \in 0..Len(discAt) /\ insp.tok \in Pollers \cup {NoPoll}
  /\ insp.fails \in 0..MaxInspectionFailures /\ insp.stable \in 0..StableObservations
  /\ insp.disc \in DriveDiscs \cup {0}
  \* Every attempt but a claimed last one has its one outcome.
  /\ insp.st = "none" \/ insp.done = IF insp.tok = NoPoll THEN 1..insp.n ELSE 1..(insp.n - 1)
  /\ \A d \in DriveDiscs : discSeen[d] \in {"unseen", "detected", "scanned"}
  /\ \A w \in Pollers : poller[w].pc \in {"idle", "observing", "settling", "scanning",
                                          "proving", "marking", "completing"}
  /\ pollStops \in 0..MaxPollStops /\ manualRetries \in 0..MaxManualRetries

\* A completed inspection, whose disc an Archive Job may copy without another
\* scan, names the scanned disc behind the generation it records, whatever was
\* swapped, renamed or taken over while it ran (record "complete").
InspectionNamesItsDisc ==
  insp.st = "completed" =>
    discAt[insp.gen] = insp.disc /\ discSeen[insp.disc] = "scanned"

\* A medium that stays is examined: its generation ends completed or failed.  The
\* exception is an inspection that failed while settling: InsertionCanChange takes
\* the next disc for the same insertion, so it stays failed until the drive is
\* seen empty or an operator asks for a retry.
MistakenForSettling(g) == insp.st = "failed" /\ insp.ph = "settling" /\ insp.gen # g
InsertionExamined ==
  \A g \in 1..MaxGenerations :
    tray = g ~> \/ tray # g
                \/ insp.gen = g /\ insp.st \in {"completed", "failed"}
                \/ MistakenForSettling(g)

==============================================================================
