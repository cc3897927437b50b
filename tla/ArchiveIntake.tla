----------------------------- MODULE ArchiveIntake -----------------------------
(***************************************************************************)
(* The first copy of a disc: Archive Requests of the Detected Discs that   *)
(* share one fingerprint, the Archive Job a worker runs for one of them,   *)
(* and the files the attempt leaves in the Originals library: attempt      *)
(* partials, the rescue workspace of a request, the fingerprint-named ISO  *)
(* and its .failed neighbour.  The database and the library are two        *)
(* stores: an attempt may lose its claim, be cancelled or stop between any *)
(* two steps, and its copy helper may outlive it.  Images are inodes;     *)
(* what is kept of one is "prefix" (read up to an unproven end), "damaged" *)
(* (of full size, sectors unread), "clean", "proven" (its end is proved),  *)
(* "boundary" (proved too, with nothing unread in it), "corrected" (cut at *)
(* the proved end, sectors unread) or "torn" (its maps and it disagree);   *)
(* at most MaxCopyJobs jobs run, each of which copies at most one fresh    *)
(* image, and workers stop at most MaxLaneStops times.                     *)
(***************************************************************************)
EXTENDS Integers, FiniteSets

CONSTANTS ArchiveLanes, ArchiveAsks, SourceDiscs, MaxCopyJobs, MaxLaneStops

VARIABLES ask,         \* archive_requests, by request
          copyJob,     \* the running archive_jobs row of the fingerprint, if any
          jobsStarted, \* attempt ordinals given out
          catalogued,  \* the original_disc_archives row of the fingerprint
          image,       \* per inode: what its bytes are
          partials,    \* inodes with an attempt-unique partial name
          rescue,      \* per request: its rescue image and recovery map
          shelf,       \* the inodes at the ISO path and at its .failed path
          reader,      \* the copy helper that holds the device lock
          workspaceLock, lane, laneStops

intakeVars == <<ask, copyJob, jobsStarted, catalogued, image, partials, rescue, shelf,
                reader, workspaceLock, lane, laneStops>>
intakeRows == <<ask, copyJob, jobsStarted, catalogued>>
intakeFiles == <<image, partials, rescue, shelf>>

Images == 1..MaxCopyJobs
NoLane == "none"
NoCopyJob == [req |-> 0, tok |-> 0, fresh |-> FALSE]
NoReader == [img |-> 0, by |-> NoLane]
IdleLane == [pc |-> "idle", req |-> 0, tok |-> 0, img |-> 0]
Unarchived == [img |-> 0, size |-> "none"]
NoRescue == [img |-> 0, res |-> "none"]

\* Requests are numbered from 1, and a worker has a name of its own.
ASSUME IntakeAssumption ==
  /\ ArchiveAsks \subseteq Nat \ {0} /\ NoLane \notin ArchiveLanes
  /\ MaxCopyJobs \in Nat /\ MaxLaneStops \in Nat

IntakeInit ==
  /\ ask = [r \in ArchiveAsks |-> [st |-> "none", disc |-> 0]]
  /\ copyJob = NoCopyJob /\ jobsStarted = 0 /\ catalogued = Unarchived
  /\ image = [i \in Images |-> "free"] /\ partials = {}
  /\ rescue = [r \in ArchiveAsks |-> NoRescue]
  /\ shelf = [iso |-> 0, failed |-> 0]
  /\ reader = NoReader /\ workspaceLock = NoLane
  /\ lane = [w \in ArchiveLanes |-> IdleLane] /\ laneStops = 0

ActiveAsk(r) == ask[r].st \in {"pending", "running", "attention", "cancelling"}

\* submit: a disc with an active request, or one that is archived, gets none.
\* The discs of this model are rows whose scans do not continue each other.
SubmitRequest(r, d) ==
  /\ ask[r].st = "none" /\ catalogued = Unarchived
  /\ \A q \in ArchiveAsks : ask[q].disc = d => ~ActiveAsk(q)
  /\ \A q \in ArchiveAsks : q < r => ask[q].st # "none"
  /\ ask' = [ask EXCEPT ![r] = [st |-> "pending", disc |-> d]]
  /\ UNCHANGED <<copyJob, jobsStarted, catalogued, intakeFiles, reader, workspaceLock,
                 lane, laneStops>>

RetryRequest(r) ==
  /\ ask[r].st = "attention"
  /\ ask' = [ask EXCEPT ![r].st = "pending"]
  /\ UNCHANGED <<copyJob, jobsStarted, catalogued, intakeFiles, reader, workspaceLock,
                 lane, laneStops>>

CancelRequest(r) ==
  /\ ask[r].st \in {"pending", "running", "attention"}
  /\ ask' = [ask EXCEPT ![r].st = IF @ = "running" THEN "cancelling" ELSE "cancelled"]
  /\ UNCHANGED <<copyJob, jobsStarted, catalogued, intakeFiles, reader, workspaceLock,
                 lane, laneStops>>

\* startForInspection: existing provenance answers the request, a running
\* job of the same fingerprint keeps every other attempt out.
StartForInspection(w, r) ==
  /\ lane[w].pc = "idle" /\ ask[r].st = "pending"
  /\ \/ /\ catalogued # Unarchived
        /\ ask' = [ask EXCEPT ![r].st = "fulfilled"]
        /\ UNCHANGED <<copyJob, jobsStarted, lane>>
     \/ /\ catalogued = Unarchived /\ copyJob = NoCopyJob /\ jobsStarted < MaxCopyJobs
        /\ ask' = [ask EXCEPT ![r].st = "running"]
        /\ jobsStarted' = jobsStarted + 1
        /\ copyJob' = [req |-> r, tok |-> jobsStarted', fresh |-> TRUE]
        /\ lane' = [lane EXCEPT ![w] =
             [pc |-> "claimed", req |-> r, tok |-> jobsStarted', img |-> 0]]
  /\ UNCHANGED <<catalogued, intakeFiles, reader, workspaceLock, laneStops>>

HoldsJob(w) == copyJob.req = lane[w].req /\ copyJob.tok = lane[w].tok
\* authorizeClaim: neither cancelled nor expired nor replaced.
AuthorizeClaim(w) == HoldsJob(w) /\ copyJob.fresh /\ ask[lane[w].req].st = "running"

GoesTo(w, pc) == lane' = [lane EXCEPT ![w].pc = pc] /\ UNCHANGED workspaceLock
\* (mutant) an error leaves the lock's descriptor open
GivesUnreleased(w) ==
  lane' = [lane EXCEPT ![w].pc = "failing"] /\ UNCHANGED workspaceLock
\* An error leaves the workspace lock before it reaches the job's row.
Gives(w) ==
  /\ lane' = [lane EXCEPT ![w].pc = "failing"]
  /\ workspaceLock' = IF workspaceLock = w THEN NoLane ELSE workspaceLock

\* withLock is one nonblocking attempt at the fingerprint's lock.
EnterWorkspace(w) ==
  /\ lane[w].pc = "claimed"
  /\ \/ /\ workspaceLock = NoLane /\ AuthorizeClaim(w)
        /\ workspaceLock' = w
        /\ lane' = [lane EXCEPT ![w].pc = "entered"]
     \/ ~(workspaceLock = NoLane /\ AuthorizeClaim(w)) /\ Gives(w)
  /\ UNCHANGED <<intakeRows, intakeFiles, reader, laneStops>>

\* The workspace is loaded and older partials are moved aside, unless a helper
\* still has one of them, or the request's own rescue image, open.
Untouched(w) ==
  LET kept == rescue[lane[w].req] IN
  /\ kept.res # "torn" /\ reader.img \notin partials
  /\ reader = NoReader \/ reader.img # kept.img

SetPartialsAside(w) ==
  /\ lane[w].pc = "entered"
  /\ \/ AuthorizeClaim(w) /\ Untouched(w) /\ partials' = {}
        /\ GoesTo(w, "prepared")
     \/ ~(AuthorizeClaim(w) /\ Untouched(w)) /\ Gives(w)
        /\ UNCHANGED partials
  /\ UNCHANGED <<intakeRows, image, rescue, shelf, reader, laneStops>>

\* quarantinePublishedArchive: that inode leaves the ISO path, and a .failed
\* file that is another inode stands in its way.
MayQuarantine(i) == shelf.iso = i /\ shelf.failed \in {0, i}
Quarantined(i) == IF MayQuarantine(i) THEN [iso |-> 0, failed |-> i] ELSE shelf

QuarantineOrphan(w) ==
  /\ lane[w].pc = "prepared" /\ AuthorizeClaim(w)
  /\ rescue[lane[w].req] = NoRescue
  /\ shelf.iso # 0 /\ image[shelf.iso] = "whole" /\ MayQuarantine(shelf.iso)
  /\ shelf' = Quarantined(shelf.iso)
  /\ UNCHANGED <<intakeRows, image, partials, rescue, reader, workspaceLock, lane, laneStops>>

\* dvdCopyContinuationFromWorkspace: these are read on in place, the accepted
\* image with unread sectors too; a clean one and a proven end need no copy.
Resumed == {"prefix", "damaged", "corrected"}
NeedsCopy(kept) == kept = NoRescue \/ kept.res \in Resumed

\* The helper opens its image only under the device lock and a claim renewed
\* there: a partial of its own, or the rescue image of the request.
CopyStarts(w) ==
  LET kept == rescue[lane[w].req] IN
  /\ lane[w].pc = "prepared" /\ AuthorizeClaim(w) /\ reader = NoReader
  /\ shelf.iso = 0 /\ NeedsCopy(kept)
  /\ \E i \in Images :
       /\ IF kept = NoRescue
          THEN /\ image[i] = "free" /\ \A k \in Images : k < i => image[k] # "free"
               /\ image' = [image EXCEPT ![i] = "partial"]
               /\ partials' = partials \cup {i}
          ELSE i = kept.img /\ UNCHANGED <<image, partials>>
       /\ reader' = [img |-> i, by |-> w]
       /\ lane' = [lane EXCEPT ![w].pc = "copying", ![w].img = i]
  /\ UNCHANGED <<intakeRows, rescue, shelf, workspaceLock, laneStops>>

\* The helper has closed.  What it leaves is a whole image, with or without
\* unread sectors; one with a proven end, which the same attempt goes on to
\* publish (an image cut at its end is always that); or an error, where an
\* unproven end may keep the copy, and a claim lost meanwhile only half of it.
CopyEnds(w) ==
  LET r == lane[w].req  i == lane[w].img  kept == rescue[r]
      Keep(res) == [rescue EXCEPT ![r] = [img |-> i, res |-> res]] IN
  /\ lane[w].pc = "copying" /\ reader = [img |-> i, by |-> w]
  /\ reader' = NoReader
  /\ \/ /\ AuthorizeClaim(w) /\ kept.res # "corrected"
        /\ image' = [image EXCEPT ![i] = "whole"]
        /\ \/ rescue' = (IF kept = NoRescue THEN rescue ELSE Keep("clean")) /\ UNCHANGED partials
           \/ rescue' = Keep("damaged") /\ partials' = partials \ {i}
        /\ GoesTo(w, "copied")
     \/ /\ AuthorizeClaim(w)
        /\ image' = [image EXCEPT ![i] = IF kept.res = "damaged" THEN @ ELSE "short"]
        /\ \E res \in IF kept = NoRescue THEN {"boundary", "proven"} ELSE {kept.res} :
             rescue' = Keep(res)
        /\ partials' = partials \ {i} /\ GoesTo(w, "proving")
     \/ /\ \/ UNCHANGED rescue
           \/ /\ AuthorizeClaim(w) /\ kept = NoRescue
              /\ \E res \in {"prefix", "torn"} : rescue' = Keep(res)
        /\ partials' = partials \ {i} /\ UNCHANGED image /\ Gives(w)
  /\ UNCHANGED <<intakeRows, shelf, laneStops>>

\* (mutant) a rescue map stands for whatever is at the ISO path
CorrelatedByName(i, kept) == i # 0
\* matchesRescueImageIdentity: the inode and the size the map is good for.
Boundaries == {"boundary", "proven", "corrected"}
Correlated(i, kept) ==
  /\ i = kept.img
  /\ \/ kept.res \in {"damaged", "clean"} /\ image[i] = "whole"
     \/ kept.res \in Boundaries /\ image[i] = "short"

\* What an earlier attempt published whole and did not record is proved again.
AdoptPublished(w) ==
  LET kept == rescue[lane[w].req] IN
  /\ lane[w].pc = "prepared" /\ AuthorizeClaim(w)
  /\ kept.res \in {"damaged", "clean"} /\ shelf.iso # 0 /\ Correlated(shelf.iso, kept)
  /\ lane' = [lane EXCEPT ![w].pc = "linked", ![w].img = kept.img]
  /\ UNCHANGED <<intakeRows, intakeFiles, reader, workspaceLock, laneStops>>

\* A clean rescue needs no copy.
LinkRescued(w) ==
  LET kept == rescue[lane[w].req] IN
  /\ lane[w].pc = "prepared" /\ AuthorizeClaim(w)
  /\ kept.res = "clean" /\ shelf.iso = 0
  /\ shelf' = [shelf EXCEPT !.iso = kept.img]
  /\ lane' = [lane EXCEPT ![w].pc = "linked", ![w].img = kept.img]
  /\ UNCHANGED <<intakeRows, image, partials, rescue, reader, workspaceLock, laneStops>>

\* A proven end needs no copy either, but for one accepted with sectors still
\* unread: that is read on, unless its image was already published.
Publishable(kept) ==
  IF shelf.iso = 0 THEN kept.res \in {"boundary", "proven"}
  ELSE kept.res \in Boundaries /\ Correlated(shelf.iso, kept)

ProveBoundary(w) ==
  LET kept == rescue[lane[w].req] IN
  /\ lane[w].pc = "prepared" /\ AuthorizeClaim(w) /\ Publishable(kept)
  /\ lane' = [lane EXCEPT ![w].pc = "proving", ![w].img = kept.img]
  /\ UNCHANGED <<intakeRows, intakeFiles, reader, workspaceLock, laneStops>>

\* Acceptance is a transaction of two maps.  Until the image is cut a load
\* discards the second map, whose result it keeps; from the proof of the cut
\* image on it promotes it; in between the image fits neither.
StageBoundary(w) ==
  /\ lane[w].pc = "proving" /\ AuthorizeClaim(w)
  /\ rescue' = [rescue EXCEPT ![lane[w].req].res = "proven"]
  /\ GoesTo(w, "staged")
  /\ UNCHANGED <<intakeRows, image, partials, shelf, reader, laneStops>>

TrimBoundary(w) ==
  LET i == lane[w].img IN
  /\ lane[w].pc = "staged" /\ AuthorizeClaim(w)
  /\ image' = [image EXCEPT ![i] = "short"]
  /\ rescue' = [rescue EXCEPT ![lane[w].req].res = IF image[i] = "short" THEN @ ELSE "torn"]
  /\ GoesTo(w, "trimmed")
  /\ UNCHANGED <<intakeRows, partials, shelf, reader, laneStops>>

AcceptBoundary(w) ==
  /\ lane[w].pc = "trimmed" /\ AuthorizeClaim(w)
  /\ \E res \in {"boundary", "corrected"} :
       rescue' = [rescue EXCEPT ![lane[w].req].res = res]
  /\ GoesTo(w, "accepted")
  /\ UNCHANGED <<intakeRows, image, partials, shelf, reader, laneStops>>

\* The accepted image is linked, or is at the ISO path already.
LinkBoundary(w) ==
  LET i == lane[w].img IN
  /\ lane[w].pc = "accepted" /\ AuthorizeClaim(w) /\ shelf.iso \in {0, i}
  /\ shelf' = [shelf EXCEPT !.iso = i]
  /\ GoesTo(w, "linked")
  /\ UNCHANGED <<intakeRows, image, partials, rescue, reader, laneStops>>

\* Geometry, endpoint, completeness or what was retained is not proved, or a
\* loaded map is not: the rescue image and its published name may be put away,
\* by an attempt that still may; an error alone leaves them.
RejectImage(w) ==
  LET r == lane[w].req  kept == rescue[r]  pc == lane[w].pc IN
  /\ \/ pc \in {"copied", "proving", "staged", "trimmed", "accepted"}
     \/ pc = "prepared" /\ kept # NoRescue
     \/ pc = "entered" /\ kept.res = "torn"
  /\ rescue' \in {rescue} \cup (IF AuthorizeClaim(w) THEN {[rescue EXCEPT ![r] = NoRescue]} ELSE {})
  /\ shelf' \in {shelf} \cup (IF kept # NoRescue /\ shelf.iso = kept.img
                               THEN {Quarantined(kept.img)} ELSE {})
  /\ partials' = partials \ {lane[w].img}
  /\ Gives(w)
  /\ UNCHANGED <<intakeRows, image, reader, laneStops>>

\* The device is free for a copy, and what is at the ISO path is this request's
\* or, where nothing is kept, an orphan that can be put away.
Acceptable(w) ==
  LET kept == rescue[lane[w].req] IN
  IF shelf.iso = 0 THEN NeedsCopy(kept) => reader = NoReader
  ELSE IF kept = NoRescue THEN image[shelf.iso] = "whole" /\ MayQuarantine(shelf.iso)
       ELSE Correlated(shelf.iso, kept)

RefuseExisting(w) ==
  /\ lane[w].pc = "prepared" /\ ~(AuthorizeClaim(w) /\ Acceptable(w))
  /\ Gives(w)
  /\ UNCHANGED <<intakeRows, intakeFiles, reader, laneStops>>

\* The hard link never replaces a file; a fresh partial loses its own name.
LinkCopied(w) ==
  LET i == lane[w].img IN
  /\ lane[w].pc = "copied"
  /\ \/ /\ AuthorizeClaim(w) /\ shelf.iso = 0
        /\ shelf' = [shelf EXCEPT !.iso = i]
        /\ partials' = partials \ {i} /\ GoesTo(w, "linked")
     \/ /\ ~(AuthorizeClaim(w) /\ shelf.iso = 0)
        /\ partials' = partials \ {i} /\ UNCHANGED shelf /\ Gives(w)
  /\ UNCHANGED <<intakeRows, image, rescue, reader, laneStops>>

\* Every request of the fingerprint that is not yet closed is fulfilled.
FulfilledBy(q) == ask[q].st \in {"pending", "running", "attention"}

PublishArchive(w) ==
  LET i == lane[w].img IN
  /\ lane[w].pc = "linked"
  /\ \/ /\ AuthorizeClaim(w) /\ catalogued = Unarchived
        /\ catalogued' = [img |-> i, size |-> image[i]]
        /\ copyJob' = NoCopyJob
        /\ ask' = [q \in ArchiveAsks |->
             IF FulfilledBy(q) THEN [ask[q] EXCEPT !.st = "fulfilled"] ELSE ask[q]]
        /\ UNCHANGED shelf /\ GoesTo(w, "published")
     \/ /\ UNCHANGED <<catalogued, copyJob, ask>>  \* refused, or the database failed
        /\ shelf' = Quarantined(i) /\ Gives(w)
  /\ UNCHANGED <<jobsStarted, image, partials, rescue, reader, laneStops>>

\* The workspace goes after the catalog has the archive, or is left behind.
FinalizeFirstCopy(w) ==
  /\ lane[w].pc = "published"
  /\ \E removed \in BOOLEAN : rescue' =
       IF removed THEN [rescue EXCEPT ![lane[w].req] = NoRescue] ELSE rescue
  /\ lane' = [lane EXCEPT ![w] = IdleLane]
  /\ workspaceLock' = NoLane
  /\ UNCHANGED <<intakeRows, image, partials, shelf, reader, laneStops>>

\* (mutant) a failure is recorded for the job, whosever claim it is
HoldsAnyJob(w) == copyJob # NoCopyJob
RecordsEnd(w) == HoldsJob(w) /\ copyJob.fresh

\* fail and abort: a cancellation wins over the failure.
EndAttempt(w) ==
  /\ lane[w].pc = "failing"
  /\ \/ /\ RecordsEnd(w) /\ copyJob' = NoCopyJob
        /\ ask' = [ask EXCEPT ![lane[w].req].st =
             IF @ = "cancelling" THEN "cancelled" ELSE "attention"]
     \/ ~RecordsEnd(w) /\ UNCHANGED <<ask, copyJob>>
  /\ lane' = [lane EXCEPT ![w] = IdleLane]
  /\ UNCHANGED <<jobsStarted, catalogued, intakeFiles, reader, workspaceLock, laneStops>>

\* A worker process stops: its lock goes with it, its helper may stay.
LaneStops(w) ==
  /\ lane[w].pc # "idle" /\ laneStops < MaxLaneStops
  /\ laneStops' = laneStops + 1
  /\ lane' = [lane EXCEPT ![w] = IdleLane]
  /\ workspaceLock' = IF workspaceLock = w THEN NoLane ELSE workspaceLock
  /\ reader' \in (IF reader.by = w THEN {NoReader, [reader EXCEPT !.by = NoLane]} ELSE {reader})
  /\ UNCHANGED <<intakeRows, intakeFiles>>

OrphanReaderEnds ==
  /\ reader # NoReader /\ reader.by = NoLane
  /\ reader' = NoReader
  /\ UNCHANGED <<intakeRows, intakeFiles, workspaceLock, lane, laneStops>>

CopyLeaseEnds ==
  /\ copyJob.fresh
  /\ copyJob' = [copyJob EXCEPT !.fresh = FALSE]
  /\ UNCHANGED <<ask, jobsStarted, catalogued, intakeFiles, reader, workspaceLock, lane, laneStops>>

JobExpired(st) == copyJob # NoCopyJob /\ ~copyJob.fresh /\ ask[copyJob.req].st = st

RecoverExpiredJob ==
  /\ JobExpired("running") /\ copyJob' = NoCopyJob
  /\ ask' = [ask EXCEPT ![copyJob.req].st = "attention"]
  /\ UNCHANGED <<jobsStarted, catalogued, intakeFiles, reader, workspaceLock, lane, laneStops>>

\* A corrected image that was published without being recorded is in the way
\* of the cancellation until it is quarantined; maps that no load accepts are
\* in its way for good.
CorrectedLeft(r) == rescue[r].res \in {"boundary", "corrected"} /\ shelf.iso # 0
Clears(r) ==
  /\ rescue[r].res # "torn"
  /\ CorrectedLeft(r) => Correlated(shelf.iso, rescue[r]) /\ MayQuarantine(shelf.iso)

SourceInactive == workspaceLock = NoLane /\ reader = NoReader

FinalizeExpiredCancellation ==
  LET r == copyJob.req IN
  /\ JobExpired("cancelling") /\ SourceInactive /\ Clears(r)
  /\ shelf' = IF CorrectedLeft(r) THEN Quarantined(shelf.iso) ELSE shelf
  /\ copyJob' = NoCopyJob
  /\ ask' = [ask EXCEPT ![r].st = "cancelled"]
  /\ UNCHANGED <<jobsStarted, catalogued, image, partials, rescue, reader, workspaceLock,
                 lane, laneStops>>

LaneStep(w) ==
  \/ EnterWorkspace(w) \/ SetPartialsAside(w) \/ QuarantineOrphan(w)
  \/ CopyStarts(w) \/ CopyEnds(w) \/ AdoptPublished(w) \/ LinkRescued(w)
  \/ ProveBoundary(w) \/ StageBoundary(w) \/ TrimBoundary(w) \/ AcceptBoundary(w) \/ LinkBoundary(w)
  \/ RejectImage(w) \/ RefuseExisting(w) \/ LinkCopied(w) \/ PublishArchive(w)
  \/ FinalizeFirstCopy(w) \/ EndAttempt(w)

IntakeNext ==
  \/ \E r \in ArchiveAsks : \/ \E d \in SourceDiscs : SubmitRequest(r, d)
                            \/ RetryRequest(r) \/ CancelRequest(r)
  \/ \E w \in ArchiveLanes : \/ \E r \in ArchiveAsks : StartForInspection(w, r)
                             \/ LaneStep(w) \/ LaneStops(w)
  \/ OrphanReaderEnds \/ CopyLeaseEnds \/ RecoverExpiredJob \/ FinalizeExpiredCancellation

IntakeSpec == IntakeInit /\ [][IntakeNext]_intakeVars

\* A claim nobody renews ends; polls repeat; running code goes on.
Unattended == \A w \in ArchiveLanes : ~(HoldsJob(w) /\ lane[w].pc # "idle")
UnattendedLeaseEnds == Unattended /\ CopyLeaseEnds
-----------------------------------------------------------------------------
IntakeTypeOK ==
  /\ \A r \in ArchiveAsks :
       /\ ask[r].st \in {"none", "pending", "running", "attention", "cancelling",
                         "cancelled", "fulfilled"}
       /\ ask[r].disc \in SourceDiscs \cup {0}
       /\ rescue[r].img \in 0..MaxCopyJobs
       /\ rescue[r].res \in {"none", "prefix", "damaged", "clean", "proven", "boundary",
                              "corrected", "torn"}
  /\ copyJob.req \in ArchiveAsks \cup {0} /\ copyJob.tok \in 0..MaxCopyJobs
  /\ jobsStarted \in 0..MaxCopyJobs /\ catalogued.img \in 0..MaxCopyJobs
  /\ image \in [Images -> {"free", "partial", "whole", "short"}]
  /\ partials \subseteq Images
  /\ shelf \in [iso : 0..MaxCopyJobs, failed : 0..MaxCopyJobs]
  /\ reader.img \in 0..MaxCopyJobs /\ reader.by \in ArchiveLanes \cup {NoLane}
  /\ workspaceLock \in ArchiveLanes \cup {NoLane} /\ laneStops \in 0..MaxLaneStops

\* What the catalog says is archived is at the ISO path for good, the very
\* image that attempt proved and of the size it recorded, whatever stale
\* workers, other requests of the same disc and left-over files do.
CataloguedImageStands == catalogued # Unarchived =>
  /\ shelf.iso = catalogued.img
  /\ image[catalogued.img] = catalogued.size /\ catalogued.size \in {"whole", "short"}
  /\ reader.img # catalogued.img

\* A running job is what keeps its request busy: a request is running or
\* being cancelled exactly while a job row of its own is, so that no request
\* can be left busy by nobody, nor be worked on after it was closed; and no
\* request is open beside the archive that answers it.
RequestsFollowJobs ==
  /\ \A r \in ArchiveAsks : (ask[r].st \in {"running", "cancelling"}) <=> (copyJob.req = r)
  /\ catalogued # Unarchived =>
       \A r \in ArchiveAsks : ask[r].st \in {"none", "cancelled", "fulfilled"}

\* Another inode at the .failed path, or another request's image at the ISO
\* path, keeps a corrected image of a cancelled request from being put away;
\* maps that no load accepts keep the cancellation from being looked at.
CancellationWedged(r) == copyJob.req = r /\ ask[r].st = "cancelling" /\ ~Clears(r)

\* A running or a cancelled attempt comes to an end without the operator,
\* whenever its worker stops, unless the library itself stands in the way.
BusyRequestSettles == \A r \in ArchiveAsks :
  (ask[r].st \in {"running", "cancelling"}) ~>
    (ask[r].st \notin {"running", "cancelling"} \/ CancellationWedged(r))
=============================================================================
