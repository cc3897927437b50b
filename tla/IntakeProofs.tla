---------------------------- MODULE IntakeProofs ----------------------------
(***************************************************************************)
(* The first copy of a disc, the inspection that names the disc, and who   *)
(* owns the archived image.                                                *)
(*                                                                         *)
(* Of the copy: whoever is inside the workspace has its lock, so one lane  *)
(* has an image in hand; an image is kept for one request and read into only*)
(* while what its map says of it still needs a copy, which an accepted and *)
(* shortened image can; what is at the ISO path is nobody's to write, and  *)
(* nobody reads into the image whose end is being accepted.                *)
(* A step puts no image into anyone's hand (IntakeQuiet) or is the work of *)
(* the one lane inside while nothing is archived (LaneWorkKeeps).          *)
(*                                                                         *)
(* Of the inspection: a poll that goes on to its proof has read the disc of*)
(* the generation it names, unless a later one is there.                   *)
(*                                                                         *)
(* Of an archived image: WriterIsNamed and PreviewAdmittedAlone.  The      *)
(* kernel lock is the authority: from its lock to its unlock a writer is   *)
(* the exclusive owner, so no other process that may touch the claim       *)
(* record is past its own lock.  A heartbeat still under way keeps its     *)
(* process before the unlock, so it cannot land on a successor's claim.    *)
(* The queue is the order of the tickets in force.  An edit keeps that     *)
(* order (PlacesInOrder, SelectedQueue), a stop only takes a ticket out of *)
(* it (StopUserQueue), and a new ticket waits if a preview or a waiting    *)
(* ticket is before it, so nobody overtakes a preview.                     *)
(***************************************************************************)
EXTENDS ArchiveIntake, DiscInspections, ImageOwnership, FiniteSetTheorems, TLAPS

(* ------------------------- the first copy ------------------------- *)
AskStates == {"none", "pending", "running", "attention", "cancelling", "cancelled", "fulfilled"}
ImageStates == {"free", "partial", "whole", "short"}
LaneSteps == {"idle", "claimed", "entered", "prepared", "copying", "copied", "proving", "staged",
              "trimmed", "accepted", "linked", "published", "failing"}
AskRows == [st : AskStates, disc : SourceDiscs \cup {0}]
CopyJobs == [req : ArchiveAsks \cup {0}, tok : 0..MaxCopyJobs, fresh : BOOLEAN]
RescueStates == {"none", "prefix", "damaged", "clean", "proven", "boundary", "corrected", "torn"}
Rescues == [img : 0..MaxCopyJobs, res : RescueStates]
LaneRows == [pc : LaneSteps, req : ArchiveAsks \cup {0}, tok : 0..MaxCopyJobs, img : 0..MaxCopyJobs]

RowsTyped == /\ ask \in [ArchiveAsks -> AskRows] /\ copyJob \in CopyJobs
             /\ jobsStarted \in 0..MaxCopyJobs
             /\ catalogued \in [img : 0..MaxCopyJobs, size : ImageStates \cup {"none"}]
IntakeFilesTyped == /\ image \in [Images -> ImageStates] /\ partials \subseteq Images
                    /\ rescue \in [ArchiveAsks -> Rescues]
                    /\ shelf \in [iso : 0..MaxCopyJobs, failed : 0..MaxCopyJobs]
LanesTyped == /\ reader \in [img : 0..MaxCopyJobs, by : ArchiveLanes \cup {NoLane}]
              /\ workspaceLock \in ArchiveLanes \cup {NoLane}
              /\ lane \in [ArchiveLanes -> LaneRows] /\ laneStops \in 0..MaxLaneStops
IntakeTyped == RowsTyped /\ IntakeFilesTyped /\ LanesTyped

\* The steps of an attempt that is not through, and all those under the lock.
Unpublished == {"entered", "prepared", "copying", "copied", "proving", "staged", "trimmed",
                "accepted", "linked"}
Inside == Unpublished \cup {"published"}
\* The steps of the acceptance of a proven end.
Accepting == {"proving", "staged", "trimmed", "accepted"}
\* The steps that say something of the image in hand.
CopyInHand == {"copying", "copied", "linked"} \cup Accepting

\* An image is kept for one request, and is read into only if it needs a copy.
RescueOK == \A r \in ArchiveAsks :
  /\ rescue[r].res = "none" <=> rescue[r].img = 0
  /\ rescue[r].img # 0 => image[rescue[r].img] # "free"
  /\ rescue[r].res = "clean" => image[rescue[r].img] = "whole"
  /\ rescue[r].img # 0 /\ rescue[r].img = reader.img => rescue[r].res \in Resumed
  /\ \A q \in ArchiveAsks \ {r} : rescue[r].img # 0 => rescue[q].img # rescue[r].img
\* What is at the ISO path nobody writes any more.
ShelfOK == shelf.iso # 0 => image[shelf.iso] # "free" /\ reader.img # shelf.iso

LaneOK(row) ==
  /\ row.pc # "idle" => row.req \in ArchiveAsks
  /\ row.pc \in CopyInHand => row.img \in Images
  /\ row.pc = "copying" =>
       /\ image[row.img] # "free"
       /\ rescue[row.req] = NoRescue \/ (rescue[row.req].res \in Resumed /\ rescue[row.req].img = row.img)
       /\ \A q \in ArchiveAsks \ {row.req} : rescue[q].img # row.img
  /\ row.pc = "copied" => image[row.img] = "whole" /\ reader = NoReader
  /\ row.pc \in Accepting => rescue[row.req].img = row.img /\ reader.img # row.img
  /\ row.pc \in {"trimmed", "accepted"} => image[row.img] = "short"
  /\ row.pc = "linked" => shelf.iso = row.img /\ image[row.img] \in {"whole", "short"}
LanesOK == \A w \in ArchiveLanes :
  LaneOK(lane[w]) /\ (lane[w].pc \in Inside => workspaceLock = w)

\* With the archive in the catalog nobody works on it any more.
ArchivedOK == catalogued # Unarchived =>
  /\ copyJob = NoCopyJob /\ \A w \in ArchiveLanes : lane[w].pc \notin Unpublished
  /\ catalogued.img \in Images /\ shelf.iso = catalogued.img
  /\ image[catalogued.img] = catalogued.size /\ catalogued.size \in {"whole", "short"}
JobOK == (copyJob.req = 0 => copyJob = NoCopyJob) /\ RequestsFollowJobs

IntakeInv == IntakeTyped /\ RescueOK /\ ShelfOK /\ LanesOK /\ ArchivedOK /\ JobOK
LEMMA IntakeInitKeeps == IntakeInit => IntakeInv
<1> SUFFICES ASSUME IntakeInit PROVE IntakeInv
  OBVIOUS
<1> USE IntakeAssumption DEF IntakeInit
<1>1. RowsTyped
  BY DEF RowsTyped, AskRows, AskStates, CopyJobs, NoCopyJob, Unarchived
<1>2. IntakeFilesTyped
  BY DEF IntakeFilesTyped, ImageStates, Rescues, RescueStates, NoRescue
<1>3. LanesTyped
  BY DEF LanesTyped, LaneRows, LaneSteps, IdleLane, NoReader
<1>4. RescueOK /\ ShelfOK
  BY DEF RescueOK, ShelfOK, NoRescue
<1>5. LanesOK
  BY DEF LanesOK, LaneOK, IdleLane, CopyInHand, Inside, Unpublished, Accepting
<1>6. ArchivedOK /\ JobOK
  BY DEF ArchivedOK, JobOK, RequestsFollowJobs, NoCopyJob
<1> QED BY <1>1, <1>2, <1>3, <1>4, <1>5, <1>6 DEF IntakeInv, IntakeTyped

\* Steps that put no image into anyone's hand: what is kept and what is on the
\* shelf only goes, a reader only ends, and a lane's image in hand is let alone.
IntakeQuiet ==
  /\ image' = image /\ catalogued' = catalogued
  /\ reader'.img \in {reader.img, 0} /\ (reader = NoReader => reader' = NoReader)
  /\ \A r \in ArchiveAsks : rescue'[r] \in {rescue[r], NoRescue}
  /\ \/ shelf'.iso = shelf.iso
     \/ shelf'.iso = 0 /\ catalogued = Unarchived /\ \A w \in ArchiveLanes : lane'[w].pc # "linked"
  /\ \A w \in ArchiveLanes :
       /\ lane'[w].pc # "idle" => lane'[w].req \in ArchiveAsks
       /\ lane'[w].pc \in Inside => workspaceLock' = w
       /\ lane'[w].pc \in CopyInHand => lane'[w] = lane[w]
       /\ lane'[w].pc \in Accepting => rescue'[lane[w].req] = rescue[lane[w].req]
       /\ lane'[w].pc \in Unpublished => lane[w].pc \in Unpublished \/ copyJob # NoCopyJob
  /\ catalogued # Unarchived => copyJob' = copyJob

LEMMA IntakeQuietKeeps ==
  ASSUME IntakeInv, IntakeTyped', IntakeQuiet, JobOK'
  PROVE  IntakeInv'
<1>1. RescueOK'
  <2> SUFFICES ASSUME NEW r \in ArchiveAsks
               PROVE  /\ rescue'[r].res = "none" <=> rescue'[r].img = 0
                      /\ rescue'[r].img # 0 => image'[rescue'[r].img] # "free"
                      /\ rescue'[r].res = "clean" => image'[rescue'[r].img] = "whole"
                      /\ rescue'[r].img # 0 /\ rescue'[r].img = reader'.img => rescue'[r].res \in Resumed
                      /\ \A q \in ArchiveAsks \ {r} : rescue'[r].img # 0 => rescue'[q].img # rescue'[r].img
    BY DEF RescueOK
  <2>1. \A q \in ArchiveAsks : rescue'[q] = rescue[q] \/ (rescue'[q].img = 0 /\ rescue'[q].res = "none")
    BY DEF IntakeQuiet, NoRescue
  <2> QED BY <2>1 DEF IntakeInv, RescueOK, IntakeQuiet
<1>2. ShelfOK'
  BY DEF IntakeInv, ShelfOK, IntakeQuiet
<1>3. LanesOK'
  <2> SUFFICES ASSUME NEW w \in ArchiveLanes
               PROVE  LaneOK(lane[w])' /\ (lane'[w].pc \in Inside => workspaceLock' = w)
    BY DEF LanesOK
  <2>1. CASE lane'[w].pc \notin CopyInHand
    BY <2>1 DEF IntakeQuiet, LaneOK, CopyInHand, Accepting
  <2>2. CASE lane'[w].pc \in CopyInHand
    <3>1. lane'[w] = lane[w] /\ LaneOK(lane[w]) /\ lane[w].req \in ArchiveAsks
      BY <2>2 DEF IntakeQuiet, IntakeInv, LanesOK, LaneOK, CopyInHand, Accepting
    <3>2. \A q \in ArchiveAsks : rescue'[q] = rescue[q] \/ (rescue'[q].img = 0 /\ rescue'[q].res = "none")
      BY DEF IntakeQuiet, NoRescue
    <3>3. lane[w].img \in Images /\ lane[w].img # 0
      BY <2>2, <3>1 DEF LaneOK, Images
    <3>4. lane[w].pc = "linked" => shelf'.iso = shelf.iso
      BY <3>1 DEF IntakeQuiet
    <3>5. lane[w].pc \in Accepting => rescue'[lane[w].req] = rescue[lane[w].req]
      BY <3>1 DEF IntakeQuiet
    <3>6. lane[w].pc = "copying" =>
            /\ image'[lane[w].img] # "free"
            /\ \/ rescue'[lane[w].req] = NoRescue
               \/ rescue'[lane[w].req].res \in Resumed /\ rescue'[lane[w].req].img = lane[w].img
            /\ \A q \in ArchiveAsks \ {lane[w].req} : rescue'[q].img # lane[w].img
      BY <3>1, <3>2, <3>3 DEF IntakeQuiet, LaneOK
    <3> QED BY <3>1, <3>3, <3>4, <3>5, <3>6 DEF IntakeQuiet, LaneOK
  <2> QED BY <2>1, <2>2
<1>4. ArchivedOK'
  BY DEF IntakeQuiet, IntakeInv, ArchivedOK
<1> QED BY <1>1, <1>2, <1>3, <1>4 DEF IntakeInv

\* Steps that change no row of the jobs keep what the rows say of each other.
LEMMA JobsStay ==
  ASSUME IntakeInv, UNCHANGED <<ask, copyJob, catalogued>>
  PROVE  JobOK'
BY DEF IntakeInv, JobOK, RequestsFollowJobs

\* One lane has the workspace.
LEMMA AloneInside ==
  ASSUME IntakeInv, NEW w \in ArchiveLanes, lane[w].pc \in Inside
  PROVE  workspaceLock = w /\ \A v \in ArchiveLanes \ {w} : lane[v].pc \notin Inside
BY DEF IntakeInv, LanesOK

LEMMA LaneTyped ==
  ASSUME IntakeInv, NEW w \in ArchiveLanes
  PROVE  /\ lane \in [ArchiveLanes -> LaneRows] /\ lane[w] \in LaneRows
         /\ \A pc \in LaneSteps : [lane[w] EXCEPT !.pc = pc] \in LaneRows
         /\ IdleLane \in LaneRows
         /\ lane[w].pc # "idle" => lane[w].req \in ArchiveAsks
<1>1. lane \in [ArchiveLanes -> LaneRows] /\ lane[w] \in LaneRows
  BY DEF IntakeInv, IntakeTyped, LanesTyped
<1>2. IdleLane \in LaneRows
  BY IntakeAssumption DEF IdleLane, LaneRows, LaneSteps
<1>3. \A pc \in LaneSteps : [lane[w] EXCEPT !.pc = pc] \in LaneRows
  BY <1>1 DEF LaneRows
<1> QED BY <1>1, <1>2, <1>3 DEF IntakeInv, LanesOK, LaneOK

\* An authorized attempt's request is running, and nothing is archived yet.
LEMMA Authorized ==
  ASSUME IntakeInv, NEW w \in ArchiveLanes, lane[w].pc # "idle", AuthorizeClaim(w)
  PROVE  /\ copyJob # NoCopyJob /\ catalogued = Unarchived
         /\ lane[w].req \in ArchiveAsks /\ copyJob.req = lane[w].req /\ ask[lane[w].req].st = "running"
BY IntakeAssumption DEF IntakeInv, AuthorizeClaim, HoldsJob, LanesOK, LaneOK, NoCopyJob, ArchivedOK
LEMMA LaneMoves ==
  ASSUME IntakeInv, NEW w \in ArchiveLanes, NEW pc \in LaneSteps, lane' = [lane EXCEPT ![w].pc = pc]
  PROVE  /\ lane' \in [ArchiveLanes -> LaneRows] /\ lane'[w] = [lane[w] EXCEPT !.pc = pc]
         /\ lane'[w].pc = pc /\ lane'[w].req = lane[w].req /\ lane'[w].img = lane[w].img
         /\ \A v \in ArchiveLanes \ {w} : lane'[v] = lane[v]
<1>1. /\ lane \in [ArchiveLanes -> LaneRows] /\ lane[w] \in LaneRows
      /\ [lane[w] EXCEPT !.pc = pc] \in LaneRows
  BY LaneTyped
<1>2. lane' = [lane EXCEPT ![w] = [lane[w] EXCEPT !.pc = pc]]
  BY <1>1 DEF LaneRows
<1> QED BY <1>1, <1>2 DEF LaneRows

\* A lane that is put to rest.
LEMMA LaneRests ==
  ASSUME IntakeInv, NEW w \in ArchiveLanes, lane' = [lane EXCEPT ![w] = IdleLane]
  PROVE  /\ lane' \in [ArchiveLanes -> LaneRows] /\ lane'[w].pc = "idle"
         /\ \A v \in ArchiveLanes \ {w} : lane'[v] = lane[v]
BY LaneTyped DEF IdleLane

\* An error: the lock is given back, and the lane only has its end to record.
LEMMA GivesMoves ==
  ASSUME IntakeInv, NEW w \in ArchiveLanes, Gives(w), lane[w].pc # "idle"
  PROVE  /\ lane' \in [ArchiveLanes -> LaneRows]
         /\ workspaceLock' \in ArchiveLanes \cup {NoLane}
         /\ lane'[w].pc = "failing" /\ lane'[w].req \in ArchiveAsks
         /\ \A v \in ArchiveLanes \ {w} : lane'[v] = lane[v]
         /\ \A v \in ArchiveLanes : lane'[v].pc \in Inside => workspaceLock' = v
<1>1. "failing" \in LaneSteps /\ "failing" \notin Inside
  BY DEF LaneSteps, Inside, Unpublished
<1>2. /\ lane' \in [ArchiveLanes -> LaneRows] /\ lane'[w].pc = "failing" /\ lane'[w].req = lane[w].req
      /\ \A v \in ArchiveLanes \ {w} : lane'[v] = lane[v]
  BY <1>1, LaneMoves DEF Gives
<1> QED BY <1>1, <1>2, LaneTyped DEF Gives, IntakeInv, IntakeTyped, LanesTyped, LanesOK

\* Requests alone.
LEMMA AsksKeep ==
  ASSUME IntakeInv, ask' \in [ArchiveAsks -> AskRows], JobOK',
         UNCHANGED <<copyJob, jobsStarted, catalogued, intakeFiles, reader, workspaceLock, lane, laneStops>>
  PROVE  IntakeInv'
<1>1. IntakeTyped'
  BY DEF IntakeInv, IntakeTyped, RowsTyped, IntakeFilesTyped, LanesTyped, intakeFiles
<1>2. IntakeQuiet
  BY DEF IntakeQuiet, IntakeInv, LanesOK, LaneOK, intakeFiles
<1> QED BY <1>1, <1>2, IntakeQuietKeeps

LEMMA ArchiveRequestsKeep ==
  ASSUME IntakeInv, NEW r \in ArchiveAsks,
         (\E d \in SourceDiscs : SubmitRequest(r, d)) \/ RetryRequest(r) \/ CancelRequest(r)
  PROVE  IntakeInv'
<1>1. ask \in [ArchiveAsks -> AskRows] /\ ask[r] \in AskRows
  BY DEF IntakeInv, IntakeTyped, RowsTyped
<1>2. ASSUME NEW d \in SourceDiscs, SubmitRequest(r, d) PROVE IntakeInv'
  <2>1. ask' \in [ArchiveAsks -> AskRows]
    <3>1. [st |-> "pending", disc |-> d] \in AskRows
      BY DEF AskRows, AskStates
    <3> QED BY <1>1, <1>2, <3>1 DEF SubmitRequest
  <2>2. JobOK'
    BY <1>1, <1>2 DEF SubmitRequest, IntakeInv, JobOK, RequestsFollowJobs
  <2> QED BY <1>2, <2>1, <2>2, AsksKeep DEF SubmitRequest
<1>3. \A st \in AskStates : [ask EXCEPT ![r].st = st] \in [ArchiveAsks -> AskRows]
  BY <1>1 DEF AskRows
<1>4. CASE RetryRequest(r)
  <2>1. ask' \in [ArchiveAsks -> AskRows]
    BY <1>3, <1>4 DEF RetryRequest, AskStates
  <2>2. JobOK'
    BY <1>1, <1>4 DEF RetryRequest, IntakeInv, JobOK, RequestsFollowJobs, AskRows
  <2> QED BY <1>4, <2>1, <2>2, AsksKeep DEF RetryRequest
<1>5. CASE CancelRequest(r)
  <2>1. ask' \in [ArchiveAsks -> AskRows]
    BY <1>3, <1>5 DEF CancelRequest, AskStates
  <2>2. JobOK'
    BY <1>1, <1>5 DEF CancelRequest, IntakeInv, JobOK, RequestsFollowJobs, AskRows
  <2> QED BY <1>5, <2>1, <2>2, AsksKeep DEF CancelRequest
<1> QED BY <1>2, <1>4, <1>5

LEMMA StartKeeps ==
  ASSUME IntakeInv, NEW w \in ArchiveLanes, NEW r \in ArchiveAsks, StartForInspection(w, r)
  PROVE  IntakeInv'
<1>1. ask \in [ArchiveAsks -> AskRows] /\ ask[r] \in AskRows /\ ask[r].st = "pending"
  BY DEF IntakeInv, IntakeTyped, RowsTyped, StartForInspection
<1>2. \A st \in AskStates : [ask EXCEPT ![r].st = st] \in [ArchiveAsks -> AskRows]
  BY <1>1 DEF AskRows
<1>3. ASSUME ask' = [ask EXCEPT ![r].st = "fulfilled"], UNCHANGED <<copyJob, jobsStarted, lane>>,
             UNCHANGED <<catalogued, intakeFiles, reader, workspaceLock, laneStops>>
      PROVE  IntakeInv'
  <2>1. ask' \in [ArchiveAsks -> AskRows]
    BY <1>2, <1>3 DEF AskStates
  <2>2. JobOK'
    BY <1>1, <1>3 DEF IntakeInv, JobOK, RequestsFollowJobs, AskRows
  <2> QED BY <1>3, <2>1, <2>2, AsksKeep
<1>4. ASSUME catalogued = Unarchived, copyJob = NoCopyJob, jobsStarted < MaxCopyJobs, lane[w].pc = "idle",
             ask' = [ask EXCEPT ![r].st = "running"], jobsStarted' = jobsStarted + 1,
             copyJob' = [req |-> r, tok |-> jobsStarted', fresh |-> TRUE],
             lane' = [lane EXCEPT ![w] = [pc |-> "claimed", req |-> r, tok |-> jobsStarted', img |-> 0]],
             UNCHANGED <<catalogued, intakeFiles, reader, workspaceLock, laneStops>>
      PROVE  IntakeInv'
  <2>1. PICK n \in 0..MaxCopyJobs : n = jobsStarted' /\ jobsStarted' \in 0..MaxCopyJobs
    BY <1>4, IntakeAssumption DEF IntakeInv, IntakeTyped, RowsTyped
  <2> DEFINE row == [pc |-> "claimed", req |-> r, tok |-> n, img |-> 0]
  <2>2. row \in LaneRows /\ lane' = [lane EXCEPT ![w] = row] /\ lane \in [ArchiveLanes -> LaneRows]
    <3>1. row \in LaneRows
      <4>1. 0 \in 0..MaxCopyJobs
        BY IntakeAssumption
      <4> QED BY <2>1, <4>1 DEF LaneRows, LaneSteps
    <3> QED BY <1>4, <2>1, <3>1, LaneTyped
  <2>3. /\ lane' \in [ArchiveLanes -> LaneRows] /\ lane'[w].pc = "claimed" /\ lane'[w].req = r
        /\ \A v \in ArchiveLanes \ {w} : lane'[v] = lane[v]
    BY <2>2
  <2>4. ask' \in [ArchiveAsks -> AskRows] /\ copyJob' \in CopyJobs
    BY <1>2, <1>4, <2>1 DEF AskStates, CopyJobs
  <2>5. IntakeTyped'
    BY <1>4, <2>1, <2>3, <2>4 DEF IntakeInv, IntakeTyped, RowsTyped, IntakeFilesTyped, LanesTyped, intakeFiles
  <2>6. IntakeQuiet
    BY <1>4, <2>3 DEF IntakeQuiet, IntakeInv, LanesOK, LaneOK, intakeFiles, Inside, CopyInHand,
           Unpublished, Accepting
  <2>7. JobOK'
    <3>1. r # 0 /\ copyJob.req = 0 /\ copyJob'.req = r
      BY <1>4, IntakeAssumption DEF NoCopyJob
    <3>2. \A q \in ArchiveAsks : ask'[q].st = IF q = r THEN "running" ELSE ask[q].st
      BY <1>1, <1>4 DEF AskRows
    <3>3. \A q \in ArchiveAsks : copyJob.req # q /\ ask[q].st \notin {"running", "cancelling"}
      BY <1>4, <3>1, IntakeAssumption DEF IntakeInv, JobOK, RequestsFollowJobs
    <3>4. catalogued' = Unarchived
      BY <1>4
    <3> QED BY <3>1, <3>2, <3>3, <3>4 DEF JobOK, RequestsFollowJobs
  <2> QED BY <2>5, <2>6, <2>7, IntakeQuietKeeps
<1> QED BY <1>3, <1>4 DEF StartForInspection

\* What an attempt does without an image in hand: it enters, prepares, refuses.
LEMMA WithoutImageKeeps ==
  ASSUME IntakeInv, NEW w \in ArchiveLanes,
         EnterWorkspace(w) \/ SetPartialsAside(w) \/ RefuseExisting(w)
  PROVE  IntakeInv'
<1>1. /\ lane[w].pc \in {"claimed", "entered", "prepared"} /\ UNCHANGED <<intakeRows, image, rescue, shelf, reader, laneStops>>
      /\ partials' \in {partials, {}}
  BY DEF EnterWorkspace, SetPartialsAside, RefuseExisting, intakeFiles
<1>2. /\ lane' \in [ArchiveLanes -> LaneRows] /\ workspaceLock' \in ArchiveLanes \cup {NoLane}
      /\ lane'[w].pc \in {"failing", "entered", "prepared"} /\ lane'[w].req \in ArchiveAsks
      /\ \A v \in ArchiveLanes \ {w} : lane'[v] = lane[v]
      /\ \A v \in ArchiveLanes : lane'[v].pc \in Inside => workspaceLock' = v
      /\ lane'[w].pc \in Unpublished => lane[w].pc \in Unpublished \/ copyJob # NoCopyJob
  <2>1. CASE Gives(w)
    BY <1>1, <2>1, GivesMoves DEF Unpublished
  <2>2. ASSUME lane[w].pc = "claimed", workspaceLock = NoLane, AuthorizeClaim(w), workspaceLock' = w,
               lane' = [lane EXCEPT ![w].pc = "entered"]
        PROVE  <1>2
    <3>1. "entered" \in LaneSteps
      BY DEF LaneSteps
    <3>2. \A v \in ArchiveLanes : lane[v].pc \notin Inside
      BY <2>2, IntakeAssumption DEF IntakeInv, LanesOK
    <3> QED BY <1>1, <2>2, <3>1, <3>2, LaneMoves, LaneTyped, Authorized
  <2>3. ASSUME lane[w].pc = "entered", GoesTo(w, "prepared") PROVE <1>2
    <3>1. "prepared" \in LaneSteps /\ "entered" \in Inside /\ "entered" \in Unpublished
      BY DEF LaneSteps, Inside, Unpublished
    <3>2. workspaceLock = w /\ \A v \in ArchiveLanes \ {w} : lane[v].pc \notin Inside
      BY <2>3, <3>1, AloneInside
    <3> QED BY <2>3, <3>1, <3>2, LaneMoves, LaneTyped DEF GoesTo, IntakeInv, IntakeTyped, LanesTyped
  <2> QED BY <1>1, <2>1, <2>2, <2>3 DEF EnterWorkspace, SetPartialsAside, RefuseExisting
<1>3. IntakeTyped'
  BY <1>1, <1>2 DEF IntakeInv, IntakeTyped, RowsTyped, IntakeFilesTyped, LanesTyped, intakeRows
<1>4. IntakeQuiet
  BY <1>1, <1>2 DEF IntakeQuiet, IntakeInv, LanesOK, LaneOK, intakeRows, CopyInHand, Accepting
<1> QED BY <1>1, <1>3, <1>4, IntakeQuietKeeps, JobsStay DEF intakeRows
LEMMA FilesTypes ==
  ASSUME IntakeInv
  PROVE  /\ image \in [Images -> ImageStates] /\ partials \subseteq Images
         /\ rescue \in [ArchiveAsks -> Rescues] /\ \A r \in ArchiveAsks : rescue[r] \in Rescues
         /\ shelf \in [iso : 0..MaxCopyJobs, failed : 0..MaxCopyJobs]
         /\ NoRescue \in Rescues /\ NoReader \in [img : 0..MaxCopyJobs, by : ArchiveLanes \cup {NoLane}]
BY IntakeAssumption DEF IntakeInv, IntakeTyped, IntakeFilesTyped, NoRescue, Rescues, RescueStates, NoReader

\* What is quarantined leaves the ISO path.
LEMMA QuarantinedShelf ==
  ASSUME IntakeInv, NEW i
  PROVE  /\ Quarantined(i) \in [iso : 0..MaxCopyJobs, failed : 0..MaxCopyJobs]
         /\ Quarantined(i).iso \in {shelf.iso, 0}
         /\ Quarantined(i).iso # shelf.iso => Quarantined(i).iso = 0
<1>1. CASE MayQuarantine(i)
  <2>1. Quarantined(i) = [iso |-> 0, failed |-> i] /\ i = shelf.iso
    BY <1>1 DEF Quarantined, MayQuarantine
  <2> QED BY <2>1, FilesTypes, IntakeAssumption
<1>2. CASE ~MayQuarantine(i)
  <2>1. Quarantined(i) = shelf
    BY <1>2 DEF Quarantined
  <2> QED BY <2>1, FilesTypes
<1> QED BY <1>1, <1>2

LEMMA QuarantineOrphanKeeps ==
  ASSUME IntakeInv, NEW w \in ArchiveLanes, QuarantineOrphan(w)
  PROVE  IntakeInv'
<1>1. /\ shelf' = Quarantined(shelf.iso) /\ lane[w].pc = "prepared" /\ catalogued = Unarchived
      /\ UNCHANGED <<intakeRows, image, partials, rescue, reader, workspaceLock, lane, laneStops>>
  BY Authorized DEF QuarantineOrphan
<1>2. \A v \in ArchiveLanes : lane[v].pc # "linked"
  BY <1>1, AloneInside DEF Inside, Unpublished
<1>3. IntakeTyped'
  BY <1>1, QuarantinedShelf DEF IntakeInv, IntakeTyped, RowsTyped, IntakeFilesTyped, LanesTyped, intakeRows
<1>4. IntakeQuiet
  BY <1>1, <1>2, QuarantinedShelf DEF IntakeQuiet, IntakeInv, LanesOK, LaneOK, intakeRows
<1> QED BY <1>1, <1>3, <1>4, IntakeQuietKeeps, JobsStay DEF intakeRows

LEMMA RejectKeeps ==
  ASSUME IntakeInv, NEW w \in ArchiveLanes, RejectImage(w)
  PROVE  IntakeInv'
<1> DEFINE r == lane[w].req
<1>1. /\ lane[w].pc \in {"entered", "prepared", "copied"} \cup Accepting /\ Gives(w) /\ partials' \subseteq partials
      /\ UNCHANGED <<intakeRows, image, reader, laneStops>>
      /\ rescue' \in {rescue, [rescue EXCEPT ![r] = NoRescue]}
      /\ shelf' \in {shelf, Quarantined(rescue[r].img)}
  BY DEF RejectImage, Accepting
<1>2. /\ lane' \in [ArchiveLanes -> LaneRows] /\ workspaceLock' \in ArchiveLanes \cup {NoLane}
      /\ lane'[w].pc = "failing" /\ lane'[w].req \in ArchiveAsks
      /\ \A v \in ArchiveLanes \ {w} : lane'[v] = lane[v]
      /\ \A v \in ArchiveLanes : lane'[v].pc \in Inside => workspaceLock' = v
  BY <1>1, GivesMoves DEF Accepting
<1>3. lane[w].pc \in Inside /\ lane[w].pc \in Unpublished
  BY <1>1 DEF Inside, Unpublished, Accepting
<1>4. \A v \in ArchiveLanes : lane'[v].pc # "linked" /\ lane'[v].pc \notin Accepting
  BY <1>2, <1>3, AloneInside DEF Inside, Unpublished, Accepting
<1>5. catalogued = Unarchived
  BY <1>3 DEF IntakeInv, ArchivedOK
<1>6. /\ rescue' \in [ArchiveAsks -> Rescues] /\ \A q \in ArchiveAsks : rescue'[q] \in {rescue[q], NoRescue}
  BY <1>1, FilesTypes
<1>7. shelf' \in [iso : 0..MaxCopyJobs, failed : 0..MaxCopyJobs] /\ shelf'.iso \in {shelf.iso, 0}
  BY <1>1, FilesTypes, QuarantinedShelf
<1>8. IntakeTyped'
  BY <1>1, <1>2, <1>6, <1>7 DEF IntakeInv, IntakeTyped, RowsTyped, IntakeFilesTyped, LanesTyped, intakeRows
<1>9. IntakeQuiet
  <2>1. \A v \in ArchiveLanes :
          /\ lane'[v].pc # "idle" => lane'[v].req \in ArchiveAsks
          /\ lane'[v].pc \in CopyInHand => lane'[v] = lane[v]
          /\ lane'[v].pc \in Unpublished => lane[v].pc \in Unpublished
    BY <1>2, LaneTyped DEF CopyInHand, Unpublished, Accepting
  <2> QED BY <1>1, <1>2, <1>4, <1>5, <1>6, <1>7, <2>1 DEF IntakeQuiet, intakeRows
<1> QED BY <1>1, <1>8, <1>9, IntakeQuietKeeps, JobsStay DEF intakeRows

LEMMA FinalizeFirstCopyKeeps ==
  ASSUME IntakeInv, NEW w \in ArchiveLanes, FinalizeFirstCopy(w)
  PROVE  IntakeInv'
<1>1. /\ lane[w].pc = "published" /\ lane' = [lane EXCEPT ![w] = IdleLane] /\ workspaceLock' = NoLane
      /\ UNCHANGED <<intakeRows, image, partials, shelf, reader, laneStops>>
      /\ rescue' \in {rescue, [rescue EXCEPT ![lane[w].req] = NoRescue]}
  BY DEF FinalizeFirstCopy
<1>2. /\ lane' \in [ArchiveLanes -> LaneRows] /\ lane'[w].pc = "idle"
      /\ \A v \in ArchiveLanes \ {w} : lane'[v] = lane[v]
  BY <1>1, LaneRests
<1>3. \A v \in ArchiveLanes : lane'[v].pc \notin Inside
  BY <1>1, <1>2, AloneInside DEF Inside, Unpublished
<1>4. /\ rescue' \in [ArchiveAsks -> Rescues] /\ \A q \in ArchiveAsks : rescue'[q] \in {rescue[q], NoRescue}
  BY <1>1, FilesTypes
<1>5. IntakeTyped'
  BY <1>1, <1>2, <1>4 DEF IntakeInv, IntakeTyped, RowsTyped, IntakeFilesTyped, LanesTyped, intakeRows
<1>6. IntakeQuiet
  BY <1>1, <1>2, <1>3, <1>4 DEF IntakeQuiet, IntakeInv, LanesOK, LaneOK, intakeRows, CopyInHand,
         Inside, Unpublished, Accepting
<1> QED BY <1>1, <1>5, <1>6, IntakeQuietKeeps, JobsStay DEF intakeRows

LEMMA LaneStopsKeeps ==
  ASSUME IntakeInv, NEW w \in ArchiveLanes, LaneStops(w)
  PROVE  IntakeInv'
<1>1. /\ lane' = [lane EXCEPT ![w] = IdleLane] /\ laneStops' \in 0..MaxLaneStops
      /\ workspaceLock' = IF workspaceLock = w THEN NoLane ELSE workspaceLock
      /\ reader' \in {reader, NoReader, [reader EXCEPT !.by = NoLane]}
      /\ UNCHANGED <<intakeRows, intakeFiles>>
  BY IntakeAssumption DEF LaneStops, IntakeInv, IntakeTyped, LanesTyped
<1>2. /\ lane' \in [ArchiveLanes -> LaneRows] /\ lane'[w].pc = "idle"
      /\ \A v \in ArchiveLanes \ {w} : lane'[v] = lane[v]
  BY <1>1, LaneRests
<1>3. /\ reader' \in [img : 0..MaxCopyJobs, by : ArchiveLanes \cup {NoLane}]
      /\ reader'.img \in {reader.img, 0} /\ (reader = NoReader => reader' = NoReader)
  BY <1>1, FilesTypes DEF IntakeInv, IntakeTyped, LanesTyped, NoReader
<1>4. IntakeTyped'
  BY <1>1, <1>2, <1>3 DEF IntakeInv, IntakeTyped, RowsTyped, IntakeFilesTyped, LanesTyped, intakeRows, intakeFiles
<1>5. IntakeQuiet
  BY <1>1, <1>2, <1>3 DEF IntakeQuiet, IntakeInv, LanesOK, LaneOK, intakeRows, intakeFiles,
         CopyInHand, Inside, Unpublished, Accepting
<1> QED BY <1>1, <1>4, <1>5, IntakeQuietKeeps, JobsStay DEF intakeRows

LEMMA ReaderEndsKeeps ==
  ASSUME IntakeInv, OrphanReaderEnds
  PROVE  IntakeInv'
<1>1. reader' = NoReader /\ UNCHANGED <<intakeRows, intakeFiles, workspaceLock, lane, laneStops>>
  BY DEF OrphanReaderEnds
<1>2. IntakeTyped'
  BY <1>1, FilesTypes DEF IntakeInv, IntakeTyped, RowsTyped, IntakeFilesTyped, LanesTyped, intakeRows, intakeFiles
<1>3. IntakeQuiet
  BY <1>1 DEF IntakeQuiet, IntakeInv, LanesOK, LaneOK, intakeRows, intakeFiles, NoReader
<1> QED BY <1>1, <1>2, <1>3, IntakeQuietKeeps, JobsStay DEF intakeRows

\* The rows of a job and its request, with no file changed but the shelf.
LEMMA JobRowsKeep ==
  ASSUME IntakeInv, ask' \in [ArchiveAsks -> AskRows], copyJob' \in CopyJobs, JobOK',
         catalogued # Unarchived => copyJob' = copyJob,
         lane' \in [ArchiveLanes -> LaneRows],
         \A w \in ArchiveLanes : lane'[w] = lane[w] \/ lane'[w].pc = "idle",
         shelf' \in [iso : 0..MaxCopyJobs, failed : 0..MaxCopyJobs],
         shelf' = shelf \/ (shelf'.iso \in {shelf.iso, 0} /\ catalogued = Unarchived
                             /\ \A w \in ArchiveLanes : lane[w].pc # "linked"),
         UNCHANGED <<jobsStarted, catalogued, image, partials, rescue, reader, workspaceLock, laneStops>>
  PROVE  IntakeInv'
<1>1. IntakeTyped'
  BY DEF IntakeInv, IntakeTyped, RowsTyped, IntakeFilesTyped, LanesTyped
<1>2. \A w \in ArchiveLanes : lane'[w].pc = "idle" => lane'[w].pc \notin Inside /\ lane'[w].pc \notin CopyInHand
                              /\ lane'[w].pc # "linked" /\ lane'[w].pc \notin Unpublished
  BY DEF Inside, CopyInHand, Unpublished, Accepting
<1>3. IntakeQuiet
  BY <1>2 DEF IntakeQuiet, IntakeInv, LanesOK, LaneOK
<1> QED BY <1>1, <1>3, IntakeQuietKeeps

LEMMA JobsTyped ==
  ASSUME IntakeInv
  PROVE  /\ ask \in [ArchiveAsks -> AskRows] /\ copyJob \in CopyJobs /\ NoCopyJob \in CopyJobs
         /\ 0 \notin ArchiveAsks
         /\ \A r \in ArchiveAsks, st \in AskStates : [ask EXCEPT ![r].st = st] \in [ArchiveAsks -> AskRows]
<1>1. ask \in [ArchiveAsks -> AskRows] /\ copyJob \in CopyJobs
  BY DEF IntakeInv, IntakeTyped, RowsTyped
<1>2. NoCopyJob \in CopyJobs
  BY IntakeAssumption DEF NoCopyJob, CopyJobs
<1>3. \A r \in ArchiveAsks, st \in AskStates : [ask EXCEPT ![r].st = st] \in [ArchiveAsks -> AskRows]
  BY <1>1 DEF AskRows
<1> QED BY <1>1, <1>2, <1>3, IntakeAssumption

\* A job ends, and its request with it.
LEMMA JobEndsOK ==
  ASSUME IntakeInv, NEW r \in ArchiveAsks, copyJob.req = r, copyJob' = NoCopyJob, catalogued' = catalogued,
         NEW st \in {"attention", "cancelled"}, ask' = [ask EXCEPT ![r].st = st]
  PROVE  JobOK' /\ ask' \in [ArchiveAsks -> AskRows] /\ copyJob' \in CopyJobs /\ catalogued = Unarchived
<1>1. catalogued = Unarchived
  BY JobsTyped DEF IntakeInv, ArchivedOK, NoCopyJob
<1>2. \A q \in ArchiveAsks : ask'[q].st = IF q = r THEN st ELSE ask[q].st
  BY JobsTyped DEF AskRows
<1>3. \A q \in ArchiveAsks : ask'[q].st \notin {"running", "cancelling"}
  BY <1>2 DEF IntakeInv, JobOK, RequestsFollowJobs
<1>4. copyJob'.req = 0
  BY DEF NoCopyJob
<1>5. JobOK'
  BY <1>1, <1>3, <1>4, JobsTyped DEF JobOK, RequestsFollowJobs
<1> QED BY <1>1, <1>5, JobsTyped DEF AskStates

LEMMA JobsEndKeeps ==
  ASSUME IntakeInv,
         \/ \E w \in ArchiveLanes : EndAttempt(w)
         \/ CopyLeaseEnds \/ RecoverExpiredJob \/ FinalizeExpiredCancellation
  PROVE  IntakeInv'
<1>0. shelf \in [iso : 0..MaxCopyJobs, failed : 0..MaxCopyJobs] /\ lane \in [ArchiveLanes -> LaneRows]
  BY FilesTypes DEF IntakeInv, IntakeTyped, LanesTyped
<1>1. ASSUME NEW w \in ArchiveLanes, EndAttempt(w) PROVE IntakeInv'
  <2>1. /\ lane' \in [ArchiveLanes -> LaneRows] /\ lane'[w].pc = "idle"
        /\ \A v \in ArchiveLanes \ {w} : lane'[v] = lane[v]
    BY <1>1, LaneRests DEF EndAttempt
  <2>2. UNCHANGED <<jobsStarted, catalogued, image, partials, rescue, shelf, reader, workspaceLock, laneStops>>
        /\ lane[w].req \in ArchiveAsks
    BY <1>1, LaneTyped DEF EndAttempt, intakeFiles
  <2>3. CASE RecordsEnd(w)
    <3>1. copyJob.req = lane[w].req /\ copyJob' = NoCopyJob
          /\ \E st \in {"attention", "cancelled"} : ask' = [ask EXCEPT ![lane[w].req].st = st]
      BY <1>1, <2>3 DEF EndAttempt, RecordsEnd, HoldsJob
    <3>2. PICK r \in ArchiveAsks : r = lane[w].req
      BY <2>2
    <3>3. JobOK' /\ ask' \in [ArchiveAsks -> AskRows] /\ copyJob' \in CopyJobs /\ catalogued = Unarchived
      BY <2>2, <3>1, <3>2, JobEndsOK
    <3> QED BY <1>0, <2>1, <2>2, <3>3, JobRowsKeep
  <2>4. CASE ~RecordsEnd(w)
    <3>1. UNCHANGED <<ask, copyJob>>
      BY <1>1, <2>4 DEF EndAttempt
    <3> QED BY <1>0, <2>1, <2>2, <3>1, JobRowsKeep, JobsStay, JobsTyped
  <2> QED BY <2>3, <2>4
<1>2. CASE CopyLeaseEnds
  <2>1. copyJob' \in CopyJobs /\ copyJob'.req = copyJob.req /\ copyJob.req # 0
        /\ UNCHANGED <<ask, jobsStarted, catalogued, intakeFiles, reader, workspaceLock, lane, laneStops>>
    BY <1>2, JobsTyped DEF CopyLeaseEnds, CopyJobs, NoCopyJob, IntakeInv, JobOK
  <2>2. JobOK'
    BY <2>1 DEF IntakeInv, JobOK, RequestsFollowJobs
  <2>3. catalogued = Unarchived
    BY <2>1 DEF IntakeInv, ArchivedOK, NoCopyJob
  <2> QED BY <1>0, <2>1, <2>2, <2>3, JobRowsKeep, JobsTyped DEF intakeFiles
<1>3. CASE RecoverExpiredJob
  <2>1. PICK r \in ArchiveAsks : r = copyJob.req
    BY <1>3, JobsTyped DEF RecoverExpiredJob, JobExpired, IntakeInv, JobOK, CopyJobs
  <2>2. JobOK' /\ ask' \in [ArchiveAsks -> AskRows] /\ copyJob' \in CopyJobs /\ catalogued = Unarchived
    BY <1>3, <2>1, JobEndsOK DEF RecoverExpiredJob
  <2> QED BY <1>0, <1>3, <2>2, JobRowsKeep DEF RecoverExpiredJob, intakeFiles
<1>4. CASE FinalizeExpiredCancellation
  <2>1. PICK r \in ArchiveAsks : r = copyJob.req
    BY <1>4, JobsTyped DEF FinalizeExpiredCancellation, JobExpired, IntakeInv, JobOK, CopyJobs
  <2>2. JobOK' /\ ask' \in [ArchiveAsks -> AskRows] /\ copyJob' \in CopyJobs /\ catalogued = Unarchived
    BY <1>4, <2>1, JobEndsOK DEF FinalizeExpiredCancellation
  <2>3. \A w \in ArchiveLanes : lane[w].pc # "linked"
    BY <1>4, IntakeAssumption DEF FinalizeExpiredCancellation, SourceInactive, IntakeInv, LanesOK, Inside, Unpublished
  <2>4. shelf' \in {shelf, Quarantined(shelf.iso)}
    BY <1>4 DEF FinalizeExpiredCancellation
  <2>5. shelf' \in [iso : 0..MaxCopyJobs, failed : 0..MaxCopyJobs] /\ shelf'.iso \in {shelf.iso, 0}
    BY <1>0, <2>4, QuarantinedShelf
  <2> QED BY <1>0, <1>4, <2>2, <2>3, <2>5, JobRowsKeep DEF FinalizeExpiredCancellation
<1> QED BY <1>1, <1>2, <1>3, <1>4
\* Work under the workspace lock, with no archive yet: no other lane is inside.
LEMMA LaneWorkKeeps ==
  ASSUME IntakeInv, NEW w \in ArchiveLanes, lane[w].pc \in Inside, catalogued = Unarchived,
         UNCHANGED <<intakeRows, laneStops>>,
         workspaceLock' = workspaceLock \/ lane'[w].pc \notin Inside,
         IntakeTyped', RescueOK', ShelfOK', LaneOK(lane[w])',
         \A v \in ArchiveLanes \ {w} : lane'[v] = lane[v]
  PROVE  IntakeInv'
<1>1. workspaceLock = w /\ \A v \in ArchiveLanes \ {w} : lane[v].pc \notin Inside
  BY AloneInside
<1>2. LanesOK'
  <2> SUFFICES ASSUME NEW v \in ArchiveLanes
               PROVE  LaneOK(lane[v])' /\ (lane'[v].pc \in Inside => workspaceLock' = v)
    BY DEF LanesOK
  <2>1. CASE v = w
    BY <1>1, <2>1
  <2>2. CASE v # w
    <3>1. lane'[v] = lane[v] /\ lane[v].pc \notin Inside /\ lane[v].pc \notin CopyInHand
      BY <1>1, <2>2 DEF Inside, Unpublished, CopyInHand, Accepting
    <3>2. lane[v].pc # "idle" => lane[v].req \in ArchiveAsks
      BY LaneTyped
    <3> QED BY <3>1, <3>2 DEF LaneOK, CopyInHand, Accepting
  <2> QED BY <2>1, <2>2
<1>3. ArchivedOK'
  BY DEF ArchivedOK, intakeRows, Unarchived
<1> QED BY <1>2, <1>3, JobsStay DEF IntakeInv, intakeRows

\* An image taken in hand.
LEMMA ImageTaken ==
  ASSUME IntakeInv, NEW w \in ArchiveLanes, NEW pc \in LaneSteps, NEW i \in Images,
         lane' = [lane EXCEPT ![w].pc = pc, ![w].img = i]
  PROVE  /\ lane' \in [ArchiveLanes -> LaneRows]
         /\ lane'[w].pc = pc /\ lane'[w].req = lane[w].req /\ lane'[w].img = i
         /\ \A v \in ArchiveLanes \ {w} : lane'[v] = lane[v]
<1> DEFINE row == [lane[w] EXCEPT !.pc = pc, !.img = i]
<1>1. lane \in [ArchiveLanes -> LaneRows] /\ lane[w] \in LaneRows
  BY LaneTyped
<1>2. i \in 0..MaxCopyJobs
  BY IntakeAssumption DEF Images
<1>3. row \in LaneRows /\ row.pc = pc /\ row.req = lane[w].req /\ row.img = i
  BY <1>1, <1>2 DEF LaneRows
<1>4. lane' = [lane EXCEPT ![w] = row]
  BY <1>1 DEF LaneRows
<1> HIDE DEF row
<1> QED BY <1>1, <1>3, <1>4

LEMMA CopyStartsKeeps ==
  ASSUME IntakeInv, NEW w \in ArchiveLanes, CopyStarts(w)
  PROVE  IntakeInv'
<1> DEFINE r == lane[w].req
<1>1. /\ lane[w].pc = "prepared" /\ AuthorizeClaim(w) /\ reader = NoReader
      /\ shelf.iso = 0 /\ (rescue[r] = NoRescue \/ rescue[r].res \in Resumed)
      /\ UNCHANGED <<intakeRows, rescue, shelf, workspaceLock, laneStops>>
  BY DEF CopyStarts, NeedsCopy
<1>2. PICK i \in Images :
        /\ \/ rescue[r] = NoRescue /\ image[i] = "free" /\ image' = [image EXCEPT ![i] = "partial"]
           \/ rescue[r] # NoRescue /\ i = rescue[r].img /\ image' = image
        /\ partials' \in {partials, partials \cup {i}}
        /\ reader' = [img |-> i, by |-> w]
        /\ lane' = [lane EXCEPT ![w].pc = "copying", ![w].img = i]
  BY DEF CopyStarts
<1>3. /\ "copying" \in LaneSteps /\ lane[w].pc \in Inside /\ i # 0 /\ i \in 0..MaxCopyJobs
  BY <1>1, IntakeAssumption DEF LaneSteps, Inside, Unpublished, Images
<1>4. /\ lane' \in [ArchiveLanes -> LaneRows]
      /\ lane'[w].pc = "copying" /\ lane'[w].req = r /\ lane'[w].img = i
      /\ \A v \in ArchiveLanes \ {w} : lane'[v] = lane[v]
  BY <1>2, <1>3, ImageTaken
<1>5. catalogued = Unarchived /\ r \in ArchiveAsks
  BY <1>1, Authorized
<1>6. /\ image' \in [Images -> ImageStates] /\ image'[i] # "free"
      /\ \A k \in Images : image[k] # "free" => image'[k] = image[k]
  BY <1>2, <1>3, <1>5, FilesTypes DEF ImageStates, IntakeInv, RescueOK
<1>7. \A q \in ArchiveAsks \ {r} : rescue[q].img # i
  BY <1>2, <1>3, <1>5 DEF IntakeInv, RescueOK
<1>8. rescue[r].img # 0 => rescue[r].img = i /\ rescue[r].res \in Resumed
  BY <1>1, <1>2 DEF NoRescue
<1>9. IntakeTyped'
  BY <1>1, <1>2, <1>3, <1>4, <1>6 DEF IntakeInv, IntakeTyped, RowsTyped, IntakeFilesTyped, LanesTyped, intakeRows
<1>10. RescueOK'
  <2> SUFFICES ASSUME NEW q \in ArchiveAsks
               PROVE  /\ rescue[q].res = "none" <=> rescue[q].img = 0
                      /\ rescue[q].img # 0 => image'[rescue[q].img] # "free"
                      /\ rescue[q].res = "clean" => image'[rescue[q].img] = "whole"
                      /\ rescue[q].img # 0 /\ rescue[q].img = reader'.img => rescue[q].res \in Resumed
                      /\ \A p \in ArchiveAsks \ {q} : rescue[q].img # 0 => rescue[p].img # rescue[q].img
    BY <1>1 DEF RescueOK
  <2>1. rescue[q].img # 0 => rescue[q].img \in Images
    BY FilesTypes, IntakeAssumption DEF Rescues, Images
  <2>2. reader'.img = i
    BY <1>2
  <2> QED BY <1>6, <1>7, <1>8, <2>1, <2>2 DEF IntakeInv, RescueOK
<1>11. ShelfOK'
  BY <1>1 DEF ShelfOK
<1>12. LaneOK(lane[w])'
  <2>1. rescue[r] = NoRescue \/ (rescue[r].res \in Resumed /\ rescue[r].img = i)
    BY <1>1, <1>2
  <2> QED BY <1>1, <1>4, <1>5, <1>6, <1>7, <2>1 DEF LaneOK, CopyInHand, Accepting
<1> QED BY <1>1, <1>3, <1>4, <1>5, <1>9, <1>10, <1>11, <1>12, LaneWorkKeeps
\* A copy that ended well enough to be kept, published or read again.
LEMMA CopyEndsWell ==
  ASSUME IntakeInv, NEW w \in ArchiveLanes, lane[w].pc = "copying", AuthorizeClaim(w),
         NEW row \in Rescues, rescue' = [rescue EXCEPT ![lane[w].req] = row],
         row.res = "none" <=> row.img = 0, row.img \in {0, lane[w].img},
         NEW bytes \in ImageStates \ {"free"}, image' = [image EXCEPT ![lane[w].img] = bytes],
         row.res = "clean" => bytes = "whole",
         NEW pc \in {"copied", "proving", "failing"}, lane' = [lane EXCEPT ![w].pc = pc],
         pc = "copied" => bytes = "whole", pc = "proving" => row.img = lane[w].img,
         workspaceLock' \in ArchiveLanes \cup {NoLane},
         workspaceLock' = workspaceLock \/ pc = "failing",
         reader' = NoReader, partials' \subseteq partials,
         UNCHANGED <<intakeRows, shelf, laneStops>>
  PROVE  IntakeInv'
<1> DEFINE r == lane[w].req
<1> DEFINE i == lane[w].img
<1>1. r \in ArchiveAsks /\ catalogued = Unarchived
  BY Authorized
<1>2. /\ lane[w].pc \in Inside /\ i \in Images /\ i # 0 /\ image[i] # "free"
      /\ \A q \in ArchiveAsks \ {r} : rescue[q].img # i
  BY DEF IntakeInv, LanesOK, LaneOK, Inside, Unpublished, CopyInHand, Images
<1>3. /\ lane' \in [ArchiveLanes -> LaneRows]
      /\ lane'[w].pc = pc /\ lane'[w].req = r /\ lane'[w].img = i
      /\ \A v \in ArchiveLanes \ {w} : lane'[v] = lane[v]
  <2>1. pc \in LaneSteps
    BY DEF LaneSteps
  <2> QED BY <2>1, LaneMoves
<1>4. /\ image' \in [Images -> ImageStates] /\ image'[i] = bytes
      /\ \A k \in Images \ {i} : image'[k] = image[k]
  BY <1>2, FilesTypes
<1>5. /\ rescue' \in [ArchiveAsks -> Rescues] /\ rescue'[r] = row
      /\ \A q \in ArchiveAsks \ {r} : rescue'[q] = rescue[q]
  BY <1>1, FilesTypes
<1>6. IntakeTyped'
  <2>1. reader' \in [img : 0..MaxCopyJobs, by : ArchiveLanes \cup {NoLane}]
    BY FilesTypes
  <2> QED BY <1>3, <1>4, <1>5, <2>1 DEF IntakeInv, IntakeTyped, RowsTyped, IntakeFilesTyped, LanesTyped, intakeRows
<1>7. RescueOK'
  <2> SUFFICES ASSUME NEW q \in ArchiveAsks
               PROVE  /\ rescue'[q].res = "none" <=> rescue'[q].img = 0
                      /\ rescue'[q].img # 0 => image'[rescue'[q].img] # "free"
                      /\ rescue'[q].res = "clean" => image'[rescue'[q].img] = "whole"
                      /\ rescue'[q].img # 0 /\ rescue'[q].img = reader'.img => rescue'[q].res \in Resumed
                      /\ \A p \in ArchiveAsks \ {q} : rescue'[q].img # 0 => rescue'[p].img # rescue'[q].img
    BY DEF RescueOK
  <2>1. reader'.img = 0
    BY DEF NoReader
  <2>2. \A p \in ArchiveAsks : rescue[p].img # 0 => rescue[p].img \in Images
    BY FilesTypes, IntakeAssumption DEF Rescues, Images
  <2>3. CASE q = r
    BY <1>2, <1>4, <1>5, <2>1, <2>3
  <2>4. CASE q # r
    BY <1>2, <1>4, <1>5, <2>1, <2>2, <2>4 DEF IntakeInv, RescueOK
  <2> QED BY <2>3, <2>4
<1>8. ShelfOK'
  <2>1. reader'.img = 0 /\ shelf' = shelf /\ (shelf.iso # 0 => shelf.iso \in Images)
    BY FilesTypes, IntakeAssumption DEF NoReader, Images
  <2> QED BY <1>4, <2>1 DEF IntakeInv, ShelfOK
<1>9. LaneOK(lane[w])'
  <2>1. reader'.img = 0
    BY DEF NoReader
  <2> QED BY <1>1, <1>2, <1>3, <1>4, <1>5, <2>1 DEF LaneOK, CopyInHand, Accepting
<1>10. workspaceLock' = workspaceLock \/ lane'[w].pc \notin Inside
  BY <1>3 DEF Inside, Unpublished
<1> QED BY <1>1, <1>2, <1>3, <1>6, <1>7, <1>8, <1>9, <1>10, LaneWorkKeeps

LEMMA CopyEndsKeeps ==
  ASSUME IntakeInv, NEW w \in ArchiveLanes, CopyEnds(w)
  PROVE  IntakeInv'
<1> DEFINE r == lane[w].req
<1> DEFINE i == lane[w].img
<1> DEFINE Keep(res) == [rescue EXCEPT ![r] = [img |-> i, res |-> res]]
<1>1. /\ lane[w].pc = "copying" /\ reader.img = i /\ reader' = NoReader /\ partials' \subseteq partials
      /\ UNCHANGED <<intakeRows, shelf, laneStops>>
  BY DEF CopyEnds
<1>2. /\ r \in ArchiveAsks /\ i \in Images /\ i # 0 /\ i \in 0..MaxCopyJobs
      /\ rescue[r] = NoRescue \/ (rescue[r].res \in Resumed /\ rescue[r].img = i)
      /\ image \in [Images -> ImageStates] /\ image[i] \in ImageStates \ {"free"}
      /\ workspaceLock \in ArchiveLanes \cup {NoLane}
  <2>1. /\ r \in ArchiveAsks /\ i \in Images /\ image[i] # "free"
        /\ rescue[r] = NoRescue \/ (rescue[r].res \in Resumed /\ rescue[r].img = i)
    BY <1>1 DEF IntakeInv, LanesOK, LaneOK, CopyInHand
  <2>2. i # 0 /\ i \in 0..MaxCopyJobs
    BY <2>1, IntakeAssumption DEF Images
  <2>3. workspaceLock \in ArchiveLanes \cup {NoLane}
    BY DEF IntakeInv, IntakeTyped, LanesTyped
  <2> QED BY <2>1, <2>2, <2>3, FilesTypes
<1>3. \A res \in RescueStates : [img |-> i, res |-> res] \in Rescues
  BY <1>2 DEF Rescues
<1>4. ASSUME AuthorizeClaim(w), image' = [image EXCEPT ![i] = "whole"], GoesTo(w, "copied"),
             rescue' = rescue, rescue[r] = NoRescue
      PROVE  IntakeInv'
  <2>1. rescue' = [rescue EXCEPT ![r] = NoRescue] /\ NoRescue \in Rescues
    BY <1>2, <1>4, FilesTypes
  <2>2. NoRescue.res = "none" /\ NoRescue.img = 0 /\ "whole" \in ImageStates \ {"free"}
    BY DEF NoRescue, ImageStates
  <2> HIDE DEF r, i
  <2> QED BY <1>1, <1>2, <1>4, <2>1, <2>2, CopyEndsWell DEF GoesTo, r, i
<1>5. ASSUME AuthorizeClaim(w), image' = [image EXCEPT ![i] = "whole"], GoesTo(w, "copied"),
             NEW res \in {"clean", "damaged"}, rescue' = Keep(res)
      PROVE  IntakeInv'
  <2>1. "whole" \in ImageStates \ {"free"} /\ [img |-> i, res |-> res] \in Rescues
    BY <1>3 DEF ImageStates, RescueStates
  <2> QED BY <1>1, <1>2, <1>5, <2>1, CopyEndsWell DEF GoesTo
<1>6. ASSUME AuthorizeClaim(w), GoesTo(w, "proving"),
             image' = [image EXCEPT ![i] = IF rescue[r].res = "damaged" THEN @ ELSE "short"],
             NEW res \in {"boundary", "proven"} \cup Resumed, rescue' = Keep(res)
      PROVE  IntakeInv'
  <2>1. [img |-> i, res |-> res] \in Rescues /\ res \notin {"none", "clean"}
    BY <1>3 DEF RescueStates, Resumed
  <2>2. PICK bytes \in ImageStates \ {"free"} : image' = [image EXCEPT ![i] = bytes]
    BY <1>2, <1>6 DEF ImageStates
  <2> QED BY <1>1, <1>2, <1>6, <2>1, <2>2, CopyEndsWell DEF GoesTo
<1>7. ASSUME AuthorizeClaim(w), Gives(w), image' = image,
             NEW res \in {"prefix", "torn"}, rescue' = Keep(res)
      PROVE  IntakeInv'
  <2>1. [img |-> i, res |-> res] \in Rescues
    BY <1>3 DEF RescueStates
  <2>2. image' = [image EXCEPT ![i] = image[i]]
    BY <1>2, <1>7
  <2>3. workspaceLock' \in ArchiveLanes \cup {NoLane} /\ lane' = [lane EXCEPT ![w].pc = "failing"]
    BY <1>2, <1>7 DEF Gives
  <2> QED BY <1>1, <1>2, <1>7, <2>1, <2>2, <2>3, CopyEndsWell
<1>8. ASSUME Gives(w), image' = image, rescue' = rescue PROVE IntakeInv'
  <2>1. /\ lane' \in [ArchiveLanes -> LaneRows] /\ workspaceLock' \in ArchiveLanes \cup {NoLane}
        /\ lane'[w].pc = "failing" /\ lane'[w].req \in ArchiveAsks
        /\ \A v \in ArchiveLanes \ {w} : lane'[v] = lane[v]
        /\ \A v \in ArchiveLanes : lane'[v].pc \in Inside => workspaceLock' = v
    BY <1>1, <1>8, GivesMoves
  <2>2. reader' \in [img : 0..MaxCopyJobs, by : ArchiveLanes \cup {NoLane}] /\ reader'.img = 0
    BY <1>1, FilesTypes DEF NoReader
  <2>3. IntakeTyped'
    BY <1>1, <1>8, <2>1, <2>2 DEF IntakeInv, IntakeTyped, RowsTyped, IntakeFilesTyped, LanesTyped, intakeRows
  <2>4. IntakeQuiet
    <3>1. \A v \in ArchiveLanes :
            /\ lane'[v].pc # "idle" => lane'[v].req \in ArchiveAsks
            /\ lane'[v].pc \in CopyInHand => lane'[v] = lane[v]
            /\ lane'[v].pc \in Unpublished => lane[v].pc \in Unpublished
      BY <2>1, LaneTyped DEF CopyInHand, Unpublished, Accepting
    <3> QED BY <1>1, <1>8, <2>1, <2>2, <3>1 DEF IntakeQuiet, intakeRows
  <2> QED BY <1>1, <2>3, <2>4, IntakeQuietKeeps, JobsStay DEF intakeRows
<1>9. rescue[r] # NoRescue => rescue[r].res \in Resumed
  BY <1>2
<1> QED BY <1>4, <1>5, <1>6, <1>7, <1>8, <1>9 DEF CopyEnds

\* An attempt that takes the rescue image of its request in hand, unchanged.
LEMMA AdoptKeeps ==
  ASSUME IntakeInv, NEW w \in ArchiveLanes, AdoptPublished(w)
  PROVE  IntakeInv'
<1> DEFINE r == lane[w].req
<1> DEFINE i == rescue[r].img
<1>1. /\ lane[w].pc = "prepared" /\ AuthorizeClaim(w) /\ shelf.iso # 0 /\ shelf.iso = i
      /\ image[i] \in {"short", "whole"}
      /\ lane' = [lane EXCEPT ![w].pc = "linked", ![w].img = i]
      /\ UNCHANGED <<intakeRows, intakeFiles, reader, workspaceLock, laneStops>>
  BY DEF AdoptPublished, Correlated
<1>2. /\ "linked" \in LaneSteps /\ lane[w].pc \in Inside /\ i \in Images
  BY <1>1, FilesTypes, IntakeAssumption DEF LaneSteps, Inside, Unpublished, Images
<1>3. /\ lane' \in [ArchiveLanes -> LaneRows]
      /\ lane'[w].pc = "linked" /\ lane'[w].req = r /\ lane'[w].img = i
      /\ \A v \in ArchiveLanes \ {w} : lane'[v] = lane[v]
  BY <1>1, <1>2, ImageTaken
<1>4. catalogued = Unarchived /\ r \in ArchiveAsks
  BY <1>1, Authorized
<1>5. IntakeTyped'
  BY <1>1, <1>3 DEF IntakeInv, IntakeTyped, RowsTyped, IntakeFilesTyped, LanesTyped, intakeRows, intakeFiles
<1>6. RescueOK' /\ ShelfOK'
  BY <1>1 DEF IntakeInv, RescueOK, ShelfOK, intakeFiles
<1>7. LaneOK(lane[w])'
  BY <1>1, <1>2, <1>3, <1>4 DEF LaneOK, Accepting, intakeFiles
<1> QED BY <1>1, <1>2, <1>3, <1>4, <1>5, <1>6, <1>7, LaneWorkKeeps

\* Nobody reads into the image whose end is to be accepted: its map says that
\* it needs no copy, or it is at the ISO path.
LEMMA ProveBoundaryKeeps ==
  ASSUME IntakeInv, NEW w \in ArchiveLanes, ProveBoundary(w)
  PROVE  IntakeInv'
<1> DEFINE r == lane[w].req
<1> DEFINE i == rescue[r].img
<1>1. /\ lane[w].pc = "prepared" /\ AuthorizeClaim(w) /\ Publishable(rescue[r])
      /\ lane' = [lane EXCEPT ![w].pc = "proving", ![w].img = i]
      /\ UNCHANGED <<intakeRows, intakeFiles, reader, workspaceLock, laneStops>>
  BY DEF ProveBoundary
<1>2. catalogued = Unarchived /\ r \in ArchiveAsks
  BY <1>1, Authorized
<1>3. /\ rescue[r].res \in {"boundary", "proven", "corrected"}
      /\ rescue[r].res = "corrected" => shelf.iso # 0 /\ shelf.iso = i
  BY <1>1 DEF Publishable, Boundaries, Correlated
<1>4. i # 0 /\ i \in 0..MaxCopyJobs /\ reader.img # i
  BY <1>2, <1>3, FilesTypes DEF IntakeInv, RescueOK, ShelfOK, Resumed, Rescues
<1>5. "proving" \in LaneSteps /\ lane[w].pc \in Inside /\ i \in Images
  BY <1>1, <1>4, IntakeAssumption DEF LaneSteps, Inside, Unpublished, Images
<1>6. /\ lane' \in [ArchiveLanes -> LaneRows]
      /\ lane'[w].pc = "proving" /\ lane'[w].req = r /\ lane'[w].img = i
      /\ \A v \in ArchiveLanes \ {w} : lane'[v] = lane[v]
  BY <1>1, <1>5, ImageTaken
<1>7. IntakeTyped'
  BY <1>1, <1>6 DEF IntakeInv, IntakeTyped, RowsTyped, IntakeFilesTyped, LanesTyped, intakeRows, intakeFiles
<1>8. RescueOK' /\ ShelfOK'
  BY <1>1 DEF IntakeInv, RescueOK, ShelfOK, intakeFiles
<1>9. LaneOK(lane[w])'
  BY <1>1, <1>2, <1>4, <1>5, <1>6 DEF LaneOK, intakeFiles
<1> QED BY <1>1, <1>2, <1>5, <1>6, <1>7, <1>8, <1>9, LaneWorkKeeps

\* A step of the acceptance: the map of the image in hand says something else
\* of it, and the image may be cut.
LEMMA AcceptingWorkKeeps ==
  ASSUME IntakeInv, NEW w \in ArchiveLanes, lane[w].pc \in Accepting, AuthorizeClaim(w),
         NEW res \in RescueStates \ {"none", "clean"},
         rescue' = [rescue EXCEPT ![lane[w].req].res = res],
         NEW bytes \in ImageStates \ {"free"}, image' = [image EXCEPT ![lane[w].img] = bytes],
         NEW pc \in {"staged", "trimmed", "accepted"}, GoesTo(w, pc),
         pc # "staged" => bytes = "short",
         UNCHANGED <<intakeRows, partials, shelf, reader, laneStops>>
  PROVE  IntakeInv'
<1> DEFINE r == lane[w].req
<1> DEFINE i == lane[w].img
<1>1. r \in ArchiveAsks /\ catalogued = Unarchived
  BY Authorized DEF Accepting
<1>2. /\ lane[w].pc \in Inside /\ i \in Images /\ i # 0 /\ rescue[r].img = i /\ reader.img # i
  BY DEF IntakeInv, LanesOK, LaneOK, Inside, Unpublished, CopyInHand, Accepting, Images
<1>3. /\ lane' \in [ArchiveLanes -> LaneRows]
      /\ lane'[w].pc = pc /\ lane'[w].req = r /\ lane'[w].img = i
      /\ \A v \in ArchiveLanes \ {w} : lane'[v] = lane[v]
  <2>1. pc \in LaneSteps
    BY DEF LaneSteps
  <2> QED BY <2>1, LaneMoves DEF GoesTo
<1>4. /\ image' \in [Images -> ImageStates] /\ image'[i] = bytes
      /\ \A k \in Images \ {i} : image'[k] = image[k]
  BY <1>2, FilesTypes
<1>5. /\ rescue' \in [ArchiveAsks -> Rescues] /\ rescue'[r].res = res /\ rescue'[r].img = i
      /\ \A q \in ArchiveAsks \ {r} : rescue'[q] = rescue[q]
  BY <1>1, <1>2, FilesTypes DEF Rescues
<1>6. IntakeTyped'
  BY <1>3, <1>4, <1>5 DEF IntakeInv, IntakeTyped, RowsTyped, IntakeFilesTyped, LanesTyped, intakeRows, GoesTo
<1>7. RescueOK'
  <2> SUFFICES ASSUME NEW q \in ArchiveAsks
               PROVE  /\ rescue'[q].res = "none" <=> rescue'[q].img = 0
                      /\ rescue'[q].img # 0 => image'[rescue'[q].img] # "free"
                      /\ rescue'[q].res = "clean" => image'[rescue'[q].img] = "whole"
                      /\ rescue'[q].img # 0 /\ rescue'[q].img = reader'.img => rescue'[q].res \in Resumed
                      /\ \A p \in ArchiveAsks \ {q} : rescue'[q].img # 0 => rescue'[p].img # rescue'[q].img
    BY DEF RescueOK
  <2>1. \A p \in ArchiveAsks : rescue[p].img # 0 => rescue[p].img \in Images
    BY FilesTypes, IntakeAssumption DEF Rescues, Images
  <2>2. \A p \in ArchiveAsks : rescue'[p].img = rescue[p].img
    BY <1>2, <1>5
  <2>3. \A p \in ArchiveAsks \ {q} : rescue'[q].img # 0 => rescue'[p].img # rescue'[q].img
    BY <2>2 DEF IntakeInv, RescueOK
  <2>4. CASE q = r
    BY <1>2, <1>4, <1>5, <2>3, <2>4
  <2>5. CASE q # r
    <3>1. rescue[q].img # i /\ rescue'[q] = rescue[q]
      BY <1>1, <1>2, <1>5, <2>5 DEF IntakeInv, RescueOK
    <3> QED BY <1>4, <2>1, <2>3, <3>1 DEF IntakeInv, RescueOK
  <2> QED BY <2>4, <2>5
<1>8. ShelfOK'
  <2>1. shelf.iso # 0 => shelf.iso \in Images
    BY FilesTypes, IntakeAssumption DEF Images
  <2> QED BY <1>4, <2>1 DEF IntakeInv, ShelfOK
<1>9. LaneOK(lane[w])'
  BY <1>1, <1>2, <1>3, <1>4, <1>5 DEF LaneOK, CopyInHand, Accepting
<1> QED BY <1>1, <1>2, <1>3, <1>6, <1>7, <1>8, <1>9, LaneWorkKeeps DEF GoesTo

LEMMA AcceptingKeeps ==
  ASSUME IntakeInv, NEW w \in ArchiveLanes,
         StageBoundary(w) \/ TrimBoundary(w) \/ AcceptBoundary(w)
  PROVE  IntakeInv'
<1> DEFINE r == lane[w].req
<1> DEFINE i == lane[w].img
<1>1. /\ lane[w].pc \in Accepting /\ AuthorizeClaim(w)
      /\ UNCHANGED <<intakeRows, partials, shelf, reader, laneStops>>
  BY DEF StageBoundary, TrimBoundary, AcceptBoundary, Accepting
<1>2. /\ r \in ArchiveAsks /\ i \in Images /\ i # 0 /\ rescue[r].img = i
      /\ image \in [Images -> ImageStates] /\ image[i] \in ImageStates \ {"free"}
      /\ lane[w].pc = "trimmed" => image[i] = "short"
      /\ rescue[r] \in Rescues /\ rescue[r].res # "none"
      /\ rescue[r].res = "clean" => image[i] = "whole"
  <2>1. /\ r \in ArchiveAsks /\ i \in Images /\ i # 0 /\ rescue[r].img = i
        /\ lane[w].pc = "trimmed" => image[i] = "short"
    BY <1>1 DEF IntakeInv, LanesOK, LaneOK, CopyInHand, Accepting, Images
  <2> QED BY <2>1, FilesTypes DEF IntakeInv, RescueOK
<1>3. image = [image EXCEPT ![i] = image[i]]
  BY <1>2
<1>4. CASE StageBoundary(w)
  <2>1. "proven" \in RescueStates \ {"none", "clean"} /\ image' = [image EXCEPT ![i] = image[i]]
    BY <1>3, <1>4 DEF StageBoundary, RescueStates
  <2>2. rescue' = [rescue EXCEPT ![r].res = "proven"] /\ GoesTo(w, "staged")
    BY <1>4 DEF StageBoundary
  <2> QED BY <1>1, <1>2, <2>1, <2>2, AcceptingWorkKeeps
<1>5. CASE TrimBoundary(w)
  <2>1. "short" \in ImageStates \ {"free"} /\ image' = [image EXCEPT ![i] = "short"] /\ GoesTo(w, "trimmed")
    BY <1>5 DEF TrimBoundary, ImageStates
  <2>2. PICK res \in RescueStates \ {"none", "clean"} : rescue' = [rescue EXCEPT ![r].res = res]
    <3>1. CASE image[i] = "short"
      <4>1. rescue' = [rescue EXCEPT ![r].res = rescue[r].res]
        BY <1>5, <3>1 DEF TrimBoundary
      <4>2. rescue[r].res \in RescueStates \ {"none", "clean"}
        BY <1>2, <3>1 DEF Rescues
      <4> QED BY <4>1, <4>2
    <3>2. CASE image[i] # "short"
      <4>1. rescue' = [rescue EXCEPT ![r].res = "torn"] /\ "torn" \in RescueStates \ {"none", "clean"}
        BY <1>5, <3>2 DEF TrimBoundary, RescueStates
      <4> QED BY <4>1
    <3> QED BY <3>1, <3>2
  <2> QED BY <1>1, <1>2, <2>1, <2>2, AcceptingWorkKeeps
<1>6. CASE AcceptBoundary(w)
  <2>1. image' = [image EXCEPT ![i] = image[i]] /\ GoesTo(w, "accepted") /\ image[i] = "short"
    BY <1>2, <1>3, <1>6 DEF AcceptBoundary
  <2>2. PICK res \in RescueStates \ {"none", "clean"} : rescue' = [rescue EXCEPT ![r].res = res]
    BY <1>6 DEF AcceptBoundary, RescueStates
  <2> QED BY <1>1, <1>2, <2>1, <2>2, AcceptingWorkKeeps
<1> QED BY <1>4, <1>5, <1>6

\* An image that is read into by nobody gets the ISO path, or has it.
LEMMA RescueLinked ==
  ASSUME IntakeInv, NEW w \in ArchiveLanes, lane[w].pc \in Inside, catalogued = Unarchived,
         NEW i \in Images, image[i] \in {"whole", "short"}, reader.img # i,
         lane[w].req \in ArchiveAsks, shelf' = [shelf EXCEPT !.iso = i],
         lane' \in [ArchiveLanes -> LaneRows],
         lane'[w].pc = "linked", lane'[w].req = lane[w].req, lane'[w].img = i,
         \A v \in ArchiveLanes \ {w} : lane'[v] = lane[v],
         UNCHANGED <<intakeRows, image, partials, rescue, reader, workspaceLock, laneStops>>
  PROVE  IntakeInv'
<1>1. i \in 0..MaxCopyJobs /\ i # 0
  BY IntakeAssumption DEF Images
<1>2. shelf' \in [iso : 0..MaxCopyJobs, failed : 0..MaxCopyJobs] /\ shelf'.iso = i
  BY <1>1, FilesTypes
<1>3. IntakeTyped'
  BY <1>2 DEF IntakeInv, IntakeTyped, RowsTyped, IntakeFilesTyped, LanesTyped, intakeRows
<1>4. RescueOK' /\ ShelfOK'
  BY <1>2 DEF IntakeInv, RescueOK, ShelfOK
<1>5. LaneOK(lane[w])'
  BY <1>2 DEF LaneOK, Accepting
<1> QED BY <1>3, <1>4, <1>5, LaneWorkKeeps

LEMMA LinkRescuedKeeps ==
  ASSUME IntakeInv, NEW w \in ArchiveLanes, LinkRescued(w)
  PROVE  IntakeInv'
<1> DEFINE r == lane[w].req
<1> DEFINE i == rescue[r].img
<1>1. /\ lane[w].pc = "prepared" /\ AuthorizeClaim(w) /\ rescue[r].res = "clean"
      /\ shelf' = [shelf EXCEPT !.iso = i]
      /\ lane' = [lane EXCEPT ![w].pc = "linked", ![w].img = i]
      /\ UNCHANGED <<intakeRows, image, partials, rescue, reader, workspaceLock, laneStops>>
  BY DEF LinkRescued
<1>2. catalogued = Unarchived /\ r \in ArchiveAsks
  BY <1>1, Authorized
<1>3. /\ "linked" \in LaneSteps /\ lane[w].pc \in Inside /\ i # 0 /\ reader.img # i
      /\ i \in 0..MaxCopyJobs /\ image[i] = "whole"
  BY <1>1, <1>2, FilesTypes DEF LaneSteps, Inside, Unpublished, IntakeInv, RescueOK, Rescues, Resumed
<1>4. i \in Images
  BY <1>3, IntakeAssumption DEF Images
<1>5. /\ lane' \in [ArchiveLanes -> LaneRows]
      /\ lane'[w].pc = "linked" /\ lane'[w].req = r /\ lane'[w].img = i
      /\ \A v \in ArchiveLanes \ {w} : lane'[v] = lane[v]
  BY <1>1, <1>3, <1>4, ImageTaken
<1> QED BY <1>1, <1>2, <1>3, <1>4, <1>5, RescueLinked

LEMMA LinkBoundaryKeeps ==
  ASSUME IntakeInv, NEW w \in ArchiveLanes, LinkBoundary(w)
  PROVE  IntakeInv'
<1> DEFINE i == lane[w].img
<1>1. /\ lane[w].pc = "accepted" /\ AuthorizeClaim(w) /\ shelf' = [shelf EXCEPT !.iso = i]
      /\ GoesTo(w, "linked")
      /\ UNCHANGED <<intakeRows, image, partials, rescue, reader, laneStops>>
  BY DEF LinkBoundary
<1>2. catalogued = Unarchived /\ lane[w].req \in ArchiveAsks
  BY <1>1, Authorized
<1>3. /\ "linked" \in LaneSteps /\ lane[w].pc \in Inside
      /\ i \in Images /\ image[i] = "short" /\ reader.img # i
  BY <1>1 DEF LaneSteps, Inside, Unpublished, IntakeInv, LanesOK, LaneOK, CopyInHand, Accepting
<1>4. /\ lane' \in [ArchiveLanes -> LaneRows]
      /\ lane'[w].pc = "linked" /\ lane'[w].req = lane[w].req /\ lane'[w].img = i
      /\ \A v \in ArchiveLanes \ {w} : lane'[v] = lane[v]
  BY <1>1, <1>3, LaneMoves DEF GoesTo
<1> QED BY <1>1, <1>2, <1>3, <1>4, RescueLinked DEF GoesTo

LEMMA LinkCopiedKeeps ==
  ASSUME IntakeInv, NEW w \in ArchiveLanes, LinkCopied(w)
  PROVE  IntakeInv'
<1> DEFINE i == lane[w].img
<1>1. /\ lane[w].pc = "copied" /\ partials' \subseteq partials
      /\ UNCHANGED <<intakeRows, image, rescue, reader, laneStops>>
  BY DEF LinkCopied
<1>2. /\ lane[w].pc \in Inside /\ lane[w].pc \in Unpublished /\ i \in Images /\ i # 0
      /\ image[i] = "whole" /\ reader = NoReader
  BY <1>1, IntakeAssumption DEF IntakeInv, LanesOK, LaneOK, Inside, Unpublished, CopyInHand, Images
<1>3. ASSUME AuthorizeClaim(w), shelf' = [shelf EXCEPT !.iso = i], GoesTo(w, "linked")
      PROVE  IntakeInv'
  <2>1. "linked" \in LaneSteps /\ i \in 0..MaxCopyJobs
    BY <1>2, IntakeAssumption DEF LaneSteps, Images
  <2>2. /\ lane' \in [ArchiveLanes -> LaneRows]
        /\ lane'[w].pc = "linked" /\ lane'[w].req = lane[w].req /\ lane'[w].img = i
        /\ \A v \in ArchiveLanes \ {w} : lane'[v] = lane[v]
    BY <1>3, <2>1, LaneMoves DEF GoesTo
  <2>3. shelf' \in [iso : 0..MaxCopyJobs, failed : 0..MaxCopyJobs] /\ shelf'.iso = i
    BY <1>3, <2>1, FilesTypes
  <2>4. catalogued = Unarchived /\ lane[w].req \in ArchiveAsks
    BY <1>1, <1>3, Authorized
  <2>5. IntakeTyped'
    BY <1>1, <1>3, <2>2, <2>3 DEF IntakeInv, IntakeTyped, RowsTyped, IntakeFilesTyped, LanesTyped, intakeRows, GoesTo
  <2>6. RescueOK'
    BY <1>1 DEF IntakeInv, RescueOK
  <2>7. ShelfOK'
    BY <1>1, <1>2, <2>3 DEF ShelfOK, NoReader
  <2>8. LaneOK(lane[w])'
    BY <1>1, <1>2, <2>2, <2>3, <2>4 DEF LaneOK, Accepting
  <2> QED BY <1>1, <1>2, <1>3, <2>2, <2>4, <2>5, <2>6, <2>7, <2>8, LaneWorkKeeps DEF GoesTo
<1>4. ASSUME Gives(w), shelf' = shelf PROVE IntakeInv'
  <2>1. /\ lane' \in [ArchiveLanes -> LaneRows] /\ workspaceLock' \in ArchiveLanes \cup {NoLane}
        /\ lane'[w].pc = "failing" /\ lane'[w].req \in ArchiveAsks
        /\ \A v \in ArchiveLanes \ {w} : lane'[v] = lane[v]
        /\ \A v \in ArchiveLanes : lane'[v].pc \in Inside => workspaceLock' = v
    BY <1>1, <1>4, GivesMoves
  <2>2. IntakeTyped'
    BY <1>1, <1>4, <2>1 DEF IntakeInv, IntakeTyped, RowsTyped, IntakeFilesTyped, LanesTyped, intakeRows
  <2>3. IntakeQuiet
    <3>1. \A v \in ArchiveLanes :
            /\ lane'[v].pc # "idle" => lane'[v].req \in ArchiveAsks
            /\ lane'[v].pc \in CopyInHand => lane'[v] = lane[v]
            /\ lane'[v].pc \in Unpublished => lane[v].pc \in Unpublished
      BY <2>1, LaneTyped DEF CopyInHand, Unpublished, Accepting
    <3> QED BY <1>1, <1>4, <2>1, <3>1 DEF IntakeQuiet, intakeRows
  <2> QED BY <1>1, <2>2, <2>3, IntakeQuietKeeps, JobsStay DEF intakeRows
<1> QED BY <1>3, <1>4 DEF LinkCopied

LEMMA PublishKeeps ==
  ASSUME IntakeInv, NEW w \in ArchiveLanes, PublishArchive(w)
  PROVE  IntakeInv'
<1> DEFINE i == lane[w].img
<1>1. /\ lane[w].pc = "linked" /\ UNCHANGED <<jobsStarted, image, partials, rescue, reader, laneStops>>
  BY DEF PublishArchive
<1>2. /\ lane[w].pc \in Inside /\ lane[w].pc \in Unpublished /\ i \in Images /\ i # 0 /\ i \in 0..MaxCopyJobs
      /\ shelf.iso = i /\ image[i] \in {"whole", "short"} /\ catalogued = Unarchived
  BY <1>1, IntakeAssumption DEF IntakeInv, LanesOK, LaneOK, ArchivedOK, Inside, Unpublished, CopyInHand, Images
<1>3. workspaceLock = w /\ \A v \in ArchiveLanes \ {w} : lane[v].pc \notin Inside
  BY <1>2, AloneInside
<1>4. ASSUME AuthorizeClaim(w), catalogued' = [img |-> i, size |-> image[i]], copyJob' = NoCopyJob,
             ask' = [q \in ArchiveAsks |->
               IF FulfilledBy(q) THEN [ask[q] EXCEPT !.st = "fulfilled"] ELSE ask[q]],
             shelf' = shelf, GoesTo(w, "published")
      PROVE  IntakeInv'
  <2>1. /\ lane' \in [ArchiveLanes -> LaneRows]
        /\ lane'[w].pc = "published" /\ lane'[w].req = lane[w].req
        /\ \A v \in ArchiveLanes \ {w} : lane'[v] = lane[v]
    <3>1. "published" \in LaneSteps
      BY DEF LaneSteps
    <3> QED BY <1>4, <3>1, LaneMoves DEF GoesTo
  <2>2. /\ ask \in [ArchiveAsks -> AskRows] /\ \A q \in ArchiveAsks : ask[q] \in AskRows
    BY DEF IntakeInv, IntakeTyped, RowsTyped
  <2>3. /\ ask' \in [ArchiveAsks -> AskRows]
        /\ \A q \in ArchiveAsks : ask'[q].st = IF FulfilledBy(q) THEN "fulfilled" ELSE ask[q].st
    <3>1. \A q \in ArchiveAsks : /\ [ask[q] EXCEPT !.st = "fulfilled"] \in AskRows
                                 /\ [ask[q] EXCEPT !.st = "fulfilled"].st = "fulfilled"
      BY <2>2 DEF AskRows, AskStates
    <3> QED BY <1>4, <2>2, <3>1
  <2>4. copyJob' \in CopyJobs /\ copyJob'.req = 0 /\ catalogued'.img = i /\ catalogued'.size = image[i]
        /\ catalogued' \in [img : 0..MaxCopyJobs, size : ImageStates \cup {"none"}]
    BY <1>2, <1>4, IntakeAssumption DEF CopyJobs, NoCopyJob, ImageStates
  <2>5. IntakeTyped'
    BY <1>1, <1>4, <2>1, <2>3, <2>4 DEF IntakeInv, IntakeTyped, RowsTyped, IntakeFilesTyped, LanesTyped, GoesTo
  <2>6. RescueOK' /\ ShelfOK'
    BY <1>1, <1>4 DEF IntakeInv, RescueOK, ShelfOK
  <2>7. \A v \in ArchiveLanes : lane'[v].pc \notin Unpublished /\ (lane'[v].pc \in Inside => v = w)
    BY <1>3, <2>1 DEF Inside, Unpublished
  <2>8. LanesOK'
    <3>1. \A v \in ArchiveLanes : lane'[v].pc # "idle" => lane'[v].req \in ArchiveAsks
      BY <1>1, <2>1, LaneTyped
    <3>2. \A v \in ArchiveLanes : lane'[v].pc \notin CopyInHand
      BY <2>7 DEF Unpublished, CopyInHand, Accepting
    <3> QED BY <1>3, <1>4, <2>7, <3>1, <3>2 DEF LanesOK, LaneOK, CopyInHand, Accepting, GoesTo
  <2>9. ArchivedOK'
    BY <1>1, <1>2, <1>4, <2>4, <2>7 DEF ArchivedOK
  <2>10. JobOK'
    <3>1. \A q \in ArchiveAsks : ask[q].st # "cancelling"
      BY <1>1, <1>4, Authorized DEF IntakeInv, JobOK, RequestsFollowJobs
    <3>2. \A q \in ArchiveAsks : ask'[q].st \in {"none", "cancelled", "fulfilled"}
      BY <2>2, <2>3, <3>1 DEF FulfilledBy, AskRows, AskStates
    <3> QED BY <1>4, <2>4, <3>2, IntakeAssumption DEF JobOK, RequestsFollowJobs
  <2> QED BY <2>5, <2>6, <2>8, <2>9, <2>10 DEF IntakeInv
<1>5. ASSUME UNCHANGED <<catalogued, copyJob, ask>>, shelf' = Quarantined(i), Gives(w)
      PROVE  IntakeInv'
  <2>1. /\ lane' \in [ArchiveLanes -> LaneRows] /\ workspaceLock' \in ArchiveLanes \cup {NoLane}
        /\ lane'[w].pc = "failing" /\ lane'[w].req \in ArchiveAsks
        /\ \A v \in ArchiveLanes \ {w} : lane'[v] = lane[v]
        /\ \A v \in ArchiveLanes : lane'[v].pc \in Inside => workspaceLock' = v
    BY <1>1, <1>5, GivesMoves
  <2>2. shelf' \in [iso : 0..MaxCopyJobs, failed : 0..MaxCopyJobs] /\ shelf'.iso \in {shelf.iso, 0}
    BY <1>5, QuarantinedShelf
  <2>3. IntakeTyped'
    BY <1>1, <1>5, <2>1, <2>2 DEF IntakeInv, IntakeTyped, RowsTyped, IntakeFilesTyped, LanesTyped
  <2>4. IntakeQuiet
    <3>1. \A v \in ArchiveLanes :
            /\ lane'[v].pc # "idle" => lane'[v].req \in ArchiveAsks
            /\ lane'[v].pc \in CopyInHand => lane'[v] = lane[v]
            /\ lane'[v].pc \in Unpublished => lane[v].pc \in Unpublished
            /\ lane'[v].pc # "linked"
      BY <1>3, <2>1, LaneTyped DEF CopyInHand, Unpublished, Inside, Accepting
    <3> QED BY <1>1, <1>2, <1>5, <2>1, <2>2, <3>1 DEF IntakeQuiet
  <2> QED BY <1>5, <2>3, <2>4, IntakeQuietKeeps, JobsStay
<1> QED BY <1>4, <1>5 DEF PublishArchive
LEMMA IntakeNextKeeps ==
  ASSUME IntakeInv, IntakeNext
  PROVE  IntakeInv'
<1>1. ASSUME NEW r \in ArchiveAsks,
             (\E d \in SourceDiscs : SubmitRequest(r, d)) \/ RetryRequest(r) \/ CancelRequest(r)
      PROVE  IntakeInv'
  BY <1>1, ArchiveRequestsKeep
<1>2. ASSUME NEW w \in ArchiveLanes, NEW r \in ArchiveAsks, StartForInspection(w, r)
      PROVE  IntakeInv'
  BY <1>2, StartKeeps
<1>3. ASSUME NEW w \in ArchiveLanes, LaneStep(w)
      PROVE  IntakeInv'
  <2>1. CASE EnterWorkspace(w) \/ SetPartialsAside(w) \/ RefuseExisting(w)
    BY <2>1, WithoutImageKeeps
  <2>2. CASE QuarantineOrphan(w)
    BY <2>2, QuarantineOrphanKeeps
  <2>3. CASE CopyStarts(w)
    BY <2>3, CopyStartsKeeps
  <2>4. CASE CopyEnds(w)
    BY <2>4, CopyEndsKeeps
  <2>5. CASE AdoptPublished(w)
    BY <2>5, AdoptKeeps
  <2>6. CASE LinkRescued(w)
    BY <2>6, LinkRescuedKeeps
  <2>7. CASE RejectImage(w)
    BY <2>7, RejectKeeps
  <2>12. CASE ProveBoundary(w)
    BY <2>12, ProveBoundaryKeeps
  <2>13. CASE StageBoundary(w) \/ TrimBoundary(w) \/ AcceptBoundary(w)
    BY <2>13, AcceptingKeeps
  <2>14. CASE LinkBoundary(w)
    BY <2>14, LinkBoundaryKeeps
  <2>8. CASE LinkCopied(w)
    BY <2>8, LinkCopiedKeeps
  <2>9. CASE PublishArchive(w)
    BY <2>9, PublishKeeps
  <2>10. CASE FinalizeFirstCopy(w)
    BY <2>10, FinalizeFirstCopyKeeps
  <2>11. CASE EndAttempt(w)
    BY <2>11, JobsEndKeeps
  <2> QED BY <1>3, <2>1, <2>2, <2>3, <2>4, <2>5, <2>6, <2>7, <2>8, <2>9, <2>10, <2>11,
              <2>12, <2>13, <2>14 DEF LaneStep
<1>4. ASSUME NEW w \in ArchiveLanes, LaneStops(w)
      PROVE  IntakeInv'
  BY <1>4, LaneStopsKeeps
<1>5. CASE OrphanReaderEnds \/ CopyLeaseEnds \/ RecoverExpiredJob \/ FinalizeExpiredCancellation
  BY <1>5, ReaderEndsKeeps, JobsEndKeeps
<1> QED BY <1>1, <1>2, <1>3, <1>4, <1>5 DEF IntakeNext

LEMMA IntakeStutterKeeps ==
  ASSUME IntakeInv, UNCHANGED intakeVars
  PROVE  IntakeInv'
<1>1. UNCHANGED <<ask, copyJob, jobsStarted, catalogued, image, partials, rescue, shelf,
                  reader, workspaceLock, lane, laneStops>>
  BY DEF intakeVars
<1> QED BY <1>1 DEF IntakeInv, IntakeTyped, RowsTyped, IntakeFilesTyped, LanesTyped, RescueOK, ShelfOK,
              LanesOK, LaneOK, ArchivedOK, JobOK, RequestsFollowJobs

\* IntakeInv is inductive: it holds at first and every step of the first copy
\* keeps it, for any number of workers, requests, discs, jobs and stops.
THEOREM IntakeInvariant == IntakeSpec => []IntakeInv
<1>1. IntakeInit => IntakeInv
  BY IntakeInitKeeps
<1>2. IntakeInv /\ [IntakeNext]_intakeVars => IntakeInv'
  BY IntakeNextKeeps, IntakeStutterKeeps
<1> QED BY <1>1, <1>2, PTL DEF IntakeSpec

\* The catalogued image is at the ISO path for good, whole or accepted by its
\* proven boundary, of the recorded size and never read into again, however
\* many workers, requests and stale attempts there are.
THEOREM CataloguedImageStandsHolds == IntakeSpec => []CataloguedImageStands
<1>1. IntakeInv => CataloguedImageStands
  <2> SUFFICES ASSUME IntakeInv, catalogued # Unarchived PROVE CataloguedImageStands
    BY DEF CataloguedImageStands
  <2>1. catalogued.img \in Images /\ catalogued.img # 0
    BY IntakeAssumption DEF IntakeInv, ArchivedOK, Images
  <2> QED BY <2>1 DEF IntakeInv, ArchivedOK, ShelfOK, CataloguedImageStands
<1> QED BY <1>1, IntakeInvariant, PTL

\* A request is running or being cancelled exactly while a job row is its own,
\* and none is open beside the archive that answers it.
THEOREM RequestsFollowJobsHolds == IntakeSpec => []RequestsFollowJobs
<1>1. IntakeInv => RequestsFollowJobs
  BY DEF IntakeInv, JobOK
<1> QED BY <1>1, IntakeInvariant, PTL

\* Requests, the job, the files and the workers' variables keep their types.
THEOREM IntakeTypeHolds == IntakeSpec => []IntakeTypeOK
<1>1. IntakeInv => IntakeTypeOK
  <2> SUFFICES ASSUME IntakeInv PROVE IntakeTypeOK
    OBVIOUS
  <2>1. RowsTyped /\ IntakeFilesTyped /\ LanesTyped
    BY DEF IntakeInv, IntakeTyped
  <2>2. \A r \in ArchiveAsks : ask[r] \in AskRows /\ rescue[r] \in Rescues
    BY <2>1 DEF RowsTyped, IntakeFilesTyped
  <2> QED BY <2>1, <2>2 DEF RowsTyped, IntakeFilesTyped, LanesTyped, IntakeTypeOK, AskRows, AskStates,
               Rescues, RescueStates, CopyJobs, ImageStates
<1> QED BY <1>1, IntakeInvariant, PTL

(* ------------------------- the inspection ------------------------- *)
RowStates == {"none", "running", "failed", "completed"}
RowPhases == {"none", "settling", "reading_metadata", "confirming_media", "retry_wait"}
InspectionRows ==
  [st : RowStates, ph : RowPhases, gen : Nat, tok : Pollers \cup {NoPoll}, live : BOOLEAN,
   n : Nat, done : SUBSET Nat, last : RowPhases, fails : 0..MaxInspectionFailures,
   stable : 0..StableObservations, manual : BOOLEAN, disc : DriveDiscs \cup {0}]
PollSteps == {"idle", "observing", "settling", "scanning", "proving", "marking", "completing"}
PollRecords == [pc : PollSteps, mine : BOOLEAN, fresh : BOOLEAN, gen : Nat, disc : DriveDiscs \cup {0}]

\* The claim, the attempts and the failures of a row.
RowHangsTogether(row) ==
  /\ row.st = "none" => row = NoInspection
  /\ row.st # "none" => row.n >= 1 /\ row.gen >= 1
  /\ row.st = "running" => row.fails < MaxInspectionFailures /\ row.ph # "none"
  /\ row.st = "running" => (row.tok = NoPoll <=> row.ph = "retry_wait")
  /\ row.st # "running" => row.tok = NoPoll
  /\ row.st # "none" => row.done = IF row.tok = NoPoll THEN 1..row.n ELSE 1..(row.n - 1)
\* What InspectionNamesItsDisc says, of any row.
NamesDisc(row) ==
  row.st = "completed" =>
    discAt[row.gen] = row.disc /\ discSeen[row.disc] = "scanned" /\ row.disc \in DriveDiscs
GoodRow(row) ==
  row \in InspectionRows /\ row.gen \in 0..Len(discAt) /\ RowHangsTogether(row) /\ NamesDisc(row)

\* A proof under way has read the disc of its generation unless a later one is there.
GoodPollGiven(p, seen) ==
  /\ p \in PollRecords /\ p.gen \in 0..Len(discAt)
  /\ p.pc # "idle" => p.gen >= 1
  /\ p.pc \in {"proving", "marking", "completing"} => p.disc \in DriveDiscs
  /\ p.pc = "proving" /\ p.gen = Len(discAt) => p.disc = discAt[p.gen]
  /\ p.pc \in {"marking", "completing"} => p.disc = discAt[p.gen] /\ seen[p.disc] # "unseen"
  /\ p.pc = "completing" => seen[p.disc] = "scanned"
GoodPoll(p) == GoodPollGiven(p, discSeen)

DriveOK == discAt \in Seq(DriveDiscs) /\ tray \in {0, Len(discAt)} /\ Len(discAt) <= MaxGenerations
SeenOK == discSeen \in [DriveDiscs -> {"unseen", "detected", "scanned"}]
PollsOK == /\ DOMAIN poller = Pollers
           /\ poller = [w \in Pollers |-> poller[w]]
           /\ \A w \in Pollers : GoodPoll(poller[w])
BoundsOK == pollStops \in 0..MaxPollStops /\ manualRetries \in 0..MaxManualRetries

InspectionInv == DriveOK /\ SeenOK /\ GoodRow(insp) /\ PollsOK /\ BoundsOK
LEMMA InspectionInitKeeps == InspectionInit => InspectionInv
BY InspectionAssumption DEF InspectionInit, InspectionInv, DriveOK, SeenOK, GoodRow, PollsOK, BoundsOK, GoodPoll, GoodPollGiven,
   RowHangsTogether, NamesDisc, NoInspection, RestingPoll, InspectionRows, PollRecords, RowStates,
   RowPhases, PollSteps, NoPoll

\* A step of one poll, or of nobody's, that leaves the drive and the discs alone.
LEMMA InspectionSteps ==
  ASSUME InspectionInv, NEW w \in Pollers, NEW p, GoodPoll(p), GoodRow(insp'),
         UNCHANGED <<tray, discAt, discSeen>>, poller' = [poller EXCEPT ![w] = p],
         BoundsOK'
  PROVE  InspectionInv'
<1>1. GoodRow(insp)' BY DEF GoodRow, RowHangsTogether, NamesDisc
<1>2. \A v \in Pollers : poller'[v] = IF v = w THEN p ELSE poller[v]
  BY DEF InspectionInv, PollsOK
<1>3. \A v \in Pollers : GoodPoll(poller'[v])
  BY <1>2 DEF InspectionInv, PollsOK
<1>4. PollsOK'
  BY <1>3 DEF InspectionInv, PollsOK, GoodPoll, GoodPollGiven
<1> QED BY <1>1, <1>4 DEF InspectionInv, DriveOK, SeenOK

LEMMA RestingPollGood == ASSUME InspectionInv PROVE GoodPoll(RestingPoll)
BY DEF InspectionInv, DriveOK, GoodPoll, GoodPollGiven, RestingPoll, PollRecords, PollSteps

\* Steps without a poll: the row alone.
LEMMA InspectionRowSteps ==
  ASSUME InspectionInv, GoodRow(insp'), UNCHANGED <<tray, discAt, discSeen, poller>>, BoundsOK'
  PROVE  InspectionInv'
BY DEF InspectionInv, GoodRow, RowHangsTogether, NamesDisc, PollsOK, GoodPoll, GoodPollGiven, DriveOK, SeenOK

LEMMA NoInspectionGood == ASSUME InspectionInv PROVE GoodRow(NoInspection)
BY InspectionAssumption DEF InspectionInv, DriveOK, GoodRow, NoInspection, InspectionRows,
   RowStates, RowPhases, RowHangsTogether, NamesDisc

LEMMA AttemptEndedGood ==
  ASSUME InspectionInv, insp.st = "running", insp.tok \in Pollers
  PROVE  /\ GoodRow(Retried(insp)) /\ GoodRow(Failed(insp))
         /\ \A d \in DriveDiscs : discAt[insp.gen] = d /\ discSeen[d] = "scanned" =>
              GoodRow([AttemptEnded(insp) EXCEPT !.st = "completed", !.fails = 0, !.disc = d])
<1> DEFINE ended == AttemptEnded(insp)
<1>a. insp \in InspectionRows /\ insp.n \in Nat /\ insp.n >= 1 /\ insp.tok # NoPoll
      /\ insp.done = 1..(insp.n - 1) /\ insp.fails + 1 <= MaxInspectionFailures
      /\ insp.fails \in Nat /\ insp.ph # "none" /\ insp.gen \in 1..Len(discAt)
      /\ insp.ph \in RowPhases
  BY InspectionAssumption DEF InspectionInv, GoodRow, RowHangsTogether, InspectionRows
<1>b. insp.done \cup {insp.n} = 1..insp.n
  BY <1>a
<1>1. ended \in InspectionRows /\ ended = [insp EXCEPT !.done = 1..insp.n, !.last = insp.ph, !.tok = NoPoll, !.live = FALSE]
  BY <1>a, <1>b DEF AttemptEnded, InspectionRows
<1>c. ended.fails = insp.fails
  BY <1>1, <1>a DEF InspectionRows
<1>2. GoodRow(Failed(insp))
  <2>1. Failed(insp) \in InspectionRows
    BY <1>1 DEF Failed, InspectionRows, RowStates
  <2> QED BY <2>1, <1>1, <1>a DEF Failed, GoodRow, RowHangsTogether, NamesDisc, InspectionRows
<1>3. GoodRow(Retried(insp))
  <2> DEFINE more == [ended EXCEPT !.fails = @ + 1]
  <2>1. more \in InspectionRows
    <3> HIDE DEF ended
    <3>1. ended.fails + 1 \in 0..MaxInspectionFailures
      BY <1>c, <1>a, InspectionAssumption
    <3> QED BY <3>1, <1>1 DEF InspectionRows
  <2>2. [more EXCEPT !.st = "failed"] \in InspectionRows /\ [more EXCEPT !.ph = "retry_wait"] \in InspectionRows
    BY <2>1 DEF InspectionRows, RowStates, RowPhases
  <2>3. Retried(insp) = IF insp.fails + 1 >= MaxInspectionFailures THEN [more EXCEPT !.st = "failed"]
                        ELSE [more EXCEPT !.ph = "retry_wait"]
    BY DEF Retried
  <2>4. GoodRow([more EXCEPT !.st = "failed"])
    BY <2>2, <1>1, <1>a DEF GoodRow, RowHangsTogether, NamesDisc, InspectionRows
  <2>5. insp.fails + 1 < MaxInspectionFailures => GoodRow([more EXCEPT !.ph = "retry_wait"])
    BY <2>2, <1>1, <1>a DEF GoodRow, RowHangsTogether, NamesDisc, InspectionRows
  <2> QED BY <2>3, <2>4, <2>5, <1>a, InspectionAssumption
<1>4. ASSUME NEW d \in DriveDiscs, discAt[insp.gen] = d, discSeen[d] = "scanned"
      PROVE  GoodRow([AttemptEnded(insp) EXCEPT !.st = "completed", !.fails = 0, !.disc = d])
  <2> DEFINE over == [ended EXCEPT !.st = "completed", !.fails = 0, !.disc = d]
  <2>1. over \in InspectionRows
    <3> HIDE DEF ended
    <3>1. 0 \in 0..MaxInspectionFailures
      BY InspectionAssumption
    <3> QED BY <3>1, <1>1 DEF InspectionRows, RowStates
  <2> QED BY <2>1, <1>1, <1>a, <1>4 DEF GoodRow, RowHangsTogether, NamesDisc, InspectionRows
<1> QED BY <1>2, <1>3, <1>4

LEMMA OwnedRow ==
  ASSUME InspectionInv, NEW w \in Pollers, OwnsInspection(w)
  PROVE  insp.st = "running" /\ insp.tok = w /\ insp.tok \in Pollers /\ insp.gen = poller[w].gen
BY DEF OwnsInspection
LEMMA BegunOrResumedGood ==
  ASSUME InspectionInv, NEW w \in Pollers, NEW g \in 1..Len(discAt), ClaimsInspection(g)
  PROVE  /\ GoodRow(BegunOrResumed(w, g))
         /\ BegunOrResumed(w, g).ph = "settling" => BegunOrResumed(w, g).st = "running"
         /\ BegunOrResumed(w, g).st = "running" /\ BegunOrResumed(w, g).tok = w
<1>a. insp \in InspectionRows /\ insp.n \in Nat /\ RowHangsTogether(insp) /\ w # NoPoll /\ g \in Nat /\ g >= 1
      /\ 0 \in 0..MaxInspectionFailures /\ 0 \in 0..StableObservations /\ 0 < MaxInspectionFailures
      /\ Len(discAt) \in Nat /\ insp.n + 1 \in Nat /\ 1..insp.n \subseteq Nat
  BY InspectionAssumption DEF InspectionInv, GoodRow, InspectionRows, DriveOK
<1>b. ASSUME NEW row \in InspectionRows, row.n >= 1, row.done = 1..(row.n - 1), row.fails < MaxInspectionFailures
      PROVE  /\ GoodRow(SettlingClaim(row, w, g)) /\ SettlingClaim(row, w, g).st = "running"
             /\ SettlingClaim(row, w, g).tok = w
  <2>1. SettlingClaim(row, w, g) \in InspectionRows
    BY <1>a DEF SettlingClaim, InspectionRows, RowStates, RowPhases
  <2> QED BY <2>1, <1>a, <1>b DEF SettlingClaim, GoodRow, RowHangsTogether, NamesDisc, InspectionRows
<1>1. CASE Superseded(g)
  <2> DEFINE fresh == SettlingClaim(NoInspection, w, g)
  <2>1. fresh \in InspectionRows
    BY <1>a DEF NoInspection, SettlingClaim, InspectionRows, RowStates, RowPhases
  <2>2. FreshInspection(w, g) \in InspectionRows /\ FreshInspection(w, g) = [fresh EXCEPT !.n = 1]
    BY <2>1 DEF FreshInspection, InspectionRows
  <2>3. GoodRow(FreshInspection(w, g)) /\ FreshInspection(w, g).st = "running" /\ FreshInspection(w, g).tok = w
    BY <2>2, <1>a DEF NoInspection, SettlingClaim, GoodRow, RowHangsTogether, NamesDisc
  <2> QED BY <2>3, <1>1 DEF BegunOrResumed
<1>2. CASE ~Superseded(g) /\ ManuallyReopened
  <2> DEFINE row == [insp EXCEPT !.n = @ + 1, !.fails = 0]
  <2>1. row \in InspectionRows
    BY <1>a DEF InspectionRows
  <2>2. insp.n >= 1 /\ insp.done = 1..insp.n
    BY <1>2, <1>a DEF ManuallyReopened, RowHangsTogether
  <2>3. row.n >= 1 /\ row.done = 1..(row.n - 1) /\ row.fails < MaxInspectionFailures
    BY <2>2, <1>a DEF InspectionRows
  <2> HIDE DEF row
  <2>4. BegunOrResumed(w, g) = SettlingClaim(row, w, g)
    BY <1>2 DEF BegunOrResumed, row
  <2> QED BY <1>b, <2>1, <2>3, <2>4
<1>3. CASE ~Superseded(g) /\ ~ManuallyReopened
  <2>1. insp.st = "running" /\ insp.n >= 1 /\ insp.gen >= 1 /\ insp.fails < MaxInspectionFailures
        /\ insp.fails \in Nat /\ Resumable
    BY <1>3, <1>a DEF ClaimsInspection, Resumable, RowHangsTogether, InspectionRows
  <2>2. CASE insp.ph = "settling"
    <3> DEFINE row == InterruptedAttempt(insp)
    <3>1. insp.tok # NoPoll /\ insp.done = 1..(insp.n - 1)
      BY <2>1, <2>2, <1>a DEF RowHangsTogether
    <3>2. insp.done \cup {insp.n} = 1..insp.n
      BY <3>1, <2>1, <1>a
    <3>3. row = [insp EXCEPT !.done = 1..insp.n, !.n = insp.n + 1]
      BY <3>1, <3>2 DEF InterruptedAttempt, InspectionRows
    <3> HIDE DEF row
    <3>4. row \in InspectionRows /\ row.n = insp.n + 1 /\ row.done = 1..insp.n /\ row.fails = insp.fails
      BY <3>3, <1>a DEF InspectionRows
    <3>5. BegunOrResumed(w, g) = SettlingClaim(row, w, g)
      BY <1>3, <2>2 DEF BegunOrResumed, row
    <3>6. row.n >= 1 /\ row.done = 1..(row.n - 1) /\ row.fails < MaxInspectionFailures
      BY <3>4, <2>1, <1>a
    <3> QED BY <1>b, <3>4, <3>5, <3>6
  <2>3. CASE insp.ph = "retry_wait"
    <3> DEFINE row == [insp EXCEPT !.n = @ + 1]
    <3>1. row \in InspectionRows /\ row.n = insp.n + 1 /\ row.done = insp.done /\ row.fails = insp.fails
      BY <1>a DEF InspectionRows
    <3>2. insp.done = 1..insp.n
      BY <2>1, <2>3, <1>a DEF RowHangsTogether
    <3>3. row.n >= 1 /\ row.done = 1..(row.n - 1) /\ row.fails < MaxInspectionFailures
      BY <3>1, <3>2, <2>1, <1>a
    <3> HIDE DEF row
    <3>4. BegunOrResumed(w, g) = SettlingClaim(row, w, g)
      BY <1>3, <2>3 DEF BegunOrResumed, row
    <3> QED BY <1>b, <3>1, <3>3, <3>4
  <2>4. CASE insp.ph \notin {"settling", "retry_wait"}
    <3> DEFINE row == InterruptedAttempt(insp)
               taken == [row EXCEPT !.tok = w, !.live = TRUE]
    <3>1. insp.tok # NoPoll /\ insp.done = 1..(insp.n - 1)
      BY <2>1, <2>4, <1>a DEF RowHangsTogether
    <3>2. insp.done \cup {insp.n} = 1..insp.n
      BY <3>1, <2>1, <1>a
    <3>3. row = [insp EXCEPT !.done = 1..insp.n, !.n = insp.n + 1]
      BY <3>1, <3>2 DEF InterruptedAttempt, InspectionRows
    <3> HIDE DEF row
    <3>4. row \in InspectionRows
      BY <3>3, <1>a DEF InspectionRows
    <3>5. row.n = insp.n + 1 /\ row.done = 1..insp.n /\ row.fails = insp.fails /\ row.ph = insp.ph
          /\ row.st = insp.st /\ row.gen = insp.gen
      BY <3>3, <1>a DEF InspectionRows
    <3>6. taken \in InspectionRows
      BY <3>4 DEF InspectionRows
    <3>7. BegunOrResumed(w, g) = taken
      BY <1>3, <2>4 DEF BegunOrResumed, row
    <3>8. RowHangsTogether(taken) /\ NamesDisc(taken)
      BY <3>4, <3>5, <3>1, <2>1, <2>4, <1>a DEF RowHangsTogether, NamesDisc, InspectionRows
    <3>9. taken.gen \in 0..Len(discAt) /\ taken.st = "running" /\ taken.tok = w
      BY <3>4, <3>5, <2>1 DEF InspectionInv, GoodRow, InspectionRows
    <3> QED BY <3>6, <3>7, <3>8, <3>9 DEF GoodRow
  <2> QED BY <2>2, <2>3, <2>4
<1> QED BY <1>1, <1>2, <1>3

LEMMA ObservationGood ==
  ASSUME InspectionInv, insp.st = "running", insp.ph = "settling", NEW g \in 1..Len(discAt),
         NEW readable \in BOOLEAN, NEW same \in BOOLEAN
  PROVE  LET seen == Observation(insp, g, readable, same)
         IN  GoodRow(seen) /\ GoodRow(SettlingOver(seen))
<1> DEFINE matches == same /\ insp.gen = g /\ insp.stable > 0
           counted == IF ~readable THEN 0
                      ELSE IF ~matches THEN 1
                      ELSE IF insp.stable < StableObservations THEN insp.stable + 1 ELSE insp.stable
           seen == [insp EXCEPT !.gen = g, !.stable = counted]
<1>a. insp \in InspectionRows /\ RowHangsTogether(insp) /\ insp.stable \in 0..StableObservations /\ g \in Nat
  BY DEF InspectionInv, GoodRow, InspectionRows, DriveOK
<1>1. counted \in 0..StableObservations
  BY <1>a, InspectionAssumption
<1>2. seen = Observation(insp, g, readable, same)
  BY DEF Observation
<1> HIDE DEF counted
<1>3. seen \in InspectionRows
  BY <1>1, <1>a DEF InspectionRows
<1>4. SettlingOver(seen) \in InspectionRows
  BY <1>3 DEF SettlingOver, InspectionRows, RowPhases
<1>5. GoodRow(seen) /\ GoodRow(SettlingOver(seen))
  BY <1>3, <1>4, <1>a DEF SettlingOver, GoodRow, RowHangsTogether, NamesDisc, InspectionRows, InspectionInv, DriveOK
<1> QED BY <1>2, <1>5
\* The drive: another generation leaves what the row and the polls name alone.
LEMMA NewGenerationKeeps ==
  ASSUME InspectionInv, NEW d \in DriveDiscs, NewGeneration(d)
  PROVE  InspectionInv'
<1>1. /\ discAt' \in Seq(DriveDiscs) /\ Len(discAt') = Len(discAt) + 1 /\ Len(discAt) \in Nat
      /\ \A g \in 1..Len(discAt) : discAt'[g] = discAt[g]
      /\ tray' = Len(discAt')
  BY DEF InspectionInv, DriveOK, NewGeneration
<1>2. insp' = insp /\ discSeen' = discSeen /\ poller' = poller
  BY DEF NewGeneration
<1>3. \A w \in Pollers : GoodPoll(poller[w])'
  <2> SUFFICES ASSUME NEW w \in Pollers PROVE GoodPoll(poller[w])'
    OBVIOUS
  <2>1. GoodPoll(poller[w]) /\ poller[w].gen \in 0..Len(discAt)
    BY DEF InspectionInv, PollsOK, GoodPoll, GoodPollGiven
  <2>2. poller[w].pc # "idle" => discAt'[poller[w].gen] = discAt[poller[w].gen]
    BY <1>1, <2>1 DEF GoodPoll, GoodPollGiven
  <2>3. poller[w].gen \in 0..Len(discAt') /\ poller[w].gen # Len(discAt')
    BY <1>1, <2>1
  <2> QED BY <1>2, <2>1, <2>2, <2>3 DEF GoodPoll, GoodPollGiven
<1>4. DriveOK' /\ SeenOK' /\ BoundsOK'
  BY <1>1, InspectionAssumption DEF InspectionInv, NewGeneration, DriveOK, SeenOK, BoundsOK
<1>5. GoodRow(insp)'
  <2>1. GoodRow(insp) /\ insp.gen \in 0..Len(discAt)
    BY DEF InspectionInv, GoodRow
  <2>2. insp.st = "completed" => discAt'[insp.gen] = discAt[insp.gen]
    BY <1>1, <2>1 DEF GoodRow, RowHangsTogether
  <2>3. insp.gen \in 0..Len(discAt')
    BY <1>1, <2>1
  <2> QED BY <1>2, <2>1, <2>2, <2>3 DEF GoodRow, RowHangsTogether, NamesDisc
<1>6. PollsOK'
  BY <1>3 DEF InspectionInv, PollsOK, NewGeneration
<1> QED BY <1>4, <1>5, <1>6 DEF InspectionInv

LEMMA DriveKeeps ==
  ASSUME InspectionInv, InsertMedium \/ GenerationChurns \/ EjectMedium
  PROVE  InspectionInv'
<1>1. CASE InsertMedium BY <1>1, NewGenerationKeeps DEF InsertMedium
<1>2. CASE GenerationChurns
  <2>1. discAt[tray] \in DriveDiscs
    BY <1>2 DEF GenerationChurns, InspectionInv, DriveOK
  <2> QED BY <1>2, <2>1, NewGenerationKeeps DEF GenerationChurns
<1>3. CASE EjectMedium
  BY <1>3 DEF EjectMedium, InspectionInv, DriveOK, SeenOK, GoodRow, NamesDisc, RowHangsTogether, PollsOK, GoodPoll, GoodPollGiven, BoundsOK
<1> QED BY <1>1, <1>2, <1>3

\* The poll that goes on with its own claim, to settle or to scan.
LEMMA FreshPollGood ==
  ASSUME InspectionInv, tray \in 1..Len(discAt)
  PROVE  \A settling : GoodPoll([RestingPoll EXCEPT !.mine = TRUE, !.gen = tray,
                                    !.pc = IF settling THEN "settling" ELSE "scanning"])
<1> SUFFICES ASSUME NEW settling, NEW p, p = [RestingPoll EXCEPT !.mine = TRUE, !.gen = tray,
                      !.pc = IF settling THEN "settling" ELSE "scanning"]
             PROVE  GoodPoll(p)
  OBVIOUS
<1>1. tray \in Nat /\ tray >= 1 /\ tray \in 0..Len(discAt)
  BY DEF InspectionInv, DriveOK
<1>2. p \in [pc : {"settling", "scanning"}, mine : BOOLEAN, fresh : BOOLEAN, gen : {tray}, disc : {0}]
  BY DEF RestingPoll
<1>3. p \in PollRecords /\ p.gen = tray /\ p.pc \in {"settling", "scanning"}
  BY <1>1, <1>2 DEF PollRecords, PollSteps
<1> QED BY <1>1, <1>3 DEF GoodPoll, GoodPollGiven

LEMMA ObservesGenerationKeeps ==
  ASSUME InspectionInv, NEW w \in Pollers, PollObservesGeneration(w)
  PROVE  InspectionInv'
<1> DEFINE claims == CallbackClaims(tray) /\ ClaimsInspection(tray)
           p == [RestingPoll EXCEPT !.pc = "observing", !.mine = claims,
                   !.fresh = claims /\ Superseded(tray), !.gen = tray]
<1>1. tray \in 1..Len(discAt) /\ tray \in Nat
  BY DEF PollObservesGeneration, InspectionInv, DriveOK
<1>2. GoodPoll(p)
  <2>1. \A c, f \in BOOLEAN : GoodPoll([RestingPoll EXCEPT !.pc = "observing", !.mine = c,
                                          !.fresh = f, !.gen = tray])
    <3> SUFFICES ASSUME NEW c \in BOOLEAN, NEW f \in BOOLEAN, NEW q,
                        q = [RestingPoll EXCEPT !.pc = "observing", !.mine = c, !.fresh = f, !.gen = tray]
                 PROVE  GoodPoll(q)
      OBVIOUS
    <3>1. tray \in 0..Len(discAt) /\ tray >= 1
      BY <1>1 DEF InspectionInv, DriveOK
    <3>2. q \in PollRecords /\ q.pc = "observing" /\ q.gen = tray
      BY <1>1 DEF RestingPoll, PollRecords, PollSteps
    <3> QED BY <3>1, <3>2 DEF GoodPoll, GoodPollGiven
  <2>2. claims \in BOOLEAN /\ (claims /\ Superseded(tray)) \in BOOLEAN
    BY DEF CallbackClaims, ClaimsInspection, Superseded
  <2> QED BY <2>1, <2>2
<1>3. GoodRow(insp')
  BY <1>1, BegunOrResumedGood DEF PollObservesGeneration, InspectionInv
<1>4. BoundsOK' /\ poller' = [poller EXCEPT ![w] = p] /\ UNCHANGED <<tray, discAt, discSeen>>
  BY DEF PollObservesGeneration, OnlyInspection, InspectionInv, BoundsOK
<1> HIDE DEF p, claims
<1> QED BY <1>2, <1>3, <1>4, InspectionSteps

\* A poll that is over, whatever it leaves in the row.
LEMMA SettlesKeeps ==
  ASSUME InspectionInv, NEW w \in Pollers, Settles(w), OnlyInspection, GoodRow(insp')
  PROVE  InspectionInv'
<1>1. BoundsOK' BY DEF OnlyInspection, InspectionInv, BoundsOK
<1> QED BY <1>1, RestingPollGood, InspectionSteps DEF Settles, OnlyInspection

LEMMA EndsKeep ==
  ASSUME InspectionInv, NEW w \in Pollers,
         \/ PollFindsEmpty(w) \/ SettlingFindsEmpty(w) \/ SettlingTimesOut(w)
         \/ ScanEnds(w) \/ ClaimRefused(w)
  PROVE  InspectionInv'
<1>1. GoodRow(insp) BY DEF InspectionInv
<1>2. CASE PollFindsEmpty(w)
  <2>1. GoodRow(insp')
    BY <1>1, <1>2, NoInspectionGood DEF PollFindsEmpty, NothingInDrive, Cleared
  <2> QED BY <1>2, <2>1, SettlesKeeps DEF PollFindsEmpty
<1>3. CASE SettlingFindsEmpty(w)
  BY <1>3, NoInspectionGood, SettlesKeeps DEF SettlingFindsEmpty, Cleared
<1>4. CASE SettlingTimesOut(w)
  <2>1. GoodRow(insp')
    BY <1>4, OwnedRow, AttemptEndedGood DEF SettlingTimesOut
  <2> QED BY <1>4, <2>1, SettlesKeeps DEF SettlingTimesOut
<1>5. CASE ScanEnds(w)
  <2>1. GoodRow(insp')
    BY <1>5, OwnedRow, AttemptEndedGood, NoInspectionGood DEF ScanEnds, Cleared
  <2> QED BY <1>5, <2>1, SettlesKeeps DEF ScanEnds
<1>6. CASE ClaimRefused(w)
  <2>1. GoodRow(insp') BY <1>1, <1>6 DEF ClaimRefused
  <2> QED BY <1>6, <2>1, SettlesKeeps DEF ClaimRefused
<1> QED BY <1>2, <1>3, <1>4, <1>5, <1>6

LEMMA SettlingObservedKeeps ==
  ASSUME InspectionInv, NEW w \in Pollers, SettlingObserved(w)
  PROVE  InspectionInv'
<1>1. tray \in 1..Len(discAt) /\ tray \in Nat /\ insp.st = "running" /\ insp.ph = "settling"
  BY OwnedRow DEF SettlingObserved, InspectionInv, DriveOK
<1> DEFINE p == [RestingPoll EXCEPT !.mine = TRUE, !.gen = tray,
                   !.pc = IF insp'.ph = "settling" THEN "settling" ELSE "scanning"]
<1>2. GoodPoll(p)
  BY <1>1, FreshPollGood
<1>3. GoodRow(insp')
  <2>1. PICK readable \in BOOLEAN, same \in BOOLEAN, quiet \in BOOLEAN :
          insp' \in {Observation(insp, tray, readable, same),
                     SettlingOver(Observation(insp, tray, readable, same))}
    BY DEF SettlingObserved, ObservesInto
  <2>2. GoodRow(Observation(insp, tray, readable, same)) /\ GoodRow(SettlingOver(Observation(insp, tray, readable, same)))
    BY <1>1, ObservationGood
  <2> QED BY <2>1, <2>2
<1>4. BoundsOK' /\ poller' = [poller EXCEPT ![w] = p] /\ UNCHANGED <<tray, discAt, discSeen>>
  BY DEF SettlingObserved, ObservesInto, OnlyInspection, InspectionInv, BoundsOK
<1> HIDE DEF p
<1> QED BY <1>2, <1>3, <1>4, InspectionSteps

LEMMA ObservesMediumKeeps ==
  ASSUME InspectionInv, NEW w \in Pollers, PollObservesMedium(w)
  PROVE  InspectionInv'
<1>1. tray \in 1..Len(discAt) /\ tray \in Nat /\ GoodRow(insp)
  BY DEF PollObservesMedium, InspectionInv, DriveOK
<1>2. CASE ~ClaimsInspection(tray)
  <2>1. Settles(w) /\ insp' = insp /\ OnlyInspection
    BY <1>2 DEF PollObservesMedium
  <2> QED BY <2>1, <1>1, SettlesKeeps
<1>3. CASE ClaimsInspection(tray)
  <2> DEFINE row == BegunOrResumed(w, tray)
             p == [RestingPoll EXCEPT !.mine = TRUE, !.gen = tray,
                     !.pc = IF row.ph = "settling" THEN "settling" ELSE "scanning"]
  <2>1. GoodRow(row) /\ row.st = "running"
    BY <1>1, <1>3, BegunOrResumedGood
  <2>2. /\ insp' \in {row, [row EXCEPT !.stable = 1]} /\ poller' = [poller EXCEPT ![w] = p]
        /\ OnlyInspection
    BY <1>3 DEF PollObservesMedium
  <2> HIDE DEF row
  <2>3. GoodPoll(p)
    BY <1>1, FreshPollGood
  <2>4. [row EXCEPT !.stable = 1] \in InspectionRows
    <3>1. 1 \in 0..StableObservations BY InspectionAssumption
    <3> QED BY <2>1, <3>1 DEF GoodRow, InspectionRows
  <2>5. GoodRow([row EXCEPT !.stable = 1])
    BY <2>1, <2>4 DEF GoodRow, RowHangsTogether, NamesDisc, InspectionRows
  <2>6. BoundsOK' /\ UNCHANGED <<tray, discAt, discSeen>>
    BY <2>2 DEF OnlyInspection, InspectionInv, BoundsOK
  <2> HIDE DEF p
  <2>7. GoodRow(insp') BY <2>1, <2>2, <2>5
  <2> QED BY <2>2, <2>3, <2>6, <2>7, InspectionSteps
<1> QED BY <1>2, <1>3
LEMMA ScanReadsKeeps ==
  ASSUME InspectionInv, NEW w \in Pollers, ScanReads(w)
  PROVE  InspectionInv'
<1> DEFINE p == [poller[w] EXCEPT !.pc = "proving", !.disc = discAt[tray]]
<1>1. GoodPoll(poller[w]) /\ poller[w].pc = "scanning" /\ poller[w] \in PollRecords /\ tray = Len(discAt)
      /\ discAt[tray] \in DriveDiscs
  BY DEF ScanReads, InspectionInv, PollsOK, GoodPoll, GoodPollGiven, DriveOK
<1>2. p \in PollRecords
  BY <1>1 DEF PollRecords, PollSteps
<1>3. GoodPoll(p)
  BY <1>1, <1>2 DEF GoodPoll, GoodPollGiven, PollRecords
<1>4. GoodRow(insp')
  <2>1. insp' = [insp EXCEPT !.ph = "confirming_media"] /\ insp.st = "running" /\ insp.tok \in Pollers
        /\ GoodRow(insp) /\ insp.ph # "retry_wait"
    BY InspectionAssumption, OwnedRow DEF ScanReads, InspectionInv, GoodRow, RowHangsTogether
  <2>2. insp' \in InspectionRows
    BY <2>1 DEF GoodRow, InspectionRows, RowPhases
  <2>3. insp.tok # NoPoll BY <2>1, InspectionAssumption
  <2> QED BY <2>1, <2>2, <2>3 DEF GoodRow, RowHangsTogether, NamesDisc, InspectionRows
<1>5. BoundsOK' /\ poller' = [poller EXCEPT ![w] = p] /\ UNCHANGED <<tray, discAt, discSeen>>
  BY DEF ScanReads, OnlyInspection, InspectionInv, BoundsOK, PollsOK
<1> HIDE DEF p
<1> QED BY <1>3, <1>4, <1>5, InspectionSteps

\* A disc is registered or marked: what the others know of the discs stands.
LEMMA DiscSteps ==
  ASSUME InspectionInv, NEW w \in Pollers, NEW p, NEW d \in DriveDiscs, NEW s \in {"detected", "scanned"},
         discSeen' = [discSeen EXCEPT ![d] = s],
         discSeen[d] = "scanned" => s = "scanned",
         poller' = [poller EXCEPT ![w] = p], GoodPollGiven(p, discSeen'),
         UNCHANGED <<tray, discAt, insp, pollStops, manualRetries>>
  PROVE  InspectionInv'
<1>1. SeenOK' BY DEF InspectionInv, SeenOK
<1>2. /\ \A e \in DriveDiscs : discSeen[e] # "unseen" => discSeen'[e] # "unseen"
      /\ \A e \in DriveDiscs : discSeen[e] = "scanned" => discSeen'[e] = "scanned"
  BY DEF InspectionInv, SeenOK
<1>3. GoodRow(insp)'
  BY <1>2 DEF InspectionInv, GoodRow, NamesDisc, RowHangsTogether
<1>4. \A v \in Pollers : GoodPoll(poller[v])'
  <2> SUFFICES ASSUME NEW v \in Pollers PROVE GoodPoll(poller[v])'
    OBVIOUS
  <2>1. CASE v = w
    BY <2>1 DEF InspectionInv, PollsOK, GoodPoll, GoodPollGiven
  <2>2. CASE v # w
    <3>1. poller'[v] = poller[v] BY <2>2 DEF InspectionInv, PollsOK
    <3>2. GoodPoll(poller[v]) BY DEF InspectionInv, PollsOK
    <3> QED BY <3>1, <3>2, <1>2 DEF GoodPoll, GoodPollGiven
  <2> QED BY <2>1, <2>2
<1>5. PollsOK' /\ BoundsOK' /\ DriveOK'
  BY <1>4 DEF InspectionInv, PollsOK, BoundsOK, DriveOK
<1> QED BY <1>1, <1>3, <1>5 DEF InspectionInv

LEMMA RegisterDiscKeeps ==
  ASSUME InspectionInv, NEW w \in Pollers, RegisterDisc(w)
  PROVE  InspectionInv'
<1> DEFINE d == poller[w].disc
           s == IF discSeen[d] = "unseen" THEN "detected" ELSE discSeen[d]
           p == [poller[w] EXCEPT !.pc = IF s = "detected" THEN "marking" ELSE "completing"]
<1>1. /\ GoodPoll(poller[w]) /\ poller[w] \in PollRecords /\ d \in DriveDiscs /\ poller[w].gen = Len(discAt)
      /\ poller[w].pc = "proving" /\ poller[w].gen \in 0..Len(discAt) /\ poller[w].gen >= 1
      /\ d = discAt[poller[w].gen]
  BY DEF RegisterDisc, GenerationHolds, InspectionInv, PollsOK, GoodPoll, GoodPollGiven, DriveOK, PollRecords
<1>2. s \in {"detected", "scanned"} /\ (discSeen[d] = "scanned" => s = "scanned")
  BY <1>1 DEF InspectionInv, SeenOK
<1>3. /\ discSeen' = [discSeen EXCEPT ![d] = s] /\ discSeen'[d] = s
      /\ UNCHANGED <<tray, discAt, insp, pollStops, manualRetries>>
      /\ poller' = [poller EXCEPT ![w] = p]
  BY <1>1 DEF RegisterDisc, InspectionInv, SeenOK, PollsOK
<1>4. p \in PollRecords /\ p.gen = poller[w].gen /\ p.disc = d /\ p.pc \in {"marking", "completing"}
      /\ (p.pc = "completing" => s = "scanned")
  BY <1>1, <1>2 DEF PollRecords, PollSteps
<1> HIDE DEF p, s
<1>5. GoodPollGiven(p, discSeen')
  BY <1>1, <1>2, <1>3, <1>4 DEF GoodPoll, GoodPollGiven
<1> QED BY <1>1, <1>2, <1>3, <1>5, DiscSteps

LEMMA MarkScannedKeeps ==
  ASSUME InspectionInv, NEW w \in Pollers, MarkScanned(w)
  PROVE  InspectionInv'
<1> DEFINE d == poller[w].disc
<1>1. /\ GoodPoll(poller[w]) /\ poller[w] \in PollRecords /\ d \in DriveDiscs /\ poller[w].pc = "marking"
      /\ poller[w].gen \in 0..Len(discAt) /\ poller[w].gen >= 1 /\ d = discAt[poller[w].gen]
  BY DEF MarkScanned, InspectionInv, PollsOK, GoodPoll, GoodPollGiven
<1>2. CASE discSeen[d] = "detected"
  <2> DEFINE p == [poller[w] EXCEPT !.pc = "completing"]
  <2>1. /\ discSeen' = [discSeen EXCEPT ![d] = "scanned"] /\ discSeen'[d] = "scanned"
        /\ UNCHANGED <<tray, discAt, insp, pollStops, manualRetries>>
        /\ poller' = [poller EXCEPT ![w] = p]
    BY <1>1, <1>2 DEF MarkScanned, InspectionInv, SeenOK, PollsOK
  <2>2. p \in PollRecords /\ p.gen = poller[w].gen /\ p.disc = d /\ p.pc = "completing"
    BY <1>1 DEF PollRecords, PollSteps
  <2> HIDE DEF p
  <2>3. GoodPollGiven(p, discSeen')
    BY <1>1, <2>1, <2>2 DEF GoodPoll, GoodPollGiven
  <2> QED BY <1>1, <1>2, <2>1, <2>3, DiscSteps
<1>3. CASE discSeen[d] # "detected"
  <2>1. Settles(w) /\ UNCHANGED <<tray, discAt, discSeen, pollStops, manualRetries>>
        /\ insp' = IF ~OwnsInspection(w) THEN insp
                   ELSE IF GenerationHolds(w) THEN Retried(insp) ELSE Cleared
    BY <1>3 DEF MarkScanned
  <2>2. GoodRow(insp')
    BY <2>1, OwnedRow, AttemptEndedGood, NoInspectionGood DEF Cleared, InspectionInv
  <2> QED BY <2>1, <2>2, SettlesKeeps DEF OnlyInspection
<1> QED BY <1>2, <1>3

LEMMA CompletesKeeps ==
  ASSUME InspectionInv, NEW w \in Pollers, CompleteInspection(w)
  PROVE  InspectionInv'
<1>1. /\ poller[w].disc \in DriveDiscs /\ poller[w].disc = discAt[insp.gen]
      /\ discSeen[poller[w].disc] = "scanned"
  BY OwnedRow DEF CompleteInspection, InspectionInv, PollsOK, GoodPoll, GoodPollGiven
<1>2. GoodRow(insp')
  BY <1>1, OwnedRow, AttemptEndedGood DEF CompleteInspection
<1> QED BY <1>2, SettlesKeeps DEF CompleteInspection

LEMMA OperatorAndStopsKeep ==
  ASSUME InspectionInv,
         RequestInspectionRetry \/ DriveUnavailable \/ LeaseRunsOut \/ (\E w \in Pollers : StopPoll(w))
  PROVE  InspectionInv'
<1>a. GoodRow(insp) /\ BoundsOK BY DEF InspectionInv
<1>1. CASE RequestInspectionRetry
  <2>1. insp' \in InspectionRows
    BY <1>1, <1>a DEF RequestInspectionRetry, GoodRow, InspectionRows
  <2>2. GoodRow(insp')
    BY <1>1, <1>a, <2>1 DEF RequestInspectionRetry, GoodRow, RowHangsTogether, NamesDisc, InspectionRows
  <2>3. BoundsOK'
    BY <1>1, <1>a, InspectionAssumption DEF RequestInspectionRetry, BoundsOK
  <2> QED BY <1>1, <2>2, <2>3, InspectionRowSteps DEF RequestInspectionRetry
<1>2. CASE DriveUnavailable
  <2>1. BoundsOK'
    BY <1>2, <1>a, InspectionAssumption DEF DriveUnavailable, BoundsOK
  <2> QED BY <1>2, <2>1, InspectionRowSteps, NoInspectionGood DEF DriveUnavailable, Cleared
<1>3. CASE LeaseRunsOut
  <2>1. insp' \in InspectionRows
    BY <1>3, <1>a DEF LeaseRunsOut, GoodRow, InspectionRows
  <2>2. GoodRow(insp')
    BY <1>3, <1>a, <2>1 DEF LeaseRunsOut, GoodRow, RowHangsTogether, NamesDisc, InspectionRows
  <2>3. BoundsOK'
    BY <1>3, <1>a, InspectionAssumption DEF LeaseRunsOut, BoundsOK
  <2> QED BY <1>3, <2>2, <2>3, InspectionRowSteps DEF LeaseRunsOut
<1>4. ASSUME NEW w \in Pollers, StopPoll(w) PROVE InspectionInv'
  <2>1. BoundsOK'
    BY <1>4, <1>a, InspectionAssumption DEF StopPoll, BoundsOK
  <2> QED BY <1>4, <1>a, <2>1, RestingPollGood, InspectionSteps DEF StopPoll, Settles
<1> QED BY <1>1, <1>2, <1>3, <1>4

LEMMA InspectionNextKeeps == InspectionInv /\ InspectionNext => InspectionInv'
<1> SUFFICES ASSUME InspectionInv, InspectionNext PROVE InspectionInv'
  OBVIOUS
<1>1. ASSUME NEW w \in Pollers, PollStep(w) \/ SettlingTimesOut(w) \/ StopPoll(w)
      PROVE  InspectionInv'
  BY <1>1, ObservesGenerationKeeps, EndsKeep, SettlingObservedKeeps, ObservesMediumKeeps,
     ScanReadsKeeps, RegisterDiscKeeps, MarkScannedKeeps, CompletesKeeps, OperatorAndStopsKeep
     DEF PollStep
<1>2. ASSUME RequestInspectionRetry \/ DriveUnavailable \/ LeaseRunsOut PROVE InspectionInv'
  BY <1>2, OperatorAndStopsKeep
<1>3. ASSUME InsertMedium \/ GenerationChurns \/ EjectMedium PROVE InspectionInv'
  BY <1>3, DriveKeeps
<1> QED BY <1>1, <1>2, <1>3 DEF InspectionNext

LEMMA InspectionStutterKeeps == InspectionInv /\ UNCHANGED inspectionVars => InspectionInv'
BY DEF inspectionVars, InspectionInv, DriveOK, SeenOK, GoodRow, RowHangsTogether, NamesDisc, PollsOK,
   GoodPoll, GoodPollGiven, BoundsOK

LEMMA InspectionInvariant == InspectionSpec => []InspectionInv
BY InspectionInitKeeps, InspectionNextKeeps, InspectionStutterKeeps, PTL DEF InspectionSpec

\* A completed inspection names the scanned disc behind the generation it records,
\* however the insertions, the polls, their leases and their retries interleave.
THEOREM InspectionNamesItsDiscHolds == InspectionSpec => []InspectionNamesItsDisc
<1>1. InspectionInv => InspectionNamesItsDisc
  BY DEF InspectionInv, GoodRow, NamesDisc, InspectionNamesItsDisc
<1> QED BY <1>1, InspectionInvariant, PTL

\* The row and the polls stay in their types: every attempt but a claimed last one
\* has its one outcome, and the failures stay within the limit that fails a row.
THEOREM InspectionTypeHolds == InspectionSpec => []InspectionTypeOK
<1>1. InspectionInv => InspectionTypeOK
  <2> SUFFICES ASSUME InspectionInv PROVE InspectionTypeOK
    OBVIOUS
  <2>1. tray \in 0..Len(discAt) /\ Len(discAt) <= MaxGenerations
    BY DEF InspectionInv, DriveOK
  <2>2. insp \in InspectionRows /\ insp.gen \in 0..Len(discAt) /\ RowHangsTogether(insp)
    BY DEF InspectionInv, GoodRow
  <2> QED BY <2>1, <2>2 DEF InspectionTypeOK, InspectionInv, SeenOK, PollsOK, BoundsOK, GoodPoll, GoodPollGiven,
             InspectionRows, PollRecords, PollSteps, RowStates, RowPhases, RowHangsTogether
<1> QED BY <1>1, InspectionInvariant, PTL

(* ------------------------- the archived image ------------------------- *)
Before == {"away", "making", "awaiting", "entering", "queued", "admitted", "registering", "prepared"}
HoldingSteps == {"locked", "working", "finishing", "unlocking"}
Requests == [pc : Before \cup HoldingSteps \cup {"leaving"},
             kind : {"none", "publisher", "writer", "reader", "preview"},
             claims : BOOLEAN, beat : BOOLEAN, retain : BOOLEAN]
Owners == ImageUsers \cup {NoUser}

OwnershipTyped ==
  /\ user \in [ImageUsers -> Requests]
  /\ flock \in [ex : Owners, sh : SUBSET ImageUsers, helper : {"none", "exclusive", "shared"}]
  /\ writerClaim \in [by : Owners, live : BOOLEAN]

\* How a process is tied to the exclusive owner and to the name on the claim.
RequestFits(u, p, ex, by) ==
  /\ u.pc \in HoldingSteps /\ u.kind \in {"publisher", "writer", "preview"} => ex = p
  /\ u.beat => u.claims /\ u.pc \in {"working", "finishing"}
  /\ u.claims => u.kind \in {"publisher", "writer"}
                 /\ u.pc \in {"working", "finishing", "unlocking", "leaving"}
  /\ u.pc = "working" /\ u.claims => by = p
AllFit == \A p \in ImageUsers : RequestFits(user[p], p, flock.ex, writerClaim.by)

OwnershipInv == OwnershipTyped /\ AllFit

Excludes(p) == user[p].kind \in {"publisher", "writer", "preview"}
LEMMA LockModes ==
  ASSUME NEW p \in ImageUsers
  PROVE  (LocksExclusively(p) <=> Excludes(p)) /\ (Writes(p) => Excludes(p))
BY DEF LocksExclusively, Excludes, Writes, Previews

--------------------------------------------------------------------------
(* Steps without the lock.                                                 *)

\* A process that neither holds the lock nor claims, before and after, changes
\* nothing for the others.
LEMMA UnlockedStepKeeps ==
  ASSUME OwnershipInv, NEW p \in ImageUsers, NEW STATE u, u \in Requests,
         user' = [user EXCEPT ![p] = u], UNCHANGED <<flock, writerClaim>>,
         u.pc \in Before \cup {"leaving"}, ~u.claims, ~u.beat
  PROVE  OwnershipInv'
<1> USE DEF OwnershipInv
<1>1. OwnershipTyped'
  BY DEF OwnershipTyped
<1>2. user'[p] = u /\ \A q \in ImageUsers \ {p} : user'[q] = user[q]
  BY DEF OwnershipTyped
<1>3. \A q \in ImageUsers : RequestFits(user[q], q, flock.ex, writerClaim.by)
  BY DEF AllFit
<1>4. RequestFits(u, p, flock.ex, writerClaim.by)
  BY DEF RequestFits, Before, HoldingSteps
<1>5. AllFit'
  BY <1>2, <1>3, <1>4 DEF AllFit
<1> QED BY <1>1, <1>5

LEMMA AwayIsRequest ==
  AwayUser \in Requests /\ AwayUser.pc = "away" /\ ~AwayUser.claims /\ ~AwayUser.beat
BY DEF AwayUser, Requests, Before

\* What a process before its lock has: no claim, no heartbeat.
LEMMA BeforeLock ==
  ASSUME OwnershipInv, NEW p \in ImageUsers, user[p].pc \in Before,
         NEW pc \in Before \cup {"leaving"}
  PROVE  LET u == [user[p] EXCEPT !.pc = pc]
         IN  u \in Requests /\ u.pc = pc /\ ~u.claims /\ ~u.beat
<1>1. user[p] \in Requests /\ RequestFits(user[p], p, flock.ex, writerClaim.by)
  BY DEF OwnershipInv, OwnershipTyped, AllFit
<1>2. ~user[p].claims /\ ~user[p].beat
  BY <1>1 DEF RequestFits, Before, Requests
<1> QED BY <1>1, <1>2 DEF Requests

LEMMA GoesKeeps ==
  ASSUME OwnershipInv, NEW p \in ImageUsers, user[p].pc \in Before,
         NEW pc \in Before \cup {"leaving"}, Goes(p, pc), UNCHANGED <<flock, writerClaim>>
  PROVE  OwnershipInv'
<1> DEFINE u == [user[p] EXCEPT !.pc = pc]
<1>1. u \in Requests /\ u.pc = pc /\ ~u.claims /\ ~u.beat
  BY BeforeLock
<1>2. user' = [user EXCEPT ![p] = u]
  BY DEF Goes
<1> HIDE DEF u
<1> QED BY <1>1, <1>2, UnlockedStepKeeps

LEMMA LeavesKeeps ==
  ASSUME OwnershipInv, NEW p \in ImageUsers, Leaves(p), UNCHANGED <<flock, writerClaim>>
  PROVE  OwnershipInv'
<1>1. user' = [user EXCEPT ![p] = AwayUser]
  BY DEF Leaves
<1> QED BY <1>1, AwayIsRequest, UnlockedStepKeeps DEF Before

\* The namespace, the admission and the registration.
LEMMA AdmissionKeeps ==
  ASSUME OwnershipInv, NEW p \in ImageUsers,
         \/ NamespaceMade(p) \/ NamespaceAwaited(p) \/ TakeTicket(p) \/ CheckQueue(p)
         \/ CancelWait(p) \/ ReturnTicket(p) \/ PrepareLock(p) \/ RegisterImage(p)
  PROVE  OwnershipInv'
<1> USE DEF Before
<1>1. CASE NamespaceMade(p)
  BY <1>1, GoesKeeps DEF NamespaceMade
<1>2. CASE NamespaceAwaited(p)
  BY <1>2, GoesKeeps, LeavesKeeps DEF NamespaceAwaited
<1>3. CASE TakeTicket(p)
  BY <1>3, GoesKeeps DEF TakeTicket, EntersQueue
<1>4. CASE CheckQueue(p)
  BY <1>4, GoesKeeps DEF CheckQueue, EntersQueue
<1>5. CASE CancelWait(p)
  BY <1>5, GoesKeeps DEF CancelWait
<1>6. CASE ReturnTicket(p)
  BY <1>6, LeavesKeeps DEF ReturnTicket
<1>7. CASE PrepareLock(p)
  BY <1>7, GoesKeeps DEF PrepareLock
<1>8. CASE RegisterImage(p)
  <2>1. CASE Goes(p, "prepared")
    BY <1>8, <2>1, GoesKeeps DEF RegisterImage
  <2>2. CASE UNCHANGED <<user, flock, writerClaim>>
    BY <2>2 DEF OwnershipInv, OwnershipTyped, AllFit
  <2> QED BY <1>8, <2>1, <2>2 DEF RegisterImage
<1> QED BY <1>1, <1>2, <1>3, <1>4, <1>5, <1>6, <1>7, <1>8

LEMMA RequestKeeps ==
  ASSUME OwnershipInv, NEW p \in ImageUsers, RequestOwnership(p)
  PROVE  OwnershipInv'
<1>1. PICK k \in {"publisher", "writer", "reader", "preview"}, pc \in {"making", "awaiting", "entering"} :
        user' = [user EXCEPT ![p] = [AwayUser EXCEPT !.kind = k, !.pc = pc]]
  <2>1. PICK k \in {"publisher", "writer", "reader", "preview"} :
          user' = [user EXCEPT ![p] = [AwayUser EXCEPT !.kind = k,
                     !.pc = CASE namespace = "absent" -> "making"
                              [] namespace = "making" -> "awaiting"
                              [] OTHER -> "entering"]]
    BY DEF RequestOwnership
  <2>2. CASE namespace = "absent"
    BY <2>1, <2>2
  <2>3. CASE namespace = "making"
    BY <2>1, <2>3
  <2>4. CASE namespace \notin {"absent", "making"}
    BY <2>1, <2>4
  <2> QED BY <2>2, <2>3, <2>4
<1> DEFINE u == [AwayUser EXCEPT !.kind = k, !.pc = pc]
<1>2. u \in Requests /\ u.pc \in Before /\ ~u.claims /\ ~u.beat
  BY DEF AwayUser, Requests, Before
<1>3. user' = [user EXCEPT ![p] = u] /\ UNCHANGED <<flock, writerClaim>>
  BY <1>1 DEF RequestOwnership
<1> HIDE DEF u
<1> QED BY <1>2, <1>3, UnlockedStepKeeps

--------------------------------------------------------------------------
(* Steps of the lock's holder.                                             *)

\* A step of one process that leaves the others with the owner and the claim
\* they rely on: who owned the image exclusively still does, and who is named
\* on the claim at work still is.
LEMMA OwnStepKeeps ==
  ASSUME OwnershipInv, NEW p \in ImageUsers, NEW STATE u, u \in Requests,
         user' = [user EXCEPT ![p] = u], OwnershipTyped',
         RequestFits(u, p, flock'.ex, writerClaim'.by),
         flock'.ex = flock.ex \/ flock.ex \in {NoUser, p},
         writerClaim'.by = writerClaim.by \/ flock.ex = p
  PROVE  OwnershipInv'
<1> USE DEF OwnershipInv
<1>1. user'[p] = u /\ \A q \in ImageUsers \ {p} : user'[q] = user[q]
  BY DEF OwnershipTyped
<1>2. ASSUME NEW q \in ImageUsers \ {p} PROVE RequestFits(user[q], q, flock'.ex, writerClaim'.by)
  <2>1. RequestFits(user[q], q, flock.ex, writerClaim.by) /\ q # NoUser
    BY OwnershipNames DEF AllFit
  <2>2. user[q].pc \in HoldingSteps /\ user[q].kind \in {"publisher", "writer", "preview"} => flock'.ex = q
    BY <2>1 DEF RequestFits
  <2>3. user[q].pc = "working" /\ user[q].claims => writerClaim'.by = q
    BY <2>1 DEF RequestFits, HoldingSteps
  <2> QED BY <2>1, <2>2, <2>3 DEF RequestFits
<1>3. AllFit'
  BY <1>1, <1>2 DEF AllFit
<1> QED BY <1>3

LEMMA TypesOf ==
  ASSUME OwnershipInv, NEW p \in ImageUsers
  PROVE  /\ user[p] \in Requests /\ user \in [ImageUsers -> Requests]
         /\ RequestFits(user[p], p, flock.ex, writerClaim.by)
         /\ flock \in [ex : Owners, sh : SUBSET ImageUsers, helper : {"none", "exclusive", "shared"}]
         /\ writerClaim \in [by : Owners, live : BOOLEAN]
         /\ p \in Owners /\ NoUser \in Owners /\ p # NoUser
BY OwnershipNames DEF OwnershipInv, OwnershipTyped, AllFit, Owners

LEMMA LockImageKeeps ==
  ASSUME OwnershipInv, NEW p \in ImageUsers, LockImage(p)
  PROVE  OwnershipInv'
<1>1. user[p].pc = "prepared" /\ UNCHANGED writerClaim
  BY DEF LockImage
<1>2. CASE ~Lockable(p)
  BY <1>1, <1>2, GoesKeeps DEF LockImage, Before
<1>3. CASE Lockable(p)
  <2> DEFINE u == [user[p] EXCEPT !.pc = "locked"]
  <2>1. user' = [user EXCEPT ![p] = u] /\ flock.ex = NoUser
        /\ flock' = IF LocksExclusively(p) THEN [flock EXCEPT !.ex = p] ELSE [flock EXCEPT !.sh = @ \cup {p}]
    BY <1>3 DEF LockImage, Goes, Lockable
  <2>2. flock' \in [ex : Owners, sh : SUBSET ImageUsers, helper : {"none", "exclusive", "shared"}]
        /\ (flock'.ex = IF LocksExclusively(p) THEN p ELSE flock.ex)
    BY <2>1, TypesOf
  <2>3. u \in Requests /\ ~user[p].claims /\ ~user[p].beat /\ u.pc = "locked" /\ u.kind = user[p].kind
        /\ u.claims = user[p].claims /\ u.beat = user[p].beat
    BY <1>1, TypesOf DEF Requests, HoldingSteps, RequestFits
  <2>4. u.kind \in {"publisher", "writer", "preview"} => flock'.ex = p
    BY <2>2, <2>3, LockModes DEF Excludes
  <2> HIDE DEF u
  <2>5. RequestFits(u, p, flock'.ex, writerClaim'.by)
    BY <2>3, <2>4 DEF RequestFits
  <2>6. OwnershipTyped'
    BY <1>1, <2>1, <2>2, <2>3, TypesOf DEF OwnershipTyped
  <2> QED BY <1>1, <2>1, <2>3, <2>5, <2>6, OwnStepKeeps
<1> QED BY <1>2, <1>3

LEMMA ClaimImageKeeps ==
  ASSUME OwnershipInv, NEW p \in ImageUsers, ClaimImage(p)
  PROVE  OwnershipInv'
<1>1. user[p].pc = "locked" /\ UNCHANGED flock
  BY DEF ClaimImage
<1>2. ~user[p].claims /\ ~user[p].beat
  BY <1>1, TypesOf DEF RequestFits
<1>3. CASE writerClaim.live
  <2> DEFINE u == [user[p] EXCEPT !.pc = "unlocking"]
  <2>1. user' = [user EXCEPT ![p] = u] /\ UNCHANGED writerClaim
    BY <1>3 DEF ClaimImage
  <2>2. u \in Requests /\ RequestFits(u, p, flock.ex, writerClaim.by)
    BY <1>1, <1>2, TypesOf DEF Requests, HoldingSteps, RequestFits
  <2> HIDE DEF u
  <2>3. OwnershipTyped'
    BY <1>1, <2>1, <2>2, TypesOf DEF OwnershipTyped
  <2> QED BY <1>1, <2>1, <2>2, <2>3, OwnStepKeeps
<1>4. CASE ~writerClaim.live
  <2> DEFINE u == [user[p] EXCEPT !.pc = "working", !.claims = Writes(p)]
  <2>1. user' = [user EXCEPT ![p] = u]
        /\ writerClaim' = IF Writes(p) THEN [by |-> p, live |-> TRUE] ELSE writerClaim
    BY <1>4 DEF ClaimImage
  <2>2. writerClaim' \in [by : Owners, live : BOOLEAN] /\ (Writes(p) => writerClaim'.by = p)
        /\ (~Writes(p) => writerClaim'.by = writerClaim.by)
    BY <2>1, TypesOf
  <2>3. Writes(p) \in BOOLEAN /\ (Writes(p) <=> user[p].kind \in {"publisher", "writer"})
    BY DEF Writes
  <2>4. /\ u \in Requests /\ u.pc = "working" /\ u.claims = Writes(p) /\ u.beat = user[p].beat
        /\ u.kind = user[p].kind
    BY <2>3, TypesOf DEF Requests, HoldingSteps
  <2>5. user[p].kind \in {"publisher", "writer", "preview"} => flock.ex = p
    BY <1>1, TypesOf DEF RequestFits, HoldingSteps
  <2> HIDE DEF u
  <2>6. RequestFits(u, p, flock'.ex, writerClaim'.by)
    BY <1>1, <1>2, <2>2, <2>3, <2>4, <2>5 DEF RequestFits
  <2>7. OwnershipTyped'
    BY <1>1, <2>1, <2>2, <2>4, TypesOf DEF OwnershipTyped
  <2>8. writerClaim'.by = writerClaim.by \/ flock.ex = p
    BY <2>2, <2>3, <2>5
  <2> QED BY <1>1, <2>1, <2>4, <2>6, <2>7, <2>8, OwnStepKeeps
<1> QED BY <1>3, <1>4

\* A heartbeat is under way only under the exclusive lock.
LEMMA HeartbeatKeeps ==
  ASSUME OwnershipInv, NEW p \in ImageUsers,
         HeartbeatStarts(p) \/ HeartbeatLands(p) \/ HeartbeatFails(p)
  PROVE  OwnershipInv'
<1>1. UNCHANGED flock /\ user[p].claims
  BY TypesOf DEF HeartbeatStarts, HeartbeatLands, HeartbeatFails, RequestFits
<1>2. user[p].kind \in {"publisher", "writer"} /\ user[p].pc \in {"working", "finishing"}
      /\ flock.ex = p
  <2>1. user[p].pc \in {"working", "finishing"}
    BY TypesOf DEF HeartbeatStarts, HeartbeatLands, HeartbeatFails, RequestFits
  <2> QED BY <1>1, <2>1, TypesOf DEF RequestFits, HoldingSteps
<1>3. PICK u \in {[user[p] EXCEPT !.beat = TRUE], [user[p] EXCEPT !.beat = FALSE],
                  [user[p] EXCEPT !.beat = FALSE, !.retain = TRUE]} :
        user' = [user EXCEPT ![p] = u]
  BY DEF HeartbeatStarts, HeartbeatLands, HeartbeatFails
<1>4. u \in Requests /\ u.pc = user[p].pc /\ u.kind = user[p].kind /\ u.claims = user[p].claims
  BY <1>3, TypesOf DEF Requests
<1>5. writerClaim' \in [by : Owners, live : BOOLEAN] /\ writerClaim'.by \in {writerClaim.by, p}
  <2>1. writerClaim' = writerClaim \/ writerClaim' = [by |-> p, live |-> TRUE]
    BY DEF HeartbeatStarts, HeartbeatLands, HeartbeatFails
  <2>2. [by |-> p, live |-> TRUE] \in [by : Owners, live : BOOLEAN]
    BY TypesOf
  <2>3. writerClaim \in [by : Owners, live : BOOLEAN]
    BY TypesOf
  <2>4. CASE writerClaim' = writerClaim
    BY <2>3, <2>4
  <2>5. CASE writerClaim' = [by |-> p, live |-> TRUE]
    BY <2>2, <2>5
  <2> QED BY <2>1, <2>4, <2>5
<1>6. RequestFits(u, p, flock'.ex, writerClaim'.by)
  BY <1>1, <1>2, <1>4, <1>5, TypesOf DEF RequestFits
<1>7. OwnershipTyped'
  BY <1>1, <1>3, <1>4, <1>5, TypesOf DEF OwnershipTyped
<1> QED BY <1>1, <1>2, <1>3, <1>4, <1>6, <1>7, OwnStepKeeps

LEMMA TaskEndsKeeps ==
  ASSUME OwnershipInv, NEW p \in ImageUsers, TaskEnds(p)
  PROVE  OwnershipInv'
<1> DEFINE u == [user[p] EXCEPT !.pc = "finishing"]
<1>1. user' = [user EXCEPT ![p] = u] /\ user[p].pc = "working" /\ UNCHANGED <<flock, writerClaim>>
  BY DEF TaskEnds, Goes
<1>2. u \in Requests /\ RequestFits(u, p, flock.ex, writerClaim.by)
  BY <1>1, TypesOf DEF Requests, HoldingSteps, RequestFits
<1> HIDE DEF u
<1>3. OwnershipTyped'
  BY <1>1, <1>2, TypesOf DEF OwnershipTyped
<1> QED BY <1>1, <1>2, <1>3, OwnStepKeeps

LEMMA DropClaimKeeps ==
  ASSUME OwnershipInv, NEW p \in ImageUsers, DropClaim(p)
  PROVE  OwnershipInv'
<1> DEFINE u == [user[p] EXCEPT !.pc = "unlocking"]
<1>1. user' = [user EXCEPT ![p] = u] /\ user[p].pc = "finishing" /\ ~user[p].beat /\ UNCHANGED flock
  BY DEF DropClaim, Goes, BeatSettled
<1>2. u \in Requests /\ RequestFits(u, p, flock.ex, writerClaim'.by)
  BY <1>1, TypesOf DEF Requests, HoldingSteps, RequestFits
<1>3. writerClaim' \in [by : Owners, live : BOOLEAN]
      /\ (writerClaim'.by = writerClaim.by \/ user[p].claims)
  BY TypesOf DEF DropClaim, UnclaimedImage
<1>4. user[p].claims => flock.ex = p
  BY <1>1, TypesOf DEF RequestFits, HoldingSteps
<1> HIDE DEF u
<1>5. OwnershipTyped'
  BY <1>1, <1>2, <1>3, TypesOf DEF OwnershipTyped
<1> QED BY <1>1, <1>2, <1>3, <1>4, <1>5, OwnStepKeeps

\* What an unlock leaves: the owner if it was another.
LEMMA UnlockedLock ==
  ASSUME OwnershipInv, NEW p \in ImageUsers
  PROVE  /\ Unlocked(p) \in [ex : Owners, sh : SUBSET ImageUsers, helper : {"none", "exclusive", "shared"}]
         /\ Unlocked(p).ex = flock.ex \/ flock.ex = p
BY TypesOf DEF Unlocked

LEMMA UnlockImageKeeps ==
  ASSUME OwnershipInv, NEW p \in ImageUsers, UnlockImage(p)
  PROVE  OwnershipInv'
<1> DEFINE u == [user[p] EXCEPT !.pc = "leaving"]
<1>1. user' = [user EXCEPT ![p] = u] /\ user[p].pc = "unlocking" /\ flock' = Unlocked(p)
      /\ UNCHANGED writerClaim
  BY DEF UnlockImage, Goes
<1>2. u \in Requests /\ RequestFits(u, p, flock'.ex, writerClaim.by)
  BY <1>1, TypesOf DEF Requests, HoldingSteps, RequestFits
<1> HIDE DEF u
<1>3. OwnershipTyped'
  BY <1>1, <1>2, TypesOf, UnlockedLock DEF OwnershipTyped
<1> QED BY <1>1, <1>2, <1>3, UnlockedLock, OwnStepKeeps

\* Stopped, a process loses its lock or leaves it to its helper: either way it
\* claims no more, and its heartbeat is gone with it.
LEMMA StopUserKeeps ==
  ASSUME OwnershipInv, NEW p \in ImageUsers, StopUser(p)
  PROVE  OwnershipInv'
<1>1. user' = [user EXCEPT ![p] = AwayUser] /\ UNCHANGED writerClaim
  BY DEF StopUser, Leaves
<1>2. flock' \in [ex : Owners, sh : SUBSET ImageUsers, helper : {"none", "exclusive", "shared"}]
      /\ flock'.ex = Unlocked(p).ex
  <2>1. CASE flock' = Unlocked(p)
    BY <2>1, UnlockedLock
  <2>2. CASE flock' = [Unlocked(p) EXCEPT !.helper = IF flock.ex = p THEN "exclusive" ELSE "shared"]
    BY <2>2, UnlockedLock
  <2> QED BY <2>1, <2>2 DEF StopUser
<1>3. RequestFits(AwayUser, p, flock'.ex, writerClaim'.by)
  BY DEF RequestFits, AwayUser, HoldingSteps
<1>4. OwnershipTyped'
  BY <1>1, <1>2, AwayIsRequest, TypesOf DEF OwnershipTyped
<1> QED BY <1>1, <1>2, <1>3, <1>4, AwayIsRequest, UnlockedLock, OwnStepKeeps

\* The end of a helper or of a lease names nobody else.
LEMMA OwnerEndsKeep ==
  ASSUME OwnershipInv, HelperEnds \/ ClaimLeaseEnds
  PROVE  OwnershipInv'
<1>1. OwnershipTyped' /\ UNCHANGED user /\ flock'.ex = flock.ex /\ writerClaim'.by = writerClaim.by
  <2>1. CASE HelperEnds
    BY <2>1 DEF HelperEnds, OwnershipInv, OwnershipTyped
  <2>2. CASE ClaimLeaseEnds
    BY <2>2 DEF ClaimLeaseEnds, OwnershipInv, OwnershipTyped
  <2> QED BY <2>1, <2>2
<1> QED BY <1>1 DEF OwnershipInv, AllFit

--------------------------------------------------------------------------
(* The theorem.                                                            *)

LEMMA OwnershipInitInv == OwnershipInit => OwnershipInv
<1> SUFFICES ASSUME OwnershipInit PROVE OwnershipInv
  OBVIOUS
<1>1. OwnershipTyped
  BY AwayIsRequest DEF OwnershipInit, OwnershipTyped, Owners, UnclaimedImage
<1>2. AllFit
  BY DEF OwnershipInit, AllFit, RequestFits, AwayUser, HoldingSteps
<1> QED BY <1>1, <1>2 DEF OwnershipInv

LEMMA OwnershipStep == OwnershipInv /\ [OwnershipNext]_ownershipVars => OwnershipInv'
<1> SUFFICES ASSUME OwnershipInv, [OwnershipNext]_ownershipVars PROVE OwnershipInv'
  OBVIOUS
<1>1. ASSUME NEW p \in ImageUsers, UserStep(p) \/ CancelWait(p) PROVE OwnershipInv'
  BY <1>1, AdmissionKeeps, LockImageKeeps, ClaimImageKeeps, TaskEndsKeeps, DropClaimKeeps, UnlockImageKeeps
     DEF UserStep
<1>2. ASSUME NEW p \in ImageUsers, HeartbeatStarts(p) \/ HeartbeatLands(p) \/ HeartbeatFails(p)
      PROVE  OwnershipInv'
  BY <1>2, HeartbeatKeeps
<1>3. ASSUME NEW p \in ImageUsers, RequestOwnership(p) \/ StopUser(p) PROVE OwnershipInv'
  BY <1>3, RequestKeeps, StopUserKeeps
<1>4. CASE HelperEnds \/ ClaimLeaseEnds
  BY <1>4, OwnerEndsKeep
<1>5. CASE UNCHANGED ownershipVars
  BY <1>5 DEF ownershipVars, OwnershipInv, OwnershipTyped, AllFit
<1> QED BY <1>1, <1>2, <1>3, <1>4, <1>5 DEF OwnershipNext

\* While a writer's task runs the claim on disk is its own, for any number of
\* processes, stops, stalls and late heartbeats (ClaimImage, HeartbeatLands,
\* DropClaim under the kernel lock).
THEOREM WriterNamed == OwnershipSpec => []WriterIsNamed
<1>1. OwnershipInv => WriterIsNamed
  BY DEF OwnershipInv, AllFit, RequestFits, WriterIsNamed
<1>2. OwnershipSpec => []OwnershipInv
  BY OwnershipInitInv, OwnershipStep, PTL DEF OwnershipSpec
<1> QED BY <1>1, <1>2, PTL

--------------------------------------------------------------------------
(* The admission.                                                          *)
\* A request with its ticket in the queue, until it has given it back.
TicketSteps == {"queued", "admitted", "registering", "prepared", "leaving"} \cup HoldingSteps
TicketRows == [by : ImageUsers, preview : BOOLEAN, live : BOOLEAN, waiting : BOOLEAN]

\* The tickets in force are those of requests that have one, of their kind.
HoldersOK == \A i \in LiveAt :
  user[tickets[i].by].pc \in TicketSteps /\ tickets[i].preview = Previews(tickets[i].by)
\* Nobody has two, and a ticket that waits for none came after no preview and
\* after none that waits itself.
OrderOK == \A i, k \in LiveAt : i < k =>
  /\ tickets[i].by # tickets[k].by
  /\ ~tickets[k].waiting => ~tickets[i].preview /\ ~tickets[i].waiting
\* Whoever is past the admission is first, or waits for nobody and previews nothing.
Ahead(i) == {j \in LiveAt : j < i}
PassOK == \A p \in ImageUsers : PastAdmission(p) =>
  \E i \in LiveAt : /\ tickets[i].by = p
                    /\ Ahead(i) = {} \/ (~tickets[i].preview /\ ~tickets[i].waiting)

QueueInv == tickets \in Seq(TicketRows) /\ HoldersOK /\ OrderOK /\ PassOK
AdmissionInv == OwnershipInv /\ QueueInv

--------------------------------------------------------------------------
(* The places of a set are taken in their order.                           *)
LEMMA PlacesInOrder ==
  ASSUME NEW S, S \subseteq Nat, IsFiniteSet(S)
  PROVE  /\ Cardinality(S) \in Nat
         /\ \A n \in 1..Cardinality(S) : Place(S, n) \in S
         /\ \A m, n \in 1..Cardinality(S) : m < n => Place(S, m) < Place(S, n)
         /\ \A i \in S : \E n \in 1..Cardinality(S) : Place(S, n) = i
<1> DEFINE Upto(i) == {j \in S : j <= i}
<1> DEFINE rank == [i \in S |-> Cardinality(Upto(i))]
<1>1. Cardinality(S) \in Nat
  BY FS_CardinalityType
<1>2. ASSUME NEW i \in S
      PROVE  IsFiniteSet(Upto(i)) /\ rank[i] = Cardinality(Upto(i)) /\ rank[i] \in 1..Cardinality(S)
  <2>1. Upto(i) \in SUBSET S /\ i \in Upto(i)
    OBVIOUS
  <2>2. IsFiniteSet(Upto(i)) /\ Cardinality(Upto(i)) <= Cardinality(S)
    BY <2>1, FS_Subset
  <2>3. Cardinality(Upto(i)) \in Nat /\ Cardinality(Upto(i)) # 0
    BY <2>1, <2>2, FS_CardinalityType, FS_EmptySet
  <2> QED BY <1>1, <2>2, <2>3
<1>3. ASSUME NEW i \in S, NEW k \in S, i < k PROVE rank[i] < rank[k]
  <2>1. k \in Upto(k) /\ k \notin Upto(i) /\ \A j \in S : j <= i => j <= k
    BY <1>3
  <2>4. Upto(i) \in SUBSET Upto(k)
    BY <2>1
  <2>2. IsFiniteSet(Upto(k))
    BY <1>2
  <2> HIDE DEF Upto
  <2>3. Cardinality(Upto(i)) <= Cardinality(Upto(k)) /\ Cardinality(Upto(i)) # Cardinality(Upto(k))
    BY <2>1, <2>2, <2>4, FS_Subset
  <2> QED BY <1>2, <2>3
<1> HIDE DEF Upto
<1>4. rank \in Injection(S, 1..Cardinality(S))
  <2>1. rank \in [S -> 1..Cardinality(S)]
    BY <1>2
  <2>2. \A i, k \in S : rank[i] = rank[k] => i = k
    <3> SUFFICES ASSUME NEW i \in S, NEW k \in S, i # k PROVE rank[i] # rank[k]
      OBVIOUS
    <3>1. i < k \/ k < i
      OBVIOUS
    <3>2. rank[i] \in Nat /\ rank[k] \in Nat
      BY <1>2
    <3> HIDE DEF rank
    <3> QED BY <1>3, <3>1, <3>2
  <2> QED BY <2>1, <2>2 DEF Injection, IsInjective
<1>5. \A n \in 1..Cardinality(S) : \E i \in S : rank[i] = n
  <2>1. IsFiniteSet(1..Cardinality(S)) /\ Cardinality(1..Cardinality(S)) = Cardinality(S)
    BY <1>1, FS_Interval
  <2>2. rank \in Surjection(S, 1..Cardinality(S))
    BY <1>4, <2>1, FS_Injection
  <2> QED BY <2>2 DEF Surjection
<1>6. \A n \in 1..Cardinality(S) : Place(S, n) \in S /\ rank[Place(S, n)] = n
  BY <1>5 DEF Place, Upto
<1>7. \A i \in S : rank[i] \in 1..Cardinality(S)
  BY <1>2
<1>8. \A i, k \in S : i < k => rank[i] < rank[k]
  BY <1>3
<1> HIDE DEF rank
<1>9. ASSUME NEW m \in 1..Cardinality(S), NEW n \in 1..Cardinality(S), m < n
      PROVE  Place(S, m) < Place(S, n)
  <2>1. /\ Place(S, m) \in S /\ rank[Place(S, m)] = m
        /\ Place(S, n) \in S /\ rank[Place(S, n)] = n
    BY <1>6
  <2>2. ~(n < m) /\ m # n
    BY <1>9
  <2>3. ~(Place(S, n) < Place(S, m)) /\ Place(S, m) # Place(S, n)
    BY <1>8, <2>1, <2>2
  <2>4. \A a, b \in Nat : ~(b < a) /\ a # b => a < b
    OBVIOUS
  <2>5. Place(S, m) \in Nat /\ Place(S, n) \in Nat
    BY <2>1
  <2> QED BY <2>3, <2>4, <2>5
<1>10. ASSUME NEW i \in S PROVE \E n \in 1..Cardinality(S) : Place(S, n) = i
  <2>1. rank[i] \in 1..Cardinality(S) /\ Place(S, rank[i]) \in S /\ rank[Place(S, rank[i])] = rank[i]
    BY <1>6, <1>7
  <2>3. ~(rank[i] < rank[i])
    BY <2>1
  <2>2. ~(Place(S, rank[i]) < i) /\ ~(i < Place(S, rank[i]))
    BY <1>8, <2>1, <2>3
  <2>4. \A a, b \in Nat : ~(b < a) /\ ~(a < b) => a = b
    OBVIOUS
  <2>5. Place(S, rank[i]) \in Nat /\ i \in Nat
    BY <2>1
  <2>6. Place(S, rank[i]) = i
    BY <2>2, <2>4, <2>5
  <2> QED BY <2>1, <2>6
<1> QED BY <1>1, <1>6, <1>9, <1>10

\* What the tickets at some places in force say of each other and of their
\* requests, they say in the queue they make.
Ordered(q) == \A i, k \in 1..Len(q) : i < k =>
  /\ q[i].by # q[k].by
  /\ ~q[k].waiting => ~q[i].preview /\ ~q[i].waiting
Passes(p, q) == \E n \in 1..Len(q) : q[n].by = p /\ (n = 1 \/ (~q[n].preview /\ ~q[n].waiting))

LEMMA SelectedQueue ==
  ASSUME QueueInv, NEW S, S \subseteq LiveAt, NEW q, q = TicketsAt(S)
  PROVE  /\ q \in Seq(TicketRows) /\ Ordered(q)
         /\ \A n \in 1..Len(q) : q[n].live /\ \E i \in S : q[n] = tickets[i]
         /\ \A p \in ImageUsers : PastAdmission(p) /\ (\A i \in LiveAt \ S : tickets[i].by # p) => Passes(p, q)
<1>1. /\ tickets \in Seq(TicketRows) /\ Len(tickets) \in Nat
      /\ \A i \in LiveAt : i \in 1..Len(tickets) /\ tickets[i] \in TicketRows /\ tickets[i].live
  BY DEF QueueInv, LiveAt
<1>2. S \subseteq Nat /\ IsFiniteSet(S)
  <2>1. IsFiniteSet(1..Len(tickets)) /\ S \in SUBSET (1..Len(tickets))
    BY <1>1, FS_Interval
  <2>2. IsFiniteSet(S)
    BY <2>1, FS_Subset
  <2>3. S \subseteq Nat
    BY <1>1
  <2> QED BY <2>2, <2>3
<1>3. PICK c \in Nat : c = Cardinality(S)
  BY <1>2, PlacesInOrder
<1>4. /\ \A n \in 1..c : Place(S, n) \in S
      /\ \A m, n \in 1..c : m < n => Place(S, m) < Place(S, n)
      /\ \A i \in S : \E n \in 1..c : Place(S, n) = i
  BY <1>2, <1>3, PlacesInOrder
<1>5. q = [n \in 1..c |-> tickets[Place(S, n)]]
  BY <1>3 DEF TicketsAt
<1>6. /\ q \in Seq(TicketRows) /\ Len(q) = c
      /\ \A n \in 1..c : q[n] = tickets[Place(S, n)] /\ Place(S, n) \in LiveAt
  <2>1. \A n \in 1..c : Place(S, n) \in LiveAt /\ tickets[Place(S, n)] \in TicketRows
    BY <1>1, <1>4
  <2> QED BY <1>5, <2>1
<1>7. Ordered(q)
  BY <1>4, <1>6 DEF QueueInv, OrderOK, Ordered
<1>8. \A n \in 1..Len(q) : q[n].live /\ \E i \in S : q[n] = tickets[i]
  BY <1>1, <1>4, <1>6
<1>9. ASSUME NEW p \in ImageUsers, PastAdmission(p), \A i \in LiveAt \ S : tickets[i].by # p
      PROVE  Passes(p, q)
  <2>1. PICK i \in LiveAt : /\ tickets[i].by = p
                            /\ Ahead(i) = {} \/ (~tickets[i].preview /\ ~tickets[i].waiting)
    BY <1>9 DEF QueueInv, PassOK
  <2>2. PICK n \in 1..c : Place(S, n) = i
    BY <1>4, <1>9, <2>1
  <2>3. Ahead(i) = {} => n = 1
    <3> SUFFICES ASSUME n # 1 PROVE Ahead(i) # {}
      OBVIOUS
    <3>1. 1 \in 1..c /\ 1 < n
      OBVIOUS
    <3> QED BY <1>4, <1>6, <2>2, <3>1 DEF Ahead
  <2> QED BY <1>6, <2>1, <2>2, <2>3 DEF Passes
<1> QED BY <1>6, <1>7, <1>8, <1>9

\* A queue that is edited holds tickets in force only.
LEMMA EditedQueueKeeps ==
  ASSUME NEW q, tickets' = q, q \in Seq(TicketRows), Ordered(q),
         \A n \in 1..Len(q) : /\ q[n].live /\ user'[q[n].by].pc \in TicketSteps
                              /\ q[n].preview = Previews(q[n].by)',
         \A p \in ImageUsers : PastAdmission(p)' => Passes(p, q)
  PROVE  QueueInv'
<1>1. LiveAt' = 1..Len(q) /\ Len(q) \in Nat
  BY DEF LiveAt
<1>2. HoldersOK' /\ OrderOK'
  BY <1>1 DEF HoldersOK, OrderOK, Ordered
<1>3. PassOK'
  <2> SUFFICES ASSUME NEW p \in ImageUsers, PastAdmission(p)'
               PROVE  \E i \in LiveAt' : /\ q[i].by = p
                                         /\ Ahead(i)' = {} \/ (~q[i].preview /\ ~q[i].waiting)
    BY DEF PassOK
  <2>1. PICK n \in 1..Len(q) : q[n].by = p /\ (n = 1 \/ (~q[n].preview /\ ~q[n].waiting))
    BY DEF Passes
  <2>2. n = 1 => Ahead(n)' = {}
    BY <1>1 DEF Ahead
  <2> QED BY <1>1, <2>1, <2>2
<1> QED BY <1>2, <1>3 DEF QueueInv

\* One request moves and the others stay as they are.
LEMMA UserMoved ==
  ASSUME OwnershipInv, NEW p \in ImageUsers, NEW pc, Goes(p, pc)
  PROVE  /\ user'[p].pc = pc /\ user'[p].kind = user[p].kind
         /\ \A q \in ImageUsers \ {p} : user'[q] = user[q]
         /\ \A q \in ImageUsers : Previews(q)' = Previews(q)
BY DEF OwnershipInv, OwnershipTyped, Goes, Requests, Previews

LEMMA TicketsInForce ==
  ASSUME QueueInv
  PROVE  \A i \in LiveAt : /\ tickets[i].by \in ImageUsers /\ user[tickets[i].by].pc \in TicketSteps
                          /\ tickets[i].preview = Previews(tickets[i].by)
<1>1. \A i \in LiveAt : tickets[i] \in TicketRows
  BY DEF QueueInv, LiveAt
<1> QED BY <1>1 DEF QueueInv, HoldersOK, TicketRows

\* The queue is let alone, and nobody gets past the admission.
LEMMA QueueAlone ==
  ASSUME QueueInv, tickets' = tickets,
         \A p \in ImageUsers :
           /\ user[p].pc \in TicketSteps => user'[p].pc \in TicketSteps /\ user'[p].kind = user[p].kind
           /\ PastAdmission(p)' => PastAdmission(p)
  PROVE  QueueInv'
<1>0. LiveAt' = LiveAt
  BY DEF LiveAt
<1>1. LiveAt' = LiveAt /\ \A i \in LiveAt : Ahead(i)' = Ahead(i)
  BY <1>0 DEF Ahead
<1>2. \A i \in LiveAt : tickets[i].by \in ImageUsers
  BY TicketsInForce
<1>3. HoldersOK'
  BY <1>1, <1>2 DEF QueueInv, HoldersOK, Previews
<1>4. OrderOK' /\ PassOK'
  BY <1>1 DEF QueueInv, OrderOK, PassOK
<1> QED BY <1>3, <1>4 DEF QueueInv

LEMMA TakeTicketQueue ==
  ASSUME AdmissionInv, NEW p \in ImageUsers, TakeTicket(p)
  PROVE  QueueInv'
<1>1. PICK q : q = LiveTickets
  OBVIOUS
<1>2. PICK t : t = Ticket(p)
  OBVIOUS
<1>3. /\ q \in Seq(TicketRows) /\ Ordered(q)
      /\ \A n \in 1..Len(q) : q[n].live /\ \E i \in LiveAt : q[n] = tickets[i]
      /\ \A r \in ImageUsers : PastAdmission(r) => Passes(r, q)
  BY <1>1, SelectedQueue DEF AdmissionInv, LiveTickets
<1>4. /\ t \in TicketRows /\ t.by = p /\ t.live /\ t.preview = Previews(p)
      /\ ~t.waiting => \A i \in 1..Len(q) : ~q[i].preview /\ ~q[i].waiting
  BY <1>1, <1>2, <1>3 DEF Ticket, TicketRows, Previews
<1>5. PICK s : s = Append(q, t)
  OBVIOUS
<1>6. /\ s \in Seq(TicketRows) /\ Len(q) \in Nat /\ Len(s) = Len(q) + 1 /\ s[Len(q) + 1] = t
      /\ \A n \in 1..Len(q) : s[n] = q[n]
  BY <1>3, <1>4, <1>5
<1>7. PICK pc \in {"admitted", "queued"} :
        user[p].pc = "entering" /\ tickets' = s /\ Goes(p, pc) /\ (pc = "admitted" => Admits(p, s))
  BY <1>1, <1>2, <1>5 DEF TakeTicket, EntersQueue
<1>8. /\ user'[p].pc = pc /\ \A r \in ImageUsers \ {p} : user'[r] = user[r]
      /\ \A r \in ImageUsers : Previews(r)' = Previews(r)
  BY <1>7, UserMoved DEF AdmissionInv
<1>9. \A n \in 1..Len(q) : /\ q[n].by \in ImageUsers \ {p} /\ user[q[n].by].pc \in TicketSteps
                           /\ q[n].preview = Previews(q[n].by)
  <2>1. "entering" \notin TicketSteps
    BY DEF TicketSteps, HoldingSteps
  <2>2. \A i \in LiveAt : /\ tickets[i].by \in ImageUsers /\ user[tickets[i].by].pc \in TicketSteps
                         /\ tickets[i].preview = Previews(tickets[i].by)
    BY TicketsInForce DEF AdmissionInv
  <2>3. \A i \in LiveAt : tickets[i].by # p
    BY <1>7, <2>1, <2>2
  <2> QED BY <1>3, <2>2, <2>3
<1>10. Ordered(s)
  <2> SUFFICES ASSUME NEW i \in 1..Len(s), NEW k \in 1..Len(s), i < k
               PROVE  /\ s[i].by # s[k].by
                      /\ ~s[k].waiting => ~s[i].preview /\ ~s[i].waiting
    BY DEF Ordered
  <2>1. CASE k \in 1..Len(q)
    BY <1>3, <1>6, <2>1 DEF Ordered
  <2>2. CASE k = Len(q) + 1
    BY <1>4, <1>6, <1>9, <2>2
  <2> QED BY <1>6, <2>1, <2>2
<1>11. \A n \in 1..Len(s) : /\ s[n].live /\ user'[s[n].by].pc \in TicketSteps
                            /\ s[n].preview = Previews(s[n].by)'
  <2> SUFFICES ASSUME NEW n \in 1..Len(s)
               PROVE  /\ s[n].live /\ user'[s[n].by].pc \in TicketSteps
                      /\ s[n].preview = Previews(s[n].by)'
    OBVIOUS
  <2>1. CASE n \in 1..Len(q)
    BY <1>3, <1>6, <1>8, <1>9, <2>1
  <2>2. CASE n = Len(q) + 1
    BY <1>4, <1>6, <1>7, <1>8, <2>2 DEF TicketSteps
  <2> QED BY <1>6, <2>1, <2>2
<1>12. ASSUME NEW r \in ImageUsers, PastAdmission(r)' PROVE Passes(r, s)
  <2>1. CASE r = p
    <3>1. pc = "admitted"
      BY <1>7, <1>8, <1>12, <2>1 DEF PastAdmission
    <3>2. DOMAIN s = 1..Len(s)
      BY <1>6
    <3> QED BY <1>7, <2>1, <3>1, <3>2 DEF Admits, Passes
  <2>2. CASE r # p
    <3>1. Passes(r, q)
      BY <1>3, <1>8, <1>12, <2>2 DEF PastAdmission
    <3> QED BY <1>6, <3>1 DEF Passes
  <2> QED BY <2>1, <2>2
<1> QED BY <1>6, <1>7, <1>10, <1>11, <1>12, EditedQueueKeeps

LEMMA CheckQueueQueue ==
  ASSUME AdmissionInv, NEW p \in ImageUsers, CheckQueue(p)
  PROVE  QueueInv'
<1>1. PICK q : q = LiveTickets
  OBVIOUS
<1>2. /\ q \in Seq(TicketRows) /\ Ordered(q)
      /\ \A n \in 1..Len(q) : q[n].live /\ \E i \in LiveAt : q[n] = tickets[i]
      /\ \A r \in ImageUsers : PastAdmission(r) => Passes(r, q)
  BY <1>1, SelectedQueue DEF AdmissionInv, LiveTickets
<1>3. PICK pc \in {"admitted", "queued"} :
        tickets' = q /\ Goes(p, pc) /\ (pc = "admitted" => Admits(p, q))
  BY <1>1 DEF CheckQueue, EntersQueue
<1>4. /\ user'[p].pc = pc /\ \A r \in ImageUsers \ {p} : user'[r] = user[r]
      /\ \A r \in ImageUsers : Previews(r)' = Previews(r)
  BY <1>3, UserMoved DEF AdmissionInv
<1>5. \A n \in 1..Len(q) : /\ q[n].live /\ user'[q[n].by].pc \in TicketSteps
                           /\ q[n].preview = Previews(q[n].by)'
  <2>1. \A r \in ImageUsers : user[r].pc \in TicketSteps => user'[r].pc \in TicketSteps
    BY <1>4 DEF TicketSteps
  <2>2. \A i \in LiveAt : /\ tickets[i].by \in ImageUsers /\ user'[tickets[i].by].pc \in TicketSteps
                          /\ tickets[i].preview = Previews(tickets[i].by)
    BY <2>1, TicketsInForce DEF AdmissionInv
  <2> QED BY <1>2, <1>4, <2>2
<1>6. ASSUME NEW r \in ImageUsers, PastAdmission(r)' PROVE Passes(r, q)
  <2>1. CASE r = p
    <3>1. pc = "admitted"
      BY <1>3, <1>4, <1>6, <2>1 DEF PastAdmission
    <3>2. DOMAIN q = 1..Len(q)
      BY <1>2
    <3> QED BY <1>3, <2>1, <3>1, <3>2 DEF Admits, Passes
  <2>2. CASE r # p
    BY <1>2, <1>4, <1>6, <2>2 DEF PastAdmission
  <2> QED BY <2>1, <2>2
<1> QED BY <1>2, <1>3, <1>5, <1>6, EditedQueueKeeps

LEMMA ReturnTicketQueue ==
  ASSUME AdmissionInv, NEW p \in ImageUsers, ReturnTicket(p)
  PROVE  QueueInv'
<1> DEFINE S == {i \in LiveAt : tickets[i].by # p}
<1>1. PICK q : q = TicketsAt(S)
  OBVIOUS
<1>0. S \subseteq LiveAt /\ \A i \in LiveAt \ S : tickets[i].by = p
  OBVIOUS
<1>7. tickets' = q /\ user' = [user EXCEPT ![p] = AwayUser]
  BY <1>1 DEF ReturnTicket, Leaves
<1> HIDE DEF S
<1>2. /\ q \in Seq(TicketRows) /\ Ordered(q)
      /\ \A n \in 1..Len(q) : q[n].live /\ \E i \in S : q[n] = tickets[i]
      /\ \A r \in ImageUsers :
           PastAdmission(r) /\ (\A i \in LiveAt \ S : tickets[i].by # r) => Passes(r, q)
  BY <1>0, <1>1, SelectedQueue DEF AdmissionInv
<1>4. user'[p].pc = "away" /\ \A r \in ImageUsers \ {p} : user'[r] = user[r]
  BY <1>7 DEF AdmissionInv, OwnershipInv, OwnershipTyped, AwayUser
<1>5. \A n \in 1..Len(q) : /\ q[n].live /\ user'[q[n].by].pc \in TicketSteps
                           /\ q[n].preview = Previews(q[n].by)'
  <2>1. \A r \in ImageUsers \ {p} : user'[r] = user[r] /\ Previews(r)' = Previews(r)
    BY <1>4 DEF Previews
  <2>2. \A i \in S : /\ tickets[i].by \in ImageUsers \ {p} /\ user[tickets[i].by].pc \in TicketSteps
                     /\ tickets[i].preview = Previews(tickets[i].by)
    BY TicketsInForce DEF AdmissionInv, S
  <2> QED BY <1>2, <2>1, <2>2
<1>6. ASSUME NEW r \in ImageUsers, PastAdmission(r)' PROVE Passes(r, q)
  <2>1. r # p /\ PastAdmission(r)
    BY <1>4, <1>6 DEF PastAdmission
  <2> QED BY <1>0, <1>2, <2>1
<1> QED BY <1>2, <1>7, <1>5, <1>6, EditedQueueKeeps

\* A process stops: its ticket is out of force, the others stand where they stood.
LEMMA StopUserQueue ==
  ASSUME AdmissionInv, NEW p \in ImageUsers, StopUser(p)
  PROVE  QueueInv'
<1>1. /\ user' = [user EXCEPT ![p] = AwayUser]
      /\ tickets' = [i \in DOMAIN tickets |->
           IF tickets[i].by = p THEN [tickets[i] EXCEPT !.live = FALSE] ELSE tickets[i]]
  BY DEF StopUser, Leaves
<1>2. user'[p].pc = "away" /\ \A r \in ImageUsers \ {p} : user'[r] = user[r]
  BY <1>1 DEF AdmissionInv, OwnershipInv, OwnershipTyped, AwayUser
<1>3. tickets \in Seq(TicketRows) /\ \A i \in DOMAIN tickets : tickets[i] \in TicketRows
  BY DEF AdmissionInv, QueueInv
<1>4. \A i \in DOMAIN tickets : /\ [tickets[i] EXCEPT !.live = FALSE] \in TicketRows
                                /\ ~[tickets[i] EXCEPT !.live = FALSE].live
  BY <1>3 DEF TicketRows
<1>5. PICK n \in Nat : DOMAIN tickets = 1..n
  BY <1>3
<1>6. /\ tickets' \in Seq(TicketRows) /\ DOMAIN tickets' = DOMAIN tickets
      /\ \A i \in DOMAIN tickets : tickets'[i] = IF tickets[i].by = p THEN [tickets[i] EXCEPT !.live = FALSE]
                                                 ELSE tickets[i]
  <2>1. \A i \in 1..n : (IF tickets[i].by = p THEN [tickets[i] EXCEPT !.live = FALSE] ELSE tickets[i]) \in TicketRows
    BY <1>3, <1>4, <1>5
  <2>2. tickets' = [i \in 1..n |-> IF tickets[i].by = p THEN [tickets[i] EXCEPT !.live = FALSE]
                                  ELSE tickets[i]]
    BY <1>1, <1>5
  <2>4. tickets' \in [1..n -> TicketRows]
    BY <2>1, <2>2
  <2>5. \A t \in [1..n -> TicketRows] : t \in Seq(TicketRows)
    BY <1>5
  <2>3. tickets' \in Seq(TicketRows) /\ DOMAIN tickets' = 1..n
    BY <2>4, <2>5
  <2> QED BY <1>5, <2>2, <2>3
<1>7. \A i \in LiveAt' : i \in LiveAt /\ tickets'[i] = tickets[i] /\ tickets[i].by # p
  BY <1>4, <1>6 DEF LiveAt
<1>8. \A i \in LiveAt : tickets[i].by # p => i \in LiveAt' /\ tickets'[i] = tickets[i]
  BY <1>6 DEF LiveAt
<1>9. HoldersOK'
  BY <1>2, <1>7, TicketsInForce DEF AdmissionInv, HoldersOK, Previews
<1>10. OrderOK'
  BY <1>7 DEF AdmissionInv, QueueInv, OrderOK
<1>11. PassOK'
  <2> SUFFICES ASSUME NEW r \in ImageUsers, PastAdmission(r)'
               PROVE  \E i \in LiveAt' : /\ tickets'[i].by = r
                                         /\ Ahead(i)' = {} \/ (~tickets'[i].preview /\ ~tickets'[i].waiting)
    BY DEF PassOK
  <2>1. r # p /\ PastAdmission(r)
    BY <1>2 DEF PastAdmission
  <2>2. PICK i \in LiveAt : /\ tickets[i].by = r
                            /\ Ahead(i) = {} \/ (~tickets[i].preview /\ ~tickets[i].waiting)
    BY <2>1 DEF AdmissionInv, QueueInv, PassOK
  <2>3. i \in LiveAt' /\ tickets'[i] = tickets[i]
    BY <1>8, <2>1, <2>2
  <2>4. Ahead(i) = {} => Ahead(i)' = {}
    BY <1>7 DEF Ahead
  <2> QED BY <2>2, <2>3, <2>4
<1> QED BY <1>6, <1>9, <1>10, <1>11 DEF QueueInv

\* Every other step lets the queue alone, and admits nobody.
LEMMA OtherStepsQueue ==
  ASSUME AdmissionInv, NEW p \in ImageUsers,
         \/ RequestOwnership(p) \/ NamespaceMade(p) \/ NamespaceAwaited(p) \/ CancelWait(p)
         \/ PrepareLock(p) \/ RegisterImage(p) \/ LockImage(p) \/ ClaimImage(p)
         \/ HeartbeatStarts(p) \/ HeartbeatLands(p) \/ HeartbeatFails(p)
         \/ TaskEnds(p) \/ DropClaim(p) \/ UnlockImage(p)
  PROVE  QueueInv'
<1>1. user \in [ImageUsers -> Requests] /\ user[p] \in Requests
  BY DEF AdmissionInv, OwnershipInv, OwnershipTyped
<1>2. ASSUME NEW u, user' = [user EXCEPT ![p] = u], tickets' = tickets,
             user[p].pc \in TicketSteps => u.pc \in TicketSteps /\ u.kind = user[p].kind,
             u.pc \notin {"away", "making", "awaiting", "entering", "queued", "leaving"} => PastAdmission(p)
      PROVE  QueueInv'
  <2>1. user'[p] = u /\ \A q \in ImageUsers \ {p} : user'[q] = user[q]
    BY <1>1, <1>2
  <2> QED BY <1>2, <2>1, QueueAlone DEF AdmissionInv, PastAdmission
<1>3. ASSUME NEW pc, Goes(p, pc), tickets' = tickets,
             user[p].pc \in TicketSteps => pc \in TicketSteps,
             pc \notin {"making", "awaiting", "entering", "queued", "leaving"} => PastAdmission(p)
      PROVE  QueueInv'
  <2>1. user' = [user EXCEPT ![p] = [user[p] EXCEPT !.pc = pc]]
    BY <1>1, <1>3 DEF Goes, Requests
  <2>2. [user[p] EXCEPT !.pc = pc].pc = pc /\ [user[p] EXCEPT !.pc = pc].kind = user[p].kind
    BY <1>1 DEF Requests
  <2> QED BY <1>2, <1>3, <2>1, <2>2
<1> USE DEF TicketSteps, HoldingSteps, PastAdmission
<1>4. CASE NamespaceMade(p) \/ CancelWait(p) \/ TaskEnds(p) \/ UnlockImage(p) \/ DropClaim(p)
  BY <1>3, <1>4 DEF NamespaceMade, CancelWait, TaskEnds, UnlockImage, DropClaim
<1>5. CASE PrepareLock(p) \/ LockImage(p)
  BY <1>3, <1>5 DEF PrepareLock, LockImage
<1>6. CASE RegisterImage(p)
  <2>1. CASE Goes(p, "prepared")
    BY <1>3, <1>6, <2>1 DEF RegisterImage
  <2>2. CASE UNCHANGED user
    BY <1>6, <2>2, QueueAlone DEF RegisterImage, AdmissionInv
  <2> QED BY <1>6, <2>1, <2>2 DEF RegisterImage
<1>7. CASE NamespaceAwaited(p)
  <2>1. AwayUser.pc = "away"
    BY DEF AwayUser
  <2>2. user[p].pc = "awaiting" /\ tickets' = tickets /\ (Goes(p, "entering") \/ user' = [user EXCEPT ![p] = AwayUser])
    BY <1>7 DEF NamespaceAwaited, Leaves
  <2> QED BY <1>2, <1>3, <2>1, <2>2
<1>8. CASE RequestOwnership(p)
  <2>1. PICK k : user' = [user EXCEPT ![p] = [AwayUser EXCEPT !.kind = k,
                           !.pc = CASE namespace = "absent" -> "making"
                                    [] namespace = "making" -> "awaiting"
                                    [] OTHER -> "entering"]]
    BY <1>8 DEF RequestOwnership
  <2>2. PICK pc \in {"making", "awaiting", "entering"} :
          pc = CASE namespace = "absent" -> "making"
                 [] namespace = "making" -> "awaiting"
                 [] OTHER -> "entering"
    OBVIOUS
  <2>3. user' = [user EXCEPT ![p] = [AwayUser EXCEPT !.kind = k, !.pc = pc]]
    BY <2>1, <2>2
  <2>4. [AwayUser EXCEPT !.kind = k, !.pc = pc].pc = pc
    BY DEF AwayUser
  <2>5. user[p].pc = "away" /\ tickets' = tickets
    BY <1>8 DEF RequestOwnership
  <2> QED BY <1>2, <2>3, <2>4, <2>5
<1>9. CASE ClaimImage(p)
  <2>1. user[p].pc = "locked" /\ tickets' = tickets
    BY <1>9 DEF ClaimImage
  <2>2. CASE Goes(p, "unlocking")
    BY <1>3, <2>1, <2>2
  <2>3. CASE user' = [user EXCEPT ![p].pc = "working", ![p].claims = Writes(p)]
    <3> DEFINE u == [user[p] EXCEPT !.pc = "working", !.claims = Writes(p)]
    <3>1. user' = [user EXCEPT ![p] = u] /\ u.pc = "working" /\ u.kind = user[p].kind
      BY <1>1, <2>3 DEF Requests
    <3> HIDE DEF u
    <3> QED BY <1>2, <2>1, <3>1
  <2> QED BY <1>9, <2>2, <2>3 DEF ClaimImage, Goes
<1>10. CASE HeartbeatStarts(p) \/ HeartbeatLands(p) \/ HeartbeatFails(p)
  <2>1. tickets' = tickets
    BY <1>10 DEF HeartbeatStarts, HeartbeatLands, HeartbeatFails
  <2>2. ASSUME NEW b, user' = [user EXCEPT ![p].beat = b] PROVE QueueInv'
    <3> DEFINE u == [user[p] EXCEPT !.beat = b]
    <3>1. user' = [user EXCEPT ![p] = u] /\ u.pc = user[p].pc /\ u.kind = user[p].kind
      BY <1>1, <2>2 DEF Requests
    <3> HIDE DEF u
    <3> QED BY <1>2, <2>1, <3>1
  <2>3. ASSUME user' = [user EXCEPT ![p].beat = FALSE, ![p].retain = TRUE] PROVE QueueInv'
    <3> DEFINE u == [user[p] EXCEPT !.beat = FALSE, !.retain = TRUE]
    <3>1. user' = [user EXCEPT ![p] = u] /\ u.pc = user[p].pc /\ u.kind = user[p].kind
      BY <1>1, <2>3 DEF Requests
    <3> HIDE DEF u
    <3> QED BY <1>2, <2>1, <3>1
  <2> QED BY <1>10, <2>2, <2>3 DEF HeartbeatStarts, HeartbeatLands, HeartbeatFails
<1> QED BY <1>4, <1>5, <1>6, <1>7, <1>8, <1>9, <1>10

LEMMA QueueStep == AdmissionInv /\ [OwnershipNext]_ownershipVars => AdmissionInv'
<1> SUFFICES ASSUME AdmissionInv, [OwnershipNext]_ownershipVars PROVE AdmissionInv'
  OBVIOUS
<1>1. OwnershipInv'
  BY OwnershipStep DEF AdmissionInv
<1>2. ASSUME NEW p \in ImageUsers, UserStep(p) \/ CancelWait(p) PROVE QueueInv'
  BY <1>2, TakeTicketQueue, CheckQueueQueue, ReturnTicketQueue, OtherStepsQueue DEF UserStep
<1>3. ASSUME NEW p \in ImageUsers,
             \/ RequestOwnership(p) \/ StopUser(p)
             \/ HeartbeatStarts(p) \/ HeartbeatLands(p) \/ HeartbeatFails(p)
      PROVE  QueueInv'
  BY <1>3, StopUserQueue, OtherStepsQueue
<1>4. ASSUME tickets' = tickets, user' = user PROVE QueueInv'
  BY <1>4, QueueAlone DEF AdmissionInv, PastAdmission
<1>5. ASSUME HelperEnds \/ ClaimLeaseEnds PROVE QueueInv'
  BY <1>4, <1>5 DEF HelperEnds, ClaimLeaseEnds
<1>6. ASSUME UNCHANGED ownershipVars PROVE QueueInv'
  BY <1>4, <1>6 DEF ownershipVars
<1>7. QueueInv'
  BY <1>2, <1>3, <1>5, <1>6 DEF OwnershipNext
<1> QED BY <1>1, <1>7 DEF AdmissionInv

\* AdmissionInv is inductive: the tickets in force are those of requests that
\* wait or were admitted, in an order in which nobody overtakes a preview.
THEOREM AdmissionInvariant == OwnershipSpec => []AdmissionInv
<1>1. OwnershipInit => AdmissionInv
  <2> SUFFICES ASSUME OwnershipInit PROVE AdmissionInv
    OBVIOUS
  <2>1. tickets = <<>> /\ LiveAt = {} /\ \A p \in ImageUsers : user[p].pc = "away"
    BY DEF OwnershipInit, AwayUser, LiveAt
  <2>2. QueueInv
    BY <2>1 DEF QueueInv, HoldersOK, OrderOK, PassOK, PastAdmission
  <2> QED BY <2>2, OwnershipInitInv DEF AdmissionInv
<1> QED BY <1>1, QueueStep, PTL DEF OwnershipSpec

\* A preview past its admission is past it alone, for any number of processes
\* and stops: whoever is admitted after it waits for its ticket (Ticket, Admits
\* under the queue's guard).
THEOREM PreviewAdmittedAloneHolds == OwnershipSpec => []PreviewAdmittedAlone
<1>1. AdmissionInv => PreviewAdmittedAlone
  <2> SUFFICES ASSUME AdmissionInv, NEW p \in ImageUsers, NEW q \in ImageUsers,
                      Previews(p), PastAdmission(p), PastAdmission(q), p # q
               PROVE  FALSE
    BY DEF PreviewAdmittedAlone
  <2>1. PICK i \in LiveAt : /\ tickets[i].by = p
                            /\ Ahead(i) = {} \/ (~tickets[i].preview /\ ~tickets[i].waiting)
    BY DEF AdmissionInv, QueueInv, PassOK
  <2>2. PICK k \in LiveAt : /\ tickets[k].by = q
                            /\ Ahead(k) = {} \/ (~tickets[k].preview /\ ~tickets[k].waiting)
    BY DEF AdmissionInv, QueueInv, PassOK
  <2>3. tickets[i].preview /\ Ahead(i) = {}
    BY <2>1, TicketsInForce DEF AdmissionInv
  <2>4. i < k
    <3>1. i # k /\ ~(k < i)
      BY <2>1, <2>2, <2>3 DEF Ahead
    <3>2. i \in Nat /\ k \in Nat
      BY DEF AdmissionInv, QueueInv, LiveAt
    <3> QED BY <3>1, <3>2
  <2>5. i \in Ahead(k)
    BY <2>4 DEF Ahead
  <2>6. ~tickets[k].waiting => ~tickets[i].preview
    BY <2>4 DEF AdmissionInv, QueueInv, OrderOK
  <2> QED BY <2>2, <2>3, <2>5, <2>6
<1> QED BY <1>1, AdmissionInvariant, PTL

--------------------------------------------------------------------------
(* The registration of the image: one process at a time writes it, and     *)
(* none writes to an established one.                                      *)
RegistryInv ==
  /\ namespace \in {"absent", "making", "ready"} /\ registration \in 0..Established
  /\ registryLock \in ImageUsers \cup {NoUser} /\ imageStops \in 0..MaxImageStops
  /\ \A p \in ImageUsers : user[p].pc = "registering" => registryLock = p /\ registration # Established

\* A step that registers nothing lets nobody begin to.
LEMMA RegistersNothing ==
  ASSUME RegistryInv, UNCHANGED <<registration, registryLock>>,
         namespace' \in {"absent", "making", "ready"}, imageStops' \in 0..MaxImageStops,
         \A p \in ImageUsers : user'[p].pc = "registering" => user[p].pc = "registering"
  PROVE  RegistryInv'
BY DEF RegistryInv

LEMMA OnlyUserSteps ==
  ASSUME OwnershipTyped, NEW p \in ImageUsers
  PROVE  /\ \A pc : Goes(p, pc) => /\ user'[p].pc = pc
                                   /\ \A q \in ImageUsers \ {p} : user'[q] = user[q]
         /\ Leaves(p) => /\ user'[p].pc = "away"
                         /\ \A q \in ImageUsers \ {p} : user'[q] = user[q]
<1>1. user[p] \in Requests /\ user \in [ImageUsers -> Requests]
  BY DEF OwnershipTyped
<1> QED BY <1>1 DEF Goes, Leaves, AwayUser, Requests

LEMMA RequestsRegisterNothing ==
  ASSUME OwnershipInv, RegistryInv, NEW p \in ImageUsers,
         \/ RequestOwnership(p) \/ NamespaceMade(p) \/ NamespaceAwaited(p) \/ TakeTicket(p) \/ CheckQueue(p)
         \/ CancelWait(p) \/ ReturnTicket(p) \/ LockImage(p) \/ TaskEnds(p) \/ DropClaim(p) \/ UnlockImage(p)
  PROVE  RegistryInv'
<1>1. OwnershipTyped /\ user \in [ImageUsers -> Requests] /\ namespace \in {"absent", "making", "ready"}
      /\ imageStops \in 0..MaxImageStops
  BY DEF OwnershipInv, OwnershipTyped, RegistryInv
<1>2. CASE RequestOwnership(p)
  <2>1. \A q \in ImageUsers : user'[q].pc = "registering" => user[q].pc = "registering"
    BY <1>1, <1>2 DEF RequestOwnership, AwayUser
  <2> QED BY <1>1, <1>2, <2>1, RegistersNothing DEF RequestOwnership
<1>3. CASE ~RequestOwnership(p)
  <2>1. \/ \E pc \in {"entering", "admitted", "queued", "leaving", "locked", "finishing", "unlocking"} : Goes(p, pc)
        \/ Leaves(p)
    BY <1>3 DEF NamespaceMade, NamespaceAwaited, TakeTicket, CheckQueue, EntersQueue, CancelWait, ReturnTicket,
                LockImage, TaskEnds, DropClaim, UnlockImage
  <2>2. \A q \in ImageUsers : user'[q].pc = "registering" => user[q].pc = "registering"
    BY <1>1, <2>1, OnlyUserSteps
  <2>3. UNCHANGED <<registration, registryLock, imageStops>> /\ namespace' \in {namespace, "ready"}
    BY <1>3 DEF NamespaceMade, NamespaceAwaited, TakeTicket, CheckQueue, EntersQueue, CancelWait, ReturnTicket,
                LockImage, TaskEnds, DropClaim, UnlockImage, NamespaceKept
  <2> QED BY <1>1, <2>2, <2>3, RegistersNothing
<1> QED BY <1>2, <1>3

LEMMA WorkRegistersNothing ==
  ASSUME OwnershipInv, RegistryInv,
         \/ HelperEnds \/ ClaimLeaseEnds
         \/ \E p \in ImageUsers : ClaimImage(p) \/ HeartbeatStarts(p) \/ HeartbeatLands(p) \/ HeartbeatFails(p)
  PROVE  RegistryInv'
<1>1. /\ user \in [ImageUsers -> Requests] /\ namespace \in {"absent", "making", "ready"}
      /\ imageStops \in 0..MaxImageStops /\ MaxImageStops \in Nat
  BY OwnershipBounds DEF OwnershipInv, OwnershipTyped, RegistryInv
<1>2. UNCHANGED <<namespace, registration, registryLock>> /\ imageStops' \in 0..MaxImageStops
  <2>1. UNCHANGED <<namespace, registration, registryLock>>
    BY DEF HelperEnds, ClaimLeaseEnds, ClaimImage, HeartbeatStarts, HeartbeatLands, HeartbeatFails, NamespaceKept
  <2>2. imageStops' = imageStops \/ (imageStops < MaxImageStops /\ imageStops' = imageStops + 1)
    <3>1. CASE HelperEnds
      BY <3>1 DEF HelperEnds
    <3>2. CASE ClaimLeaseEnds
      BY <3>2 DEF ClaimLeaseEnds
    <3>3. ASSUME NEW p \in ImageUsers,
                 ClaimImage(p) \/ HeartbeatStarts(p) \/ HeartbeatLands(p) \/ HeartbeatFails(p)
          PROVE  imageStops' = imageStops \/ (imageStops < MaxImageStops /\ imageStops' = imageStops + 1)
      BY <3>3 DEF ClaimImage, HeartbeatStarts, HeartbeatLands, HeartbeatFails
    <3> QED BY <3>1, <3>2, <3>3
  <2> QED BY <1>1, <2>1, <2>2
<1>3. ASSUME NEW q \in ImageUsers, user'[q].pc = "registering" PROVE user[q].pc = "registering"
  <2>1. CASE HelperEnds \/ ClaimLeaseEnds
    BY <1>3, <2>1 DEF HelperEnds, ClaimLeaseEnds
  <2>2. ASSUME NEW p \in ImageUsers, ClaimImage(p) \/ HeartbeatStarts(p) \/ HeartbeatLands(p) \/ HeartbeatFails(p)
        PROVE  user[q].pc = "registering"
    <3>1. user[p] \in Requests
      BY <1>1
    <3>2. \E r : /\ user' = [user EXCEPT ![p] = r]
                 /\ r.pc \in {user[p].pc, "unlocking", "working"}
      BY <2>2, <3>1 DEF ClaimImage, HeartbeatStarts, HeartbeatLands, HeartbeatFails, Requests
    <3> QED BY <1>1, <1>3, <3>2
  <2> QED BY <2>1, <2>2
<1> QED BY <1>1, <1>2, <1>3, RegistersNothing

\* Whoever registers has the registry lock, so nobody else does.
LEMMA RegistrationKeeps ==
  ASSUME OwnershipInv, RegistryInv, NEW p \in ImageUsers, PrepareLock(p) \/ RegisterImage(p) \/ StopUser(p)
  PROVE  RegistryInv'
<1>1. OwnershipTyped /\ user \in [ImageUsers -> Requests] /\ imageStops \in 0..MaxImageStops /\ MaxImageStops \in Nat
      /\ registration \in 0..4 /\ p # NoUser
  BY OwnershipBounds, OwnershipNames DEF OwnershipInv, OwnershipTyped, RegistryInv, Established
<1>2. CASE PrepareLock(p)
  <2>1. CASE Goes(p, "registering")
    <3>1. registryLock = NoUser /\ registration = 0 /\ registryLock' = p
      BY <1>1, <1>2, <2>1, OnlyUserSteps DEF PrepareLock
    <3>2. \A q \in ImageUsers : q # p => user'[q].pc # "registering"
      BY <1>1, <2>1, <3>1, OnlyUserSteps, OwnershipNames DEF RegistryInv
    <3> QED BY <1>2, <3>1, <3>2 DEF RegistryInv, PrepareLock, Established
  <2>2. CASE ~Goes(p, "registering")
    <3>1. \A q \in ImageUsers : user'[q].pc = "registering" => user[q].pc = "registering"
      BY <1>1, <1>2, <2>2, OnlyUserSteps DEF PrepareLock
    <3>2. UNCHANGED <<registryLock, registration, namespace, imageStops>>
      BY <1>2, <2>2 DEF PrepareLock
    <3> QED BY <3>1, <3>2, RegistersNothing DEF RegistryInv
  <2> QED BY <2>1, <2>2
<1>3. CASE RegisterImage(p)
  <2>1. registryLock = p /\ registration # 4 /\ registration' = registration + 1
    BY <1>3 DEF RegistryInv, RegisterImage, Established
  <2>2. \A q \in ImageUsers : q # p => user[q].pc # "registering" /\ user'[q] = user[q]
    BY <1>1, <1>3, <2>1, OnlyUserSteps DEF RegistryInv, RegisterImage
  <2>3. registration' \in 0..4 /\ (registration' = 4 => user'[p].pc = "prepared" /\ registryLock' = NoUser)
        /\ (registration' # 4 => registryLock' = registryLock)
    BY <1>1, <1>3, <2>1, OnlyUserSteps DEF RegisterImage, Established
  <2> QED BY <1>3, <2>1, <2>2, <2>3 DEF RegistryInv, RegisterImage, Established
<1>4. CASE StopUser(p)
  <2>1. user'[p].pc = "away" /\ \A q \in ImageUsers \ {p} : user'[q] = user[q]
    BY <1>1, <1>4, OnlyUserSteps DEF StopUser
  <2>2. registryLock' \in {registryLock, NoUser} /\ (registryLock' = registryLock \/ registryLock = p)
    BY <1>4 DEF StopUser
  <2>3. imageStops' \in 0..MaxImageStops /\ UNCHANGED <<namespace, registration>>
    BY <1>1, <1>4 DEF StopUser
  <2> QED BY <2>1, <2>2, <2>3 DEF RegistryInv
<1> QED BY <1>2, <1>3, <1>4

LEMMA RegistryStep == OwnershipInv /\ RegistryInv /\ [OwnershipNext]_ownershipVars => RegistryInv'
<1> SUFFICES ASSUME OwnershipInv, RegistryInv, [OwnershipNext]_ownershipVars PROVE RegistryInv'
  OBVIOUS
<1>1. ASSUME NEW p \in ImageUsers, UserStep(p) \/ CancelWait(p) \/ RequestOwnership(p) \/ StopUser(p)
      PROVE  RegistryInv'
  BY <1>1, RequestsRegisterNothing, WorkRegistersNothing, RegistrationKeeps DEF UserStep
<1>2. ASSUME NEW p \in ImageUsers, HeartbeatStarts(p) \/ HeartbeatLands(p) \/ HeartbeatFails(p)
      PROVE  RegistryInv'
  BY <1>2, WorkRegistersNothing
<1>3. CASE HelperEnds \/ ClaimLeaseEnds
  BY <1>3, WorkRegistersNothing
<1>4. CASE UNCHANGED ownershipVars
  BY <1>4 DEF ownershipVars, RegistryInv
<1> QED BY <1>1, <1>2, <1>3, <1>4 DEF OwnershipNext

\* The files and processes of an image keep their types: a registration never
\* goes past the established one, whoever stops half way (prepareArchiveLock).
THEOREM OwnershipTypeHolds == OwnershipSpec => []OwnershipTypeOK
<1>1. OwnershipInit => RegistryInv
  BY OwnershipBounds DEF OwnershipInit, RegistryInv, Established, AwayUser
<1>2. AdmissionInv /\ RegistryInv => OwnershipTypeOK
  <2> SUFFICES ASSUME AdmissionInv, RegistryInv PROVE OwnershipTypeOK
    OBVIOUS
  <2>1. \A i \in DOMAIN tickets : tickets[i].by \in ImageUsers
    <3>1. tickets \in Seq(TicketRows)
      BY DEF AdmissionInv, QueueInv
    <3>2. \A i \in DOMAIN tickets : tickets[i] \in TicketRows
      BY <3>1
    <3> QED BY <3>2 DEF TicketRows
  <2>2. OwnershipTyped
    BY DEF AdmissionInv, OwnershipInv
  <2>3. \A p \in ImageUsers : user[p].pc \in
          {"away", "making", "awaiting", "entering", "queued", "admitted", "registering",
           "prepared", "locked", "working", "finishing", "unlocking", "leaving"}
    BY <2>2 DEF OwnershipTyped, Requests, Before, HoldingSteps
  <2> QED BY <2>1, <2>2, <2>3 DEF OwnershipTypeOK, RegistryInv, OwnershipTyped, Owners
<1>3. AdmissionInv => OwnershipInv
  BY DEF AdmissionInv
<1> QED BY <1>1, <1>2, <1>3, AdmissionInvariant, RegistryStep, PTL DEF OwnershipSpec
=============================================================================
