------------------------- MODULE RecoveryCheckpoint -------------------------
(***************************************************************************)
(* The commit protocol of one DVD recovery batch and its reconciliation.   *)
(*                                                                         *)
(* commitDvdRecoveryBatch (apps/archive-worker/src/dvd-recovery-batch.ts)  *)
(* makes one source observation durable: undo journal, image units,        *)
(* immutable manifest, checkpoint pointer, database projection, journal    *)
(* cleanup.  reconcileDvdRecoveryCheckpoint (dvd-recovery-reconciliation)  *)
(* repairs whatever an interrupted batch left.  The worker that runs them  *)
(* may die between any two steps, a step may report an I/O error, and the  *)
(* machine may lose power, which forgets directory entries that were not   *)
(* synchronized and database commits that were not checkpointed.           *)
(*                                                                         *)
(* Both run under exclusive image ownership, which makes them one process: *)
(* pc is its control state.  Who may run them, and when, is the subject of *)
(* ArchiveRecovery; here status says only whether a batch may begin.       *)
(***************************************************************************)
EXTENDS Naturals

CONSTANTS
  Sectors,       \* sectors of the source map
  Units,         \* storage units one sector spans (unitBytes may be below 2048)
  MaxRevision,   \* DVD_RECOVERY_MAX_CHECKPOINT_REVISION (10,000 in the code)
  Pids,          \* process ids a worker execution may get
  NoSector, NoManifest, NoJournal, TornJournal,   \* absent values
  MaxFaults,     \* bound on interruptions
  MaxPowerLoss   \* bound on those of them that are power losses

VARIABLES
  image,    \* [Sectors -> [1..Units -> BOOLEAN]]: units holding source bytes
  mtime,    \* modification time of the image
  clock,    \* modification time the last write got
  dir,      \* evidence directory as processes see it
  disk,     \* evidence directory as a power loss would leave it
  db,       \* checkpoint projected in SQLite
  dbDisk,   \* the same, as a power loss would leave it
  status,   \* "running", "paused" (storage fault) or "faulted"
  pc,       \* step the owner of the image takes next
  batch,    \* the observation being committed
  pid,      \* process id of the worker
  faults,   \* interruptions so far
  losses    \* power losses so far

vars == <<image, mtime, clock, dir, disk, db, dbDisk, status, pc, batch, pid,
          faults, losses>>

Classes  == {"skipped", "failed", "recovered"}
Outcomes == {"recovered", "failed"}
Maps     == [Sectors -> Classes]
Blocks   == [1..Units -> BOOLEAN]
Whole    == [u \in 1..Units |-> TRUE]

MapAfter(m, s, outcome) == [m EXCEPT ![s] = outcome]

(* The image bytes a source map stands for.                                *)
ImageOf(m) == [s \in Sectors |-> [u \in 1..Units |-> m[s] = "recovered"]]

(* A manifest binds its revision, source map, image version and read; the  *)
(* pointer names one manifest by digest, and is modelled as that record.   *)
Manifest == [rev : 1..MaxRevision, map : Maps, mtime : Nat,
             sector : Sectors \union {NoSector},
             outcome : Outcomes \union {"initial"}]

(* What SQLite keeps: revision, identity and digest.  The digest covers    *)
(* the source map and the read, not the image version.                     *)
Identity == [rev : 1..MaxRevision, map : Maps]
IdentityOf(m) == [rev |-> m.rev, map |-> m.map]

(* A complete undo journal: the manifest it is based on, the sector, and   *)
(* the original bytes of the sector's units.                               *)
Journal == [base : Manifest, sector : Sectors, before : Blocks]

Temps == [file : {"manifest", "pointer"}, rev : 1..MaxRevision, pid : Pids]

Directory == [journal  : Journal \union {NoJournal, TornJournal},
              manifest : [1..MaxRevision + 1 -> Manifest \union {NoManifest}],
              pointer  : Manifest,
              temps    : SUBSET Temps]

BatchSteps == {"journal", "journal_write", "journal_sync", "write",
               "image_sync", "manifest", "manifest_link", "manifest_sync",
               "pointer", "pointer_rename", "pointer_sync", "database",
               "cleanup", "cleanup_sync"}
ReconcileSteps == {"examine", "rollback", "drop_manifest",
                   "drop_manifest_sync", "projection", "drop_journal",
                   "drop_journal_sync"}

ASSUME ConstantsAssumption ==
  /\ Units \in Nat \ {0}
  /\ MaxRevision \in Nat \ {0}
  /\ NoSector \notin Sectors
  /\ NoManifest \notin Manifest
  /\ NoJournal # TornJournal
  /\ NoJournal \notin Journal /\ TornJournal \notin Journal
  /\ MaxFaults \in Nat /\ MaxPowerLoss \in Nat

TypeOK ==
  /\ image \in [Sectors -> Blocks]
  /\ mtime \in Nat /\ clock \in Nat
  /\ dir \in Directory /\ disk \in Directory
  /\ db \in Identity /\ dbDisk \in Identity
  /\ status \in {"running", "paused", "faulted"}
  /\ pc \in BatchSteps \union ReconcileSteps \union {"idle", "down"}
  /\ batch \in [sector : Sectors \union {NoSector}, outcome : Outcomes,
                unit : 1..Units + 1, mtime : Nat]
  /\ pid \in Pids
  /\ faults \in 0..MaxFaults /\ losses \in 0..MaxPowerLoss

NoBatch == [sector |-> NoSector, outcome |-> "failed", unit |-> 1, mtime |-> 0]

InitialManifest(m) == [rev |-> 1, map |-> m, mtime |-> 0, sector |-> NoSector,
                       outcome |-> "initial"]

Init ==
  \E m \in [Sectors -> {"skipped", "failed"}] :
    /\ image = ImageOf(m)
    /\ mtime = 0 /\ clock = 0
    /\ dir = [journal  |-> NoJournal,
              manifest |-> [r \in 1..MaxRevision + 1 |->
                              IF r = 1 THEN InitialManifest(m) ELSE NoManifest],
              pointer  |-> InitialManifest(m),
              temps    |-> {}]
    /\ disk = dir
    /\ db = IdentityOf(InitialManifest(m))
    /\ dbDisk = db
    /\ status = "running"
    /\ pc = "idle"
    /\ batch = NoBatch
    /\ pid \in Pids
    /\ faults = 0 /\ losses = 0

-----------------------------------------------------------------------------
(* Reading checkpoint evidence                                             *)

(* The manifest file the pointer names is the one its digest says.         *)
PointerResolves == dir.manifest[dir.pointer.rev] = dir.pointer

(* verifyDvdCheckpointImage: the image version a manifest binds, and the   *)
(* bytes of that manifest's own protected ranges.                          *)
ImageVerifies(m) ==
  /\ mtime = m.mtime
  /\ m.outcome = "recovered" => image[m.sector] = Whole

(* readCommittedDvdCheckpoint: no journal, pointer and projection agree.   *)
CheckpointReads ==
  /\ dir.journal = NoJournal
  /\ PointerResolves
  /\ db = IdentityOf(dir.pointer)
  /\ ImageVerifies(dir.pointer)

-----------------------------------------------------------------------------
(* One recovery batch                                                      *)

Goto(from, to) == pc = from /\ pc' = to

(* The manifest the current batch installs.                                *)
NewManifest == [rev |-> dir.pointer.rev + 1,
                map |-> MapAfter(dir.pointer.map, batch.sector, batch.outcome),
                mtime |-> batch.mtime,
                sector |-> batch.sector,
                outcome |-> batch.outcome]

(* recovery-manifest-<rev>.json.<pid>.tmp and checkpoint.json.<pid>.next    *)
Temp(kind) == [file |-> kind, pid |-> pid,
               rev |-> IF kind = "manifest" THEN dir.pointer.rev + 1 ELSE 1]

(* Slip: the targeted sector need not be in the unrecovered source map.    *)
BeginBatchAnywhere(s, outcome) ==
  /\ status = "running"
  /\ CheckpointReads
  /\ dir.pointer.rev < MaxRevision
  /\ batch' = [sector |-> s, outcome |-> outcome, unit |-> 1, mtime |-> mtime]
  /\ Goto("idle", IF outcome = "recovered" THEN "journal" ELSE "manifest")
  /\ UNCHANGED <<image, mtime, clock, dir, disk, db, dbDisk, status, pid,
                 faults, losses>>

BeginBatch(s, outcome) ==
  /\ status = "running"
  /\ CheckpointReads
  /\ dir.pointer.rev < MaxRevision
  /\ dir.pointer.map[s] # "recovered"
  /\ batch' = [sector |-> s, outcome |-> outcome, unit |-> 1, mtime |-> mtime]
  /\ Goto("idle", IF outcome = "recovered" THEN "journal" ELSE "manifest")
  /\ UNCHANGED <<image, mtime, clock, dir, disk, db, dbDisk, status, pid,
                 faults, losses>>

(* Refused before anything is touched: CHECKPOINT_CAPACITY_EXHAUSTED       *)
(* faults the Recovery, an unsupported storage preflight pauses it.        *)
RefuseBatch ==
  /\ pc = "idle"
  /\ status = "running"
  /\ status' \in {"paused"} \union {st \in {"faulted"} : dir.pointer.rev >= MaxRevision}
  /\ UNCHANGED <<image, mtime, clock, dir, disk, db, dbDisk, pc, batch, pid,
                 faults, losses>>

(* O_CREAT | O_EXCL, then the one-MiB reservation: a torn journal.         *)
CreateJournal ==
  /\ Goto("journal", "journal_write")
  /\ dir.journal = NoJournal
  /\ dir' = [dir EXCEPT !.journal = TornJournal]
  /\ UNCHANGED <<image, mtime, clock, disk, db, dbDisk, status, batch, pid,
                 faults, losses>>

(* Metadata and original bytes, synchronized.  The file's content is       *)
(* durable now; its directory entry may or may not be.                     *)
CompleteJournal ==
  LET j == [base |-> dir.pointer, sector |-> batch.sector,
            before |-> image[batch.sector]] IN
  /\ Goto("journal_write", "journal_sync")
  /\ dir' = [dir EXCEPT !.journal = j]
  /\ disk' = IF disk.journal = TornJournal THEN [disk EXCEPT !.journal = j]
                                           ELSE disk
  /\ UNCHANGED <<image, mtime, clock, db, dbDisk, status, batch, pid, faults,
                 losses>>

(* Slip: the journal file is synchronized, its directory is not.           *)
SyncJournalFileOnly ==
  /\ Goto("journal_sync", "write")
  /\ UNCHANGED <<image, mtime, clock, dir, disk, db, dbDisk, status, batch, pid,
                 faults, losses>>

SyncJournal ==
  /\ Goto("journal_sync", "write")
  /\ disk' = dir
  /\ UNCHANGED <<image, mtime, clock, dir, db, dbDisk, status, batch, pid,
                 faults, losses>>

(* One atomic, synchronous write of one unit.                              *)
WriteUnit ==
  /\ pc = "write"
  /\ image' = [image EXCEPT ![batch.sector][batch.unit] = TRUE]
  /\ clock' = clock + 1
  /\ mtime' = clock + 1
  /\ batch' = [batch EXCEPT !.unit = @ + 1]
  /\ pc' = IF batch.unit = Units THEN "image_sync" ELSE "write"
  /\ UNCHANGED <<dir, disk, db, dbDisk, status, pid, faults, losses>>

(* Read back, and take the image version the manifest will bind.           *)
SyncImage ==
  /\ Goto("image_sync", "manifest")
  /\ image[batch.sector] = Whole
  /\ batch' = [batch EXCEPT !.mtime = mtime]
  /\ UNCHANGED <<image, mtime, clock, dir, disk, db, dbDisk, status, pid,
                 faults, losses>>

(* installImmutableRecord and replacePointer both create a temporary file  *)
(* named after the process id, exclusively.                                *)
CreateTemp(kind, from, to) ==
  /\ Goto(from, to)
  /\ Temp(kind) \notin dir.temps
  /\ dir' = [dir EXCEPT !.temps = @ \union {Temp(kind)}]
  /\ UNCHANGED <<image, mtime, clock, disk, db, dbDisk, status, batch, pid,
                 faults, losses>>

CreateManifestTemp == CreateTemp("manifest", "manifest", "manifest_link")

LinkManifest ==
  /\ Goto("manifest_link", "manifest_sync")
  /\ dir.manifest[NewManifest.rev] = NoManifest
  /\ dir' = [dir EXCEPT !.manifest[NewManifest.rev] = NewManifest]
  /\ UNCHANGED <<image, mtime, clock, disk, db, dbDisk, status, batch, pid,
                 faults, losses>>

(* Slip: the projection moves before the pointer.                          *)
SyncManifestAndProject ==
  /\ Goto("manifest_sync", "pointer")
  /\ dir' = [dir EXCEPT !.temps = @ \ {Temp("manifest")}]
  /\ disk' = dir'
  /\ db' = IdentityOf(NewManifest)
  /\ UNCHANGED <<image, mtime, clock, dbDisk, status, batch, pid, faults, losses>>

(* Directory synchronized, temporary unlinked, synchronized again.         *)
SyncManifest ==
  /\ Goto("manifest_sync", "pointer")
  /\ dir' = [dir EXCEPT !.temps = @ \ {Temp("manifest")}]
  /\ disk' = dir'
  /\ UNCHANGED <<image, mtime, clock, db, dbDisk, status, batch, pid, faults,
                 losses>>

CreatePointerTemp == CreateTemp("pointer", "pointer", "pointer_rename")

RenamePointer ==
  /\ Goto("pointer_rename", "pointer_sync")
  /\ dir' = [dir EXCEPT !.pointer = NewManifest,
                        !.temps = @ \ {Temp("pointer")}]
  /\ UNCHANGED <<image, mtime, clock, disk, db, dbDisk, status, batch, pid,
                 faults, losses>>

SyncPointer ==
  /\ Goto("pointer_sync", "database")
  /\ disk' = dir
  /\ UNCHANGED <<image, mtime, clock, dir, db, dbDisk, status, batch, pid,
                 faults, losses>>

(* projectCheckpoint: one immediate transaction that requires the exact    *)
(* base revision and a one-sector map transition.                          *)
Project ==
  /\ db.rev + 1 = dir.pointer.rev
  /\ dir.pointer.map = MapAfter(db.map, dir.pointer.sector, dir.pointer.outcome)
  /\ db' = IdentityOf(dir.pointer)

ProjectBatch ==
  /\ Project
  /\ Goto("database", IF batch.outcome = "recovered" THEN "cleanup" ELSE "idle")
  /\ UNCHANGED <<image, mtime, clock, dir, disk, dbDisk, status, batch, pid,
                 faults, losses>>

UnlinkJournal ==
  /\ Goto("cleanup", "cleanup_sync")
  /\ dir' = [dir EXCEPT !.journal = NoJournal]
  /\ UNCHANGED <<image, mtime, clock, disk, db, dbDisk, status, batch, pid,
                 faults, losses>>

SyncCleanup ==
  /\ Goto("cleanup_sync", "idle")
  /\ disk' = dir
  /\ UNCHANGED <<image, mtime, clock, dir, db, dbDisk, status, batch, pid,
                 faults, losses>>

-----------------------------------------------------------------------------
(* Interruptions                                                           *)

(* A temporary of an earlier execution with the same process id: EEXIST is *)
(* a consistency fault, and the claim is retained.                         *)
TempCollision ==
  /\ \/ pc = "manifest" /\ Temp("manifest") \in dir.temps
     \/ pc = "pointer" /\ Temp("pointer") \in dir.temps
  /\ status' = "faulted"
  /\ pc' = "down"
  /\ UNCHANGED <<image, mtime, clock, dir, disk, db, dbDisk, batch, pid,
                 faults, losses>>

(* A step reports an error: an I/O error pauses the Recovery, a failed     *)
(* verification faults it, an abort leaves it running.  What the step      *)
(* already did stays; its temporary is unlinked unless writing it failed.  *)
StepFails ==
  /\ pc \in BatchSteps
  /\ faults < MaxFaults
  /\ faults' = faults + 1
  /\ status' \in {"running", "paused", "faulted"}
  /\ pc' = "down"
  /\ dir' \in {dir, [dir EXCEPT !.temps = @ \ {Temp("manifest"), Temp("pointer")}]}
  /\ UNCHANGED <<image, mtime, clock, disk, db, dbDisk, batch, pid, losses>>

(* Reconciliation reports an error between two boundaries: its lost claim, *)
(* an abort, or an I/O error.                                              *)
ReconcileFails ==
  /\ pc \in ReconcileSteps
  /\ faults < MaxFaults
  /\ faults' = faults + 1
  /\ status' \in {status} \union {st \in {"paused", "faulted"} : status = "running"}
  /\ pc' = "down"
  /\ UNCHANGED <<image, mtime, clock, dir, disk, db, dbDisk, batch, pid, losses>>

(* The worker process dies; what it did is in the page cache.              *)
Crash ==
  /\ pc # "down"
  /\ faults < MaxFaults
  /\ faults' = faults + 1
  /\ pc' = "down"
  /\ UNCHANGED <<image, mtime, clock, dir, disk, db, dbDisk, status, batch, pid,
                 losses>>

(* The machine dies.  Image units and file contents were written           *)
(* synchronously; directory entries and database commits were not all.     *)
PowerLoss ==
  /\ faults < MaxFaults /\ losses < MaxPowerLoss
  /\ faults' = faults + 1 /\ losses' = losses + 1
  /\ pc' = "down"
  /\ dir' = disk
  /\ db' = dbDisk
  /\ UNCHANGED <<image, mtime, clock, disk, dbDisk, status, batch, pid>>

(* The kernel writes the directory back whenever it likes, in order.       *)
WriteBack ==
  /\ disk # dir
  /\ disk' = dir
  /\ UNCHANGED <<image, mtime, clock, dir, db, dbDisk, status, pc, batch, pid,
                 faults, losses>>

(* journal_mode = WAL, synchronous = NORMAL: a commit reaches the disk     *)
(* when SQLite next synchronizes the log.                                  *)
SyncDatabase ==
  /\ dbDisk # db
  /\ dbDisk' = db
  /\ UNCHANGED <<image, mtime, clock, dir, disk, db, status, pc, batch, pid,
                 faults, losses>>

-----------------------------------------------------------------------------
(* Reconciliation                                                          *)

NextManifest == dir.manifest[dir.pointer.rev + 1]
HasNext      == NextManifest # NoManifest
JournalPresent == dir.journal # NoJournal

Extends(m, p) == /\ m.rev = p.rev + 1
                 /\ m.map = MapAfter(p.map, m.sector, m.outcome)

(* assertJournalBase and assertJournalCommit.                              *)
JournalBindsBase(m)   == dir.journal.base = m
JournalBindsCommit(m) == /\ Extends(m, dir.journal.base)
                         /\ m.sector = dir.journal.sector
                         /\ m.outcome = "recovered"

(* readDvdCheckpointForReconciliation and readDvdRecoveryJournal succeed.  *)
Examinable ==
  /\ dir.journal # TornJournal
  /\ PointerResolves
  /\ dir.pointer.rev > 1 =>
       LET previous == dir.manifest[dir.pointer.rev - 1] IN
       previous # NoManifest /\ Extends(dir.pointer, previous)
  /\ db.rev <= dir.pointer.rev
  /\ db.rev = dir.pointer.rev => db = IdentityOf(dir.pointer)

Projected == db = IdentityOf(dir.pointer)

RollsBack ==
  /\ JournalPresent
  /\ dir.journal.base.rev = dir.pointer.rev
  /\ Projected
  /\ JournalBindsBase(dir.pointer)
  /\ HasNext => JournalBindsCommit(NextManifest)
  /\ \A u \in 1..Units :
       dir.journal.before[u] => image[dir.journal.sector][u]

DropsFailedRead ==
  /\ ~JournalPresent
  /\ HasNext
  /\ Extends(NextManifest, dir.pointer)
  /\ Projected
  /\ NextManifest.outcome = "failed"
  /\ ImageVerifies(dir.pointer)

RollsForward ==
  /\ IF JournalPresent
     THEN /\ dir.pointer.rev = dir.journal.base.rev + 1
          /\ JournalBindsBase(dir.manifest[dir.pointer.rev - 1])
          /\ JournalBindsCommit(dir.pointer)
     ELSE /\ ~HasNext
          /\ dir.pointer.outcome = "recovered" => Projected
  /\ ImageVerifies(dir.pointer)
  /\ Projected \/ Extends(dir.pointer, db)

(* The evidence an interruption left can be repaired.                      *)
Reconcilable == Examinable /\ (RollsBack \/ DropsFailedRead \/ RollsForward)

(* Take over: ownership of the image, by an execution with some id.        *)
StartReconcile ==
  /\ Goto("down", "examine")
  /\ pid' \in Pids
  /\ batch' = NoBatch
  /\ UNCHANGED <<image, mtime, clock, dir, disk, db, dbDisk, status, faults,
                 losses>>

Examine ==
  /\ pc = "examine"
  /\ Reconcilable
  /\ pc' = CASE RollsBack        -> "rollback"
              [] DropsFailedRead  -> "drop_manifest"
              [] OTHER            -> IF ~Projected THEN "projection"
                                     ELSE IF JournalPresent THEN "drop_journal"
                                     ELSE "idle"
  /\ UNCHANGED <<image, mtime, clock, dir, disk, db, dbDisk, status, batch, pid,
                 faults, losses>>

(* CONSISTENCY_FAULT: nothing is changed.  A pass that was being reclaimed *)
(* is faulted; an operator's reconciliation only reports the failure.      *)
ExamineFaults ==
  /\ Goto("examine", "down")
  /\ ~Reconcilable
  /\ status' = IF status = "running" THEN "faulted" ELSE status
  /\ UNCHANGED <<image, mtime, clock, dir, disk, db, dbDisk, batch, pid, faults,
                 losses>>

Differs(u) == image[dir.journal.sector][u] # dir.journal.before[u]

RollbackUnit ==
  /\ pc = "rollback"
  /\ \E u \in 1..Units :
       /\ Differs(u)
       /\ \A v \in 1..(u - 1) : ~Differs(v)
       /\ image' = [image EXCEPT ![dir.journal.sector][u] = dir.journal.before[u]]
  /\ clock' = clock + 1
  /\ mtime' = clock + 1
  /\ UNCHANGED <<dir, disk, db, dbDisk, status, pc, batch, pid, faults, losses>>

(* Slips: the version is restored before the bytes; the journal goes       *)
(* before the manifest it explains; only installed manifests are undone.   *)
RestoreVersionEarly ==
  /\ pc = "rollback"
  /\ mtime' = dir.pointer.mtime
  /\ pc' = IF HasNext THEN "drop_manifest" ELSE "drop_journal"
  /\ UNCHANGED <<image, clock, dir, disk, db, dbDisk, status, batch, pid, faults,
                 losses>>
RestoreVersionKeepingManifest ==
  /\ pc = "rollback"
  /\ \A u \in 1..Units : ~Differs(u)
  /\ mtime' = dir.pointer.mtime
  /\ pc' = "drop_journal"
  /\ UNCHANGED <<image, clock, dir, disk, db, dbDisk, status, batch, pid, faults,
                 losses>>
RestoreVersionOfInstalled ==
  /\ pc = "rollback"
  /\ HasNext
  /\ \A u \in 1..Units : ~Differs(u)
  /\ mtime' = dir.pointer.mtime
  /\ pc' = "drop_manifest"
  /\ UNCHANGED <<image, clock, dir, disk, db, dbDisk, status, batch, pid, faults,
                 losses>>

(* restoreVersion and verifyDvdCheckpointImage.                            *)
RestoreVersion ==
  /\ pc = "rollback"
  /\ \A u \in 1..Units : ~Differs(u)
  /\ mtime' = dir.pointer.mtime
  /\ dir.pointer.outcome = "recovered" => image[dir.pointer.sector] = Whole
  /\ pc' = IF HasNext THEN "drop_manifest" ELSE "drop_journal"
  /\ UNCHANGED <<image, clock, dir, disk, db, dbDisk, status, batch, pid, faults,
                 losses>>

DropManifest ==
  /\ Goto("drop_manifest", "drop_manifest_sync")
  /\ dir' = [dir EXCEPT !.manifest[dir.pointer.rev + 1] = NoManifest]
  /\ UNCHANGED <<image, mtime, clock, disk, db, dbDisk, status, batch, pid,
                 faults, losses>>

SyncDropManifest ==
  /\ Goto("drop_manifest_sync", IF JournalPresent THEN "drop_journal" ELSE "idle")
  /\ disk' = dir
  /\ UNCHANGED <<image, mtime, clock, dir, db, dbDisk, status, batch, pid,
                 faults, losses>>

ProjectForward ==
  /\ Project
  /\ Goto("projection", IF JournalPresent THEN "drop_journal" ELSE "idle")
  /\ UNCHANGED <<image, mtime, clock, dir, disk, dbDisk, status, batch, pid,
                 faults, losses>>

DropJournal ==
  /\ Goto("drop_journal", "drop_journal_sync")
  /\ dir' = [dir EXCEPT !.journal = NoJournal]
  /\ UNCHANGED <<image, mtime, clock, disk, db, dbDisk, status, batch, pid,
                 faults, losses>>

SyncDropJournal ==
  /\ Goto("drop_journal_sync", "idle")
  /\ disk' = dir
  /\ UNCHANGED <<image, mtime, clock, dir, db, dbDisk, status, batch, pid,
                 faults, losses>>

(* requestResume after a storage fault: requestDvdRecoveryResume reads the *)
(* committed checkpoint under image ownership first.                       *)
Resume ==
  /\ pc = "idle"
  /\ status = "paused"
  /\ CheckpointReads
  /\ status' = "running"
  /\ UNCHANGED <<image, mtime, clock, dir, disk, db, dbDisk, pc, batch, pid,
                 faults, losses>>

-----------------------------------------------------------------------------
Batch ==
  \/ \E s \in Sectors, outcome \in Outcomes : BeginBatch(s, outcome)
  \/ RefuseBatch
  \/ CreateJournal \/ CompleteJournal \/ SyncJournal
  \/ WriteUnit \/ SyncImage
  \/ CreateManifestTemp \/ LinkManifest \/ SyncManifest
  \/ CreatePointerTemp \/ RenamePointer \/ SyncPointer
  \/ ProjectBatch
  \/ UnlinkJournal \/ SyncCleanup
  \/ TempCollision

Reconcile ==
  \/ StartReconcile
  \/ Examine \/ ExamineFaults
  \/ RollbackUnit \/ RestoreVersion
  \/ DropManifest \/ SyncDropManifest
  \/ ProjectForward
  \/ DropJournal \/ SyncDropJournal

Environment ==
  StepFails \/ ReconcileFails \/ Crash \/ PowerLoss \/ WriteBack \/ SyncDatabase

Next == Batch \/ Reconcile \/ Resume \/ Environment

Spec == Init /\ [][Next]_vars

(* The poller reclaims a pass that was interrupted while running, once its *)
(* lease expired, and runs reconciliation to its end.  Nobody owes a       *)
(* paused or faulted Recovery anything: those wait for an operator.        *)
FairSpec == Spec /\ WF_vars(status = "running" /\ Reconcile)

-----------------------------------------------------------------------------
(* Properties                                                              *)

(* A checkpoint is offered to readers only while no owner is at work.      *)
Readable == pc \in {"idle", "down"} /\ CheckpointReads

(* Whenever readCommittedDvdCheckpoint would succeed, every sector of the  *)
(* image holds exactly the bytes the source map claims, although the code  *)
(* compares only the newest batch and a modification time.                 *)
ReadersSeeCommitted == Readable => image = ImageOf(dir.pointer.map)

(* The undo journal is a write-ahead log: whenever image bytes differ from *)
(* what the durable pointer describes, the disk holds a complete journal   *)
(* of that very checkpoint with the bytes to put back.                     *)
UndoIsDurable ==
  \A s \in Sectors :
    image[s] # ImageOf(disk.pointer.map)[s] =>
      /\ disk.journal \notin {NoJournal, TornJournal}
      /\ disk.journal.base = disk.pointer
      /\ disk.journal.sector = s
      /\ disk.journal.before = ImageOf(disk.pointer.map)[s]

(* An interrupted batch can always be reconciled, unless it died while the *)
(* journal was being written (which the image did not follow).             *)
InterruptionsReconcile ==
  pc = "down" => Reconcilable \/ dir.journal = TornJournal

(* The owner of the image never meets a state of its own making that its   *)
(* next step refuses: every O_EXCL create, link, read-back and compare-    *)
(* and-swap between a batch's first step and its last, or a                *)
(* reconciliation's, finds what it expects, whatever was interrupted       *)
(* before (a temporary's name clash, a modelled outcome, aside).           *)
OwnerNeverStuck ==
  pc \in BatchSteps \union ReconcileSteps => ENABLED (Batch \/ Reconcile)

(* Evidence committed in the pointer's manifest chain is projected at most *)
(* one revision late and never early.                                      *)
ProjectionTrailsPointer ==
  /\ dir.pointer.rev \in {db.rev, db.rev + 1}
  /\ dir.pointer.rev = db.rev => Projected
  /\ dir.pointer.rev = db.rev + 1 => Extends(dir.pointer, db)

(* The journal's removal is durable only after the projection it protects  *)
(* is: the documented durability order.                                    *)
DurabilityOrder ==
  disk.pointer.outcome = "recovered" /\ disk.journal = NoJournal =>
    dbDisk.rev >= disk.pointer.rev

(* "The database is never intentionally ahead of durable filesystem        *)
(* evidence": what SQLite projects, the disk already names.                *)
DatabaseFollowsDisk == db.rev <= disk.pointer.rev

(* The poller always brings the repair of an interrupted, running Recovery *)
(* to its end: the next batch may begin, or an operator was told that      *)
(* storage or evidence stopped it.  No repair step waits for a state that  *)
(* an earlier interruption took away.                                      *)
InterruptedRecoveryResumes ==
  (pc = "down" /\ status = "running") ~> (pc = "idle" \/ status # "running")

(* Readers see a map that advances one sector at a time and bytes that     *)
(* always belong to it.                                                    *)
Abstract == INSTANCE RecoveredArchive
  WITH map <- dir.pointer.map,
       view <- IF Readable
               THEN [ok |-> TRUE, image |-> image]
               ELSE [ok |-> FALSE, image |-> [s \in Sectors |-> [u \in 1..Units |-> FALSE]]]
ReadersSeeAnArchive == Abstract!Spec
=============================================================================
