---------------------- MODULE RecoveryCheckpointProofs ----------------------
(***************************************************************************)
(* Proofs about RecoveryCheckpoint, for every number of sectors and units, *)
(* every revision limit and any number of crashes and power losses.        *)
(***************************************************************************)
EXTENDS RecoveryCheckpoint, TLAPS

(* The image is exactly what directory d's pointer describes.              *)
Clean(d) == image = ImageOf(d.pointer.map)

(* Directory d retains, complete, the original bytes of any sector whose   *)
(* image bytes differ from what d's pointer describes.                     *)
Undoable(d) ==
  \A s \in Sectors :
    image[s] # ImageOf(d.pointer.map)[s] =>
      /\ d.journal \in Journal
      /\ d.journal.base = d.pointer
      /\ d.journal.sector = s
      /\ d.journal.before = ImageOf(d.pointer.map)[s]

(* A complete journal holds the bytes its own base describes.              *)
JournalFaithful(d) ==
  d.journal \in Journal =>
    d.journal.before = ImageOf(d.journal.base.map)[d.journal.sector]

(* While bytes are being changed, both copies of the directory agree on    *)
(* the pointer and on the journal that undoes the change.                  *)
SameUndo == disk.pointer = dir.pointer /\ disk.journal = dir.journal

(* The journal of the batch in progress.                                   *)
BatchJournaled ==
  /\ dir.journal \in Journal
  /\ dir.journal.base = dir.pointer
  /\ dir.journal.sector = batch.sector

(* Every sector but the batch's is as the pointer describes.               *)
OthersClean ==
  \A s \in Sectors : s # batch.sector => image[s] = ImageOf(dir.pointer.map)[s]

BeforeRename == {"journal", "journal_write", "journal_sync", "write", "image_sync",
                 "manifest", "manifest_link", "manifest_sync", "pointer",
                 "pointer_rename"}
Installing   == {"manifest", "manifest_link", "manifest_sync", "pointer",
                 "pointer_rename"}
Settled      == {"pointer_sync", "database", "cleanup", "cleanup_sync",
                 "drop_manifest", "drop_manifest_sync", "drop_journal",
                 "drop_journal_sync", "projection"}

(* What the owner of the image knows at each step.                         *)
AtBegin ==
  pc \in BeforeRename =>
    /\ batch.sector \in Sectors
    /\ dir.pointer.rev < MaxRevision
    /\ dir.pointer.map[batch.sector] # "recovered"
AtJournal ==
  pc \in {"journal", "journal_write", "journal_sync"} =>
    /\ Clean(dir)
    /\ batch.outcome = "recovered"
    /\ batch.unit = 1
    /\ pc = "journal_sync" => BatchJournaled
AtWrite ==
  pc = "write" =>
    /\ batch.outcome = "recovered"
    /\ batch.unit <= Units
    /\ BatchJournaled /\ SameUndo /\ OthersClean
    /\ \A u \in 1..Units : u < batch.unit => image[batch.sector][u]
AtSync ==
  pc = "image_sync" =>
    batch.outcome = "recovered" /\ BatchJournaled /\ OthersClean
AtInstall ==
  pc \in Installing =>
    IF batch.outcome = "recovered"
    THEN BatchJournaled /\ OthersClean /\ image[batch.sector] = Whole
    ELSE Clean(dir)
AtSettled == pc \in Settled => Clean(dir)
AtRollback ==
  pc = "rollback" => dir.journal \in Journal /\ dir.journal.base = dir.pointer

(* Facts about the evidence alone, and facts about the owner's step.       *)
Evidence ==
  /\ Undoable(dir) /\ Undoable(disk)
  /\ JournalFaithful(dir) /\ JournalFaithful(disk)
  /\ Clean(dir) \/ SameUndo
Control ==
  AtBegin /\ AtJournal /\ AtWrite /\ AtSync /\ AtInstall /\ AtSettled /\ AtRollback

IInv == TypeOK /\ Evidence /\ Control

-----------------------------------------------------------------------------
(* Types of the expressions the actions assign.                            *)

LEMMA ImageOfType ==
  ASSUME NEW m \in Maps PROVE ImageOf(m) \in [Sectors -> Blocks]
  BY DEF ImageOf, Maps, Blocks

LEMMA NewManifestType ==
  ASSUME TypeOK, batch.sector \in Sectors, dir.pointer.rev < MaxRevision
  PROVE NewManifest \in Manifest
  BY ConstantsAssumption
     DEF TypeOK, Directory, NewManifest, Manifest, MapAfter, Maps, Classes, Outcomes

LEMMA TempType ==
  ASSUME TypeOK, NEW kind \in {"manifest", "pointer"}, dir.pointer.rev < MaxRevision
  PROVE Temp(kind) \in Temps
  BY ConstantsAssumption DEF TypeOK, Directory, Temp, Temps, Manifest

LEMMA IdentityType ==
  ASSUME NEW m \in Manifest PROVE IdentityOf(m) \in Identity
  BY DEF Manifest, IdentityOf, Identity

(* Every state is well typed; what an action relies on for that is what    *)
(* AtBegin and AtWrite say of its step.                                    *)
LEMMA TypeInit == Init => TypeOK
<1> SUFFICES ASSUME Init PROVE TypeOK
  OBVIOUS
<1>1. PICK m \in [Sectors -> {"skipped", "failed"}] :
        /\ image = ImageOf(m)
        /\ dir = [journal  |-> NoJournal,
                  manifest |-> [r \in 1..MaxRevision + 1 |->
                                  IF r = 1 THEN InitialManifest(m) ELSE NoManifest],
                  pointer  |-> InitialManifest(m),
                  temps    |-> {}]
        /\ db = IdentityOf(InitialManifest(m))
  BY DEF Init
<1>2. m \in Maps
  BY DEF Maps, Classes
<1>3. InitialManifest(m) \in Manifest
  BY <1>2, ConstantsAssumption DEF InitialManifest, Manifest
<1>4. image \in [Sectors -> Blocks]
  BY <1>1, <1>2, ImageOfType
<1>5. dir \in Directory /\ disk \in Directory
  BY <1>1, <1>3 DEF Init, Directory
<1>6. db \in Identity /\ dbDisk \in Identity
  BY <1>1, <1>3, IdentityType DEF Init
<1>7. batch \in [sector : Sectors \union {NoSector}, outcome : Outcomes,
                 unit : 1..Units + 1, mtime : Nat]
  BY ConstantsAssumption DEF Init, NoBatch, Outcomes
<1>. QED
  BY <1>4, <1>5, <1>6, <1>7, ConstantsAssumption DEF Init, TypeOK

LEMMA TypeStep ==
  ASSUME TypeOK, AtBegin, AtWrite, AtRollback, [Next]_vars PROVE TypeOK'
<1> USE ConstantsAssumption
<1>b. ASSUME Batch PROVE TypeOK'
  <2>1. CASE \E s \in Sectors, outcome \in Outcomes : BeginBatch(s, outcome)
    BY <2>1 DEF BeginBatch, Goto, TypeOK, BatchSteps, ReconcileSteps
  <2>2. CASE RefuseBatch
    BY <2>2 DEF RefuseBatch, TypeOK
  <2>3. CASE CreateJournal
    BY <2>3 DEF CreateJournal, Goto, TypeOK, Directory, BatchSteps
  <2>4. CASE CompleteJournal
    <3>1. [base |-> dir.pointer, sector |-> batch.sector,
           before |-> image[batch.sector]] \in Journal
      BY <2>4 DEF CompleteJournal, Goto, AtBegin, BeforeRename, TypeOK, Directory, Journal
    <3>. QED
      BY <2>4, <3>1 DEF CompleteJournal, Goto, TypeOK, Directory, BatchSteps
  <2>5. CASE SyncJournal
    BY <2>5 DEF SyncJournal, Goto, TypeOK, BatchSteps
  <2>6. CASE WriteUnit
    <3>1. batch.unit \in 1..Units /\ batch.sector \in Sectors
      BY <2>6 DEF WriteUnit, AtWrite, AtBegin, BeforeRename, TypeOK
    <3>2. image' \in [Sectors -> Blocks]
      BY <2>6, <3>1 DEF WriteUnit, TypeOK, Blocks
    <3>3. batch' \in [sector : Sectors \union {NoSector}, outcome : Outcomes,
                      unit : 1..Units + 1, mtime : Nat]
      BY <2>6, <3>1 DEF WriteUnit, TypeOK
    <3>. QED
      BY <2>6, <3>2, <3>3 DEF WriteUnit, TypeOK, BatchSteps
  <2>7. CASE SyncImage
    BY <2>7 DEF SyncImage, Goto, TypeOK, BatchSteps
  <2>8. CASE CreateManifestTemp
    <3>1. Temp("manifest") \in Temps
      BY <2>8, TempType DEF CreateManifestTemp, CreateTemp, Goto, AtBegin, BeforeRename
    <3>. QED
      BY <2>8, <3>1 DEF CreateManifestTemp, CreateTemp, Goto, TypeOK, Directory, BatchSteps
  <2>9. CASE LinkManifest
    <3>1. NewManifest \in Manifest
      BY <2>9, NewManifestType DEF LinkManifest, Goto, AtBegin, BeforeRename
    <3>. QED
      BY <2>9, <3>1 DEF LinkManifest, Goto, TypeOK, Directory, BatchSteps
  <2>10. CASE SyncManifest
    BY <2>10 DEF SyncManifest, Goto, TypeOK, Directory, BatchSteps
  <2>11. CASE CreatePointerTemp
    <3>1. Temp("pointer") \in Temps
      BY <2>11, TempType DEF CreatePointerTemp, CreateTemp, Goto, AtBegin, BeforeRename
    <3>. QED
      BY <2>11, <3>1 DEF CreatePointerTemp, CreateTemp, Goto, TypeOK, Directory, BatchSteps
  <2>12. CASE RenamePointer
    <3>1. NewManifest \in Manifest
      BY <2>12, NewManifestType DEF RenamePointer, Goto, AtBegin, BeforeRename
    <3>. QED
      BY <2>12, <3>1 DEF RenamePointer, Goto, TypeOK, Directory, BatchSteps
  <2>13. CASE SyncPointer
    BY <2>13 DEF SyncPointer, Goto, TypeOK, BatchSteps
  <2>14. CASE ProjectBatch
    <3>1. IdentityOf(dir.pointer) \in Identity
      BY IdentityType DEF TypeOK, Directory
    <3>. QED
      BY <2>14, <3>1 DEF ProjectBatch, Project, Goto, TypeOK, BatchSteps
  <2>15. CASE UnlinkJournal
    BY <2>15 DEF UnlinkJournal, Goto, TypeOK, Directory, BatchSteps
  <2>16. CASE SyncCleanup
    BY <2>16 DEF SyncCleanup, Goto, TypeOK
  <2>17. CASE TempCollision
    BY <2>17 DEF TempCollision, TypeOK
  <2>. QED
    BY <1>b, <2>1, <2>2, <2>3, <2>4, <2>5, <2>6, <2>7, <2>8, <2>9, <2>10, <2>11,
       <2>12, <2>13, <2>14, <2>15, <2>16, <2>17 DEF Batch
<1>r. ASSUME Reconcile PROVE TypeOK'
  <2>1. CASE StartReconcile
    BY <2>1 DEF StartReconcile, Goto, TypeOK, ReconcileSteps, NoBatch, Outcomes
  <2>2. CASE Examine
    <3>1. pc' \in {"rollback", "drop_manifest", "projection", "drop_journal", "idle"}
      BY <2>2 DEF Examine
    <3>. QED
      BY <2>2, <3>1 DEF Examine, TypeOK, ReconcileSteps
  <2>3. CASE ExamineFaults
    BY <2>3 DEF ExamineFaults, Goto, TypeOK
  <2>4. CASE RollbackUnit
    <3>1. dir.journal \in Journal
      BY <2>4 DEF RollbackUnit, AtRollback
    <3>2. image' \in [Sectors -> Blocks]
      BY <2>4, <3>1 DEF RollbackUnit, TypeOK, Blocks, Journal
    <3>. QED
      BY <2>4, <3>2 DEF RollbackUnit, TypeOK
  <2>5. CASE RestoreVersion
    BY <2>5 DEF RestoreVersion, TypeOK, Directory, Manifest, ReconcileSteps
  <2>6. CASE DropManifest
    BY <2>6 DEF DropManifest, Goto, TypeOK, Directory, ReconcileSteps
  <2>7. CASE SyncDropManifest
    BY <2>7 DEF SyncDropManifest, Goto, TypeOK, ReconcileSteps
  <2>8. CASE ProjectForward
    <3>1. IdentityOf(dir.pointer) \in Identity
      BY IdentityType DEF TypeOK, Directory
    <3>. QED
      BY <2>8, <3>1 DEF ProjectForward, Project, Goto, TypeOK, ReconcileSteps
  <2>9. CASE DropJournal
    BY <2>9 DEF DropJournal, Goto, TypeOK, Directory, ReconcileSteps
  <2>10. CASE SyncDropJournal
    BY <2>10 DEF SyncDropJournal, Goto, TypeOK
  <2>. QED
    BY <1>r, <2>1, <2>2, <2>3, <2>4, <2>5, <2>6, <2>7, <2>8, <2>9, <2>10 DEF Reconcile
<1>u. ASSUME Resume PROVE TypeOK'
  BY <1>u DEF Resume, TypeOK
<1>e. ASSUME Environment PROVE TypeOK'
  <2>1. CASE StepFails
    <3>1. dir' \in Directory
      BY <2>1 DEF StepFails, TypeOK, Directory
    <3>2. faults' \in 0..MaxFaults
      BY <2>1 DEF StepFails, TypeOK
    <3>. QED
      BY <2>1, <3>1, <3>2 DEF StepFails, TypeOK
  <2>2. CASE Crash
    BY <2>2 DEF Crash, TypeOK
  <2>3. CASE PowerLoss
    BY <2>3 DEF PowerLoss, TypeOK
  <2>4. CASE WriteBack
    BY <2>4 DEF WriteBack, TypeOK
  <2>5. CASE SyncDatabase
    BY <2>5 DEF SyncDatabase, TypeOK
  <2>6. CASE ReconcileFails
    BY <2>6 DEF ReconcileFails, TypeOK
  <2>. QED
    BY <1>e, <2>1, <2>2, <2>3, <2>4, <2>5, <2>6 DEF Environment
<1>s. CASE UNCHANGED vars
  BY <1>s DEF vars, TypeOK
<1>. QED
  BY <1>b, <1>r, <1>u, <1>e, <1>s DEF Next

-----------------------------------------------------------------------------
(* The evidence part.                                                      *)

(* A map describes the image when it does so sector by sector.             *)
LEMMA CleanBySector ==
  ASSUME TypeOK, NEW m \in Maps, \A s \in Sectors : image[s] = ImageOf(m)[s]
  PROVE  image = ImageOf(m)
  BY DEF TypeOK, ImageOf

(* No complete journal: nothing to undo.                                   *)
LEMMA CleanWithoutJournal ==
  ASSUME TypeOK, Undoable(dir), dir.journal \notin Journal
  PROVE  Clean(dir)
<1>1. \A s \in Sectors : image[s] = ImageOf(dir.pointer.map)[s]
  BY DEF Undoable
<1>2. dir.pointer.map \in Maps
  BY DEF TypeOK, Directory, Manifest
<1>. QED
  BY <1>1, <1>2, CleanBySector DEF Clean

(* A journal of another checkpoint than the pointer's: likewise.           *)
LEMMA CleanAfterRename ==
  ASSUME TypeOK, Undoable(dir), dir.journal.base # dir.pointer
  PROVE  Clean(dir)
<1>1. \A s \in Sectors : image[s] = ImageOf(dir.pointer.map)[s]
  BY DEF Undoable
<1>2. dir.pointer.map \in Maps
  BY DEF TypeOK, Directory, Manifest
<1>. QED
  BY <1>1, <1>2, CleanBySector DEF Clean

(* A journal that was torn, or is absent, binds nothing.                   *)
LEMMA AbsentJournals == NoJournal \notin Journal /\ TornJournal \notin Journal
  BY ConstantsAssumption

(* What a batch is about to install describes the image it has written.    *)
LEMMA InstalledImage ==
  ASSUME TypeOK, AtBegin, AtInstall, pc \in Installing
  PROVE  image = ImageOf(NewManifest.map)
<1>1. batch.sector \in Sectors /\ dir.pointer.map \in Maps
  BY DEF AtBegin, Installing, BeforeRename, TypeOK, Directory, Manifest
<1>2. /\ NewManifest.map = [dir.pointer.map EXCEPT ![batch.sector] = batch.outcome]
      /\ NewManifest.map \in Maps
  BY <1>1 DEF NewManifest, MapAfter, TypeOK, Maps, Classes, Outcomes
<1>3. ASSUME NEW s \in Sectors PROVE image[s] = ImageOf(NewManifest.map)[s]
  <2>1. CASE s # batch.sector
    <3>1. ImageOf(NewManifest.map)[s] = ImageOf(dir.pointer.map)[s]
      BY <1>1, <1>2, <2>1 DEF ImageOf, Maps
    <3>. QED
      BY <2>1, <3>1 DEF AtInstall, OthersClean, Clean
  <2>2. CASE s = batch.sector /\ batch.outcome = "recovered"
    BY <1>1, <1>2, <2>2 DEF AtInstall, ImageOf, Whole, Maps
  <2>3. CASE s = batch.sector /\ batch.outcome = "failed"
    <3>1. ImageOf(NewManifest.map)[s] = ImageOf(dir.pointer.map)[s]
      BY <1>1, <1>2, <2>3 DEF AtBegin, Installing, BeforeRename, ImageOf, Maps
    <3>. QED
      BY <2>3, <3>1 DEF AtInstall, Clean
  <2>. QED
    BY <2>1, <2>2, <2>3 DEF TypeOK, Outcomes
<1>. QED
  BY <1>2, <1>3, CleanBySector

(* Steps that change neither the image nor any journal or pointer.         *)
LEMMA EvidenceFrame ==
  ASSUME Evidence, image' = image,
         dir'.pointer = dir.pointer, dir'.journal = dir.journal,
         disk'.pointer = disk.pointer, disk'.journal = disk.journal
  PROVE  Evidence'
  BY DEF Evidence, Undoable, JournalFaithful, Clean, SameUndo

(* Steps after which the disk holds the directory's journal and pointer.   *)
LEMMA EvidenceSynced ==
  ASSUME Evidence, image' = image,
         dir'.pointer = dir.pointer, dir'.journal = dir.journal,
         disk'.pointer = dir.pointer, disk'.journal = dir.journal
  PROVE  Evidence'
  BY DEF Evidence, Undoable, JournalFaithful, Clean, SameUndo

LEMMA EvidenceInit == Init => Evidence
  BY AbsentJournals
     DEF Init, Evidence, Undoable, JournalFaithful, Clean, SameUndo, InitialManifest

(* Changing a journal the image does not depend on.                        *)
LEMMA EvidenceNewJournal ==
  ASSUME Evidence, Clean(dir), image' = image, dir'.pointer = dir.pointer,
         disk'.pointer = disk.pointer, disk'.journal = disk.journal,
         dir'.journal \notin Journal
  PROVE  Evidence'
  BY DEF Evidence, Undoable, JournalFaithful, Clean, SameUndo

LEMMA EvidenceStep ==
  ASSUME IInv, [Next]_vars PROVE Evidence'
<1> USE ConstantsAssumption
<1>0. TypeOK /\ Evidence /\ Control
  BY DEF IInv
<1>t. /\ dir = [journal |-> dir.journal, manifest |-> dir.manifest,
                pointer |-> dir.pointer, temps |-> dir.temps]
      /\ disk = [journal |-> disk.journal, manifest |-> disk.manifest,
                 pointer |-> disk.pointer, temps |-> disk.temps]
  BY <1>0 DEF TypeOK, Directory
<1>b. ASSUME Batch PROVE Evidence'
  <2>1. CASE \E s \in Sectors, outcome \in Outcomes : BeginBatch(s, outcome)
    BY <1>0, <2>1, EvidenceFrame DEF BeginBatch
  <2>2. CASE RefuseBatch
    BY <1>0, <2>2, EvidenceFrame DEF RefuseBatch
  <2>3. CASE CreateJournal
    <3>1. Clean(dir)
      BY <1>0, <2>3 DEF CreateJournal, Goto, Control, AtJournal
    <3>2. dir'.pointer = dir.pointer /\ dir'.journal = TornJournal
      BY <1>t, <2>3 DEF CreateJournal
    <3>. QED
      BY <1>0, <2>3, <3>1, <3>2, EvidenceNewJournal, AbsentJournals DEF CreateJournal
  <2>4. CASE CompleteJournal
    <3> DEFINE j == [base |-> dir.pointer, sector |-> batch.sector,
                     before |-> image[batch.sector]]
    <3>1. Clean(dir) /\ batch.sector \in Sectors
      BY <1>0, <2>4 DEF CompleteJournal, Goto, Control, AtJournal, AtBegin, BeforeRename
    <3>2. /\ dir'.pointer = dir.pointer /\ dir'.journal = j
          /\ image' = image
      BY <1>t, <2>4 DEF CompleteJournal
    <3>3. j.before = ImageOf(j.base.map)[j.sector]
      BY <3>1 DEF Clean
    <3>4. disk'.pointer = disk.pointer /\ disk'.journal \in {disk.journal, j}
      BY <1>t, <2>4 DEF CompleteJournal
    <3>5. disk'.journal # disk.journal => disk.journal = TornJournal
      BY <1>t, <2>4 DEF CompleteJournal
    <3>6. Clean(dir)'
      BY <3>1, <3>2 DEF Clean
    <3>7. JournalFaithful(dir)'
      BY <3>2, <3>3 DEF JournalFaithful
    <3>8. JournalFaithful(disk)'
      BY <1>0, <3>3, <3>4 DEF Evidence, JournalFaithful
    <3>9. Undoable(dir)'
      BY <3>6 DEF Clean, Undoable
    <3>10. Undoable(disk)'
      BY <1>0, <3>2, <3>4, <3>5, AbsentJournals DEF Evidence, Undoable
    <3>. QED
      BY <3>6, <3>7, <3>8, <3>9, <3>10 DEF Evidence
  <2>5. CASE SyncJournal
    BY <1>0, <2>5, EvidenceSynced DEF SyncJournal
  <2>6. CASE WriteUnit
    <3>1. BatchJournaled /\ SameUndo /\ OthersClean
      BY <1>0, <2>6 DEF WriteUnit, Control, AtWrite
    <3>2. /\ dir' = dir /\ disk' = disk
          /\ \A s \in Sectors : s # batch.sector => image'[s] = image[s]
      BY <1>0, <2>6 DEF WriteUnit, TypeOK
    <3>3. dir.journal.before = ImageOf(dir.pointer.map)[batch.sector]
      BY <1>0, <3>1 DEF Evidence, JournalFaithful, BatchJournaled
    <3>4. Undoable(dir)'
      BY <3>1, <3>2, <3>3 DEF Undoable, BatchJournaled, OthersClean
    <3>5. Undoable(disk)' /\ SameUndo'
      BY <3>1, <3>2, <3>4 DEF Undoable, SameUndo
    <3>6. JournalFaithful(dir)' /\ JournalFaithful(disk)'
      BY <1>0, <3>2 DEF Evidence, JournalFaithful
    <3>. QED
      BY <3>4, <3>5, <3>6 DEF Evidence
  <2>7. CASE SyncImage
    BY <1>0, <2>7, EvidenceFrame DEF SyncImage
  <2>8. CASE CreateManifestTemp
    <3>1. dir'.pointer = dir.pointer /\ dir'.journal = dir.journal
      BY <1>t, <2>8 DEF CreateManifestTemp, CreateTemp
    <3>. QED
      BY <1>0, <2>8, <3>1, EvidenceFrame DEF CreateManifestTemp, CreateTemp
  <2>9. CASE LinkManifest
    <3>1. dir'.pointer = dir.pointer /\ dir'.journal = dir.journal
      BY <1>t, <2>9 DEF LinkManifest
    <3>. QED
      BY <1>0, <2>9, <3>1, EvidenceFrame DEF LinkManifest
  <2>10. CASE SyncManifest
    <3>1. dir'.pointer = dir.pointer /\ dir'.journal = dir.journal
      BY <1>t, <2>10 DEF SyncManifest
    <3>. QED
      BY <1>0, <2>10, <3>1, EvidenceSynced DEF SyncManifest
  <2>11. CASE CreatePointerTemp
    <3>1. dir'.pointer = dir.pointer /\ dir'.journal = dir.journal
      BY <1>t, <2>11 DEF CreatePointerTemp, CreateTemp
    <3>. QED
      BY <1>0, <2>11, <3>1, EvidenceFrame DEF CreatePointerTemp, CreateTemp
  <2>12. CASE RenamePointer
    <3>1. dir'.pointer = NewManifest /\ dir'.journal = dir.journal
      BY <1>t, <2>12 DEF RenamePointer
    <3>2. image' = image /\ disk' = disk
      BY <2>12 DEF RenamePointer
    <3>3. image = ImageOf(NewManifest.map)
      BY <1>0, <2>12, InstalledImage DEF RenamePointer, Goto, Control, Installing
    <3>4. Clean(dir)'
      BY <3>1, <3>2, <3>3 DEF Clean
    <3>5. Undoable(dir)'
      BY <3>4 DEF Clean, Undoable
    <3>. QED
      BY <1>0, <3>1, <3>2, <3>4, <3>5 DEF Evidence, Undoable, JournalFaithful
  <2>13. CASE SyncPointer
    BY <1>0, <2>13, EvidenceSynced DEF SyncPointer
  <2>14. CASE ProjectBatch
    BY <1>0, <2>14, EvidenceFrame DEF ProjectBatch
  <2>15. CASE UnlinkJournal
    <3>1. Clean(dir)
      BY <1>0, <2>15 DEF UnlinkJournal, Goto, Control, AtSettled, Settled
    <3>2. dir'.pointer = dir.pointer /\ dir'.journal = NoJournal
      BY <1>t, <2>15 DEF UnlinkJournal
    <3>. QED
      BY <1>0, <2>15, <3>1, <3>2, EvidenceNewJournal, AbsentJournals DEF UnlinkJournal
  <2>16. CASE SyncCleanup
    BY <1>0, <2>16, EvidenceSynced DEF SyncCleanup
  <2>17. CASE TempCollision
    BY <1>0, <2>17, EvidenceFrame DEF TempCollision
  <2>. QED
    BY <1>b, <2>1, <2>2, <2>3, <2>4, <2>5, <2>6, <2>7, <2>8, <2>9, <2>10, <2>11,
       <2>12, <2>13, <2>14, <2>15, <2>16, <2>17 DEF Batch
<1>r. ASSUME Reconcile PROVE Evidence'
  <2>1. CASE StartReconcile
    BY <1>0, <2>1, EvidenceFrame DEF StartReconcile
  <2>2. CASE Examine
    BY <1>0, <2>2, EvidenceFrame DEF Examine
  <2>3. CASE ExamineFaults
    BY <1>0, <2>3, EvidenceFrame DEF ExamineFaults
  <2>4. CASE RollbackUnit
    <3> DEFINE s0 == dir.journal.sector
    <3>1. dir.journal \in Journal /\ dir.journal.base = dir.pointer
      BY <1>0, <2>4 DEF RollbackUnit, Control, AtRollback
    <3>2. dir.journal.before = ImageOf(dir.pointer.map)[s0] /\ s0 \in Sectors
      BY <1>0, <3>1 DEF Evidence, JournalFaithful, Journal
    <3>3. image[s0] # ImageOf(dir.pointer.map)[s0]
      BY <2>4, <3>2 DEF RollbackUnit, Differs
    <3>4. SameUndo
      BY <1>0, <3>3 DEF Evidence, Clean
    <3>5. /\ dir' = dir /\ disk' = disk
          /\ \A s \in Sectors : s # s0 => image'[s] = image[s]
      BY <1>0, <2>4 DEF RollbackUnit, TypeOK
    <3>6. Undoable(dir)'
      BY <1>0, <3>1, <3>2, <3>5 DEF Evidence, Undoable
    <3>7. Undoable(disk)' /\ SameUndo'
      BY <3>4, <3>5, <3>6 DEF Undoable, SameUndo
    <3>8. JournalFaithful(dir)' /\ JournalFaithful(disk)'
      BY <1>0, <3>5 DEF Evidence, JournalFaithful
    <3>. QED
      BY <3>6, <3>7, <3>8 DEF Evidence
  <2>5. CASE RestoreVersion
    BY <1>0, <2>5, EvidenceFrame DEF RestoreVersion
  <2>6. CASE DropManifest
    <3>1. dir'.pointer = dir.pointer /\ dir'.journal = dir.journal
      BY <1>t, <2>6 DEF DropManifest
    <3>. QED
      BY <1>0, <2>6, <3>1, EvidenceFrame DEF DropManifest
  <2>7. CASE SyncDropManifest
    BY <1>0, <2>7, EvidenceSynced DEF SyncDropManifest
  <2>8. CASE ProjectForward
    BY <1>0, <2>8, EvidenceFrame DEF ProjectForward
  <2>9. CASE DropJournal
    <3>1. Clean(dir)
      BY <1>0, <2>9 DEF DropJournal, Goto, Control, AtSettled, Settled
    <3>2. dir'.pointer = dir.pointer /\ dir'.journal = NoJournal
      BY <1>t, <2>9 DEF DropJournal
    <3>. QED
      BY <1>0, <2>9, <3>1, <3>2, EvidenceNewJournal, AbsentJournals DEF DropJournal
  <2>10. CASE SyncDropJournal
    BY <1>0, <2>10, EvidenceSynced DEF SyncDropJournal
  <2>. QED
    BY <1>r, <2>1, <2>2, <2>3, <2>4, <2>5, <2>6, <2>7, <2>8, <2>9, <2>10 DEF Reconcile
<1>u. ASSUME Resume PROVE Evidence'
  BY <1>0, <1>u, EvidenceFrame DEF Resume
<1>e. ASSUME Environment PROVE Evidence'
  <2>1. CASE StepFails
    <3>1. dir'.pointer = dir.pointer /\ dir'.journal = dir.journal
      BY <1>t, <2>1 DEF StepFails
    <3>. QED
      BY <1>0, <2>1, <3>1, EvidenceFrame DEF StepFails
  <2>2. CASE Crash
    BY <1>0, <2>2, EvidenceFrame DEF Crash
  <2>3. CASE PowerLoss
    BY <1>0, <2>3 DEF PowerLoss, Evidence, Undoable, JournalFaithful, SameUndo
  <2>4. CASE WriteBack
    BY <1>0, <2>4, EvidenceSynced DEF WriteBack
  <2>5. CASE SyncDatabase
    BY <1>0, <2>5, EvidenceFrame DEF SyncDatabase
  <2>6. CASE ReconcileFails
    BY <1>0, <2>6, EvidenceFrame DEF ReconcileFails
  <2>. QED
    BY <1>e, <2>1, <2>2, <2>3, <2>4, <2>5, <2>6 DEF Environment
<1>s. CASE UNCHANGED vars
  BY <1>0, <1>s, EvidenceFrame DEF vars
<1>. QED
  BY <1>b, <1>r, <1>u, <1>e, <1>s DEF Next

-----------------------------------------------------------------------------
(* The control part.                                                       *)

(* Outside the steps that know something, there is nothing to show.        *)
LEMMA ControlElsewhere ==
  ASSUME pc' \in {"idle", "down", "examine"} PROVE Control'
  BY DEF Control, AtBegin, AtJournal, AtWrite, AtSync, AtInstall, AtSettled,
         AtRollback, BeforeRename, Installing, Settled

(* A settled step knows only that the image is clean.                      *)
LEMMA ControlSettled ==
  ASSUME pc' \in Settled, Clean(dir)' PROVE Control'
  BY DEF Control, AtBegin, AtJournal, AtWrite, AtSync, AtInstall, AtSettled,
         AtRollback, BeforeRename, Installing, Settled

(* Moving between the steps of the installation changes nothing it knows.  *)
LEMMA ControlInstalling ==
  ASSUME Control, pc \in Installing, pc' \in Installing,
         image' = image, batch' = batch,
         dir'.pointer = dir.pointer, dir'.journal = dir.journal
  PROVE  Control'
  BY DEF Control, AtBegin, AtJournal, AtWrite, AtSync, AtInstall, AtSettled,
         AtRollback, BeforeRename, Installing, Settled, BatchJournaled,
         OthersClean, Clean

(* Steps of the system around the owner.                                   *)
LEMMA ControlFrame ==
  ASSUME Control, image' = image, batch' = batch, pc' = pc,
         dir' = dir, disk'.pointer = disk.pointer, disk'.journal = disk.journal
  PROVE  Control'
  BY DEF Control, AtBegin, AtJournal, AtWrite, AtSync, AtInstall, AtSettled,
         AtRollback, BatchJournaled, OthersClean, Clean, SameUndo

(* Where the examination of the evidence sends the owner.                  *)
LEMMA ExamineRollsBack ==
  ASSUME Examine, RollsBack PROVE pc' = "rollback"
<1>1. ~DropsFailedRead
  BY DEF RollsBack, DropsFailedRead
<1>. QED
  BY <1>1 DEF Examine

LEMMA ExamineOtherwise ==
  ASSUME Examine, ~RollsBack
  PROVE  pc' \in {"drop_manifest", "projection", "drop_journal", "idle"}
<1>1. CASE DropsFailedRead
  BY <1>1 DEF Examine
<1>2. CASE ~DropsFailedRead
  BY <1>2 DEF Examine
<1>. QED
  BY <1>1, <1>2

LEMMA ControlStep ==
  ASSUME IInv, [Next]_vars PROVE Control'
<1> USE ConstantsAssumption
<1>0. TypeOK /\ Evidence /\ Control
  BY DEF IInv
<1>t. dir = [journal |-> dir.journal, manifest |-> dir.manifest,
             pointer |-> dir.pointer, temps |-> dir.temps]
  BY <1>0 DEF TypeOK, Directory
<1>n. dir.journal = NoJournal => Clean(dir)
  BY <1>0, CleanWithoutJournal, AbsentJournals DEF Evidence
<1>b. ASSUME Batch PROVE Control'
  <2>1. CASE \E s \in Sectors, outcome \in Outcomes : BeginBatch(s, outcome)
    <3>1. PICK s \in Sectors, outcome \in Outcomes : BeginBatch(s, outcome)
      BY <2>1
    <3>2. /\ Clean(dir) /\ image' = image /\ dir' = dir
          /\ dir.pointer.rev < MaxRevision /\ dir.pointer.map[s] # "recovered"
      BY <1>n, <3>1 DEF BeginBatch, CheckpointReads
    <3>3. /\ pc' \in {"journal", "manifest"}
          /\ batch'.sector = s /\ batch'.outcome = outcome /\ batch'.unit = 1
          /\ pc' = "journal" <=> outcome = "recovered"
      BY <3>1 DEF BeginBatch, Goto
    <3>4. Clean(dir)'
      BY <3>2 DEF Clean
    <3>. QED
      BY <3>2, <3>3, <3>4
         DEF Control, AtBegin, AtJournal, AtWrite, AtSync, AtInstall, AtSettled,
             AtRollback, BeforeRename, Installing, Settled
  <2>2. CASE RefuseBatch
    BY <1>0, <2>2, ControlFrame DEF RefuseBatch
  <2>3. CASE CreateJournal
    <3>1. /\ dir'.pointer = dir.pointer /\ image' = image /\ batch' = batch
          /\ pc = "journal" /\ pc' = "journal_write"
      BY <1>t, <2>3 DEF CreateJournal, Goto
    <3>. QED
      BY <1>0, <3>1
         DEF Control, AtBegin, AtJournal, AtWrite, AtSync, AtInstall, AtSettled,
             AtRollback, BeforeRename, Installing, Settled, Clean
  <2>4. CASE CompleteJournal
    <3>1. /\ dir'.pointer = dir.pointer /\ image' = image /\ batch' = batch
          /\ dir'.journal = [base |-> dir.pointer, sector |-> batch.sector,
                             before |-> image[batch.sector]]
          /\ pc = "journal_write" /\ pc' = "journal_sync"
      BY <1>t, <2>4 DEF CompleteJournal, Goto
    <3>2. dir'.journal \in Journal
      BY <1>0, <3>1 DEF Control, AtBegin, BeforeRename, TypeOK, Directory, Journal
    <3>. QED
      BY <1>0, <3>1, <3>2
         DEF Control, AtBegin, AtJournal, AtWrite, AtSync, AtInstall, AtSettled,
             AtRollback, BeforeRename, Installing, Settled, Clean, BatchJournaled
  <2>5. CASE SyncJournal
    <3>1. /\ pc = "journal_sync" /\ pc' = "write"
          /\ dir' = dir /\ disk' = dir /\ image' = image /\ batch' = batch
      BY <2>5 DEF SyncJournal, Goto
    <3>2. /\ Clean(dir) /\ BatchJournaled
          /\ batch.outcome = "recovered" /\ batch.unit = 1
      BY <1>0, <3>1 DEF Control, AtJournal
    <3>3. AtWrite'
      <4>1. BatchJournaled' /\ SameUndo' /\ OthersClean'
        BY <3>1, <3>2 DEF BatchJournaled, SameUndo, OthersClean, Clean
      <4>. QED
        BY <3>1, <3>2, <4>1 DEF AtWrite
    <3>4. AtBegin'
      BY <1>0, <3>1 DEF Control, AtBegin, BeforeRename
    <3>. QED
      BY <3>1, <3>3, <3>4
         DEF Control, AtJournal, AtSync, AtInstall, AtSettled, AtRollback,
             Installing, Settled
  <2>6. CASE WriteUnit
    <3>1. /\ batch.outcome = "recovered" /\ batch.unit \in 1..Units
          /\ batch.sector \in Sectors
          /\ BatchJournaled /\ SameUndo /\ OthersClean
          /\ \A u \in 1..Units : u < batch.unit => image[batch.sector][u]
      BY <1>0, <2>6 DEF WriteUnit, Control, AtWrite, AtBegin, BeforeRename, TypeOK
    <3>2. /\ dir' = dir /\ disk' = disk
          /\ batch'.sector = batch.sector /\ batch'.outcome = batch.outcome
          /\ batch'.unit = batch.unit + 1
          /\ pc' = IF batch.unit = Units THEN "image_sync" ELSE "write"
      BY <1>0, <2>6 DEF WriteUnit, TypeOK
    <3>3. /\ \A s \in Sectors : s # batch.sector => image'[s] = image[s]
          /\ image'[batch.sector] = [image[batch.sector] EXCEPT ![batch.unit] = TRUE]
          /\ image[batch.sector] \in Blocks
      BY <1>0, <2>6, <3>1 DEF WriteUnit, TypeOK
    <3>4. BatchJournaled' /\ SameUndo' /\ OthersClean'
      <4>1. BatchJournaled'
        BY <3>1, <3>2 DEF BatchJournaled
      <4>2. SameUndo'
        BY <3>1, <3>2 DEF SameUndo
      <4>3. OthersClean'
        BY <3>1, <3>2, <3>3 DEF OthersClean
      <4>. QED
        BY <4>1, <4>2, <4>3
    <3>5. batch.unit # Units => \A u \in 1..Units : u < batch'.unit => image'[batch'.sector][u]
      BY <3>1, <3>2, <3>3 DEF Blocks
    <3>6. AtBegin'
      <4>1. dir.pointer.rev < MaxRevision /\ dir.pointer.map[batch.sector] # "recovered"
        BY <1>0, <2>6 DEF WriteUnit, Control, AtBegin, BeforeRename
      <4>. QED
        BY <3>1, <3>2, <4>1 DEF AtBegin
    <3>7. CASE batch.unit = Units
      BY <3>1, <3>2, <3>4, <3>6, <3>7
         DEF Control, AtJournal, AtWrite, AtSync, AtInstall, AtSettled, AtRollback,
             Installing, Settled
    <3>8. CASE batch.unit # Units
      <4>1. pc' = "write" /\ batch'.unit <= Units
        BY <3>1, <3>2, <3>8
      <4>2. AtWrite'
        BY <3>1, <3>2, <3>4, <3>5, <3>8, <4>1 DEF AtWrite
      <4>. QED
        BY <3>6, <4>1, <4>2
           DEF Control, AtJournal, AtSync, AtInstall, AtSettled, AtRollback,
               Installing, Settled
    <3>. QED
      BY <3>7, <3>8
  <2>7. CASE SyncImage
    <3>1. /\ pc = "image_sync" /\ pc' = "manifest"
          /\ dir' = dir /\ image' = image /\ image[batch.sector] = Whole
          /\ batch'.sector = batch.sector /\ batch'.outcome = batch.outcome
      BY <1>0, <2>7 DEF SyncImage, Goto, TypeOK
    <3>. QED
      BY <1>0, <3>1
         DEF Control, AtBegin, AtJournal, AtWrite, AtSync, AtInstall, AtSettled,
             AtRollback, BeforeRename, Installing, Settled, BatchJournaled, OthersClean
  <2>8. CASE CreateManifestTemp
    <3>1. dir'.pointer = dir.pointer /\ dir'.journal = dir.journal
      BY <1>t, <2>8 DEF CreateManifestTemp, CreateTemp
    <3>. QED
      BY <1>0, <2>8, <3>1, ControlInstalling
         DEF CreateManifestTemp, CreateTemp, Goto, Installing
  <2>9. CASE LinkManifest
    <3>1. dir'.pointer = dir.pointer /\ dir'.journal = dir.journal
      BY <1>t, <2>9 DEF LinkManifest
    <3>. QED
      BY <1>0, <2>9, <3>1, ControlInstalling DEF LinkManifest, Goto, Installing
  <2>10. CASE SyncManifest
    <3>1. dir'.pointer = dir.pointer /\ dir'.journal = dir.journal
      BY <1>t, <2>10 DEF SyncManifest
    <3>. QED
      BY <1>0, <2>10, <3>1, ControlInstalling DEF SyncManifest, Goto, Installing
  <2>11. CASE CreatePointerTemp
    <3>1. dir'.pointer = dir.pointer /\ dir'.journal = dir.journal
      BY <1>t, <2>11 DEF CreatePointerTemp, CreateTemp
    <3>. QED
      BY <1>0, <2>11, <3>1, ControlInstalling
         DEF CreatePointerTemp, CreateTemp, Goto, Installing
  <2>12. CASE RenamePointer
    <3>1. dir'.pointer = NewManifest /\ image' = image
      BY <1>t, <2>12 DEF RenamePointer
    <3>2. image = ImageOf(NewManifest.map)
      BY <1>0, <2>12, InstalledImage DEF RenamePointer, Goto, Control, Installing
    <3>3. Clean(dir)'
      BY <3>1, <3>2 DEF Clean
    <3>4. pc' \in Settled
      BY <2>12 DEF RenamePointer, Goto, Settled
    <3>. QED
      BY <3>3, <3>4, ControlSettled
  <2>13. CASE SyncPointer
    BY <1>0, <2>13, ControlSettled DEF SyncPointer, Goto, Control, AtSettled, Settled, Clean
  <2>14. CASE ProjectBatch
    <3>1. Clean(dir)'
      BY <1>0, <2>14 DEF ProjectBatch, Goto, Control, AtSettled, Settled, Clean
    <3>2. pc' \in {"cleanup", "idle"}
      BY <2>14 DEF ProjectBatch, Goto
    <3>. QED
      BY <3>1, <3>2, ControlSettled, ControlElsewhere DEF Settled
  <2>15. CASE UnlinkJournal
    <3>1. Clean(dir)'
      BY <1>0, <1>t, <2>15 DEF UnlinkJournal, Goto, Control, AtSettled, Settled, Clean
    <3>. QED
      BY <2>15, <3>1, ControlSettled DEF UnlinkJournal, Goto, Settled
  <2>16. CASE SyncCleanup
    BY <2>16, ControlElsewhere DEF SyncCleanup, Goto
  <2>17. CASE TempCollision
    BY <2>17, ControlElsewhere DEF TempCollision
  <2>. QED
    BY <1>b, <2>1, <2>2, <2>3, <2>4, <2>5, <2>6, <2>7, <2>8, <2>9, <2>10, <2>11,
       <2>12, <2>13, <2>14, <2>15, <2>16, <2>17 DEF Batch
<1>r. ASSUME Reconcile PROVE Control'
  <2>1. CASE StartReconcile
    BY <2>1, ControlElsewhere DEF StartReconcile, Goto
  <2>2. CASE Examine
    <3>1. dir' = dir /\ image' = image
      BY <2>2 DEF Examine
    <3>2. dir.journal \in Journal \union {NoJournal}
      BY <1>0, <2>2 DEF Examine, Reconcilable, Examinable, TypeOK, Directory
    <3>3. CASE RollsBack
      <4>1. dir.journal \in Journal /\ dir.journal.base = dir.pointer
        BY <3>2, <3>3 DEF RollsBack, JournalPresent, JournalBindsBase
      <4>2. pc' = "rollback"
        BY <2>2, <3>3, ExamineRollsBack
      <4>. QED
        BY <3>1, <4>1, <4>2
           DEF Control, AtBegin, AtJournal, AtWrite, AtSync, AtInstall, AtSettled,
               AtRollback, BeforeRename, Installing, Settled
    <3>4. CASE ~RollsBack
      <4>1. Clean(dir)
        <5>1. CASE dir.journal = NoJournal
          BY <1>n, <5>1
        <5>2. CASE dir.journal # NoJournal
          <6>1. dir.pointer.rev = dir.journal.base.rev + 1
            BY <2>2, <3>4, <5>2
               DEF Examine, Reconcilable, DropsFailedRead, RollsForward, JournalPresent
          <6>2. dir.journal.base \in Manifest
            BY <3>2, <5>2 DEF Journal
          <6>3. dir.journal.base # dir.pointer
            BY <6>1, <6>2 DEF Manifest
          <6>. QED
            BY <1>0, <6>3, CleanAfterRename DEF Evidence
        <5>. QED
          BY <5>1, <5>2
      <4>2. Clean(dir)'
        BY <3>1, <4>1 DEF Clean
      <4>3. pc' \in {"drop_manifest", "projection", "drop_journal", "idle"}
        BY <2>2, <3>4, ExamineOtherwise
      <4>. QED
        BY <4>2, <4>3, ControlSettled, ControlElsewhere DEF Settled
    <3>. QED
      BY <3>3, <3>4
  <2>3. CASE ExamineFaults
    BY <2>3, ControlElsewhere DEF ExamineFaults, Goto
  <2>4. CASE RollbackUnit
    <3>1. dir' = dir /\ pc' = "rollback"
      BY <2>4 DEF RollbackUnit
    <3>. QED
      BY <1>0, <2>4, <3>1
         DEF RollbackUnit, Control, AtBegin, AtJournal, AtWrite, AtSync, AtInstall,
             AtSettled, AtRollback, BeforeRename, Installing, Settled
  <2>5. CASE RestoreVersion
    <3> DEFINE s0 == dir.journal.sector
    <3>1. dir.journal \in Journal /\ dir.journal.base = dir.pointer
      BY <1>0, <2>5 DEF RestoreVersion, Control, AtRollback
    <3>2. dir.journal.before = ImageOf(dir.pointer.map)[s0] /\ s0 \in Sectors
      BY <1>0, <3>1 DEF Evidence, JournalFaithful, Journal
    <3>3. image[s0] = dir.journal.before
      BY <1>0, <2>5, <3>1 DEF RestoreVersion, Differs, TypeOK, Journal, Blocks
    <3>4. \A s \in Sectors : image[s] = ImageOf(dir.pointer.map)[s]
      BY <1>0, <3>2, <3>3 DEF Evidence, Undoable
    <3>5. Clean(dir)'
      BY <1>0, <2>5, <3>4, CleanBySector
         DEF RestoreVersion, Clean, TypeOK, Directory, Manifest
    <3>. QED
      BY <2>5, <3>5, ControlSettled DEF RestoreVersion, Settled
  <2>6. CASE DropManifest
    <3>1. Clean(dir)'
      BY <1>0, <1>t, <2>6 DEF DropManifest, Goto, Control, AtSettled, Settled, Clean
    <3>. QED
      BY <2>6, <3>1, ControlSettled DEF DropManifest, Goto, Settled
  <2>7. CASE SyncDropManifest
    <3>1. Clean(dir)'
      BY <1>0, <2>7 DEF SyncDropManifest, Goto, Control, AtSettled, Settled, Clean
    <3>. QED
      BY <2>7, <3>1, ControlSettled, ControlElsewhere DEF SyncDropManifest, Goto, Settled
  <2>8. CASE ProjectForward
    <3>1. Clean(dir)'
      BY <1>0, <2>8 DEF ProjectForward, Goto, Control, AtSettled, Settled, Clean
    <3>. QED
      BY <2>8, <3>1, ControlSettled, ControlElsewhere DEF ProjectForward, Goto, Settled
  <2>9. CASE DropJournal
    <3>1. Clean(dir)'
      BY <1>0, <1>t, <2>9 DEF DropJournal, Goto, Control, AtSettled, Settled, Clean
    <3>. QED
      BY <2>9, <3>1, ControlSettled DEF DropJournal, Goto, Settled
  <2>10. CASE SyncDropJournal
    BY <2>10, ControlElsewhere DEF SyncDropJournal, Goto
  <2>. QED
    BY <1>r, <2>1, <2>2, <2>3, <2>4, <2>5, <2>6, <2>7, <2>8, <2>9, <2>10 DEF Reconcile
<1>u. ASSUME Resume PROVE Control'
  BY <1>0, <1>u, ControlFrame DEF Resume
<1>e. ASSUME Environment PROVE Control'
  <2>1. CASE StepFails \/ ReconcileFails \/ Crash \/ PowerLoss
    BY <2>1, ControlElsewhere DEF StepFails, ReconcileFails, Crash, PowerLoss
  <2>2. CASE WriteBack
    <3>1. SameUndo'
      BY <2>2 DEF WriteBack, SameUndo
    <3>. QED
      BY <1>0, <2>2, <3>1
         DEF WriteBack, Control, AtBegin, AtJournal, AtWrite, AtSync, AtInstall,
             AtSettled, AtRollback, BatchJournaled, OthersClean, Clean
  <2>3. CASE SyncDatabase
    BY <1>0, <2>3, ControlFrame DEF SyncDatabase
  <2>. QED
    BY <1>e, <2>1, <2>2, <2>3 DEF Environment
<1>s. CASE UNCHANGED vars
  BY <1>0, <1>s, ControlFrame DEF vars
<1>. QED
  BY <1>b, <1>r, <1>u, <1>e, <1>s DEF Next

-----------------------------------------------------------------------------
(* The theorems.                                                           *)

LEMMA InvInductive == IInv /\ [Next]_vars => IInv'
<1> SUFFICES ASSUME IInv, [Next]_vars PROVE IInv'
  OBVIOUS
<1>1. TypeOK'
  BY TypeStep DEF IInv, Control
<1>. QED
  BY <1>1, EvidenceStep, ControlStep DEF IInv

LEMMA InvInit == Init => IInv
<1> SUFFICES ASSUME Init PROVE IInv
  OBVIOUS
<1>1. Control
  BY DEF Init, Control, AtBegin, AtJournal, AtWrite, AtSync, AtInstall, AtSettled,
         AtRollback, BeforeRename, Installing, Settled
<1>. QED
  BY <1>1, TypeInit, EvidenceInit DEF IInv

LEMMA InvAlways == Spec => []IInv
  BY InvInit, InvInductive, PTL DEF Spec

(* Every state the commit and reconciliation steps reach is well typed: no *)
(* step writes outside the sector's units or names a revision too high.    *)
THEOREM TypeCorrect == Spec => []TypeOK
<1>1. IInv => TypeOK
  BY DEF IInv
<1>. QED
  BY <1>1, InvAlways, PTL

(* Whenever readCommittedDvdCheckpoint would accept the evidence, the      *)
(* whole image is what the source map says, whatever crashed before.       *)
THEOREM CommittedReads == Spec => []ReadersSeeCommitted
<1>1. IInv => ReadersSeeCommitted
  BY CleanWithoutJournal, AbsentJournals
     DEF IInv, Evidence, ReadersSeeCommitted, Readable, CheckpointReads, Clean
<1>. QED
  BY <1>1, InvAlways, PTL

(* The undo journal is on the disk before any byte it undoes, and stays    *)
(* there until the pointer that makes the bytes right is.                  *)
THEOREM UndoDurable == Spec => []UndoIsDurable
<1>1. IInv => UndoIsDurable
  BY AbsentJournals DEF IInv, Evidence, UndoIsDurable, Undoable
<1>. QED
  BY <1>1, InvAlways, PTL

-----------------------------------------------------------------------------
(* Readers see an archive.                                                 *)

(* Only the rename of checkpoint.json, and a power loss, move the pointer. *)
LEMMA PointerFrame ==
  ASSUME TypeOK, [Next]_vars, ~RenamePointer, ~PowerLoss
  PROVE  dir'.pointer = dir.pointer
<1>1. dir = [journal |-> dir.journal, manifest |-> dir.manifest,
             pointer |-> dir.pointer, temps |-> dir.temps]
  BY DEF TypeOK, Directory
<1>2. ASSUME Batch PROVE dir'.pointer = dir.pointer
  <2>1. CASE CreateJournal \/ CompleteJournal \/ LinkManifest \/ SyncManifest
             \/ UnlinkJournal
    BY <1>1, <2>1
       DEF CreateJournal, CompleteJournal, LinkManifest, SyncManifest, UnlinkJournal
  <2>2. CASE CreateManifestTemp \/ CreatePointerTemp
    BY <1>1, <2>2 DEF CreateManifestTemp, CreatePointerTemp, CreateTemp
  <2>3. CASE \/ \E s \in Sectors, outcome \in Outcomes : BeginBatch(s, outcome)
             \/ RefuseBatch \/ SyncJournal \/ WriteUnit \/ SyncImage
             \/ SyncPointer \/ ProjectBatch \/ SyncCleanup \/ TempCollision
    BY <2>3
       DEF BeginBatch, RefuseBatch, SyncJournal, WriteUnit, SyncImage, SyncPointer,
           ProjectBatch, SyncCleanup, TempCollision
  <2>. QED
    BY <1>2, <2>1, <2>2, <2>3 DEF Batch
<1>3. ASSUME Reconcile PROVE dir'.pointer = dir.pointer
  <2>1. CASE DropManifest \/ DropJournal
    BY <1>1, <2>1 DEF DropManifest, DropJournal
  <2>2. CASE \/ StartReconcile \/ Examine \/ ExamineFaults \/ RollbackUnit
             \/ RestoreVersion \/ SyncDropManifest \/ ProjectForward
             \/ SyncDropJournal
    BY <2>2
       DEF StartReconcile, Examine, ExamineFaults, RollbackUnit, RestoreVersion,
           SyncDropManifest, ProjectForward, SyncDropJournal
  <2>. QED
    BY <1>3, <2>1, <2>2 DEF Reconcile
<1>4. ASSUME Environment PROVE dir'.pointer = dir.pointer
  <2>1. CASE StepFails
    BY <1>1, <2>1 DEF StepFails
  <2>2. CASE Crash \/ ReconcileFails \/ WriteBack \/ SyncDatabase
    BY <2>2 DEF Crash, ReconcileFails, WriteBack, SyncDatabase
  <2>. QED
    BY <1>4, <2>1, <2>2 DEF Environment
<1>5. CASE Resume \/ UNCHANGED vars
  BY <1>5 DEF Resume, vars
<1>. QED
  BY <1>2, <1>3, <1>4, <1>5 DEF Next

(* What readers are offered is nothing, or what the map describes.         *)
View == IF Readable
        THEN [ok |-> TRUE, image |-> image]
        ELSE [ok |-> FALSE, image |-> [s \in Sectors |-> [u \in 1..Units |-> FALSE]]]

Offered == View \in Abstract!Views(dir.pointer.map)

LEMMA OfferedView == IInv => Offered
<1> SUFFICES ASSUME IInv PROVE Offered
  OBVIOUS
<1>1. Readable => image = ImageOf(dir.pointer.map)
  BY CleanWithoutJournal, AbsentJournals
     DEF IInv, Evidence, Readable, CheckpointReads, Clean
<1>. QED
  BY <1>1 DEF Offered, View, Abstract!Views, Abstract!Blank, Abstract!ImageOf, ImageOf

(* As long as the machine keeps power, crashes, I/O errors and repairs     *)
(* never take a recovered sector back and never offer readers bytes of     *)
(* another map: the protocol implements RecoveredArchive.                  *)
THEOREM ImplementsArchive ==
  ASSUME MaxPowerLoss = 0 PROVE Spec => ReadersSeeAnArchive
<1>1. Init => Abstract!Init
  <2> SUFFICES ASSUME Init PROVE Abstract!Init
    OBVIOUS
  <2>1. View \in Abstract!Views(dir.pointer.map)
    BY InvInit, OfferedView DEF Offered
  <2>2. dir.pointer.map \in [Sectors -> {"skipped", "failed"}]
    BY DEF Init, InitialManifest
  <2>. QED
    BY <2>1, <2>2 DEF Abstract!Init, View
<1>2. IInv /\ IInv' /\ [Next]_vars => [Abstract!Next]_<<dir.pointer.map, View>>
  <2> SUFFICES ASSUME IInv, IInv', [Next]_vars PROVE Abstract!Next
    OBVIOUS
  <2>1. Offered'
    BY OfferedView, PTL
  <2>2. CASE RenamePointer
    <3>1. /\ batch.sector \in Sectors /\ batch.outcome \in Outcomes
          /\ dir.pointer.map[batch.sector] # "recovered"
      BY <2>2 DEF IInv, Control, AtBegin, BeforeRename, RenamePointer, Goto, TypeOK
    <3>2. dir'.pointer = NewManifest
      BY <2>2 DEF IInv, TypeOK, Directory, RenamePointer
    <3>3. dir'.pointer.map = Abstract!MapAfter(dir.pointer.map, batch.sector, batch.outcome)
      BY <3>2 DEF NewManifest, MapAfter, Abstract!MapAfter
    <3>4. Abstract!Advance
      BY <2>1, <3>1, <3>3 DEF Offered, Abstract!Advance, Abstract!Outcomes, Outcomes, View
    <3>. QED
      BY <3>4 DEF Abstract!Next
  <2>3. CASE ~RenamePointer
    <3>1. ~PowerLoss
      BY DEF PowerLoss, IInv, TypeOK
    <3>2. dir'.pointer = dir.pointer
      BY <2>3, <3>1, PointerFrame DEF IInv
    <3>3. Abstract!Occlude
      BY <2>1, <3>2 DEF Offered, Abstract!Occlude, View
    <3>. QED
      BY <3>3 DEF Abstract!Next
  <2>. QED
    BY <2>2, <2>3
<1>. QED
  BY <1>1, <1>2, InvAlways, PTL DEF Spec, ReadersSeeAnArchive, Abstract!Spec, View

-----------------------------------------------------------------------------
(* What an interruption leaves, as long as the machine keeps power.        *)

(* The manifests up to the pointer's follow one another; the next one, if  *)
(* it is there, follows the pointer's, and there is none after it.         *)
Chained ==
  /\ PointerResolves
  /\ dir.pointer.rev > 1 =>
       LET previous == dir.manifest[dir.pointer.rev - 1] IN
       previous # NoManifest /\ Extends(dir.pointer, previous)
  /\ dir.pointer.outcome = "recovered" =>
       /\ dir.pointer.sector \in Sectors
       /\ dir.pointer.map[dir.pointer.sector] = "recovered"
  /\ HasNext => Extends(NextManifest, dir.pointer)
  /\ \A r \in 1..MaxRevision + 1 :
       r > dir.pointer.rev + 1 => dir.manifest[r] = NoManifest

Trailing == Projected \/ Extends(dir.pointer, db)

(* A complete journal undoes the batch before its pointer was renamed, or  *)
(* explains the pointer that was; without one only a failed read may have  *)
(* left a manifest.                                                        *)
Undoes == dir.journal.base = dir.pointer
JournalKept ==
  IF dir.journal \in Journal
  THEN /\ dir.journal.base.map[dir.journal.sector] # "recovered"
       /\ \/ /\ Undoes /\ Projected
             /\ HasNext => /\ NextManifest.sector = dir.journal.sector
                           /\ NextManifest.outcome = "recovered"
          \/ /\ dir.pointer.rev > 1 /\ ~HasNext
             /\ dir.journal.base = dir.manifest[dir.pointer.rev - 1]
             /\ dir.pointer.sector = dir.journal.sector
             /\ dir.pointer.outcome = "recovered"
  ELSE /\ HasNext => NextManifest.outcome = "failed" /\ Projected
       /\ dir.pointer.outcome = "recovered" => Projected

(* Only under a journal that undoes them may writes have moved the image's *)
(* modification time on.                                                   *)
VersionKept ==
  (dir.journal \in Journal /\ Undoes) \/ mtime = dir.pointer.mtime

Kept == Chained /\ Trailing /\ JournalKept /\ VersionKept

(* What the owner knows of it at each step.                                *)
WithoutNext == {"idle", "journal", "journal_write", "pointer_sync", "database",
                "cleanup", "cleanup_sync", "drop_manifest_sync",
                "projection", "drop_journal", "drop_journal_sync"}
AfterProjection == {"journal", "journal_write", "cleanup", "drop_manifest",
                    "drop_manifest_sync", "drop_journal"}
AtVersion == {"pointer_sync", "database", "cleanup", "drop_manifest",
              "drop_manifest_sync", "projection", "drop_journal"}
StepKnows ==
  /\ pc \in WithoutNext => ~HasNext
  /\ pc \in AfterProjection => Projected
  /\ pc \in AtVersion => mtime = dir.pointer.mtime
  /\ pc \in Installing =>
       /\ batch.mtime = mtime
       /\ batch.outcome = "failed" => dir.journal = NoJournal /\ Projected
  /\ pc \in {"manifest_sync", "pointer", "pointer_rename"} =>
       NextManifest = NewManifest

KeptInv == Kept /\ StepKnows

(* Steps that change nothing of it.                                        *)
Same == /\ dir'.journal = dir.journal /\ dir'.manifest = dir.manifest
        /\ dir'.pointer = dir.pointer /\ db' = db /\ mtime' = mtime

LEMMA SameKept ==
  ASSUME Same
  PROVE  /\ Kept => Kept'
         /\ (HasNext' <=> HasNext) /\ NextManifest' = NextManifest
         /\ (Projected' <=> Projected)
  BY DEF Same, Kept, Chained, Trailing, JournalKept, VersionKept, Undoes,
         PointerResolves, HasNext, NextManifest, Projected

LEMMA Idling ==
  ASSUME TypeOK,
         \/ \E s \in Sectors, outcome \in Outcomes : BeginBatch(s, outcome)
         \/ RefuseBatch \/ SyncJournal \/ SyncImage \/ CreateManifestTemp
         \/ SyncManifest \/ CreatePointerTemp \/ SyncPointer \/ SyncCleanup
         \/ TempCollision \/ StartReconcile \/ Examine \/ ExamineFaults
         \/ SyncDropManifest \/ SyncDropJournal \/ Resume \/ StepFails
         \/ ReconcileFails \/ Crash \/ WriteBack \/ SyncDatabase
         \/ UNCHANGED vars
  PROVE  Same
<1>1. dir = [journal |-> dir.journal, manifest |-> dir.manifest,
             pointer |-> dir.pointer, temps |-> dir.temps]
  BY DEF TypeOK, Directory
<1>2. CASE CreateManifestTemp \/ CreatePointerTemp \/ SyncManifest \/ StepFails
  BY <1>1, <1>2
     DEF CreateManifestTemp, CreatePointerTemp, CreateTemp, SyncManifest,
         StepFails, Same
<1>3. CASE \/ \E s \in Sectors, outcome \in Outcomes : BeginBatch(s, outcome)
           \/ RefuseBatch \/ SyncJournal \/ SyncImage \/ SyncPointer
           \/ SyncCleanup \/ TempCollision
  BY <1>3
     DEF BeginBatch, RefuseBatch, SyncJournal, SyncImage, SyncPointer,
         SyncCleanup, TempCollision, Same
<1>4. CASE \/ StartReconcile \/ Examine \/ ExamineFaults
           \/ SyncDropManifest \/ SyncDropJournal \/ Resume
           \/ ReconcileFails \/ Crash \/ WriteBack \/ SyncDatabase
           \/ UNCHANGED vars
  BY <1>4
     DEF StartReconcile, Examine, ExamineFaults, SyncDropManifest,
         SyncDropJournal, Resume, ReconcileFails, Crash, WriteBack,
         SyncDatabase, vars, Same
<1>. QED
  BY <1>2, <1>3, <1>4

(* At any other step the owner knows nothing of it.                        *)
Steps == WithoutNext \union AfterProjection \union AtVersion \union Installing

LEMMA Elsewhere ==
  ASSUME pc' \notin Steps PROVE StepKnows'
  BY DEF StepKnows, Steps, Installing

(* The pointer names a revision with a place for the next.                 *)
LEMMA Places ==
  ASSUME TypeOK
  PROVE  /\ dir.pointer \in Manifest /\ dir.pointer.rev \in 1..MaxRevision
         /\ dir.pointer.rev + 1 \in 1..MaxRevision + 1
         /\ dir.pointer.map \in Maps
         /\ dir.manifest \in [1..MaxRevision + 1 -> Manifest \union {NoManifest}]
         /\ dir.pointer # NoManifest
  BY ConstantsAssumption DEF TypeOK, Directory, Manifest

LEMMA IdlingKnows ==
  ASSUME TypeOK, TypeOK', Kept, StepKnows, Control,
         \/ \E s \in Sectors, outcome \in Outcomes : BeginBatch(s, outcome)
         \/ RefuseBatch \/ SyncJournal \/ SyncImage \/ CreateManifestTemp
         \/ SyncManifest \/ CreatePointerTemp \/ SyncPointer \/ SyncCleanup
         \/ TempCollision \/ StartReconcile \/ Examine \/ ExamineFaults
         \/ SyncDropManifest \/ SyncDropJournal \/ Resume \/ StepFails
         \/ ReconcileFails \/ Crash \/ WriteBack \/ SyncDatabase
         \/ UNCHANGED vars
  PROVE  StepKnows'
<1>1. Same
  BY Idling
<1>2. /\ (HasNext' <=> HasNext) /\ NextManifest' = NextManifest
      /\ (Projected' <=> Projected)
  BY <1>1, SameKept
<1>3. ASSUME batch' = batch PROVE NewManifest' = NewManifest
  BY <1>1, <1>3 DEF Same, NewManifest
<1>4. CASE \E s \in Sectors, outcome \in Outcomes : BeginBatch(s, outcome)
  <2>1. PICK s \in Sectors, outcome \in Outcomes : BeginBatch(s, outcome)
    BY <1>4
  <2>2. /\ pc = "idle" /\ dir.journal = NoJournal /\ Projected
        /\ batch'.mtime = mtime /\ batch'.outcome = outcome
        /\ pc' = IF outcome = "recovered" THEN "journal" ELSE "manifest"
    BY <2>1 DEF BeginBatch, Goto, CheckpointReads, Projected
  <2>. QED
    BY <1>1, <1>2, <2>2
       DEF StepKnows, WithoutNext, AfterProjection, AtVersion, Installing,
           Same, Outcomes
<1>5. CASE SyncImage
  <2>1. /\ pc = "image_sync" /\ pc' = "manifest" /\ batch.outcome = "recovered"
        /\ batch'.mtime = mtime /\ batch'.outcome = batch.outcome
    BY <1>5 DEF SyncImage, Goto, Control, AtSync, TypeOK
  <2>. QED
    BY <1>1, <1>2, <2>1
       DEF StepKnows, WithoutNext, AfterProjection, AtVersion, Installing, Same
<1>6. CASE CreateManifestTemp \/ SyncManifest \/ CreatePointerTemp
  <2>1. /\ batch' = batch
        /\ \/ pc = "manifest" /\ pc' = "manifest_link"
           \/ pc = "manifest_sync" /\ pc' = "pointer"
           \/ pc = "pointer" /\ pc' = "pointer_rename"
    BY <1>6
       DEF CreateManifestTemp, SyncManifest, CreatePointerTemp, CreateTemp, Goto
  <2>. QED
    BY <1>1, <1>2, <1>3, <2>1
       DEF StepKnows, WithoutNext, AfterProjection, AtVersion, Installing, Same
<1>7. CASE Examine
  <2>1. Examinable /\ (RollsBack \/ DropsFailedRead \/ RollsForward)
    BY <1>7 DEF Examine, Reconcilable
  <2>2. CASE RollsBack
    <3>1. pc' = "rollback"
      BY <1>7, <2>2, ExamineRollsBack
    <3>. QED
      BY <3>1, Elsewhere
         DEF Steps, WithoutNext, AfterProjection, AtVersion, Installing
  <2>3. CASE ~RollsBack /\ DropsFailedRead
    <3>1. pc' = "drop_manifest" /\ Projected /\ mtime = dir.pointer.mtime
      BY <1>7, <2>3 DEF Examine, DropsFailedRead, ImageVerifies
    <3>. QED
      BY <1>1, <1>2, <3>1
         DEF StepKnows, WithoutNext, AfterProjection, AtVersion, Installing,
             Same
  <2>4. CASE ~RollsBack /\ ~DropsFailedRead
    <3>1. RollsForward /\ mtime = dir.pointer.mtime
      BY <2>1, <2>4 DEF RollsForward, ImageVerifies
    <3>2. pc' = IF ~Projected THEN "projection"
                ELSE IF JournalPresent THEN "drop_journal" ELSE "idle"
      BY <1>7, <2>4 DEF Examine
    <3>3. ~HasNext
      <4>1. CASE ~JournalPresent
        BY <3>1, <4>1 DEF RollsForward
      <4>2. CASE JournalPresent
        <5>1. dir.journal \in Journal
          BY <2>1, <4>2 DEF Examinable, JournalPresent, TypeOK, Directory
        <5>2. dir.pointer.rev = dir.journal.base.rev + 1
          BY <3>1, <4>2 DEF RollsForward
        <5>3. ~Undoes
          BY <5>1, <5>2, Places DEF Undoes
        <5>. QED
          BY <5>1, <5>3 DEF Kept, JournalKept
      <4>. QED
        BY <4>1, <4>2
    <3>. QED
      BY <1>1, <1>2, <3>1, <3>2, <3>3
         DEF StepKnows, WithoutNext, AfterProjection, AtVersion, Installing,
             Same
  <2>. QED
    BY <2>2, <2>3, <2>4
<1>8. CASE SyncJournal \/ SyncPointer \/ SyncCleanup \/ SyncDropJournal
  <2>1. \/ pc = "journal_sync" /\ pc' = "write"
        \/ pc = "pointer_sync" /\ pc' = "database"
        \/ pc = "cleanup_sync" /\ pc' = "idle"
        \/ pc = "drop_journal_sync" /\ pc' = "idle"
    BY <1>8 DEF SyncJournal, SyncPointer, SyncCleanup, SyncDropJournal, Goto
  <2>. QED
    BY <1>1, <1>2, <2>1
       DEF StepKnows, WithoutNext, AfterProjection, AtVersion, Installing, Same
<1>9. CASE SyncDropManifest
  <2>1. pc = "drop_manifest_sync" /\ pc' \in {"drop_journal", "idle"}
    BY <1>9 DEF SyncDropManifest, Goto
  <2>. QED
    BY <1>1, <1>2, <2>1
       DEF StepKnows, WithoutNext, AfterProjection, AtVersion, Installing, Same
<1>10. CASE \/ TempCollision \/ StartReconcile \/ ExamineFaults \/ StepFails
            \/ ReconcileFails \/ Crash
  <2>1. pc' \in {"down", "examine"}
    BY <1>10
       DEF TempCollision, StartReconcile, ExamineFaults, StepFails,
           ReconcileFails, Crash, Goto
  <2>. QED
    BY <2>1, Elsewhere
       DEF Steps, WithoutNext, AfterProjection, AtVersion, Installing
<1>11. CASE RefuseBatch \/ Resume \/ WriteBack \/ SyncDatabase \/ UNCHANGED vars
  <2>1. pc' = pc /\ batch' = batch
    BY <1>11 DEF RefuseBatch, Resume, WriteBack, SyncDatabase, vars
  <2>. QED
    BY <1>1, <1>2, <1>3, <2>1 DEF StepKnows, Same
<1>. QED
  BY <1>4, <1>5, <1>6, <1>7, <1>8, <1>9, <1>10, <1>11

(* The journal of a batch begins torn, and binds the pointer when complete. *)
LEMMA JournalSteps ==
  ASSUME TypeOK, Kept, StepKnows, Control, CreateJournal \/ CompleteJournal
  PROVE  Kept' /\ StepKnows'
<1>1. dir = [journal |-> dir.journal, manifest |-> dir.manifest,
             pointer |-> dir.pointer, temps |-> dir.temps]
  BY DEF TypeOK, Directory
<1>2. /\ dir'.manifest = dir.manifest /\ dir'.pointer = dir.pointer
      /\ db' = db /\ mtime' = mtime
  BY <1>1 DEF CreateJournal, CompleteJournal
<1>3. /\ pc \in {"journal", "journal_write"}
      /\ ~HasNext /\ Projected
  BY DEF CreateJournal, CompleteJournal, Goto, StepKnows, WithoutNext,
         AfterProjection
<1>4. /\ (HasNext' <=> HasNext) /\ NextManifest' = NextManifest
      /\ (Projected' <=> Projected)
  BY <1>2 DEF HasNext, NextManifest, Projected
<1>5. Chained' /\ Trailing'
  BY <1>2, <1>4 DEF Kept, Chained, Trailing, PointerResolves
<1>6. CASE CreateJournal
  <2>1. dir.journal = NoJournal /\ dir'.journal = TornJournal
    BY <1>1, <1>6 DEF CreateJournal
  <2>2. JournalKept' /\ VersionKept'
    BY <1>2, <1>3, <1>4, <2>1, AbsentJournals
       DEF Kept, JournalKept, VersionKept, Undoes
  <2>3. pc' = "journal_write"
    BY <1>6 DEF CreateJournal, Goto
  <2>. QED
    BY <1>3, <1>4, <1>5, <2>2, <2>3
       DEF Kept, StepKnows, WithoutNext, AfterProjection, AtVersion, Installing
<1>7. CASE CompleteJournal
  <2> DEFINE j == [base |-> dir.pointer, sector |-> batch.sector,
                   before |-> image[batch.sector]]
  <2>1. dir'.journal = j
    BY <1>1, <1>7 DEF CompleteJournal
  <2>2. batch.sector \in Sectors /\ dir.pointer.map[batch.sector] # "recovered"
    BY <1>7 DEF CompleteJournal, Goto, Control, AtBegin, BeforeRename
  <2>3. j \in Journal
    BY <2>2, Places DEF TypeOK, Journal
  <2>4. JournalKept' /\ VersionKept'
    BY <1>2, <1>3, <1>4, <2>1, <2>2, <2>3 DEF JournalKept, VersionKept, Undoes
  <2>5. pc' = "journal_sync"
    BY <1>7 DEF CompleteJournal, Goto
  <2>6. StepKnows'
    BY <2>5, Elsewhere
       DEF Steps, WithoutNext, AfterProjection, AtVersion, Installing
  <2>. QED
    BY <1>5, <2>4, <2>6 DEF Kept
<1>. QED
  BY <1>6, <1>7

(* Units are written, and put back, under a journal that undoes them.      *)
LEMMA WriteSteps ==
  ASSUME TypeOK, Kept, StepKnows, Control, WriteUnit \/ RollbackUnit
  PROVE  Kept' /\ StepKnows'
<1>1. dir' = dir /\ db' = db
  BY DEF WriteUnit, RollbackUnit
<1>2. dir.journal \in Journal /\ Undoes
  BY DEF WriteUnit, RollbackUnit, Control, AtWrite, BatchJournaled, AtRollback,
         Undoes
<1>3. Kept'
  BY <1>1, <1>2
     DEF Kept, Chained, Trailing, JournalKept, VersionKept, Undoes,
         PointerResolves, HasNext, NextManifest, Projected
<1>4. pc' \in {"write", "image_sync", "rollback"}
  BY DEF WriteUnit, RollbackUnit
<1>. QED
  BY <1>3, <1>4, Elsewhere
     DEF Steps, WithoutNext, AfterProjection, AtVersion, Installing

(* A batch's manifest follows the pointer's.                               *)
LEMMA LinkStep ==
  ASSUME TypeOK, Kept, StepKnows, Control, LinkManifest
  PROVE  Kept' /\ StepKnows'
<1> DEFINE p == dir.pointer
<1>1. /\ pc = "manifest_link" /\ pc' = "manifest_sync"
      /\ batch' = batch /\ db' = db /\ mtime' = mtime
      /\ dir.manifest[p.rev + 1] = NoManifest
  BY DEF LinkManifest, Goto, NewManifest
<1>2. /\ dir'.journal = dir.journal /\ dir'.pointer = p
      /\ dir'.manifest = [dir.manifest EXCEPT ![p.rev + 1] = NewManifest]
  BY DEF LinkManifest, TypeOK, Directory, NewManifest
<1>3. batch.sector \in Sectors /\ p.rev < MaxRevision
  BY <1>1 DEF Control, AtBegin, BeforeRename
<1>4. NewManifest \in Manifest /\ NewManifest # NoManifest
  BY <1>3, NewManifestType, ConstantsAssumption
<1>5. NextManifest' = NewManifest /\ HasNext' /\ NewManifest' = NewManifest
  BY <1>1, <1>2, <1>4, Places DEF NextManifest, HasNext, NewManifest
<1>6. Extends(NewManifest, p)
  BY DEF Extends, NewManifest
<1>7. /\ dir'.manifest[p.rev] = dir.manifest[p.rev]
      /\ p.rev > 1 => dir'.manifest[p.rev - 1] = dir.manifest[p.rev - 1]
      /\ \A r \in 1..MaxRevision + 1 :
           r > p.rev + 1 => dir'.manifest[r] = dir.manifest[r]
  BY <1>2, Places
<1>8. Chained'
  BY <1>2, <1>5, <1>6, <1>7 DEF Kept, Chained, PointerResolves
<1>9. /\ batch.mtime = mtime
      /\ batch.outcome = "failed" => dir.journal = NoJournal /\ Projected
      /\ batch.outcome \in Outcomes
  BY <1>1 DEF StepKnows, Installing, TypeOK
<1>10. Projected' <=> Projected
  BY <1>1, <1>2 DEF Projected
<1>11. ~HasNext
  BY <1>1 DEF HasNext, NextManifest
<1>12. JournalKept'
  <2>1. CASE batch.outcome = "failed"
    <3>1. NewManifest.outcome = "failed" /\ dir.journal \notin Journal
      BY <1>9, <2>1, AbsentJournals DEF NewManifest
    <3>. QED
      BY <1>2, <1>5, <1>9, <1>10, <2>1, <3>1 DEF Kept, JournalKept
  <2>2. CASE batch.outcome = "recovered"
    <3>1. /\ dir.journal \in Journal /\ Undoes
          /\ NewManifest.sector = dir.journal.sector
          /\ NewManifest.outcome = "recovered"
      BY <1>1, <2>2
         DEF Control, AtInstall, Installing, BatchJournaled, Undoes, NewManifest
    <3>2. Projected
      <4>1. p.rev > 1 => dir.manifest[p.rev - 1] # p
        BY Places DEF Kept, Chained, Extends
      <4>. QED
        BY <3>1, <4>1 DEF Kept, JournalKept, Undoes
    <3>. QED
      BY <1>2, <1>5, <1>10, <3>1, <3>2 DEF Kept, JournalKept, Undoes
  <2>. QED
    BY <1>9, <2>1, <2>2 DEF Outcomes
<1>13. Trailing' /\ VersionKept'
  BY <1>1, <1>2, <1>10 DEF Kept, Trailing, VersionKept, Undoes
<1>14. StepKnows'
  BY <1>1, <1>2, <1>5, <1>9, <1>10
     DEF StepKnows, WithoutNext, AfterProjection, AtVersion, Installing
<1>. QED
  BY <1>8, <1>12, <1>13, <1>14 DEF Kept

(* The pointer moves on to the manifest that follows it.                   *)
LEMMA RenameStep ==
  ASSUME TypeOK, Kept, StepKnows, Control, RenamePointer
  PROVE  Kept' /\ StepKnows'
<1> DEFINE p == dir.pointer
<1>1. /\ pc = "pointer_rename" /\ pc' = "pointer_sync"
      /\ db' = db /\ mtime' = mtime
  BY DEF RenamePointer, Goto
<1>2. /\ dir'.journal = dir.journal /\ dir'.pointer = NewManifest
      /\ dir'.manifest = dir.manifest
  BY DEF RenamePointer, TypeOK, Directory
<1>3. /\ batch.sector \in Sectors /\ p.rev < MaxRevision
      /\ p.map[batch.sector] # "recovered"
  BY <1>1 DEF Control, AtBegin, BeforeRename
<1>4. /\ NewManifest.rev = p.rev + 1 /\ Extends(NewManifest, p)
      /\ NewManifest.sector = batch.sector
      /\ NewManifest.outcome = batch.outcome /\ NewManifest.mtime = batch.mtime
      /\ NewManifest.map[batch.sector] = batch.outcome
  BY <1>3, Places DEF Extends, NewManifest, MapAfter, Maps
<1>5. /\ NextManifest = NewManifest /\ batch.mtime = mtime
      /\ batch.outcome = "failed" => dir.journal = NoJournal /\ Projected
      /\ batch.outcome \in Outcomes
  BY <1>1 DEF StepKnows, Installing, TypeOK
<1>6. /\ dir.manifest[p.rev] = p /\ p # NoManifest
      /\ dir.manifest[p.rev + 1] = NewManifest
  BY <1>5, Places DEF NextManifest, Kept, Chained, PointerResolves
<1>7. ~HasNext'
  <2>1. p.rev + 2 \in 1..MaxRevision + 1
    <3>1. p.rev \in Nat /\ p.rev < MaxRevision /\ MaxRevision \in Nat
      BY <1>3, Places, ConstantsAssumption
    <3>. QED
      BY <3>1
  <2>2. dir.manifest[p.rev + 2] = NoManifest
    BY <2>1, Places DEF Kept, Chained
  <2>3. (p.rev + 1) + 1 = p.rev + 2
    BY Places
  <2>. QED
    BY <1>2, <1>4, <2>2, <2>3 DEF HasNext, NextManifest
<1>8. Projected
  <2>1. CASE batch.outcome = "failed"
    BY <1>5, <2>1
  <2>2. CASE batch.outcome = "recovered"
    <3>1. dir.journal \in Journal /\ Undoes
      BY <1>1, <2>2 DEF Control, AtInstall, Installing, BatchJournaled, Undoes
    <3>2. p.rev > 1 => dir.manifest[p.rev - 1] # p
      BY Places DEF Kept, Chained, Extends
    <3>. QED
      BY <3>1, <3>2 DEF Kept, JournalKept, Undoes
  <2>. QED
    BY <1>5, <2>1, <2>2 DEF Outcomes
<1>9. Extends(NewManifest, db)
  BY <1>4, <1>8 DEF Projected, IdentityOf, Extends
<1>10. Chained'
  <2>1. /\ (p.rev + 1) - 1 = p.rev /\ p.rev + 1 > p.rev
    BY Places
  <2>2. \A r \in 1..MaxRevision + 1 :
          r > (p.rev + 1) + 1 => dir.manifest[r] = NoManifest
    BY Places DEF Kept, Chained
  <2>. QED
    BY <1>2, <1>3, <1>4, <1>6, <1>7, <2>1, <2>2 DEF Chained, PointerResolves
<1>11. Trailing'
  BY <1>1, <1>2, <1>9 DEF Trailing
<1>12. mtime' = dir'.pointer.mtime
  BY <1>1, <1>2, <1>4, <1>5
<1>13. JournalKept'
  <2>1. CASE batch.outcome = "failed"
    <3>1. dir.journal \notin Journal /\ dir'.pointer.outcome = "failed"
      BY <1>2, <1>4, <1>5, <2>1, AbsentJournals
    <3>. QED
      BY <1>2, <1>7, <3>1 DEF JournalKept
  <2>2. CASE batch.outcome = "recovered"
    <3>1. /\ dir.journal \in Journal /\ dir.journal.base = p
          /\ dir.journal.sector = batch.sector
      BY <1>1, <2>2 DEF Control, AtInstall, Installing, BatchJournaled
    <3>2. /\ p.rev + 1 > 1 /\ (p.rev + 1) - 1 = p.rev
      BY Places
    <3>. QED
      BY <1>2, <1>3, <1>4, <1>6, <1>7, <2>2, <3>1, <3>2 DEF JournalKept
  <2>. QED
    BY <1>5, <2>1, <2>2 DEF Outcomes
<1>14. StepKnows'
  BY <1>1, <1>7, <1>12
     DEF StepKnows, WithoutNext, AfterProjection, AtVersion, Installing
<1>. QED
  BY <1>10, <1>11, <1>12, <1>13, <1>14 DEF Kept, VersionKept

(* The projection follows.                                                 *)
LEMMA ProjectSteps ==
  ASSUME TypeOK, Kept, StepKnows, ProjectBatch \/ ProjectForward
  PROVE  Kept' /\ StepKnows'
<1>1. /\ dir' = dir /\ mtime' = mtime /\ Projected'
      /\ pc \in {"database", "projection"}
      /\ pc' \in {"cleanup", "idle", "drop_journal"}
  BY DEF ProjectBatch, ProjectForward, Project, Projected, Goto
<1>2. (HasNext' <=> HasNext) /\ NextManifest' = NextManifest
  BY <1>1 DEF HasNext, NextManifest
<1>3. ~HasNext /\ mtime = dir.pointer.mtime
  BY <1>1 DEF StepKnows, WithoutNext, AtVersion
<1>4. Chained' /\ Trailing' /\ VersionKept'
  BY <1>1, <1>2
     DEF Kept, Chained, Trailing, VersionKept, Undoes, PointerResolves
<1>5. JournalKept'
  BY <1>1, <1>2, <1>3 DEF Kept, JournalKept, Undoes
<1>6. StepKnows'
  BY <1>1, <1>2, <1>3
     DEF StepKnows, WithoutNext, AfterProjection, AtVersion, Installing
<1>. QED
  BY <1>4, <1>5, <1>6 DEF Kept

(* A journal goes when there is nothing left for it to undo or explain.    *)
LEMMA UnlinkSteps ==
  ASSUME TypeOK, Kept, StepKnows, UnlinkJournal \/ DropJournal
  PROVE  Kept' /\ StepKnows'
<1>1. /\ dir'.manifest = dir.manifest /\ dir'.pointer = dir.pointer
      /\ dir'.journal = NoJournal
  BY DEF UnlinkJournal, DropJournal, TypeOK, Directory
<1>2. /\ db' = db /\ mtime' = mtime
      /\ pc \in {"cleanup", "drop_journal"}
      /\ pc' \in {"cleanup_sync", "drop_journal_sync"}
  BY DEF UnlinkJournal, DropJournal, Goto
<1>3. /\ (HasNext' <=> HasNext) /\ NextManifest' = NextManifest
      /\ (Projected' <=> Projected)
  BY <1>1, <1>2 DEF HasNext, NextManifest, Projected
<1>4. ~HasNext /\ Projected /\ mtime = dir.pointer.mtime
  BY <1>2 DEF StepKnows, WithoutNext, AfterProjection, AtVersion
<1>5. Chained' /\ Trailing' /\ VersionKept' /\ JournalKept'
  BY <1>1, <1>2, <1>3, <1>4, AbsentJournals
     DEF Kept, Chained, Trailing, VersionKept, JournalKept, PointerResolves
<1>6. StepKnows'
  BY <1>2, <1>3, <1>4
     DEF StepKnows, WithoutNext, AfterProjection, AtVersion, Installing
<1>. QED
  BY <1>5, <1>6 DEF Kept

(* The manifest of a batch that did not happen goes.                       *)
LEMMA DropManifestStep ==
  ASSUME TypeOK, Kept, StepKnows, DropManifest
  PROVE  Kept' /\ StepKnows'
<1> DEFINE p == dir.pointer
<1>1. /\ dir'.journal = dir.journal /\ dir'.pointer = p
      /\ dir'.manifest = [dir.manifest EXCEPT ![p.rev + 1] = NoManifest]
  BY DEF DropManifest, TypeOK, Directory
<1>2. /\ db' = db /\ mtime' = mtime
      /\ pc = "drop_manifest" /\ pc' = "drop_manifest_sync"
  BY DEF DropManifest, Goto
<1>3. ~HasNext' /\ (Projected' <=> Projected)
  BY <1>1, <1>2, Places DEF HasNext, NextManifest, Projected
<1>4. Projected /\ mtime = p.mtime
  BY <1>2 DEF StepKnows, AfterProjection, AtVersion
<1>5. /\ dir'.manifest[p.rev] = dir.manifest[p.rev]
      /\ p.rev > 1 => dir'.manifest[p.rev - 1] = dir.manifest[p.rev - 1]
      /\ \A r \in 1..MaxRevision + 1 :
           r > p.rev + 1 => dir'.manifest[r] = dir.manifest[r]
  BY <1>1, Places
<1>6. Chained' /\ Trailing' /\ VersionKept'
  BY <1>1, <1>2, <1>3, <1>5
     DEF Kept, Chained, Trailing, VersionKept, Undoes, PointerResolves
<1>7. JournalKept'
  BY <1>1, <1>3, <1>4, <1>5 DEF Kept, JournalKept, Undoes
<1>8. StepKnows'
  BY <1>1, <1>2, <1>3, <1>4
     DEF StepKnows, WithoutNext, AfterProjection, AtVersion, Installing
<1>. QED
  BY <1>6, <1>7, <1>8 DEF Kept

(* The version of the image is put back when its bytes are.                *)
LEMMA RestoreStep ==
  ASSUME TypeOK, Kept, StepKnows, Control, RestoreVersion
  PROVE  Kept' /\ StepKnows'
<1>1. /\ dir' = dir /\ db' = db /\ mtime' = dir.pointer.mtime
      /\ pc' = IF HasNext THEN "drop_manifest" ELSE "drop_journal"
      /\ pc = "rollback"
  BY DEF RestoreVersion
<1>2. dir.journal \in Journal /\ Undoes
  BY <1>1 DEF Control, AtRollback, Undoes
<1>3. /\ (HasNext' <=> HasNext) /\ NextManifest' = NextManifest
      /\ (Projected' <=> Projected)
  BY <1>1 DEF HasNext, NextManifest, Projected
<1>4. Projected
  <2>1. dir.pointer.rev > 1 =>
          dir.manifest[dir.pointer.rev - 1] # dir.pointer
    BY Places DEF Kept, Chained, Extends
  <2>. QED
    BY <1>2, <2>1 DEF Kept, JournalKept, Undoes
<1>5. Kept'
  BY <1>1, <1>2, <1>3
     DEF Kept, Chained, Trailing, JournalKept, VersionKept, Undoes,
         PointerResolves
<1>6. StepKnows'
  BY <1>1, <1>3, <1>4
     DEF StepKnows, WithoutNext, AfterProjection, AtVersion, Installing
<1>. QED
  BY <1>5, <1>6 DEF Kept

LEMMA KeptInit == Init => KeptInv
<1> SUFFICES ASSUME Init PROVE KeptInv
  OBVIOUS
<1>1. PICK m \in [Sectors -> {"skipped", "failed"}] :
        /\ dir = [journal  |-> NoJournal,
                  manifest |-> [r \in 1..MaxRevision + 1 |->
                                  IF r = 1 THEN InitialManifest(m) ELSE NoManifest],
                  pointer  |-> InitialManifest(m),
                  temps    |-> {}]
        /\ db = IdentityOf(InitialManifest(m)) /\ mtime = 0 /\ pc = "idle"
  BY DEF Init
<1>2. /\ dir.pointer.rev = 1 /\ dir.pointer.mtime = 0
      /\ dir.pointer.outcome = "initial"
      /\ 1 \in 1..MaxRevision + 1 /\ 2 \in 1..MaxRevision + 1
  BY <1>1, ConstantsAssumption DEF InitialManifest
<1>3. ~HasNext /\ PointerResolves /\ Projected
  BY <1>1, <1>2 DEF HasNext, NextManifest, PointerResolves, Projected
<1>4. Chained
  BY <1>1, <1>2, <1>3 DEF Chained
<1>5. JournalKept /\ VersionKept
  BY <1>1, <1>2, <1>3, AbsentJournals DEF JournalKept, VersionKept
<1>6. StepKnows
  BY <1>1, <1>3
     DEF StepKnows, WithoutNext, AfterProjection, AtVersion, Installing
<1>. QED
  BY <1>3, <1>4, <1>5, <1>6 DEF KeptInv, Kept, Trailing

LEMMA KeptStep ==
  ASSUME IInv, IInv', KeptInv, [Next]_vars, ~PowerLoss PROVE KeptInv'
<1>0. TypeOK /\ TypeOK' /\ Control /\ Kept /\ StepKnows
  BY DEF IInv, KeptInv
<1>1. CASE \/ \E s \in Sectors, outcome \in Outcomes : BeginBatch(s, outcome)
           \/ RefuseBatch \/ SyncJournal \/ SyncImage \/ CreateManifestTemp
           \/ SyncManifest \/ CreatePointerTemp \/ SyncPointer \/ SyncCleanup
           \/ TempCollision \/ StartReconcile \/ Examine \/ ExamineFaults
           \/ SyncDropManifest \/ SyncDropJournal \/ Resume \/ StepFails
           \/ ReconcileFails \/ Crash \/ WriteBack \/ SyncDatabase
           \/ UNCHANGED vars
  BY <1>0, <1>1, Idling, SameKept, IdlingKnows DEF KeptInv
<1>2. CASE CreateJournal \/ CompleteJournal
  BY <1>0, <1>2, JournalSteps DEF KeptInv
<1>3. CASE WriteUnit \/ RollbackUnit
  BY <1>0, <1>3, WriteSteps DEF KeptInv
<1>4. CASE LinkManifest
  BY <1>0, <1>4, LinkStep DEF KeptInv
<1>5. CASE RenamePointer
  BY <1>0, <1>5, RenameStep DEF KeptInv
<1>6. CASE ProjectBatch \/ ProjectForward
  BY <1>0, <1>6, ProjectSteps DEF KeptInv
<1>7. CASE UnlinkJournal \/ DropJournal
  BY <1>0, <1>7, UnlinkSteps DEF KeptInv
<1>8. CASE DropManifest
  BY <1>0, <1>8, DropManifestStep DEF KeptInv
<1>9. CASE RestoreVersion
  BY <1>0, <1>9, RestoreStep DEF KeptInv
<1>. QED
  BY <1>1, <1>2, <1>3, <1>4, <1>5, <1>6, <1>7, <1>8, <1>9
     DEF Next, Batch, Reconcile, Environment

LEMMA KeptAlways == ASSUME MaxPowerLoss = 0 PROVE Spec => []KeptInv
<1>1. IInv => ~PowerLoss
  BY DEF PowerLoss, IInv, TypeOK
<1>2. IInv /\ IInv' /\ KeptInv /\ [Next]_vars => KeptInv'
  BY <1>1, KeptStep
<1>. QED
  BY <1>2, KeptInit, InvAlways, PTL DEF Spec

(* Whatever state an I/O error, an abort or a death of the worker left,    *)
(* reconcileDvdRecoveryCheckpoint finds the evidence it can roll back, drop *)
(* or project, unless the worker died while the journal was being written. *)
THEOREM InterruptionsReconcileHolds ==
  ASSUME MaxPowerLoss = 0 PROVE Spec => []InterruptionsReconcile
<1>1. IInv /\ KeptInv => InterruptionsReconcile
  <2> SUFFICES ASSUME IInv, KeptInv, dir.journal # TornJournal
               PROVE  Reconcilable
    BY DEF InterruptionsReconcile
  <2> DEFINE p == dir.pointer
  <2>1. TypeOK /\ Evidence /\ Chained /\ Trailing /\ JournalKept /\ VersionKept
    BY DEF IInv, KeptInv, Kept
  <2>2. db \in Identity /\ p.rev \in 1..MaxRevision /\ p \in Manifest
    BY <2>1, Places DEF TypeOK
  <2>3. Examinable
    BY <2>1, <2>2
       DEF Examinable, Chained, Trailing, Projected, Extends, IdentityOf, Identity
  <2>4. ASSUME Clean(dir), mtime = p.mtime PROVE ImageVerifies(p)
    <3>1. p.outcome = "recovered" => image[p.sector] = Whole
      BY <2>1, <2>4 DEF Chained, Clean, ImageOf, Whole
    <3>. QED
      BY <2>4, <3>1 DEF ImageVerifies
  <2>5. CASE dir.journal \in Journal /\ Undoes
    <3>1. p.rev > 1 => dir.manifest[p.rev - 1] # p
      BY <2>1, <2>2 DEF Chained, Extends
    <3>2. /\ Projected
          /\ HasNext => /\ NextManifest.sector = dir.journal.sector
                        /\ NextManifest.outcome = "recovered"
          /\ p.map[dir.journal.sector] # "recovered"
      BY <2>1, <2>5, <3>1 DEF JournalKept, Undoes
    <3>3. HasNext => JournalBindsCommit(NextManifest)
      BY <2>1, <2>5, <3>2 DEF JournalBindsCommit, Chained, Undoes
    <3>4. \A u \in 1..Units : ~dir.journal.before[u]
      BY <2>1, <2>5, <3>2, ZenonT(60) DEF Evidence, JournalFaithful, Undoes, ImageOf, Journal
    <3>5. JournalPresent
      BY <2>5, AbsentJournals DEF JournalPresent
    <3>6. RollsBack
      BY <2>5, <3>2, <3>3, <3>4, <3>5 DEF RollsBack, Undoes, JournalBindsBase
    <3>. QED
      BY <2>3, <3>6 DEF Reconcilable
  <2>6. CASE dir.journal \in Journal /\ ~Undoes
    <3>1. Clean(dir) /\ mtime = p.mtime
      BY <2>1, <2>6, CleanAfterRename DEF Evidence, Undoes, VersionKept
    <3>2. /\ p.rev > 1 /\ dir.journal.base = dir.manifest[p.rev - 1]
          /\ p.sector = dir.journal.sector /\ p.outcome = "recovered"
      BY <2>1, <2>6 DEF JournalKept
    <3>3. Extends(p, dir.journal.base)
      BY <2>1, <3>2 DEF Chained
    <3>4. RollsForward
      BY <2>1, <2>4, <2>6, <3>1, <3>2, <3>3, AbsentJournals
         DEF RollsForward, JournalPresent, JournalBindsBase, JournalBindsCommit,
             Extends, Trailing
    <3>. QED
      BY <2>3, <3>4 DEF Reconcilable
  <2>7. CASE dir.journal \notin Journal
    <3>1. ~JournalPresent
      BY <2>1, <2>7 DEF JournalPresent, TypeOK, Directory
    <3>2. ImageVerifies(p)
      BY <2>1, <2>4, <2>7, CleanWithoutJournal DEF Evidence, VersionKept
    <3>3. HasNext => DropsFailedRead
      BY <2>1, <2>7, <3>1, <3>2 DEF DropsFailedRead, JournalKept, Chained
    <3>4. ~HasNext => RollsForward
      BY <2>1, <2>7, <3>1, <3>2 DEF RollsForward, JournalKept, Trailing
    <3>. QED
      BY <2>3, <3>3, <3>4 DEF Reconcilable
  <2>. QED
    BY <2>5, <2>6, <2>7
<1>. QED
  BY <1>1, InvAlways, KeptAlways, PTL

(* SQLite's projection is the pointer's manifest or the one just before    *)
(* it, whichever step died and however often repairs were repeated.        *)
THEOREM ProjectionTrails ==
  ASSUME MaxPowerLoss = 0 PROVE Spec => []ProjectionTrailsPointer
<1>1. IInv /\ KeptInv => ProjectionTrailsPointer
  <2> SUFFICES ASSUME IInv, KeptInv PROVE ProjectionTrailsPointer
    OBVIOUS
  <2>1. TypeOK /\ Trailing
    BY DEF IInv, KeptInv, Kept
  <2>2. db \in Identity /\ dir.pointer.rev \in 1..MaxRevision
    BY <2>1, Places DEF TypeOK
  <2>. QED
    BY <2>1, <2>2
       DEF ProjectionTrailsPointer, Trailing, Projected, Extends, IdentityOf,
           Identity
<1>. QED
  BY <1>1, InvAlways, KeptAlways, PTL
=============================================================================
