----------------------------- MODULE LegacyCutover -----------------------------
(***************************************************************************)
(* The cutover of one originals library from sidecar files, which the      *)
(* legacy commands read and write, to the SQLite catalog.  An import takes *)
(* the queue from the commands (two kernel locks, held by a helper), fences*)
(* the archives it is about, publishes the marker that retires the legacy  *)
(* queue, persists every captured sidecar and lifts all fences at once, or *)
(* withdraws to "repair".  Imports may die at any step; workers start and  *)
(* repeat the fence; encoders publish; files change under everybody.       *)
(* A sidecar has one job and one archive; their names are the sidecar's.   *)
(***************************************************************************)
EXTENDS Naturals, FiniteSets

CONSTANTS Sidecars,         \* numbers: the order of their paths
          Importers, LegacyCommands, NoOne,
          EncodedNow,       \* the sidecars whose jobs a worker takes up
          MaxImports, MaxMeddling, MaxCutoverFaults

ASSUME CutoverNames == NoOne \notin Importers /\ EncodedNow \subseteq Sidecars /\ Sidecars \subseteq Nat

VARIABLES library,          \* the files: each sidecar, its image's version, the legacy output
          cutoverMarker,    \* the marker file and what it captured
          queueLocks,       \* intent lock, and gate held shared or exclusively
          legacyCommand,    \* each legacy command between two of its lock steps
          importer,         \* each import between two durable steps
          archiveRow,       \* per sidecar: its archive row with its encode job
          stagedSidecars,   \* legacy_cutover_staged_sidecars
          publishing,       \* per sidecar: the encoder at work on its job
          starter,          \* a worker that starts
          cutoverUsed       \* budgets: imports, meddling, faults

cutoverVars == <<library, cutoverMarker, queueLocks, legacyCommand, importer, archiveRow,
                 stagedSidecars, publishing, starter, cutoverUsed>>
catalogVars == <<archiveRow, stagedSidecars>>

Unseen == [state |-> "absent", image |-> 0, done |-> FALSE]
NoRow == [exists |-> FALSE, native |-> FALSE, reviewed |-> FALSE, pending |-> FALSE,
          image |-> 0, job |-> "none", token |-> FALSE, expired |-> FALSE]
NotImporting == [pc |-> "idle", batch |-> [s \in Sidecars |-> Unseen], corrupt |-> FALSE, published |-> FALSE,
           skipped |-> {}, todo |-> {}, incomplete |-> FALSE, human |-> {}, wereReviewed |-> {},
           candidates |-> [s \in Sidecars |-> "none"]]
NotStarting == [pc |-> "idle", inventory |-> {}, authorized |-> {}, unchanged |-> TRUE]

Captured == {s \in Sidecars : cutoverMarker.captured[s].state # "absent"}
Parsed(batch) == {s \in Sidecars : batch[s].state # "absent"}
Foremost(todo) == {s \in todo : \A t \in todo : s <= t}

\* The catalog may know archives of this library before the first import.
CutoverInit ==
  /\ library \in [Sidecars -> {[state |-> st, image |-> 0, output |-> FALSE] : st \in {"absent", "good", "flawed"}}]
  /\ cutoverMarker = [status |-> "none", captured |-> [s \in Sidecars |-> Unseen]]
  /\ queueLocks = [intent |-> NoOne, shared |-> {}, gate |-> NoOne]
  /\ legacyCommand = [c \in LegacyCommands |-> "idle"]
  /\ importer = [i \in Importers |-> NotImporting]
  /\ \E native \in SUBSET Sidecars :
       archiveRow = [s \in Sidecars |-> IF s \notin native THEN NoRow ELSE
         [NoRow EXCEPT !.exists = TRUE, !.native = TRUE, !.reviewed = TRUE, !.job = "queued"]]
  /\ stagedSidecars = {}
  /\ publishing = [s \in Sidecars |-> "none"]
  /\ starter = NotStarting
  /\ cutoverUsed = [imports |-> 0, meddling |-> 0, faults |-> 0]

---------------------------------------------------------------------------
(* The legacy commands: legacy_queue_command_lease around archive and      *)
(* encode.                                                                 *)

CommandArrives(c) ==
  /\ legacyCommand[c] = "idle" /\ cutoverUsed.imports < MaxImports
  /\ legacyCommand' = [legacyCommand EXCEPT ![c] = "intent"]
  /\ UNCHANGED <<library, cutoverMarker, queueLocks, importer, catalogVars, publishing, starter, cutoverUsed>>

\* (mutant) an entrant that only looks at the gate
CommandEntersBeside(c) ==
  /\ legacyCommand[c] = "intent" /\ queueLocks.gate = NoOne
  /\ queueLocks' = [queueLocks EXCEPT !.shared = @ \cup {c}]
  /\ legacyCommand' = [legacyCommand EXCEPT ![c] = "check"]
  /\ UNCHANGED <<library, cutoverMarker, importer, catalogVars, publishing, starter, cutoverUsed>>

\* Every entrant passes through the intent lock.
CommandEnters(c) ==
  /\ legacyCommand[c] = "intent" /\ queueLocks.intent = NoOne
  /\ queueLocks' = [queueLocks EXCEPT !.intent = c]
  /\ legacyCommand' = [legacyCommand EXCEPT ![c] = "gate"]
  /\ UNCHANGED <<library, cutoverMarker, importer, catalogVars, publishing, starter, cutoverUsed>>

CommandPasses(c) ==
  /\ legacyCommand[c] = "gate" /\ queueLocks.gate = NoOne
  /\ queueLocks' = [queueLocks EXCEPT !.intent = NoOne, !.shared = @ \cup {c}]
  /\ legacyCommand' = [legacyCommand EXCEPT ![c] = "check"]
  /\ UNCHANGED <<library, cutoverMarker, importer, catalogVars, publishing, starter, cutoverUsed>>

CommandLeaves(c) ==
  /\ queueLocks' = [queueLocks EXCEPT !.shared = @ \ {c}]
  /\ legacyCommand' = [legacyCommand EXCEPT ![c] = "idle"]

\* refuse_retired_legacy_queue, once, under the lease.
CommandChecks(c) ==
  /\ legacyCommand[c] = "check"
  /\ IF cutoverMarker.status = "none"
     THEN legacyCommand' = [legacyCommand EXCEPT ![c] = "work"] /\ UNCHANGED queueLocks
     ELSE CommandLeaves(c)
  /\ UNCHANGED <<library, cutoverMarker, importer, catalogVars, publishing, starter, cutoverUsed>>

\* archive writes one sidecar, or fails.
CommandArchives(c) ==
  /\ legacyCommand[c] = "work"
  /\ \E s \in Sidecars : library[s].state = "absent" /\ library' = [library EXCEPT ![s].state = "good"]
  /\ CommandLeaves(c)
  /\ UNCHANGED <<cutoverMarker, importer, catalogVars, publishing, starter, cutoverUsed>>

\* encode publishes missing outputs one after the other ...
CommandPublishes(c) ==
  /\ legacyCommand[c] = "work"
  /\ \E s \in Sidecars : /\ library[s].state = "good" /\ ~library[s].output
                         /\ library' = [library EXCEPT ![s].output = TRUE]
  /\ UNCHANGED <<cutoverMarker, queueLocks, legacyCommand, importer, catalogVars, publishing, starter, cutoverUsed>>

\* ... until it is done, fails or is killed between two of them.
CommandEnds(c) ==
  /\ legacyCommand[c] = "work"
  /\ CommandLeaves(c)
  /\ UNCHANGED <<library, cutoverMarker, importer, catalogVars, publishing, starter, cutoverUsed>>

CommandGoesOn(c) == CommandEnters(c) \/ CommandPasses(c) \/ CommandChecks(c)

---------------------------------------------------------------------------
(* An import takes the queue.                                              *)

ImportStep(i, pc) == importer[i].pc = pc
ImportGoes(i, pc) == importer' = [importer EXCEPT ![i].pc = pc]
\* What an import knew no longer matters when it returns.
OrForgets(imp) == IF imp.pc = "release" THEN [NotImporting EXCEPT !.pc = "release"] ELSE imp
Returns(i) == importer' = [importer EXCEPT ![i] = [NotImporting EXCEPT !.pc = "release"]]

ImportBegins(i) ==
  /\ ImportStep(i, "idle") /\ cutoverUsed.imports < MaxImports
  /\ ImportGoes(i, "intent")
  /\ cutoverUsed' = [cutoverUsed EXCEPT !.imports = @ + 1]
  /\ UNCHANGED <<library, cutoverMarker, queueLocks, legacyCommand, catalogVars, publishing, starter>>

\* The helper tries again every 50 ms, first for the intent lock ...
HelperTakesIntent(i) ==
  /\ importer[i].pc \in {"intent", "orphanIntent"} /\ queueLocks.intent = NoOne
  /\ queueLocks' = [queueLocks EXCEPT !.intent = i]
  /\ ImportGoes(i, IF ImportStep(i, "intent") THEN "drain" ELSE "orphanDrain")
  /\ UNCHANGED <<library, cutoverMarker, legacyCommand, catalogVars, publishing, starter, cutoverUsed>>

\* (mutant) the gate is taken beside the commands at work
HelperTakesGateBeside(i) ==
  /\ ImportStep(i, "drain") /\ queueLocks.gate = NoOne
  /\ queueLocks' = [queueLocks EXCEPT !.gate = i]
  /\ ImportGoes(i, "discover")
  /\ UNCHANGED <<library, cutoverMarker, legacyCommand, catalogVars, publishing, starter, cutoverUsed>>

\* ... then, with no new entrants, for the gate.
HelperTakesGate(i) ==
  /\ ImportStep(i, "drain") /\ queueLocks.gate = NoOne /\ queueLocks.shared = {}
  /\ queueLocks' = [queueLocks EXCEPT !.gate = i]
  /\ ImportGoes(i, "discover")
  /\ UNCHANGED <<library, cutoverMarker, legacyCommand, catalogVars, publishing, starter, cutoverUsed>>

\* parseLegacySidecar: a job whose output exists is a finished one.
See(s) ==
  IF library[s].state \in {"good", "flawed"}
  THEN [state |-> library[s].state, image |-> library[s].image, done |-> library[s].output]
  ELSE Unseen

Discover(i) ==
  /\ ImportStep(i, "discover")
  /\ importer' = [importer EXCEPT ![i].pc = "stage",
       ![i].batch = [s \in Sidecars |-> See(s)],
       ![i].corrupt = \E s \in Sidecars : library[s].state = "corrupt"]
  /\ UNCHANGED <<library, cutoverMarker, queueLocks, legacyCommand, catalogVars, publishing, starter, cutoverUsed>>

---------------------------------------------------------------------------
(* stageCatalogReviewBoundary: one transaction that stages the sidecars,   *)
(* fences their archives and fails their running jobs.  It throws while a  *)
(* publication mutation is under way.                                      *)

\* (mutant) a mutation whose lease has ended counts as ended
MutationLeased(set) ==
  \E s \in set : archiveRow[s].job = "running" /\ archiveRow[s].token /\ ~archiveRow[s].expired
MutationActive(set) == \E s \in set : archiveRow[s].job = "running" /\ archiveRow[s].token

Fence(set, row) ==
  [s \in Sidecars |->
     IF s \notin set \/ ~row[s].exists THEN row[s]
     ELSE [row[s] EXCEPT !.reviewed = FALSE, !.pending = TRUE,
                         !.job = IF @ = "running" THEN "failed" ELSE @]]

\* The archives reviewed until now keep their review for the end.
Remember(imp, set) ==
  [imp EXCEPT
     !.wereReviewed = @ \cup {s \in set : archiveRow[s].reviewed},
     !.candidates = [s \in Sidecars |-> IF s \in set /\ archiveRow[s].reviewed /\ @[s] = "none"
                                        THEN "fresh" ELSE @[s]]]

StageRows(set) ==
  /\ archiveRow' = Fence(set, archiveRow)
  /\ stagedSidecars' = stagedSidecars \cup set

\* Everything staged is of this batch or was confirmed by the marker before,
\* and with nothing staged no archive of the library is fenced.
BoundaryComplete(set, confirmed) ==
  /\ stagedSidecars \subseteq set \cup confirmed
  /\ stagedSidecars \cup set = {} => \A s \in Sidecars : ~archiveRow[s].pending

\* retireLegacySidecarQueue without a marker: nothing unreadable, and a
\* complete boundary.
StageFirst(i) ==
  LET set == Parsed(importer[i].batch) IN
  /\ ImportStep(i, "stage") /\ cutoverMarker.status = "none"
  /\ IF importer[i].corrupt \/ MutationActive(set)
     THEN Returns(i) /\ UNCHANGED catalogVars
     ELSE /\ StageRows(set)
          /\ importer' = [importer EXCEPT ![i] =
               OrForgets([Remember(@, set) EXCEPT !.pc = IF ~BoundaryComplete(set, {}) THEN "release"
                                                       ELSE IF set = {} THEN "examine" ELSE "publish"])]
  /\ UNCHANGED <<library, cutoverMarker, queueLocks, legacyCommand, publishing, starter, cutoverUsed>>

\* A retired marker: what it captured is imported again, from the marker,
\* when the images still are the captured ones (recoverPublishedSidecars).
StageRetired(i) ==
  /\ ImportStep(i, "stage") /\ cutoverMarker.status = "retired"
  /\ IF MutationActive(Captured)
     THEN Returns(i) /\ UNCHANGED catalogVars
     ELSE /\ StageRows(Captured)
          /\ importer' = [importer EXCEPT ![i] =
               OrForgets([Remember(@, Captured) EXCEPT
                  !.pc = IF BoundaryComplete(Captured, {}) THEN "examine" ELSE "release",
                  !.published = TRUE, !.batch = cutoverMarker.captured, !.todo = Captured,
                  !.skipped = {s \in Captured : library[s].image # cutoverMarker.captured[s].image}])]
  /\ UNCHANGED <<library, cutoverMarker, queueLocks, legacyCommand, publishing, starter, cutoverUsed>>

\* A marker under repair: its archives are fenced first, whatever follows ...
StageRepair(i) ==
  LET imp == importer[i] IN
  /\ ImportStep(i, "stage") /\ cutoverMarker.status = "repair"
  /\ IF MutationActive(Captured)
     THEN Returns(i) /\ UNCHANGED catalogVars
     ELSE /\ StageRows(Captured)
          /\ importer' = [importer EXCEPT ![i] =
               OrForgets([Remember(imp, Captured) EXCEPT
                  !.pc = IF imp.corrupt \/ Parsed(imp.batch) = {} \/ ~(Captured \subseteq Parsed(imp.batch))
                         THEN "release" ELSE "restage",
                  !.published = TRUE])]
  /\ UNCHANGED <<library, cutoverMarker, queueLocks, legacyCommand, publishing, starter, cutoverUsed>>

\* ... then those of the new batch.
Restage(i) ==
  LET set == Parsed(importer[i].batch) IN
  /\ ImportStep(i, "restage")
  /\ IF MutationActive(set)
     THEN Returns(i) /\ UNCHANGED catalogVars
     ELSE /\ StageRows(set)
          /\ importer' = [importer EXCEPT ![i] =
               OrForgets([Remember(@, set) EXCEPT !.pc = IF BoundaryComplete(set, Captured) THEN "publish" ELSE "release"])]
  /\ UNCHANGED <<library, cutoverMarker, queueLocks, legacyCommand, publishing, starter, cutoverUsed>>

---------------------------------------------------------------------------
(* The marker: written to a temporary file, synchronized and renamed.  A   *)
(* worker that started from another marker notices.                        *)

MarkerBecomes(marker) ==
  /\ cutoverMarker' = marker
  /\ starter' = IF starter.pc = "idle" \/ marker = cutoverMarker THEN starter
                ELSE [starter EXCEPT !.unchanged = FALSE]

Publish(i) ==
  /\ ImportStep(i, "publish")
  /\ MarkerBecomes([status |-> "retired", captured |-> importer[i].batch])
  /\ importer' = [importer EXCEPT ![i].pc = "examine", ![i].todo = Parsed(importer[i].batch)]
  /\ UNCHANGED <<library, queueLocks, legacyCommand, catalogVars, publishing, cutoverUsed>>

\* markMarkerForRepair.
WithdrawPublication ==
  MarkerBecomes(IF cutoverMarker.status = "retired" THEN [cutoverMarker EXCEPT !.status = "repair"]
                ELSE cutoverMarker)

\* What the loop decides of a sidecar before it persists anything.
Examine(i) ==
  /\ ImportStep(i, "examine")
  /\ \E s \in Foremost(importer[i].todo) :
       CASE s \in importer[i].skipped ->
              /\ importer' = [importer EXCEPT ![i].todo = @ \ {s}, ![i].incomplete = TRUE]
              /\ WithdrawPublication
         [] importer[i].batch[s].state = "flawed" /\ s \notin importer[i].skipped ->
              /\ importer' = [importer EXCEPT ![i].pc = "persist", ![i].incomplete = TRUE, ![i].human = @ \cup {s}]
              /\ WithdrawPublication
         [] OTHER -> ImportGoes(i, "persist") /\ UNCHANGED <<cutoverMarker, starter>>
  /\ UNCHANGED <<library, queueLocks, legacyCommand, catalogVars, publishing, cutoverUsed>>

---------------------------------------------------------------------------
(* One sidecar's transaction.                                              *)

\* (mutant) only archives that were there before are fenced
RowImportedOpen(s, seen, conflict) ==
  LET new == [NoRow EXCEPT !.exists = TRUE, !.image = seen.image]
  IN  [(IF archiveRow[s].exists THEN [archiveRow[s] EXCEPT !.image = seen.image] ELSE new) EXCEPT
         !.job = IF @ = "none" /\ seen.state = "good" /\ ~conflict
                 THEN (IF seen.done THEN "completed" ELSE "queued") ELSE @]

\* A new archive is fenced from the start; an image of another size is
\* recorded; a job nobody has is queued, or finished when its output was.
RowImported(s, seen, conflict) ==
  LET row == archiveRow[s]
      new == [NoRow EXCEPT !.exists = TRUE, !.pending = TRUE, !.image = seen.image]
  IN  [(IF row.exists THEN [row EXCEPT !.image = seen.image] ELSE new) EXCEPT
         !.job = IF @ = "none" /\ seen.state = "good" /\ ~conflict
                 THEN (IF seen.done THEN "completed" ELSE "queued") ELSE @]

\* Who must review: nobody saw the archive reviewed when the marker was
\* republished, a record conflicts, or selections joined an older archive.
NeedsHuman(imp, s, conflict) ==
  \/ s \in imp.human \/ conflict
  \/ imp.published /\ s \notin imp.wereReviewed /\ ~archiveRow[s].reviewed
  \/ archiveRow[s].exists /\ archiveRow[s].job = "none" /\ imp.batch[s].state = "good"

PersistSidecar(i, s, conflict) ==
  LET imp == importer[i]
      seen == imp.batch[s]
      row == RowImported(s, seen, conflict)
      human == row.job # "none" /\ NeedsHuman(imp, s, conflict) IN
  /\ library[s].image = seen.image
  /\ conflict => seen.state = "good"
  /\ archiveRow' = [archiveRow EXCEPT ![s] = [row EXCEPT !.reviewed = @ /\ ~human]]
  /\ importer' = [importer EXCEPT ![i] =
       [imp EXCEPT !.pc = IF conflict THEN "withdraw" ELSE "examine",
                   !.todo = @ \ {s},
                   !.incomplete = @ \/ conflict,
                   !.human = IF human THEN @ \cup {s} ELSE @,
                   !.candidates[s] =
                      IF @ = "fresh" /\ archiveRow[s].image # seen.image THEN "stale"
                      ELSE IF @ = "none" /\ ~human /\ ~imp.published /\ row.job # "none" THEN "fresh" ELSE @]]

Persist(i) ==
  /\ ImportStep(i, "persist")
  /\ \E s \in Foremost(importer[i].todo), conflict \in BOOLEAN : PersistSidecar(i, s, conflict)
  /\ UNCHANGED <<library, cutoverMarker, queueLocks, legacyCommand, stagedSidecars, publishing, starter, cutoverUsed>>

\* The transaction is rolled back: the image is another one, or the row of
\* another import or job contradicts the sidecar.
PersistFails(i) ==
  LET imp == importer[i] IN
  /\ ImportStep(i, "persist")
  /\ \E s \in Foremost(imp.todo) :
       /\ library[s].image # imp.batch[s].image \/ archiveRow[s].native
       /\ archiveRow' = [archiveRow EXCEPT ![s].reviewed = FALSE]
       /\ importer' = [importer EXCEPT ![i] =
            [imp EXCEPT !.pc = "withdraw", !.todo = @ \ {s}, !.incomplete = TRUE,
                        !.human = @ \cup {s}, !.candidates[s] = "none"]]
  /\ UNCHANGED <<library, cutoverMarker, queueLocks, legacyCommand, stagedSidecars, publishing, starter, cutoverUsed>>

Withdraw(i) ==
  /\ ImportStep(i, "withdraw")
  /\ ImportGoes(i, "examine")
  /\ WithdrawPublication
  /\ UNCHANGED <<library, queueLocks, legacyCommand, catalogVars, publishing, cutoverUsed>>

---------------------------------------------------------------------------
(* The end of an import.                                                   *)

\* Captured records the catalog does not have.
MissingRecords(batch) ==
  {s \in Parsed(batch) : ~archiveRow[s].exists \/ (batch[s].state = "good" /\ archiveRow[s].job = "none")}

GivesUp(i) ==
  LET missing == MissingRecords(importer[i].batch) IN
  /\ ImportStep(i, "examine") /\ importer[i].todo = {}
  /\ importer[i].incomplete \/ missing # {}
  /\ archiveRow' = [s \in Sidecars |-> IF s \in missing THEN [archiveRow[s] EXCEPT !.reviewed = FALSE]
                                       ELSE archiveRow[s]]
  /\ WithdrawPublication
  /\ Returns(i)
  /\ UNCHANGED <<library, queueLocks, legacyCommand, stagedSidecars, publishing, cutoverUsed>>

\* One transaction restores the reviews of rows nobody changed since, and
\* lifts every fence of the library.
LiftFences(i) ==
  LET imp == importer[i]
      restored == {s \in Sidecars : imp.candidates[s] = "fresh" /\ s \notin imp.human} IN
  /\ ImportStep(i, "examine") /\ imp.todo = {} /\ ~imp.incomplete /\ MissingRecords(imp.batch) = {}
  /\ archiveRow' = [s \in Sidecars |->
       [archiveRow[s] EXCEPT !.pending = FALSE,
          !.reviewed = @ \/ s \in restored]]
  /\ stagedSidecars' = {}
  /\ Returns(i)
  /\ UNCHANGED <<library, cutoverMarker, queueLocks, legacyCommand, publishing, starter, cutoverUsed>>

HelperReleases(i) ==
  queueLocks' = [queueLocks EXCEPT !.intent = IF @ = i THEN NoOne ELSE @,
                                   !.gate = IF @ = i THEN NoOne ELSE @]

ImportEnds(i) ==
  /\ ImportStep(i, "release")
  /\ HelperReleases(i)
  /\ importer' = [importer EXCEPT ![i] = NotImporting]
  /\ UNCHANGED <<library, cutoverMarker, legacyCommand, catalogVars, publishing, starter, cutoverUsed>>

\* The importing process is killed.  Its helper sees the pipe close only
\* once it has both locks.
ImportDies(i) ==
  /\ importer[i].pc \notin {"idle", "orphan", "orphanIntent", "orphanDrain"} /\ cutoverUsed.faults < MaxCutoverFaults
  /\ importer' = [importer EXCEPT ![i] =
       [NotImporting EXCEPT !.pc = CASE importer[i].pc = "intent" -> "orphanIntent"
                                     [] importer[i].pc = "drain" -> "orphanDrain"
                                     [] OTHER -> "orphan"]]
  /\ cutoverUsed' = [cutoverUsed EXCEPT !.faults = @ + 1]
  /\ UNCHANGED <<library, cutoverMarker, queueLocks, legacyCommand, catalogVars, publishing, starter>>

OrphanHelperEnds(i) ==
  /\ \/ ImportStep(i, "orphan")
     \/ ImportStep(i, "orphanDrain") /\ queueLocks.gate = NoOne /\ queueLocks.shared = {}
  /\ HelperReleases(i)
  /\ importer' = [importer EXCEPT ![i] = NotImporting]
  /\ UNCHANGED <<library, cutoverMarker, legacyCommand, catalogVars, publishing, starter, cutoverUsed>>

ImportWork(i) ==
  \/ HelperTakesGate(i) \/ Discover(i) \/ StageFirst(i) \/ StageRetired(i) \/ StageRepair(i)
  \/ Restage(i) \/ Publish(i) \/ Examine(i) \/ Persist(i) \/ PersistFails(i) \/ Withdraw(i)
  \/ GivesUp(i) \/ LiftFences(i) \/ ImportEnds(i) \/ OrphanHelperEnds(i)

---------------------------------------------------------------------------
(* A worker that starts repeats the fence of a marker under repair         *)
(* (reconcileLegacyRepairCutover).  It may take over a publication whose   *)
(* lease has ended and whose mutation lock is free.                        *)

Starts(pc) == starter' = [starter EXCEPT !.pc = pc]
GivesUpStart == starter' = NotStarting

StarterLooks ==
  LET related == {s \in Sidecars : /\ archiveRow[s].job = "running" /\ archiveRow[s].token
                                   /\ archiveRow[s].pending \/ s \in Captured} IN
  /\ starter.pc = "idle" /\ cutoverMarker.status = "repair"
  /\ \A s \in related : archiveRow[s].expired
  /\ starter' = [pc |-> "lock", inventory |-> Captured, authorized |-> related, unchanged |-> TRUE]
  /\ UNCHANGED <<library, cutoverMarker, queueLocks, legacyCommand, importer, catalogVars, publishing, cutoverUsed>>

StarterLocks ==
  /\ starter.pc = "lock"
  /\ IF \E s \in starter.authorized : publishing[s] = "mutating"
     THEN GivesUpStart ELSE Starts("reread")
  /\ UNCHANGED <<library, cutoverMarker, queueLocks, legacyCommand, importer, catalogVars, publishing, cutoverUsed>>

StarterRereads ==
  /\ starter.pc = "reread"
  /\ IF starter.unchanged THEN Starts("fence") ELSE GivesUpStart
  /\ UNCHANGED <<library, cutoverMarker, queueLocks, legacyCommand, importer, catalogVars, publishing, cutoverUsed>>

StarterLocked(s) == starter.pc \in {"reread", "fence"} /\ s \in starter.authorized

\* The row with the fence of the inventory, and then without its open job.
Refenced(s) ==
  IF s \in starter.inventory /\ archiveRow[s].exists
  THEN [archiveRow[s] EXCEPT !.reviewed = FALSE, !.pending = TRUE] ELSE archiveRow[s]
TakenOver(s) ==
  IF Refenced(s).pending /\ archiveRow[s].job = "running"
  THEN [Refenced(s) EXCEPT !.job = "failed", !.token = FALSE] ELSE Refenced(s)

\* A mutation under way that it did not look at, or whose lease lives again.
Unforeseen(s) ==
  /\ Refenced(s).pending /\ archiveRow[s].job = "running" /\ archiveRow[s].token
  /\ s \notin starter.authorized \/ ~archiveRow[s].expired

\* In one transaction, which an unforeseen mutation rolls back.
StarterFences ==
  /\ starter.pc = "fence"
  /\ IF \E s \in Sidecars : Unforeseen(s)
     THEN UNCHANGED <<catalogVars, importer>>
     ELSE /\ archiveRow' = [s \in Sidecars |-> TakenOver(s)]
          /\ stagedSidecars' = stagedSidecars \cup starter.inventory
          /\ importer' = [i \in Importers |-> [importer[i] EXCEPT !.candidates =
               [s \in Sidecars |-> IF s \in starter.inventory /\ @[s] = "fresh" THEN "stale" ELSE @[s]]]]
  /\ GivesUpStart
  /\ UNCHANGED <<library, cutoverMarker, queueLocks, legacyCommand, publishing, cutoverUsed>>

StarterDies ==
  /\ starter.pc # "idle"
  /\ GivesUpStart
  /\ UNCHANGED <<library, cutoverMarker, queueLocks, legacyCommand, importer, catalogVars, publishing, cutoverUsed>>

WorkerStarts == StarterLooks \/ StarterLocks \/ StarterRereads \/ StarterFences \/ StarterDies

---------------------------------------------------------------------------
(* What the workers and operators do to these rows meanwhile.              *)

\* claimNextAvailable: reviewed and not fenced.
ClaimImported(s) ==
  /\ archiveRow[s].job = "queued" /\ archiveRow[s].reviewed /\ ~archiveRow[s].pending
  /\ publishing[s] = "none"
  /\ archiveRow' = [archiveRow EXCEPT ![s].job = "running", ![s].expired = FALSE]
  /\ publishing' = [publishing EXCEPT ![s] = "encoding"]
  /\ UNCHANGED <<library, cutoverMarker, queueLocks, legacyCommand, importer, stagedSidecars, starter, cutoverUsed>>

\* The mutation lock, then the row's token.
BeginMutation(s) ==
  /\ publishing[s] = "encoding" /\ ~StarterLocked(s)
  /\ archiveRow[s].job = "running" /\ ~archiveRow[s].expired
  /\ archiveRow' = [archiveRow EXCEPT ![s].token = TRUE]
  /\ publishing' = [publishing EXCEPT ![s] = "mutating"]
  /\ UNCHANGED <<library, cutoverMarker, queueLocks, legacyCommand, importer, stagedSidecars, starter, cutoverUsed>>

EndMutation(s) ==
  /\ publishing[s] = "mutating"
  /\ archiveRow' = [archiveRow EXCEPT ![s].job = IF @ = "running" THEN "completed" ELSE @, ![s].token = FALSE]
  /\ publishing' = [publishing EXCEPT ![s] = "none"]
  /\ UNCHANGED <<library, cutoverMarker, queueLocks, legacyCommand, importer, stagedSidecars, starter, cutoverUsed>>

\* Its row was failed under it.
EncodingStops(s) ==
  /\ publishing[s] = "encoding" /\ archiveRow[s].job # "running"
  /\ publishing' = [publishing EXCEPT ![s] = "none"]
  /\ UNCHANGED <<library, cutoverMarker, queueLocks, legacyCommand, importer, catalogVars, starter, cutoverUsed>>

PublisherDies(s) ==
  /\ publishing[s] # "none" /\ cutoverUsed.faults < MaxCutoverFaults
  /\ publishing' = [publishing EXCEPT ![s] = "none"]
  /\ cutoverUsed' = [cutoverUsed EXCEPT !.faults = @ + 1]
  /\ UNCHANGED <<library, cutoverMarker, queueLocks, legacyCommand, importer, catalogVars, starter>>

\* A lease nobody renews, or one of a publisher that stalls.
EncodeLeaseEnds(s) ==
  /\ archiveRow[s].job = "running" /\ ~archiveRow[s].expired
  /\ IF publishing[s] = "none" THEN UNCHANGED cutoverUsed
     ELSE /\ cutoverUsed.faults < MaxCutoverFaults
          /\ cutoverUsed' = [cutoverUsed EXCEPT !.faults = @ + 1]
  /\ archiveRow' = [archiveRow EXCEPT ![s].expired = TRUE]
  /\ UNCHANGED <<library, cutoverMarker, queueLocks, legacyCommand, importer, stagedSidecars, publishing, starter>>

\* A worker recovers the expired job, its publication under the same lock.
RecoverImported(s) ==
  /\ archiveRow[s].job = "running" /\ archiveRow[s].expired /\ publishing[s] = "none" /\ ~StarterLocked(s)
  /\ \E st \in {"queued"} \cup (IF archiveRow[s].token THEN {"completed"} ELSE {}) :
       archiveRow' = [archiveRow EXCEPT ![s].job = st, ![s].token = FALSE, ![s].expired = FALSE]
  /\ UNCHANGED <<library, cutoverMarker, queueLocks, legacyCommand, importer, stagedSidecars, publishing, starter, cutoverUsed>>

\* The first copy of a disc ends: its archive is fenced while anything of the
\* library is staged.
ArchivePublished(s) ==
  /\ ~archiveRow[s].exists /\ cutoverUsed.meddling < MaxMeddling
  /\ archiveRow' = [archiveRow EXCEPT ![s] = [NoRow EXCEPT !.exists = TRUE, !.native = TRUE,
                                                           !.pending = stagedSidecars # {}]]
  /\ cutoverUsed' = [cutoverUsed EXCEPT !.meddling = @ + 1]
  /\ UNCHANGED <<library, cutoverMarker, queueLocks, legacyCommand, importer, stagedSidecars, publishing, starter>>

\* A person completes the review, with a selection, and an encode of it.
ReviewedAgain(s) ==
  /\ archiveRow[s].exists /\ ~archiveRow[s].reviewed /\ ~archiveRow[s].pending
  /\ archiveRow' = [archiveRow EXCEPT ![s].reviewed = TRUE, ![s].job = IF @ \in {"none", "failed"} THEN "queued" ELSE @]
  /\ UNCHANGED <<library, cutoverMarker, queueLocks, legacyCommand, importer, stagedSidecars, publishing, starter, cutoverUsed>>

\* A person edits, adds or removes a sidecar, or replaces an image.
Meddle(s) ==
  /\ cutoverUsed.meddling < MaxMeddling
  /\ cutoverUsed' = [cutoverUsed EXCEPT !.meddling = @ + 1]
  /\ \/ library[s].state # "absent" /\ library' = [library EXCEPT ![s].image = 1 - @]
     \/ \E st \in {"absent", "good", "corrupt"} \ {library[s].state} : library' = [library EXCEPT ![s].state = st]
  /\ UNCHANGED <<cutoverMarker, queueLocks, legacyCommand, importer, catalogVars, publishing, starter>>

CutoverNext ==
  \/ \E c \in LegacyCommands : CommandArrives(c) \/ CommandGoesOn(c) \/ CommandArchives(c) \/ CommandPublishes(c) \/ CommandEnds(c)
  \/ \E i \in Importers : ImportBegins(i) \/ HelperTakesIntent(i) \/ ImportWork(i) \/ ImportDies(i)
  \/ WorkerStarts
  \/ \E s \in EncodedNow : \/ ClaimImported(s) \/ BeginMutation(s) \/ EndMutation(s) \/ EncodingStops(s)
                           \/ PublisherDies(s) \/ EncodeLeaseEnds(s) \/ RecoverImported(s)
  \/ \E s \in Sidecars : ArchivePublished(s) \/ ReviewedAgain(s) \/ Meddle(s)

CutoverSpec == CutoverInit /\ [][CutoverNext]_cutoverVars

---------------------------------------------------------------------------
(* Properties.                                                             *)

CutoverTypeOK ==
  /\ \A s \in Sidecars : /\ library[s].state \in {"absent", "good", "flawed", "corrupt"}
                         /\ archiveRow[s].job \in {"none", "queued", "running", "completed", "failed"}
                         /\ archiveRow[s].token => archiveRow[s].job = "running"
  /\ cutoverMarker.status \in {"none", "retired", "repair"}
  /\ queueLocks.shared \subseteq LegacyCommands /\ queueLocks.gate \in Importers \cup {NoOne}
  /\ starter.authorized \subseteq Sidecars

\* One queue at a time works on this library: while a legacy command works
\* there is no marker, and no worker encodes an imported job whose output
\* the legacy queue made (refuse_retired_legacy_queue under the lease,
\* completedAt of the captured job).
OneQueueAuthority ==
  /\ (\E c \in LegacyCommands : legacyCommand[c] = "work") => cutoverMarker.status = "none"
  /\ \A s \in Sidecars : publishing[s] # "none" /\ ~archiveRow[s].native => ~library[s].output

\* No fence falls before the whole library is in: once a captured archive can
\* be reviewed and encoded again, the marker says retired, and the catalog
\* has every archive and every sound job the marker captured, whichever
\* import persisted them.
UnfencedIsWhole ==
  \A s \in Captured :
    archiveRow[s].exists /\ ~archiveRow[s].pending =>
      /\ cutoverMarker.status = "retired"
      /\ \A t \in Captured : /\ archiveRow[t].exists
                             /\ cutoverMarker.captured[t].state = "good" => archiveRow[t].job # "none"

\* Neither an import nor a starting worker fails the job of an encoder that
\* is between the exchange of its output and its commit (the token blocks
\* the boundary, the mutation lock the takeover).
PublisherKeepsItsRow ==
  \A s \in Sidecars : publishing[s] = "mutating" => archiveRow[s].job = "running" /\ archiveRow[s].token

\* Once an import's helper has the intent lock it gets the gate, or its
\* import has died: no new command enters while the old ones finish, however
\* many wait (the double lock of hold_cutover).
CutoverDrains ==
  \A i \in Importers : importer[i].pc \in {"drain", "orphanDrain"} ~> importer[i].pc \notin {"drain", "orphanDrain"}
=============================================================================
