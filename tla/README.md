# Formal models of rip-dvd

rip-dvd archives DVDs: an Archive Worker copies discs and recovers sectors that
the first copy could not read, an Encode Worker makes renditions, a web
application and a command line tool submit work, and all of them share one
SQLite catalog and one library of files. The models here cover what is hard to
see in tests of that system: several processes, each with several pollers,
leases that run out while their holder is alive, crashes between two durable
steps, and files that must agree with a database.

## The system

`src/CONTEXT.md` and `src/docs/adr/` name the parts. CDA below is
`src/packages/data-access/src/internal/create-data-access.ts`, which holds
every transaction.

| Part | State it keeps | Operations | What is hard | What makes it correct |
|---|---|---|---|---|
| Recovery batch and checkpoint evidence (`dvd-recovery-batch.ts`, `dvd-recovery-journal.ts`, `dvd-archive-checkpoint.ts`) | image, undo journal, manifest chain, pointer, projected checkpoint | commit a batch of one sector, read a checkpoint | crash, I/O error or power loss between any two of 14 durable steps | readable evidence always describes the image; the undo information is durable first |
| Reconciliation (`dvd-recovery-reconciliation.ts`, its worker) | the same files; an operation row with a lease | submit, claim, renew, requeue, repair, complete, fail | interrupted repairs repaired by another execution; releases after a lost lease | every interruption can be repaired, and the repair ends; a repair never runs beside a pass |
| Archive Recovery lifecycle (`dvd-recovery-worker.ts`, CDA 10786-13853) | status, attempt, reservation with claim and pass accounting | poll, settle, fault, stop, take over, resume, wait for disc | claims taken from a pass that may be alive; stop racing the read it stops | the reservation covers all I/O; stopped means at rest; sectors counted once; stops and passes end |
| Disc Verification and Confirmation (`dvd-disc-verifier.ts`, CDA 14241-15242) | verification row with lease, confirmation | submit, claim, sample, complete, fail, expire, confirm | retries queued inside completion; confirmations bound to one execution | only verified or confirmed discs are read; verifications end |
| Archive Image Ownership (`packages/worker-runtime`) | lock files, claims, admission queue | shared and exclusive ownership, previews | helpers that inherit a lock and outlive their worker | one writer or many readers; nobody waits for ever |
| Encode Jobs and their publication (CDA 23435-26052, `publication-recovery.ts`, `atomic-exchange.c`) | job row with claim, publication and cleanup columns; partial, final and quarantined files | enqueue, claim, renew, publish, replace, cancel, requeue, recover | a crash between a rename and its row; cancellation and correction racing a publication | no output is lost, a finished job's own output is in place, encodes end |
| Archive Requests, Archive Jobs, first copy (CDA 22129-23434, `dvd-archiver.ts`) | request, job with claim, partial, rescue workspace, published image | submit, start, copy, save, publish, complete, cancel, recover | an image linked before its row; an orphaned copy helper; a lost claim; an accepted image that a retry reads on | what is catalogued is the image the attempt proved, at its final name, read into by nobody; requests end |
| Disc Inspections (CDA 20850-22128, `disc-inspection-runner.ts`) | current inspection, attempts, detected discs | observe, settle, scan, prove, complete, retry | a disc swapped while it is scanned; a generation that churns | an inspection names the disc it scanned; a disc that stays is examined |
| Catalog Review and Re-archive Acceptance (CDA 2900-7400, 15470-20724) | revision, selections, proposal, mutation keys | create, correct, repair, mark, complete, propose, accept | validation outside the writer; requests sent again | a review is of what was seen; a request is applied once |
| Notifications (`internal/notifications.ts`, `notification-dispatch.ts`) | subscription, event, receipt, delivery with a lease | record, snapshot, claim, push, settle, maintain | an answer after its lease; history that ages out under a replayed event | one courier per delivery, recipients snapshotted once, deliveries end |
| Deployment (`scripts/deploy.mjs`, `scripts/update.sh`) | plan, stage and evidence files, two locks, HEAD, images, schema, services | plan, apply, update, contain, start by hand | a killed controller whose updater goes on; failures classified by a stage file | services fit the schema; what a controller reports is so |
| Damage previews, browser renditions | request records, media | request, generate, cancel | holds a Recovery and the image | the hold always ends |
| Legacy migration and cutover (`legacy-sidecar-migration.ts`, `legacy-sidecar-cutover-marker.ts`, `legacy-cutover-reconciliation.ts`, `legacy_queue_lease.py`) | sidecar files, marker file, staged sidecars, fences on archives, two kernel locks | legacy commands, import, repair, fence at worker start | an import killed between marker and catalog; two queues; publishers at work | one queue works at a time; no fence falls before the whole library is in; no publisher loses its row |
| Audits, encoding profiles, structure analysis, web, CLI, rest of the Python tool | their own rows, or none | mostly one transaction each | little interaction | see `PROJECT.json` |

How they interact: the worker processes never call each other. They meet in
SQLite transactions (claims, leases, statuses), in the kernel's file locks
(image ownership, one exclusive descriptor per optical device) and in the
files. The Archive Worker runs its recovery, verification and reconciliation
pollers side by side in one process (`src/apps/archive-worker/src/index.ts:80-94`),
so two pollers interleave even when there is one worker.

`PROJECT.json` lists every component with its status, the hazards this code is
exposed to with the properties that watch them, and for every definition the
lines it models.

## What is modelled

### RecoveryCheckpoint and RecoveredArchive

`RecoveryCheckpoint` is the commit protocol of one recovery batch and of its
reconciliation. Both run under exclusive image ownership, hence one control
state `pc`, whose values are the steps of `runOwnedBatch` and
`runOwnedReconciliation` between two crash boundaries.

| Model | Code |
|---|---|
| `image`, `mtime` | the image's bytes per sector and storage unit, and the modification time the manifests bind |
| `dir`, `disk` | evidence directory as processes see it, and as a power loss would leave it; `SyncJournal`, `SyncPointer` ... copy one to the other |
| `db`, `dbDisk` | projected checkpoint, and its durable part (WAL, `synchronous = NORMAL`); `SyncDatabase` is a WAL checkpoint |
| `BeginBatch` ... `SyncCleanup` | the steps of a batch, one action for each durable effect; a failed read skips journal and image |
| `StartReconcile`, `Examine` ... `SyncDropJournal` | what an interruption left is classified (`RollsBack`, `DropsFailedRead`, `RollsForward`), then undone or finished |
| `StepFails`, `ReconcileFails`, `Crash`, `PowerLoss`, `WriteBack`, `TempCollision` | failing steps, death, power loss, kernel write-back, a temporary file of a dead process with the same pid |
| `Resume` | an operator's resume after a storage fault |

Manifests are records instead of digests of bytes; a pointer is the manifest it
names. A storage unit is at most a sector (`unitBytes <= 2048`), so that a
sector has one or more units; larger units would make a batch cover several
sectors' bytes and are not modelled. `RecoveredArchive` is the promise to
readers: a source map that advances a sector at a time, offered only with
its own bytes. `Abstract` instantiates it with the pointer's map and what
`readCommittedDvdCheckpoint` would accept.

### ArchiveRecovery

`ArchiveRecovery` says who may run such batches and repairs, for one archive.
Worker executions each run three pollers; an operator and the world around them
act at any time.

| Model | Code |
|---|---|
| `rec`, `work`, `left` | `archive_recoveries`, `archive_recovery_work` (reservation, claim, pass accounting), unrecovered sectors of the projected checkpoint |
| `ver`, `recon` | latest verification with its confirmation, latest reconciliation operation |
| `disc`, `preview`, `orphans` | insertion and whether the latest verification saw it; damage preview; helpers that outlive their process |
| `evidence` | how far the last batch got, an abstraction of `RecoveryCheckpoint`: `undo` (journal, perhaps bytes), `recovered` or `failed` (pointer moved, not projected), `spent` (projected, journal left) |
| `run[w]` | where each poller of execution `w` is between two awaits |
| `Claim`, `Load`, `NextSector`, `Admit`, `EndRead`, `BeginBatch`, `BatchStep`, `Settle`, `Catch` | `pollDvdRecoveryPass` and the transactions it calls |
| `FindStopping`, `PrepareStop`, `StopDevice`, `StopRepair`, `CompleteStop`, ... | `finalizeStop`: the stopped pass itself or any other poller finishes a stop |
| `BeginTakeover`, `TakeDevice`, `TakeRepair`, `FinishTakeover`, ... | `reclaimInterruptedPass` |
| `ClaimVerification`, `OwnCheckpoint`, `Sample`, `EndVerification`, `ExpireVerification`, `Settled` | `pollDvdDiscVerification`; `Settled` is what its end means for a waiting pass |
| `ClaimReconciliation`, `RunReconciliation`, `ReleaseAfterReconciliation`, ... | `pollDvdRecoveryReconciliation` |
| `SubmitVerification`, `Confirm`, `RequestResume`, `RequestStop`, `SubmitReconciliation`, `RequestPreview` | operator commands |

What it abstracts, and why that is sound for the properties:

* Claim tokens are not numbered. `by` is the execution whose poller holds the
  current token, `Nobody` when no poller does. A token is only compared with
  the current one, so this is all that matters.
* Only the latest verification is kept. An older one matters as what a
  reservation is still bound to (`work.bound = "older"`), which no transaction
  accepts.
* A lease that nobody renews runs out at any time; one that is renewed runs out
  only when its holder stalls, which a budget bounds. A pass renews while the
  Recovery is running; once it is stopping, a long read or batch outlasts its
  lease freely. A takeover does not renew its lease (65 seconds) and may
  overrun it, under a budget of its own.
* Ownership of the image is a predicate (`ImageFree`, `ImageTurn`): conflicts
  are refused at once, a preview makes others wait. Whoever dies inside a
  batch or a read may leave a helper that keeps the image or the device.
* Of the storage preflight only its refusal is modelled; drive speed, graceful
  shutdown and the preview's own staleness checks are left out. Encode Jobs do
  not appear: `dvdRecoveryEvidenceEncodingGateClosed` (CDA 1735) refuses
  encodes of archives with recovery evidence.

`MCArchiveRecovery` names the budgets of each run.

### The services around a recovery

Eight modules, one for each service, with names that do not clash: `MCServices`
extends them all. They share no variable (in the code they meet only in rows
that these models make nondeterministic inputs of each other), so two of them
together can do nothing that each cannot do alone. `subject` is chosen in the
initial state and names the one that runs; the others rest in one state each,
and the VIEW of the safety run leaves them out. Of the first copy the VIEW also
leaves out what no later step depends on (`IntakeView`: the numbers of requests
and inodes, the maps of requests that are closed, the bytes of inodes no name,
map or worker leads to any more).

**EncodeJobs**: all jobs of one output path of one archive. A file is its inode:
the claim whose encoder wrote it, `Original`, or `Foreign`.

| Model | Code |
|---|---|
| `encodeJob` | `encode_jobs`: status, claim and lease, reserved path, replacement identity, publication fence, publication and partial-cleanup columns |
| `outputFile`, `outputLock` | the names in the output directory (partial, final, quarantined names) and the flock of the mutation lock |
| `encoder`, `publisher` | the HandBrake processes, which may outlive their worker; the worker between two awaits |
| `ClaimEncode`, `EncodeWork` (start, renew, close, stage, exchange, commit, finish) | `encode-worker.ts`, `publishOutput`, CDA 24300-25900 |
| `EncodeReconcile` | `reconcilePendingPublications`, recovery of expired leases and of cancelled rows |
| `EnqueueEncode`, `RequestEncodeCancellation`, `RequeueEncode`, `SupersedeSelection`, `CompleteReview...` | operator commands and what a catalog review does to jobs |
| `EncodeAborts`, `PublicationInterrupted`, `EncodeWorkerCrashes`, `ForeignOutput` | failing steps, deaths, another program's file |

**Notifications**: one subscription, its events and deliveries; `Dispatch` is claim,
check, push and settle of `notification-dispatch.ts`, `Maintain` the maintenance
every pass begins with, `Register` / `Disable` the browser. An answer may come after its
lease, or never.

**ArchiveIntake**: requests of the discs of one fingerprint, the job that serves
one of them, the rescue workspace and the image's two names. `LaneStep(w)` is
the worker between two awaits (start, copy, save the rescue, accept an end, link,
quarantine, complete); `RecoverExpiredJob` and `FinalizeExpiredCancellation` are what every poll does for
others; `OrphanReaderEnds` ends a helper that kept the device. What a request keeps of
an image (`rescue[r].res`) decides how its next attempt goes on:

| `res` | What is kept | The next attempt |
|---|---|---|
| `prefix` | read up to an end that is not proved (continuation "boundary") | reads on in place |
| `damaged` | of full size, sectors unread | reads on in place, or adopts it where it was already linked |
| `corrected` | cut at the proved end, sectors unread | reads on in place, or is published where it was already linked |
| `clean` | of full size, nothing unread | links it, no copy |
| `proven`, `boundary` | the end is proved: with a result of the disc's declared size (an acceptance that is not through), or with none or nothing unread | accepts (again) and links it, no copy |
| `torn` | the maps of an acceptance and the image disagree | refuses the workspace |

`Resumed` are the three continuations of `dvdCopyContinuationFromWorkspace`, `Publishable`
the guard before a boundary publication. Acceptance is `ProveBoundary`, `StageBoundary`
(second map), `TrimBoundary` (the image is cut), `AcceptBoundary` (proof of the cut image, second map
promoted) and `LinkBoundary`, each behind the authorization of its own. Simplified: the
acceptance right after a corrected retry and the one in publication are one pass; the first record of
an unproven end is one step, which may be left torn; whether a proved image has sectors unread is
not told apart before `AcceptBoundary`, which may say either; the digests of retained sectors are data
(a retry that does not keep them is a `RejectImage`).

**DiscInspections**: one drive. `BegunOrResumed` is the case analysis of
`beginOrResume`; `PollStep` observes, settles, scans, proves that the medium stayed, marks the
disc and completes. A generation is the medium's name; churn renames an insertion.

**ImageOwnership**: the registry, the namespace's identity files, the admission queue,
the flock a helper inherits and the writer's claim with its heartbeat, for
one image; each file operation is a step.

**CatalogReview**: two archives of one disc. `Handle(o, t)` is the transaction of
one try of an operator's request; the completion of a review alone validates before it
commits. `Recorded` is the mutation key, `PreviewStands` the check of what a preview promised.

**LegacyCutover**: one originals library while its queue moves from sidecar files to the catalog. A
sidecar has one job.

| Model | Code |
|---|---|
| `library`, `cutoverMarker` | each sidecar with its image's version and legacy output; the marker (`retired`, or `repair`) with what it captured |
| `queueLocks`, `legacyCommand` | the intent lock and the gate; `legacy_queue_command_lease` around `archive` and `encode` |
| `archiveRow`, `stagedSidecars` | the imported (or native) archive with its fence, review and encode job; `legacy_cutover_staged_sidecars` |
| `importer` | an import between two durable steps: locks, discovery, `StageFirst` / `StageRetired` / `StageRepair`, `Publish`, `Examine` and `Persist` of one sidecar after the other, `GivesUp` or `LiftFences` |
| `starter` | `reconcileLegacyRepairCutover` of a worker that starts |
| `publishing` | the encoder of a job between claim, mutation lock and commit: what `EncodeJobs` has in detail |
| `Meddle`, `ArchivePublished`, `ReviewedAgain` | files edited by a person, a first copy that ends, a completed review |

A dead import's helper notices only once it has both locks (`OrphanHelperEnds`). Left out:
markers of schemas 1 to 3, sidecars that claim each other's archive, and a helper killed alone,
which releases the locks while its import goes on.

**Deployment**: controllers side by side, the updater each spawns, and an operator.

| Model | Code |
|---|---|
| `host`, `images`, `runtime` | HEAD, remote and schema; the commit each image and each running service came from |
| `files`, `deployLocks` | plan, stage and evidence files; `run.lock` and the updater's lock (file descriptor 9) |
| `Plan` ... `ReportPlan`, `Apply` ... `IndependentVerify`, `Contain` | `createPlan`, `applyPlan` between two awaits |
| `BeginUpdate` ... `VerifyServices` | the stages of `update.sh` with the compose scripts it calls |
| `AbortUpdate`, `LossNoticed`, `LockHelperDies`, `ControllerKilled`, `OrphanDies` | the loss of the lock, and an updater left to itself |
| `UpdateByHand`, `StartByHand` | `update.sh` and `compose-start.sh` run by an operator |

Active work, a required review and scarce resources are refusals that may come
at any look. `compose-start.sh` takes no lock: the model lets an operator run it
only when the services are down and nobody updates (run beside an update it
could start services from images that no longer fit the schema). Commits are a line of numbers.

## What the runs show

| Run | Instance | Shows |
|---|---|---|
| `checkpoint_crash` | 2 sectors of 2 units, 3 revisions, 2 interruptions, no power loss | `InterruptionsReconcile`, `ProjectionTrailsPointer`; `InterruptedRecoveryResumes` under fairness; refinement `ReadersSeeAnArchive` |
| `checkpoint_power` | the same, both interruptions may be power losses | `ReadersSeeCommitted`, `UndoIsDurable`, `OwnerNeverStuck` |
| `recovery_passes` | 2 executions, 2 sectors; one crash, one stall | `PassAccounting`, `CompletedIsWhole` |
| `recovery_operator` | 1 execution, 1 sector; one each of crash, stall, resume, reconciliation and its stall, preview, insertion | `StoppedIsQuiescent`, `StatusesAgree`, `DirtyEvidenceIsGuarded` |
| `recovery_settles` | 2 executions, 1 sector; one crash, one overrun | `ReservationCoversIO`; `StopSettles`, `RunningSettles`, `VerificationSettles` under fairness |
| `services` | see `Services.cfg` and below | `ServicesTypeOK` (with the legality of encode rows, `EncodeRowsLegal`); `OutputsSurvive`, `CompletedInPlace`, `CancelClosesEncoder`; `OneCourierPerDelivery`, `RecipientsSnapshottedOnce`; `CataloguedImageStands`, `RequestsFollowJobs`; `InspectionNamesItsDisc`; `PreviewAdmittedAlone`, `WriterIsNamed`; `ReviewedAsSeen`, `AppliedOnceAsShown`; `RuntimeFitsSchema`, `ReportsHold`; `OneQueueAuthority`, `UnfencedIsWhole`, `PublisherKeepsItsRow` |
| `services_live` | see `ServicesLive.cfg` and below | `EncodeSettles`, `DeliverySettles`, `BusyRequestSettles`, `InsertionExamined`, `TicketsAreServed`, `CutoverDrains` under fairness |
| five violation runs | see below | disagreements between code and documents |

Bounds. Two sectors and three revisions let a second batch start from
evidence that an interrupted first one left, with the same or with the other sector; two
units make a torn sector possible; two interruptions let the repair of a crash
be interrupted itself, and a third one meets a state the second could have
left. In `ArchiveRecovery` two executions are every pair of old and new holder
of a claim; two sectors (in `recovery_passes`) make partial passes, one recovered and one
failed; one disturbance of each kind is enough for each stale holder to meet each
successor once. Submitting, confirming and stopping are unbounded. Symmetry
(on executions; on the workers and jobs of `services`) is used in safety runs only. The checks for deadlock are off because
the systems may rest: a faulted Recovery waits for an operator, a stopped or
completed one for nobody.

Bounds of the services, and the case each is there for:

| Module | `services` | `services_live` |
|---|---|---|
| EncodeJobs | 2 jobs (one corrects the other, or both want the path), 2 workers, 2 claims, 1 fault, 1 foreign file, 2 operator requests | 1 worker (restarted), 2 claims, 1 fault, 1 request |
| Notifications | 1 event, 2 couriers, 3 attempts, 3 subscription generations (opt out and in again, twice) | 2 attempts, 2 generations |
| ArchiveIntake | 2 workers (a stale one meets its successor), 2 requests of 1 or 2 discs with one fingerprint (both may be open), 3 jobs (the third finds what two left), 1 stop | 2 workers, 1 request, 2 jobs, 1 stop |
| DiscInspections | 2 pollers, 2 discs, 2 generations (one swap or one churn), failure limit 1 (5 in the code), 1 stop or stall, 1 manual retry | 1 disc, no manual retry |
| ImageOwnership | 3 processes (each kind meets two others), nobody stops | 2 processes, 1 stop |
| CatalogReview | 2 operators, 2 selections, 2 requests of two tries each, 1 encode job | rests |
| Deployment | 2 controllers and a hand-run updater, 3 commits, 3 runs, 1 kill or lost lock | rests |
| LegacyCutover | 1 sidecar with damaged records, perhaps catalogued already, and 1 still to be written; 1 command, 2 imports (the second repairs what the first left), 1 edit or new archive, 1 death or stalled publisher | 1 sidecar, 2 commands, 2 imports, 1 death |

Every worker, poller and controller may be ahead of or behind every other one; a
second fault of the same kind meets only states the first can leave, except
where it is said (`Limit` in ArchiveRecovery).

Exceptions that properties name, each a state the code cannot leave by itself:
`Stranded` (EncodeSettles), `CancellationWedged` (BusyRequestSettles),
`MistakenForSettling` (InsertionExamined), `mixed` and `undeployed` (Deployment); they
are described under observations.

A stall of one of two executions breaks `StoppedIsQuiescent`,
`ReservationCoversIO` and `DirtyEvidenceIsGuarded` (findings 4 and 5), so these
are checked with one execution that stalls, or with two that do not.
`recovery_passes` checks that the other invariants survive even that.

Fairness. In `RecoveryCheckpoint` only `Reconcile` of a running Recovery is
weakly fair: the poller reclaims an interrupted pass (`reclaimInterruptedPass`)
and repairs it; paused and faulted ones wait for an operator. In
`ArchiveRecovery` each poller is weakly fair as a whole (each runs on a timer,
and every await in it ends: the drive's commands time out, verification reads
have deadlines, locks are not waited for except behind a preview, which yields), a dead execution is restarted (the containers'
restart policy), a lease nobody renews runs out, an orphaned helper ends and a
preview ends. Nothing forces an operator, a disc change or a crash. The
budget on overruns matters: two executions whose repairs always outlast the
takeover lease would take the claim from each other for ever, which is listed
as a hazard.

In `ServicesFairSpec` the steps of each worker, courier, lane, poller and
process are weakly fair (event loops that poll again; every await in them has a
timeout or ends with its process), and so are clocks (leases nobody renews end, retries and
settling deadlines come due), the exit of a signalled encoder, the end of an orphaned copy
helper, and the landing of a heartbeat already sent. A legacy command ends, and blocked `flock` calls return
when the lock stays free; that the import's helper, which only tries every 50 ms, ever finds the intent
lock free is not assumed, so `CutoverDrains` speaks of an import that has it. Nothing an operator does
and no fault is fair.

### Disagreements found

1. `DurabilityOrder` (`checkpoint_durability`): the journal's removal is
   durable before the database commit it should follow.
2. `DatabaseFollowsDisk` (`checkpoint_ahead`): reconciliation projects a
   renamed pointer that was never synchronized.
3. `FinishedPassContinues` (`recovery_confirmed`): a pass authorized by a Disc
   Confirmation that recovers some of its sectors is faulted when it settles,
   because settling queues a verification only after a *matching* one.
4. `StoppedIsQuiescent` (`recovery_stop`): a stop finished by another execution
   does not revoke the claim of a pass that stalled past its lease; that pass
   can still begin its batch between the stop's repair and its end.
5. `ReservationCoversIO` (`recovery_release`): a reconciler that stalled past
   its lease releases the reservation of a pass that began since.

`PROJECT.json` quotes code and document for each.

### Observations

States the models reach that no document rules out; the hazards list carries them.

* A worker killed after a rollback restored the prior output and the partial was set
  aside, but before `completePartialCleanup` commits, leaves a row that
  `reconcilePendingPublications` (`publication-recovery.ts:1353`) refuses at every poll
  (`Stranded`).
* `quarantinePublishedArchive` (`dvd-archiver.ts:1838`) refuses when another inode has the
  `.failed` name: an expired cancellation of that request never finishes (`CancellationWedged`).
  And after a corrected image was linked but not completed, a request cancelled from
  needs-attention leaves an image that every new request finds not to match.
  An attempt that stops, or loses its claim, between the cut of an image and the map that
  follows it leaves maps that no load accepts (`torn`): the same cancellation then never finishes.
  And a cancellation that finds an end proved but not accepted returns early
  (`dvd-archiver.ts:1436`), so a short image that an earlier attempt linked stays at the ISO path.
* An inspection that fails while settling keeps its phase, so the next disc is taken
  for the same insertion (CDA 20898) until the drive was empty or somebody retries
  (`MistakenForSettling`). Its claim has no heartbeat during the media observation, and the
  unfenced `clearCurrent` (CDA 21952) can abort another poll's inspection.
* The first publication of an image, killed while it makes the namespace or between
  the registry, the lock file and the identity records, leaves a consistency fault for a person.
* A selection adopted by a Re-archive Acceptance offers `correct`, which
  `insertDiscSelection` (CDA 4026) refuses for a fresh archive.
* An update that moved HEAD and failed before its services started leaves the old ones
  running; the next plan says `already_current` (`deploy.mjs:218`, `undeployed`). A build that
  fails half way leaves images of two commits, which `compose-start.sh` by hand then starts
  (`mixed`). A run whose lock helper dies reports a lost lock although its success was
  verified, and is contained. After a kill, `status` says running for ever.
* A starting worker rereads the marker before its transaction begins
  (`legacy-cutover-reconciliation.ts:319-332`): an import that ends in between is fenced again until
  the next one. A job that an import refused as conflicting is taken as it is when the import is run
  again to repair, because the marker then captures what is there.
* A running job of a superseded selection whose path a later replacement reserved cannot take the
  path back when it is cancelled: the unique index (`schema.ts:2504`) refuses, the worker logs it
  (`publication-recovery.ts:2545`) and the job stays with its cancellation requested. It takes three
  jobs in a chain, one more than the runs have.
* A second Re-archive Acceptance may meet a selection that an earlier one left on the fresh archive
  (CDA 20386-20591 does not forbid it, the page hides the list, `catalog-review-editor.tsx:278`); the
  review then is of what was shown and of that one.
* A helper of a verification that a crash orphaned in attempt 1 outlives its attempt: the pass with
  nothing left to do settles as paused, a resume begins attempt 2, and Stop there asks only for the
  identities of the current attempt (`dvd-recovery-worker.ts:122-161`, `354-411`), so the recovery is
  stopped while that helper may still read. It takes two crashes and a resume: a pass that failed
  every sector dies before it settles, then the process of the verification that follows. That only
  this breaks `StoppedIsQuiescent` while leases are kept is a theorem (`StoppedIsQuiet` below).

## What is proved

`RecoveryCheckpointProofs` proves, for any sets of sectors, any number of units and
revisions, any number of interruptions, under `ConstantsAssumption` only (positive numbers,
absent values distinct from real ones):

* `TypeCorrect`: `Spec => []TypeOK`;
* `CommittedReads`: `Spec => []ReadersSeeCommitted`, power losses included;
* `UndoDurable`: `Spec => []UndoIsDurable`;
* `ImplementsArchive`: without power losses `Spec` implements `RecoveredArchive`.
* `InterruptionsReconcileHolds` and `ProjectionTrails`: without power losses, that is for
  `MaxPowerLoss = 0`, `Spec => []InterruptionsReconcile` and `Spec => []ProjectionTrailsPointer`. With
  them both are false: TLC finds SQLite projected from a pointer whose directory entry was not yet
  durable, the divergence `checkpoint_ahead` shows, and the power loss that takes the pointer back.

The argument. `ReadersSeeCommitted` is not inductive: it speaks only of states
where nobody works, and a crash may happen at any step. The inductive invariant
is `IInv == TypeOK /\ Evidence /\ Control`. `Evidence` holds in every state:
wherever image bytes differ from the durable pointer's map, the disk has a
complete journal of that pointer with the bytes to put back, and the directory
as processes see it tells the same story. `Control` adds, for each group of
steps (`AtBegin`, `AtJournal`, `AtWrite`, `AtSync`, `AtInstall`, `AtSettled`, `AtRollback`),
how far the step has come: which units are written, that the journal is already
durable, that nothing is left to undo. `Evidence` is what a crash
preserves; `Control` is what lets the steps that change the pointer or remove
the journal preserve `Evidence`. Both are proved action by action
(`EvidenceStep`, `ControlStep`), and a reader's checkpoint then is right because
a journal in the directory hides it and without a journal no byte differs. The
refinement follows from `OfferedView`: pointer changes are the abstract advances,
all else hides or offers the same map.

What an interruption leaves (the last two) rests on a second invariant, `KeptInv`, beside `IInv`.
Its part `Kept` is what the directory, the projection and the image's modification time say of one
another whatever died: the manifests follow one another (`Chained`), the projection is the pointer's
or the one before (`Trailing`), a complete journal undoes the batch of the pointer or explains it and
without one only a failed read has left a manifest (`JournalKept`), and the modification time is off
only under a journal that undoes the writes (`VersionKept`). `StepKnows` is what the worker knows
beyond that at each step, for instance that the projection has caught up where the journal is removed.
Reconciliation then always finds its case: `JournalKept` names it, and the evidence of `IInv` gives
the bytes it checks. `KeptInv` was checked with TLC on the instance of `checkpoint_crash` (347,360
states) before it was proved.

`ArchiveRecoveryProofs` proves, for any set of executions, any number of sectors
and any budget of crashes, stalls, overruns, resumes, reconciliations, previews
and insertions, under `RecoveryConstants` only:

* `TypeCorrect`: `Spec => []TypeOK`;
* `SectorsCountedOnce`: `Spec => []PassAccounting`;
* `StatusMatchesReservation`: `Spec => []ReservationMatchesStatus`;
* `ReconciliationAlone`: `Spec => []ReconciliationExcludesPass`;
* `RowsAgree`: `Spec => []StatusesAgree`, both of them;
* `CompletedIsWholeHolds`: `Spec => [](Prompt => CompletedIsWhole)`;
* `EvidenceGuarded`: `Spec => [](Punctual => DirtyEvidenceIsGuarded)`;
* `IOCovered`: `Spec => [](Punctual => ReservationCoversIO)`;
* `StoppedIsQuiet`: `Spec => [](Punctual /\ NoOldHelper => StoppedIsQuiescent)`.

The argument (`ArchiveRecoveryInvariant` defines `IInv` and `LeaseInv`; the lemmas about the
operators that actions share open `ArchiveRecoveryProofs`). That a pass counts every sector once is not
inductive. A takeover, a stop or a reconciliation projects a batch another
poller began, so a count can only be right if evidence the database has not
seen yet (`undo`, `recovered`, `failed`) always has a sector left to count for, and
if a started pass that merely waits left no evidence behind (`Uncounted`). That in
turn needs to know that whoever gives a reservation back with its counts (a
settlement, a preview, the end of a takeover) found the evidence settled, and
that a batch begins only with a sector still to try: `Control` says so of the one
poller that holds the claim, at each of its steps. `Counted` ties the counts
together, `Rows` keeps a claimed reservation with an unsettled recovery, `Typed` and
`Bounded` give the types. `InvStep` has one lemma per conjunct, each with one step
per action. `IInv` was checked with TLC on two executions, one and two sectors
and several budgets before it was proved.

The last four theorems are about what claims are for, and have hypotheses about the behaviour so far,
each of them needed. `Prompt` says that no reconciler has outlasted its lease yet, `Punctual` that
no pass and no verification has either. Without them TLC finds each property violated within the
instances of `recovery_release` and `recovery_stop` (disagreements 4 and 5 are two of these).
Crashes, overruns of takeovers, resumes, previews and reconciliations are not restricted, and a
behaviour that never stalls satisfies both for ever. `NoOldHelper` says that no helper reads the disc
that outlived its process while the recovery is in a later attempt than its first; the observation above
shows why. They follow from one more invariant, `LeaseInv`, with a part for each hypothesis:

* always: a stop that was taken up stands until its attempt ends (`StopStanding`), a reservation that
  waits has admitted no device (`WaitingUnadmitted`);
* while `Prompt`: a reconciler at work holds the operation (`ReconcilersHold`), so between its repair
  and its release nobody else writes the image (`RepairedRests`), and evidence is left behind only under
  a claim, a fault or an overtaken stop (`DirtyIsKept`);
* while `Punctual`: whoever reads the disc or writes the image has the claim of the current attempt
  (`BusyHolds`), because a running recovery's claim lapses only under a takeover (`HolderRenews`); a
  stop that found the device free finds it free at its end and its evidence settled (`StopAlone`,
  `StopRepaired`); a helper that outlived its process and still writes the image keeps the claim from
  every poller that might give it back (`ImageHeld`), and of one that reads the disc the rows know,
  as long as the recovery is in its first attempt (`SamplingCounts`, `HelperKnown`).

Each conjunct has a lemma that every step keeps it. They share, for every action, one lemma that says
what it leaves of the rows and of its poller (`ClaimEffect` to `RestartEffect`), and a few that say how a
state is entered or left by any action (`ClaimTaken`, `BusyEntered`, `StopMoves`, `PausedEntered`, ...).
TLC found the conjuncts of `LeaseInv` true on the instances of `recovery_operator`, `recovery_stop` and
`recovery_release` (7,186,422, 118,842 and 520,679 states) before they were proved.

Five modules prove theorems about services, each along inductive invariants of that module; a sixth
composes them.

* `OperationsProofs`, `RuntimeFits` (`DeploySpec => []RuntimeFitsSchema`), for any controllers, commits,
  runs and lapses, under `DeployNames` (the operator and nobody are not controllers). Whoever is
  between two stages of an update holds the updater's lock (`UpdaterAlone`); services and images are never
  ahead of HEAD (`Behind`); from the last build to the start every image is HEAD's, and while the
  schema moves the services are down (`Ready`). `ReportsAreTrue` (`DeploySpec => ReportsHold`) has
  `ClaimInv` on top: HEAD is deployed unless an update that moved it has not started the services
  (`HeadDeployed`); what an updater started is served at its commit until HEAD moves on, which it never
  does backwards (`Served`, `Arrived`), and a controller's updater has its plan's target
  (`PlanFollowed`). The two claims about runs in which nobody was killed need `Undisturbed`: whoever
  works holds the run lock, so the files and services a controller looked at are touched by its own
  updater only, and once that one may stop services the stage file says so. TLC checked the invariant
  on 315,566 states first. `DeployTypeHolds` (`DeploySpec => []DeployTypeOK`, under `DeployBounds`: there is
  a first commit) has `SpanInv` on top: HEAD never passes the remote's commit, plans, updaters, images,
  schema and services only name commits HEAD or the remote has had, so no arithmetic of an update
  leaves the commits there are.
* `CatalogProofs`, `OneCourier` and `SnapshottedOnce`, for any couriers, events, attempts and
  subscriptions. A courier within its lease holds the row's own claim or the row has ended; an ended
  row is never queued again; claims are numbered by attempts; and while a receipt is kept the event's
  recipients are not snapshotted again. `NotifyTypeHolds` (under `NoticeBounds`) contains a bound that is no
  matter of types: a push service accepts one delivery at most `MaxAttempts` times, although a courier may
  die, or lose its lease, between the push and its record. `PushInv` counts, for each delivery, what was
  accepted and the claims that may yet push (`Unsent`), which together are never more than its attempts
  (`Within`), because two couriers never have one claim (`OwnNumbers`).
* `IntakeProofs`, `WriterNamed` (`OwnershipSpec => []WriterIsNamed`) and `PreviewAdmittedAloneHolds`,
  for any processes and stops, under `OwnershipNames`. From its lock to its unlock the kernel lock is
  the writer's, every write of the claim on disk is made under it, and a heartbeat under way keeps its
  process before the unlock (`BeatSettled`). For admission, `AdmissionInv` follows the tickets in
  force, in the order of the file: each is of a request under way and of its kind, nobody has two, and
  one that waits for nobody came after no preview and after none that waits itself (`OrderOK`). Whoever
  is past the admission therefore is first, or needed to wait for nobody (`PassOK`). That a request
  finds itself first by its place in the file rests on `PlacesInOrder`, which counts the tickets
  before it in place of an induction over the file. Checked with TLC on 5,574,097 states first.
  `OwnershipTypeHolds` (under `OwnershipBounds`) needs `RegistryInv`: whoever writes the registration has
  the registry lock and did not find it established.
* `IntakeProofs`, `CataloguedImageStandsHolds` and `RequestsFollowJobsHolds` (`IntakeSpec`) and
  `InspectionNamesItsDiscHolds` (`InspectionSpec`), for any workers, requests, discs and budgets, under
  `IntakeAssumption` and `InspectionAssumption`. In `IntakeInv` an image is kept for one request and
  read into only while its map says that it needs a copy, an accepted image with unread sectors
  included (`RescueOK`), nobody reads into what is at the ISO path (`ShelfOK`) nor into an image whose
  end is being accepted, each step of a worker under the workspace lock says what it has in hand (`LanesOK`), and with the
  archive in the catalog no attempt is left that could publish another image (`ArchivedOK`). It was
  checked with TLC on 6,886,363 states (2 workers, 2 discs, 3 jobs) without the VIEW. In `InspectionInv` a proof under way has read the disc of
  its generation unless a later one is in the drive (`GoodPollGiven`).
* `CatalogProofs`, `ReviewedAsSeenHolds` and `AppliedOnceAsShownHolds` (`ReviewSpec`), for any selections,
  operators and retries, under `ReviewAssumption`. The heart of `ReviewInv` is `AskOK`: while the revision
  a request names still stands, the archive is as its operator saw it. So a decision that finds its
  revision is taken of what was shown, whatever happened in between.
* `OperationsProofs`, `OneAuthority`, `WholeWhenOpen` and `PublisherKeeps`, for any sidecars, imports,
  commands, edits and faults, under `CutoverNames` (nobody is no import, sidecars are ordered by
  numbers). One invariant, `CutoverInv`, serves all three. The gate is shared by commands or held by
  one import (`Locked`), so what an import saw of the legacy outputs stays true until its marker
  retires the queue and never changes again (`Authority`). From its marker to its end an import has
  everything captured fenced and staged (`Progressing`), no other step lifts a fence, and with one
  fence down or nothing staged the catalog is whole (`FencedUntilWhole`). A starting worker that
  holds the mutation locks meets no mutation (`Published`). The properties are not inductive by
  themselves: the guarantee of one import rests on what a dead one left staged. Most steps are
  `Background` steps and share two lemmas. `CutoverInv` was checked with TLC on 492,384 and 264,403
  states (the second with two edits) before it was proved. `CutoverTypeHolds` needs `TokensRun` besides: a
  row with a publication token is a running job's. An import fails running jobs, so this rests on its
  boundary being refused while a token is out (`FenceLeavesTokens`).

* `EncodeProofs`, `RowsStayLegal`, `CancellationWaits` and `CompletedStaysInPlace` (`EncodeSpec`), for any jobs, workers, claims and
  budgets, under `EncodeConstants` (workers are not named like a file's or a lock's absence). A claim's
  token belongs to one job for good (`Own`), so rows can be followed one by one: an action keeps the
  one it changes sound and takes neither a token nor the path (`Keeps`), or takes the path while it is
  free, or is a claim with a new token. What a completion undoes must be a row that could be put back:
  a worker that completes without the lock came from a running row (`Knows`). For cancellations the
  point is `OneWorker`: nobody else executes the claim of the worker that saw its encoder close, so the
  encoder stays closed until the row says cancelled. `Inv1` was checked with TLC on 5,492,364 states.

  That a finished job's output stays in its place needs what a worker finds in the output directory at
  each of its steps (`Inv2`). Three facts carry it: a claim whose worker has not got the lock has written
  nothing yet (`UnusedClaims`); the worker that stages knows every name of its claim (`Staging`), and while it
  does no finished row owns the path and nobody's row but its own is under a mutation fence
  (`NoneInPlace`); a publication that is being taken back stays revoked, so nobody settles or completes
  that row meanwhile (`Revoked`). The last one is what makes a rollback harmless: the file it removes
  belongs to a row that is still open. A completion undone by the second look is the one step that could
  put a finished row back (`Undoes`); if a reconciliation took the row from `completed`, it has the lock,
  so the file it saw is still there (`LockedInPlace`). `Finished` covers the pass that completes without
  the lock. The proofs are short because of two lemmas about any step of a worker: it changes only the
  names of its own claim (`FilesTouched`), and of a row nothing these invariants speak of (`Calm`) but at
  six places (`Bold`, `BoldRows`). TLC checked `Inv2` on 5,492,364 states (two claims, two faults) and on
  2,149,570 (three claims, one fault) first.

* `EncodeOutputProofs`, `OutputsNeverLost` (`EncodeSpec => []OutputsSurvive`), for the same constants: a file
  that was ever the accepted output of the path, the foreign one that was there included, keeps a name.
  `Inv3` has `Inv2` as its ground. A prior file, or one moved aside, is never removed (`Backed`). Any other
  accepted output is at the path, or the partial of a claim that no row and no worker knows any more
  (`Retained`), or the foreign file that an exchange displaced (`KeptHeld`). Four kinds of steps could remove such
  a last name: a rollback, a withdrawal, an exchange and a discard. Each looked at a row before, and the
  invariant says what that look is still worth:
  * a worker that publishes is alone with its claim and its row is fenced and pending (`PreAlone`); until
    then, whoever else has its claim found the row closed (`EarlyAlone`);
  * a pass that lists the directory before it has the mutation lock acts on what may be stale; while the
    publication is pending and the file has no other name, what it saw at the path and put aside
    still holds (`ListerKnows`);
  * a completion without the lock may be undone by the second look of one worker only, and until then
    the partial is there to return to (`PrimaryKnows`);
  * a partial is discarded when its output is accepted, is not at the path or is taken back, and not
    under a completion that could be undone (`DiscardKnows`).

  An accepted output's row says `completed`, or asks nothing of it (`KeptAccepted`), so no withdrawal finds
  it. The proof describes each action once by what it does to files (`FileSteps`) and rows (`RowSteps`),
  and the conjuncts are proved from these two descriptions.

* `ServicesProofs`, `ServicesTypeHolds` (`ServicesSpec => []ServicesTypeOK`), is about the specification that
  `services` runs (`services_live` adds fairness). The services share no variable, so a step of the composition is a
  step of one service and a stutter of all others (`EachSteps`): a behaviour of the composition is a
  behaviour of each service (`EachBehaves`), and every theorem above holds of it. The types follow from
  the type theorems of the services (`NotifyTypeHolds`, `IntakeTypeHolds`, `InspectionTypeHolds`,
  `OwnershipTypeHolds`, `ReviewTypeHolds`, `DeployTypeHolds`, `CutoverTypeHolds`) and `RowsStayLegal`.

Only model-checked: all liveness; `OwnerNeverStuck`, which uses `ENABLED`, for which there is no prover
here. And what the four theorems about leases leave open: that a single execution may stall, as a
pass and as a reconciler, without harm to `DirtyEvidenceIsGuarded` and `StoppedIsQuiescent` is only what `recovery_operator` shows.

## Plan

1. `RecoveryCheckpoint`, `RecoveredArchive`, `RecoveryCheckpointProofs`: done.
2. `ArchiveRecovery`, `ArchiveRecoveryInvariant`, `ArchiveRecoveryProofs`: done, the four properties of
   leases included.
3. `EncodeJobs`, `Notifications`, `ArchiveIntake`, `DiscInspections`, `ImageOwnership`,
   `CatalogReview`, `Deployment`, `LegacyCutover`, composed in `MCServices`: done.
4. Archive audits and filesystem verification; the initial publication through a checkpoint
   (`dvd-initial-publication.ts`), which no worker calls yet; the retry state of the web review client.
5. Proofs of `RuntimeFitsSchema`, `OneCourierPerDelivery`, `RecipientsSnapshottedOnce`, `WriterIsNamed`,
   `OneQueueAuthority`, `UnfencedIsWhole`, `PublisherKeepsItsRow`: done.
   `PreviewAdmittedAlone`, `CataloguedImageStands`, `RequestsFollowJobs`, `InspectionNamesItsDisc`,
   `ReviewedAsSeen`, `AppliedOnceAsShown`: done.
   `EncodeRowsLegal`, `CancelClosesEncoder`, `CompletedInPlace`, `ReportsHold`: done. `OutputsSurvive` and
   `ServicesTypeOK`: done.

## Not modelled

Byte-level parsing, digests, DVD structure analysis, SCSI traffic, decryption and
encoding are data or I/O: the models keep only what their outcome decides.
The classification of DVD layouts is a pure function of parsed structures whose
content the models do not have. The web application and the command line tool
add no state but the retry of a request, which `CatalogReview` has; of the Python
tool only what shares the queue with an import is in `LegacyCutover`. Encoding profiles and audits are single transactions over
rows nobody else writes.

Left out of modules that model the rest of their component: a failed first write of an image
claim (`ImageOwnership`), and containers of a migration that outlive the killed process group that
started them (`Deployment` ends them with it).

## Running

`tlc -config <file>.cfg MC<module>.tla` checks a run of `PROJECT.json`;
`tlapm <module>Proofs.tla` checks the proofs of a module: `RecoveryCheckpointProofs`,
`ArchiveRecoveryProofs`, `CatalogProofs`, `IntakeProofs`, `OperationsProofs`, `EncodeProofs`,
`EncodeOutputProofs`, `ServicesProofs`. The longest run takes about
three minutes with two workers.
