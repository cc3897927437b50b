----------------------------- MODULE Deployment -----------------------------
(***************************************************************************)
(* The deployment controller (scripts/deploy.mjs) and the updater it       *)
(* spawns (scripts/update.sh): a plan frozen at a commit, its application  *)
(* behind two kernel locks, the stages of the update with the file that    *)
(* names the current one, and the containment of a failed deployment.      *)
(* Controllers run side by side; an operator may run the updater or        *)
(* compose-start.sh by hand; any command may fail; a lock helper or a      *)
(* controller may be killed, which leaves its updater to itself.           *)
(***************************************************************************)
EXTENDS Integers, FiniteSets, Sequences

CONSTANTS Deployers, ByHand, NoHolder, MaxCommit, MaxRuns, MaxLapses

\* An updater by hand is no controller's, and a free lock nobody's.
ASSUME DeployNames == ByHand \notin Deployers /\ NoHolder \notin Deployers \cup {ByHand}

\* There is a first commit.
ASSUME DeployBounds == MaxCommit \in Nat \ {0}

VARIABLES host,      \* HEAD, the remote's target, the schema, what is out of step
          images,    \* the commit each image was last built from
          runtime,   \* the commit each running service was started from, or Down
          files,     \* plan.json, update-stage, update-evidence.json
          deployLocks, \* holders of run.lock and of the updater's own lock
          deployer,  \* each controller and what it remembers of its plan
          updater,   \* each update.sh
          report,    \* the last result a controller printed, and which one did
          lapses,    \* lock helpers and controllers killed so far
          runs       \* runs begun so far

deployVars == <<host, images, runtime, files, deployLocks, deployer, updater, report, lapses, runs>>

Down == 0
BuildOrder == <<"migrate", "web", "worker">>
ComposeServices == {"web", "worker"}
Running == {s \in ComposeServices : runtime[s] # Down}

NoPlan == [old |-> 0, target |-> 0]
Unreported == [by |-> NoHolder, state |-> "none", contained |-> FALSE]
NoRun == [pc |-> "idle", plan |-> NoPlan, lost |-> FALSE, before |-> [s \in ComposeServices |-> Down], failure |-> "none"]
NoUpdater == [pc |-> "none", target |-> 0, built |-> 0]

DeployInit ==
  /\ host = [head |-> 1, remote |-> 1, schema |-> 1, undeployed |-> FALSE, mixed |-> FALSE]
  /\ images = [i \in {"migrate"} \cup ComposeServices |-> 1]
  /\ runtime = [s \in ComposeServices |-> 1]
  /\ files = [plan |-> NoPlan, stage |-> "none", evidence |-> FALSE]
  /\ deployLocks = [run |-> NoHolder, update |-> NoHolder]
  /\ deployer = [c \in Deployers |-> NoRun]
  /\ updater = [u \in Deployers \cup {ByHand} |-> NoUpdater]
  /\ report = Unreported
  /\ lapses = 0 /\ runs = 0

Go(c, pc) == deployer' = [deployer EXCEPT ![c].pc = pc]

\* concurrent_run, stale_plan, active_work, review_required, validation_failure
\* and planned say nothing of the runtime.
Refused == "refused"

\* emitResult, then the finally block: only its own lock is released.
Emit(c, state, contained) ==
  /\ report' = [by |-> c, state |-> state, contained |-> contained]
  /\ deployer' = [deployer EXCEPT ![c] = NoRun]
  /\ deployLocks' = [deployLocks EXCEPT !.run = IF @ = c THEN NoHolder ELSE @]

\* A new run: what its controller said before no longer matters.
Silent(c) == report' = IF report.by = c THEN Unreported ELSE report

\* runtimeSnapshot needs the web service and the Archive Worker.
Answers == Running = ComposeServices

\* A step only its controller sees.
Quietly(c) == UNCHANGED <<host, images, runtime, files, updater, lapses, runs>>

Counted == runs < MaxRuns /\ runs' = runs + 1
Begins(c) == deployer[c].pc = "idle" /\ updater[c].pc = "none" /\ Counted

TakeRunLock(c, pc, mine) ==
  IF deployLocks.run # NoHolder
  THEN Emit(c, Refused, FALSE)
  ELSE /\ deployLocks' = [deployLocks EXCEPT !.run = c]
       /\ deployer' = [deployer EXCEPT ![c] = [mine EXCEPT !.pc = pc]]
       /\ Silent(c)

Plan(c) ==
  /\ Begins(c)
  /\ TakeRunLock(c, "planning", NoRun)
  /\ UNCHANGED <<host, images, runtime, files, updater, lapses>>

\* The runtime is looked at, the remote fetched, and the plan written.
MakePlan(c) ==
  /\ deployer[c].pc = "planning"
  /\ IF deployer[c].lost THEN Emit(c, Refused, FALSE) /\ UNCHANGED files
     ELSE \/ /\ Answers
             /\ LET p == [old |-> host.head, target |-> host.remote] IN
                /\ files' = [files EXCEPT !.plan = p]
                /\ deployer' = [deployer EXCEPT ![c].pc = "planned", ![c].plan = p]
             /\ UNCHANGED <<deployLocks, report>>
          \/ Emit(c, Refused, FALSE) /\ UNCHANGED files
  /\ UNCHANGED <<host, images, runtime, updater, lapses, runs>>

ReportPlan(c) ==
  LET p == deployer[c].plan IN
  /\ deployer[c].pc = "planned"
  /\ Emit(c, IF ~deployer[c].lost /\ p.old = p.target THEN "already_current" ELSE Refused, FALSE)
  /\ Quietly(c)

\* The plan is read before the lock is taken.
Apply(c) ==
  /\ Begins(c) /\ files.plan # NoPlan
  /\ deployer' = [deployer EXCEPT ![c] = [NoRun EXCEPT !.pc = "apply", !.plan = files.plan]]
  /\ Silent(c)
  /\ UNCHANGED <<host, images, runtime, files, deployLocks, updater, lapses>>

ApplyLocked(c) ==
  /\ deployer[c].pc = "apply"
  /\ TakeRunLock(c, "reset", deployer[c])
  /\ Quietly(c)

\* What an earlier run left in the stage file must not classify this one.
ResetStage(c) ==
  /\ deployer[c].pc = "reset"
  /\ files' = [files EXCEPT !.stage = "startup_preflight", !.evidence = FALSE]
  /\ Go(c, "target")
  /\ UNCHANGED <<host, images, runtime, deployLocks, updater, report, lapses, runs>>

PreQuiescence == {"backup", "checkout", "build", "startup_preflight"}

\* (mutant) the stage that stops the services counted among those before it
FailureStateLate(stage) ==
  IF stage \in PreQuiescence \cup {"quiescing"} THEN "pre_migration_failure" ELSE "post_migration_failure"

FailureState(stage) ==
  IF stage \in PreQuiescence THEN "pre_migration_failure" ELSE "post_migration_failure"

\* A failure is classified by the stage file, and contained unless it came early.
FailByStage(c) ==
  IF FailureState(files.stage) = "pre_migration_failure"
  THEN Emit(c, "pre_migration_failure", FALSE)
  ELSE /\ deployer' = [deployer EXCEPT ![c].pc = "contain", ![c].failure = "post_migration_failure"]
       /\ UNCHANGED <<report, deployLocks>>

\* assertFreshPlan: HEAD and target still are what the plan froze ...
CheckTarget(c) ==
  LET p == deployer[c].plan IN
  /\ deployer[c].pc = "target"
  /\ \/ IF host.head = p.old /\ host.remote = p.target
        THEN Go(c, "runtime") /\ UNCHANGED <<report, deployLocks>>
        ELSE Emit(c, Refused, FALSE)
     \/ FailByStage(c)      \* git itself fails
  /\ Quietly(c)

\* ... and the runtime serves.  Active work, a required review or scarce
\* resources, found or not at any look, refuse the run.
CheckRuntime(c) ==
  /\ deployer[c].pc = "runtime"
  /\ \/ /\ Answers
        /\ deployer' = [deployer EXCEPT ![c].pc = "spawn", ![c].before = runtime]
        /\ UNCHANGED <<report, deployLocks>>
     \/ Emit(c, Refused, FALSE)
  /\ Quietly(c)

SpawnUpdater(c) ==
  /\ deployer[c].pc = "spawn"
  /\ IF deployer[c].lost
     THEN Emit(c, Refused, FALSE) /\ UNCHANGED updater
     ELSE /\ updater' = [updater EXCEPT ![c] =
               [NoUpdater EXCEPT !.pc = "lock", !.target = deployer[c].plan.target]]
          /\ Go(c, "updating") /\ UNCHANGED <<report, deployLocks>>
  /\ UNCHANGED <<host, images, runtime, files, lapses, runs>>

\* The lock is gone: the updater's process group is killed and waited for.
AbortUpdate(c) ==
  /\ deployer[c].pc = "updating" /\ deployer[c].lost
  /\ updater' = [updater EXCEPT ![c] = NoUpdater]
  /\ report' = [by |-> c, state |-> Refused, contained |-> FALSE]
  /\ deployer' = [deployer EXCEPT ![c] = NoRun]
  /\ deployLocks' = [run |-> IF deployLocks.run = c THEN NoHolder ELSE deployLocks.run,
                     update |-> IF deployLocks.update = c THEN NoHolder ELSE deployLocks.update]
  /\ UNCHANGED <<host, images, runtime, files, lapses, runs>>

UpdaterFailed(c) ==
  /\ deployer[c].pc = "updating" /\ ~deployer[c].lost /\ updater[c].pc = "failed"
  /\ updater' = [updater EXCEPT ![c] = NoUpdater]
  /\ FailByStage(c)
  /\ UNCHANGED <<host, images, runtime, files, lapses, runs>>

UpdaterSucceeded(c) ==
  /\ deployer[c].pc = "updating" /\ ~deployer[c].lost /\ updater[c].pc = "done"
  /\ updater' = [updater EXCEPT ![c] = NoUpdater]
  /\ deployer' = [deployer EXCEPT ![c].pc = IF files.evidence THEN "verify" ELSE "contain",
                                  ![c].failure = "verification_failure"]
  /\ UNCHANGED <<host, images, runtime, files, deployLocks, report, lapses, runs>>

\* A lock lost during the verification fails it, and is contained too.
IndependentVerify(c) ==
  /\ deployer[c].pc = "verify"
  /\ \/ /\ host.head = deployer[c].plan.target /\ Answers /\ ~deployer[c].lost
        /\ Emit(c, "success", FALSE)
     \/ Go(c, "contain") /\ UNCHANGED <<report, deployLocks>>
  /\ Quietly(c)

\* compose-stop.sh, which may fail with services still running.
StopsTo(left) ==
  /\ runtime' = [s \in ComposeServices |-> IF s \in left THEN runtime[s] ELSE Down]
  /\ host' = [host EXCEPT !.mixed = @ /\ left # {}]

Contain(c) ==
  /\ deployer[c].pc = "contain"
  /\ \E left \in SUBSET Running :
       /\ StopsTo(left)
       /\ Emit(c, deployer[c].failure, left = {})
  /\ UNCHANGED <<images, files, updater, lapses, runs>>

--------------------------------------------------------------------------
(* The updater: update.sh for a controller or by hand.                     *)

Orphan(u) == u = ByHand \/ deployer[u].pc # "updating"

\* Its exit frees the locks it holds; an orphan's status reaches nobody.
Exit(u, ok) ==
  /\ updater' = [updater EXCEPT ![u] =
       IF Orphan(u) THEN NoUpdater ELSE [@ EXCEPT !.pc = IF ok THEN "done" ELSE "failed"]]
  /\ deployLocks' = [run |-> IF u = ByHand /\ deployLocks.run = u THEN NoHolder ELSE deployLocks.run,
                     update |-> IF deployLocks.update = u THEN NoHolder ELSE deployLocks.update]

\* Only a controller's updater is given a stage file.
Stage(u, stage) == files' = [files EXCEPT !.stage = IF u = ByHand THEN @ ELSE stage]
Turns(u, pc) == updater' = [updater EXCEPT ![u].pc = pc]
Enters(u, pc, stage) == Turns(u, pc) /\ Stage(u, stage) /\ UNCHANGED deployLocks
Fails(u) == Exit(u, FALSE) /\ UNCHANGED files

\* (mutant) the controller's lock is trusted to keep updaters apart
RunLockOnly(u) == u = ByHand => deployLocks.run = NoHolder

MayUpdate(u) == /\ deployLocks.update = NoHolder
                /\ u = ByHand => deployLocks.run = NoHolder

BeginUpdate(u) ==
  /\ updater[u].pc = "lock"
  /\ IF MayUpdate(u) /\ host.head <= updater[u].target
     THEN /\ deployLocks' = [run |-> IF u = ByHand THEN u ELSE deployLocks.run, update |-> u]
          /\ Turns(u, "backup") /\ Stage(u, "backup")
     ELSE Fails(u)
  /\ UNCHANGED <<host, images, runtime, deployer, report, lapses, runs>>

Backup(u) ==
  /\ updater[u].pc = "backup"
  /\ Enters(u, "checkout", "checkout") \/ Fails(u)
  /\ UNCHANGED <<host, images, runtime, deployer, report, lapses, runs>>

\* git merge --ff-only moves HEAD: from here on a failure leaves it moved.
Checkout(u) ==
  /\ updater[u].pc = "checkout"
  /\ \/ /\ host' = [host EXCEPT !.head = updater[u].target, !.undeployed = @ \/ host.head # updater[u].target]
        /\ Enters(u, "build", "build")
     \/ Fails(u) /\ UNCHANGED host
  /\ UNCHANGED <<images, runtime, deployer, report, lapses, runs>>

\* compose-build.sh, one image after the other, from the checkout as it is.
BuildImage(u) ==
  LET n == updater[u].built + 1 IN
  /\ updater[u].pc = "build"
  /\ \/ /\ images' = [images EXCEPT ![BuildOrder[n]] = host.head]
        /\ updater' = [updater EXCEPT ![u].built = n,
                                      ![u].pc = IF n = Len(BuildOrder) THEN "preflight" ELSE @]
        /\ Stage(u, IF n = Len(BuildOrder) THEN "startup_preflight" ELSE files.stage)
        /\ UNCHANGED deployLocks
     \/ Fails(u) /\ UNCHANGED images
  /\ UNCHANGED <<host, runtime, deployer, report, lapses, runs>>

\* The last look at active work, and compose-start.sh's look at its settings.
StartupPreflight(u) ==
  /\ updater[u].pc = "preflight"
  /\ Enters(u, "quiesce", "quiescing") \/ Fails(u)
  /\ UNCHANGED <<host, images, runtime, deployer, report, lapses, runs>>

\* compose-migrate.sh: no DDL unless every service stopped.
Quiesce(u) ==
  /\ updater[u].pc = "quiesce"
  /\ \E left \in SUBSET Running :
       /\ StopsTo(left)
       /\ IF left = {} THEN Enters(u, "migrate", "migration") ELSE Fails(u)
  /\ UNCHANGED <<images, deployer, report, lapses, runs>>

\* A failed run may have applied its migrations.
Migrate(u) ==
  /\ updater[u].pc = "migrate"
  /\ \E applied \in BOOLEAN :
       /\ host' = [host EXCEPT !.schema = IF applied /\ images["migrate"] > @ THEN images["migrate"] ELSE @]
       /\ (applied /\ Turns(u, "start") /\ UNCHANGED <<files, deployLocks>>) \/ Fails(u)
  /\ UNCHANGED <<images, runtime, deployer, report, lapses, runs>>

\* docker compose up; a partial start is stopped again, as far as that works.
StartServices(u) ==
  /\ updater[u].pc = "start"
  /\ \E up \in SUBSET ComposeServices :
       /\ runtime' = [s \in ComposeServices |-> IF s \in up THEN images[s] ELSE Down]
       /\ host' = [host EXCEPT !.undeployed = @ /\ up # ComposeServices]
       /\ (up = ComposeServices /\ Enters(u, "check", "verification")) \/ Fails(u)
  /\ UNCHANGED <<images, deployer, report, lapses, runs>>

VerifyServices(u) ==
  /\ updater[u].pc = "check"
  /\ \/ /\ Answers /\ Exit(u, TRUE)
        /\ files' = [files EXCEPT !.evidence = @ \/ u # ByHand, !.stage = IF u = ByHand THEN @ ELSE "complete"]
        /\ UNCHANGED <<runtime, host>>
     \/ (\E left \in SUBSET Running : StopsTo(left)) /\ Fails(u)
  /\ UNCHANGED <<images, deployer, report, lapses, runs>>

UpdaterStep(u) ==
  \/ BeginUpdate(u) \/ Backup(u) \/ Checkout(u) \/ BuildImage(u) \/ StartupPreflight(u)
  \/ Quiesce(u) \/ Migrate(u) \/ StartServices(u) \/ VerifyServices(u)

--------------------------------------------------------------------------
(* The operator, the remote, and what is killed.                           *)

\* update.sh by hand, for a commit that was fetched.
UpdateByHand ==
  /\ updater[ByHand].pc = "none" /\ host.head < host.remote /\ Counted
  /\ updater' = [updater EXCEPT ![ByHand] = [NoUpdater EXCEPT !.pc = "lock", !.target = host.remote]]
  /\ UNCHANGED <<host, images, runtime, files, deployLocks, deployer, report, lapses>>

\* compose-start.sh after a failure, with whatever images there are.  It takes no
\* lock: that nobody deploys meanwhile is left to the operator.
StartByHand ==
  /\ Running = {} /\ \A u \in DOMAIN updater : updater[u].pc \in {"none", "done", "failed"}
  /\ \E up \in SUBSET ComposeServices :
       LET schema == IF images["migrate"] > host.schema THEN images["migrate"] ELSE host.schema IN
       /\ runtime' = [s \in ComposeServices |-> IF s \in up THEN images[s] ELSE Down]
       /\ host' = [host EXCEPT !.schema = schema, !.undeployed = @ /\ runtime' # [s \in ComposeServices |-> host.head],
                               !.mixed = \E s \in up : images[s] # schema]
  /\ UNCHANGED <<images, files, deployLocks, deployer, updater, report, lapses, runs>>

RemoteMoves ==
  /\ host.remote < MaxCommit
  /\ host' = [host EXCEPT !.remote = @ + 1]
  /\ UNCHANGED <<images, runtime, files, deployLocks, deployer, updater, report, lapses, runs>>

Busy(c) == deployer[c].pc \notin {"idle", "apply"}

\* The process that holds run.lock for its controller dies ...
LockHelperDies(c) ==
  /\ Busy(c) /\ deployLocks.run = c /\ lapses < MaxLapses
  /\ deployLocks' = [deployLocks EXCEPT !.run = NoHolder]
  /\ lapses' = lapses + 1
  /\ UNCHANGED <<host, images, runtime, files, deployer, updater, report, runs>>

\* ... which the controller hears of later.
LossNoticed(c) ==
  /\ Busy(c) /\ deployLocks.run # c /\ ~deployer[c].lost
  /\ deployer' = [deployer EXCEPT ![c].lost = TRUE]
  /\ UNCHANGED <<host, images, runtime, files, deployLocks, updater, report, lapses, runs>>

\* The helper goes with its controller; the updater does not.
ControllerKilled(c) ==
  /\ deployer[c].pc # "idle" /\ lapses < MaxLapses
  /\ deployer' = [deployer EXCEPT ![c] = NoRun]
  /\ deployLocks' = [deployLocks EXCEPT !.run = IF @ = c THEN NoHolder ELSE @]
  /\ updater' = [updater EXCEPT ![c] = IF @.pc \in {"done", "failed"} THEN NoUpdater ELSE @]
  /\ lapses' = lapses + 1
  /\ UNCHANGED <<host, images, runtime, files, report, runs>>

\* What an orphan prints goes nowhere: writing it ends the orphan.
OrphanDies(c) ==
  /\ Orphan(c) /\ updater[c].pc # "none"
  /\ updater' = [updater EXCEPT ![c] = NoUpdater]
  /\ deployLocks' = [deployLocks EXCEPT !.update = IF @ = c THEN NoHolder ELSE @]
  /\ UNCHANGED <<host, images, runtime, files, deployer, report, lapses, runs>>

ControllerStep(c) ==
  \/ Plan(c) \/ MakePlan(c) \/ ReportPlan(c)
  \/ Apply(c) \/ ApplyLocked(c) \/ ResetStage(c) \/ CheckTarget(c) \/ CheckRuntime(c)
  \/ SpawnUpdater(c) \/ AbortUpdate(c) \/ UpdaterFailed(c) \/ UpdaterSucceeded(c)
  \/ IndependentVerify(c) \/ Contain(c)
  \/ LockHelperDies(c) \/ LossNoticed(c) \/ ControllerKilled(c) \/ OrphanDies(c)

DeployNext ==
  \/ \E c \in Deployers : ControllerStep(c)
  \/ \E u \in Deployers \cup {ByHand} : UpdaterStep(u)
  \/ UpdateByHand \/ StartByHand \/ RemoteMoves

DeploySpec == DeployInit /\ [][DeployNext]_deployVars

--------------------------------------------------------------------------
(* Properties. *)

\* What the rows, locks and processes of a deployment may hold.
DeployTypeOK ==
  /\ host.head \in 1..MaxCommit /\ host.remote \in 1..MaxCommit /\ host.schema \in 1..MaxCommit
  /\ host.head <= host.remote
  /\ \A i \in DOMAIN images : images[i] \in 1..MaxCommit
  /\ \A s \in ComposeServices : runtime[s] \in 0..MaxCommit
  /\ deployLocks.run \in Deployers \cup {ByHand, NoHolder}
  /\ deployLocks.update \in Deployers \cup {ByHand, NoHolder}
  /\ \A c \in Deployers : deployer[c].plan.target \in 0..MaxCommit
  /\ \A u \in DOMAIN updater : updater[u].built \in 0..Len(BuildOrder)

\* No service runs against a schema of another commit than its own: the
\* services are stopped before the schema moves (compose-migrate.sh) and start
\* from the images built with the migration (update.sh), whichever
\* controllers, updaters and lapses interleave.  The one exception is a start
\* by hand that found images of different commits.
RuntimeFitsSchema ==
  \A s \in Running : runtime[s] = host.schema \/ host.mixed

\* What a controller's last line says is so (deploy.mjs 218-456): a success runs
\* the reviewed commit on its schema; a failure before quiescence left every
\* service as it was; a containment left none; and a checkout that is current
\* is deployed, unless an update that moved HEAD failed before it started
\* the services.  A run that lost its lock blurs the second and the last: two
\* runs then share the stage file and the services.
ClaimHolds ==
  LET said == report'  mine == deployer[said.by] IN
  /\ said.state = "success" => /\ host.head = mine.plan.target /\ host.schema = mine.plan.target
                               /\ \A s \in ComposeServices : runtime[s] = mine.plan.target
  /\ said.state = "pre_migration_failure" /\ mine.pc = "updating" /\ lapses = 0 =>
       \A s \in ComposeServices : runtime[s] = mine.before[s]
  /\ said.contained => \A s \in ComposeServices : runtime'[s] = Down
  /\ said.state = "already_current" /\ lapses = 0 =>
       host.undeployed \/ \A s \in Running : runtime[s] = mine.plan.target
ReportsHold == [][report' \notin {report, Unreported} => ClaimHolds]_deployVars
=============================================================================
