--------------------------- MODULE OperationsProofs ---------------------------
(***************************************************************************)
(* What an operator does to the whole system: deploying another release,   *)
(* and taking the legacy queue over.                                       *)
(*                                                                         *)
(* RuntimeFitsSchema for any number of controllers, runs and lapses.       *)
(*                                                                         *)
(* The invariant follows the one updater that works: only the holder of    *)
(* the updater's lock does (UpdaterAlone), it never moves HEAD back, so    *)
(* neither schema nor images are ahead of HEAD (Behind), and from the last *)
(* build to the start of the services every image is of HEAD, the services *)
(* are down while the schema moves, and the schema then is HEAD's too      *)
(* (Ready).  What is deployed or planned is a commit of the remote         *)
(* (SpanInv).                                                              *)
(*                                                                         *)
(* ReportsHold, for the same: HEAD is deployed unless an update that moved *)
(* it has not started the services (HeadDeployed); what an updater started *)
(* stays served at its commit until HEAD moves on (Served, Arrived), and a *)
(* controller's updater follows its plan (PlanFollowed).  While nobody was *)
(* killed, the run lock keeps runs apart, so a failure that the stage file *)
(* dates before quiescence found every service untouched (Undisturbed).    *)
(*                                                                         *)
(* OneQueueAuthority, UnfencedIsWhole and PublisherKeepsItsRow for any     *)
(* library, and any number of imports, commands, meddlers and faults.      *)
(*                                                                         *)
(* The gate serializes the imports and keeps commands out of them, so what *)
(* an import saw of the legacy outputs stays true until its marker retires *)
(* the queue, and after it for good.  A late import (one whose marker      *)
(* stands) has fenced everything the marker captured, and no step but its  *)
(* own last one lifts a fence; that one finds every record in.  Most other *)
(* steps are Background: they fence rows, move jobs, add new discs.        *)
(***************************************************************************)
EXTENDS Deployment, LegacyCutover, TLAPS

Holders == Deployers \cup {ByHand, NoHolder}
Updaters == Deployers \cup {ByHand}
ImageNames == {"migrate"} \cup ComposeServices
Plans == [old : Nat, target : Nat]
Failures == {"none", "post_migration_failure", "verification_failure"}
ControllerSteps == {"idle", "planning", "planned", "apply", "reset", "target", "runtime", "spawn",
                    "updating", "verify", "contain"}
Stages == {"none", "backup", "checkout", "build", "startup_preflight", "quiescing", "migration",
           "verification", "complete"}
ControllerRuns == [pc : ControllerSteps, plan : Plans, lost : BOOLEAN,
                   before : [ComposeServices -> Nat], failure : Failures]
UpdaterWorks == {"backup", "checkout", "build", "preflight", "quiesce", "migrate", "start", "check"}
UpdaterSteps == UpdaterWorks \cup {"none", "lock", "done", "failed"}

HostTyped == host \in [head : Nat, remote : Nat, schema : Nat, undeployed : BOOLEAN, mixed : BOOLEAN]
PartsTyped == images \in [ImageNames -> Nat] /\ runtime \in [ComposeServices -> Nat]
DeployFilesTyped == files \in [plan : Plans, stage : Stages, evidence : BOOLEAN]
LocksTyped == deployLocks \in [run : Holders, update : Holders]
DeployersTyped == deployer \in [Deployers -> ControllerRuns]
UpdatersTyped == updater \in [Updaters -> [pc : UpdaterSteps, target : Nat, built : Nat]]
DeployTyped == HostTyped /\ PartsTyped /\ DeployFilesTyped /\ LocksTyped /\ DeployersTyped /\ UpdatersTyped

UpdaterAlone == \A u \in Updaters : updater[u].pc \in UpdaterWorks => deployLocks.update = u

Behind == host.schema <= host.head /\ \A i \in ImageNames : images[i] <= host.head

Built(u) == /\ updater[u].built \in 0..2
            /\ updater[u].built >= 1 => images["migrate"] = host.head
            /\ updater[u].built = 2 => images["web"] = host.head

ReadyFor(u) ==
  /\ updater[u].pc = "lock" => updater[u].built = 0
  /\ updater[u].pc \in {"backup", "checkout"} => host.head <= updater[u].target /\ updater[u].built = 0
  /\ updater[u].pc = "build" => Built(u)
  /\ updater[u].pc \in {"preflight", "quiesce", "migrate", "start"} => \A i \in ImageNames : images[i] = host.head
  /\ updater[u].pc \in {"migrate", "start"} => \A s \in ComposeServices : runtime[s] = Down
  /\ updater[u].pc = "start" => host.schema = host.head
Ready == \A u \in Updaters : ReadyFor(u)

DeployInv == DeployTyped /\ UpdaterAlone /\ Behind /\ Ready /\ RuntimeFitsSchema

--------------------------------------------------------------------------
(* Steps that leave HEAD, images, schema and services alone.               *)

SystemCalm ==
  /\ images' = images /\ runtime' = runtime
  /\ host'.head = host.head /\ host'.schema = host.schema /\ host'.mixed = host.mixed
  /\ \A v \in Updaters :
       /\ updater'[v].pc \in UpdaterWorks =>
            updater'[v] = updater[v] /\ deployLocks'.update = deployLocks.update
       /\ updater'[v].pc = "lock" => updater'[v].built = 0

\* A calm step keeps everything but the types (planning, refusing, reporting,
\* spawning, noticing a loss).
LEMMA SystemCalmKeeps ==
  ASSUME DeployInv, SystemCalm
  PROVE  (UpdaterAlone /\ Behind /\ Ready /\ RuntimeFitsSchema)'
<1>1. UpdaterAlone'
  BY DEF DeployInv, UpdaterAlone, SystemCalm
<1>2. Behind'
  BY DEF DeployInv, Behind, SystemCalm
<1>3. Ready'
  <2> SUFFICES ASSUME NEW v \in Updaters PROVE ReadyFor(v)'
    BY DEF Ready
  <2>1. CASE updater'[v].pc \in UpdaterWorks
    <3>1. updater'[v] = updater[v] /\ ReadyFor(v)
      BY <2>1 DEF DeployInv, Ready, SystemCalm
    <3> QED BY <3>1 DEF ReadyFor, Built, SystemCalm
  <2>2. CASE updater'[v].pc \notin UpdaterWorks
    BY <2>2 DEF ReadyFor, UpdaterWorks, SystemCalm
  <2> QED BY <2>1, <2>2
<1>4. RuntimeFitsSchema'
  BY DEF DeployInv, RuntimeFitsSchema, Running, SystemCalm
<1> QED BY <1>1, <1>2, <1>3, <1>4

\* A step that touches neither the updaters nor their lock is calm when the
\* parts it deploys are untouched.
LEMMA UntouchedIsCalm ==
  ASSUME DeployInv, UNCHANGED <<images, runtime, updater>>, deployLocks'.update = deployLocks.update,
         host'.head = host.head, host'.schema = host.schema, host'.mixed = host.mixed
  PROVE  SystemCalm
BY DEF DeployInv, Ready, ReadyFor, SystemCalm

\* A controller that ends, or begins, keeps the types and the updater's lock.
LEMMA RunEnds ==
  NoRun \in ControllerRuns
BY DEF NoRun, ControllerRuns, ControllerSteps, Failures, NoPlan, Plans, Down

LEMMA EmitKeeps ==
  ASSUME NEW c \in Deployers, DeployersTyped, LocksTyped,
         deployer' = [deployer EXCEPT ![c] = NoRun],
         deployLocks' = [deployLocks EXCEPT !.run = IF @ = c THEN NoHolder ELSE @]
  PROVE  DeployersTyped' /\ LocksTyped' /\ deployLocks'.update = deployLocks.update
BY RunEnds DEF DeployersTyped, LocksTyped, Holders

LEMMA GoKeeps ==
  ASSUME NEW c \in Deployers, NEW pc \in ControllerSteps, DeployersTyped, LocksTyped,
         Go(c, pc), UNCHANGED deployLocks
  PROVE  DeployersTyped' /\ LocksTyped' /\ deployLocks'.update = deployLocks.update
BY DEF Go, DeployersTyped, LocksTyped, ControllerRuns

LEMMA FailByStageKeeps ==
  ASSUME NEW c \in Deployers, DeployersTyped, LocksTyped, FailByStage(c)
  PROVE  DeployersTyped' /\ LocksTyped' /\ deployLocks'.update = deployLocks.update
<1>1. CASE FailureState(files.stage) = "pre_migration_failure"
  BY <1>1, EmitKeeps DEF FailByStage, Emit
<1>2. CASE FailureState(files.stage) # "pre_migration_failure"
  BY <1>2 DEF FailByStage, DeployersTyped, LocksTyped, ControllerRuns, ControllerSteps, Failures
<1> QED BY <1>1, <1>2

LEMMA TakeRunLockKeeps ==
  ASSUME NEW c \in Deployers, NEW pc \in ControllerSteps, DeployersTyped, LocksTyped,
         NEW STATE mine, mine \in ControllerRuns, TakeRunLock(c, pc, mine)
  PROVE  DeployersTyped' /\ LocksTyped' /\ deployLocks'.update = deployLocks.update
<1>1. CASE deployLocks.run # NoHolder
  BY <1>1, EmitKeeps DEF TakeRunLock, Emit
<1>2. CASE deployLocks.run = NoHolder
  <2>1. [mine EXCEPT !.pc = pc] \in ControllerRuns
    BY DEF ControllerRuns
  <2>2. DeployersTyped'
    BY <1>2, <2>1 DEF TakeRunLock, DeployersTyped
  <2>3. LocksTyped' /\ deployLocks'.update = deployLocks.update
    BY <1>2 DEF TakeRunLock, LocksTyped, Holders
  <2> QED BY <2>2, <2>3
<1> QED BY <1>1, <1>2

\* An updater that is gone, with or without its lock, leaves the others as they were.
LEMMA UpdaterGone ==
  ASSUME DeployInv, NEW c \in Updaters, NEW next \in {"none", "done", "failed"},
         UNCHANGED <<host, images, runtime>>, deployLocks.update # c => deployLocks'.update = deployLocks.update,
         \/ updater' = [updater EXCEPT ![c] = NoUpdater]
         \/ updater' = [updater EXCEPT ![c].pc = next]
  PROVE  UpdatersTyped' /\ SystemCalm
<1> USE DEF DeployInv, DeployTyped, UpdatersTyped
<1>1. UpdatersTyped' /\ updater'[c].pc \notin UpdaterWorks \cup {"lock"}
  BY DEF NoUpdater, UpdaterSteps, UpdaterWorks
<1>2. \A v \in Updaters \ {c} : updater'[v] = updater[v]
  OBVIOUS
<1>3. \A v \in Updaters : updater'[v].pc \in UpdaterWorks =>
        updater'[v] = updater[v] /\ deployLocks'.update = deployLocks.update
  BY <1>1, <1>2 DEF UpdaterAlone
<1>4. \A v \in Updaters : updater'[v].pc = "lock" => updater'[v].built = 0
  BY <1>1, <1>2 DEF Ready, ReadyFor
<1> QED BY <1>1, <1>3, <1>4 DEF SystemCalm

--------------------------------------------------------------------------
(* The controllers.                                                        *)

\* A controller's step is calm and typed, containment aside: it plans, checks,
\* refuses and reports, and its updater starts idle or is gone.
LEMMA ControllerCalm ==
  ASSUME DeployInv, NEW c \in Deployers, ControllerStep(c), ~Contain(c)
  PROVE  DeployTyped' /\ SystemCalm
<1> USE DEF DeployInv, DeployTyped
<1>1. CASE Plan(c)
  <2>1. DeployersTyped' /\ LocksTyped' /\ deployLocks'.update = deployLocks.update
    BY <1>1, RunEnds, TakeRunLockKeeps DEF Plan, ControllerSteps
  <2>2. SystemCalm
    BY <1>1, <2>1, UntouchedIsCalm DEF Plan
  <2> QED BY <1>1, <2>1, <2>2 DEF Plan, HostTyped, PartsTyped, DeployFilesTyped, UpdatersTyped
<1>2. CASE MakePlan(c)
  <2>1. DeployersTyped' /\ LocksTyped' /\ DeployFilesTyped' /\ deployLocks'.update = deployLocks.update
    <3>1. CASE UNCHANGED files /\ Emit(c, Refused, FALSE)
      BY <3>1, EmitKeeps DEF Emit, DeployFilesTyped
    <3>2. CASE /\ files' = [files EXCEPT !.plan = [old |-> host.head, target |-> host.remote]]
               /\ deployer' = [deployer EXCEPT ![c].pc = "planned",
                                               ![c].plan = [old |-> host.head, target |-> host.remote]]
               /\ UNCHANGED deployLocks
      <4>1. [old |-> host.head, target |-> host.remote] \in Plans
        BY DEF HostTyped, Plans
      <4>2. DeployFilesTyped'
        BY <3>2, <4>1 DEF DeployFilesTyped
      <4> DEFINE plan == [old |-> host.head, target |-> host.remote]
      <4>3. [deployer[c] EXCEPT !.pc = "planned", !.plan = plan] \in ControllerRuns
        <5> HIDE DEF plan
        <5> QED BY <4>1 DEF plan, DeployersTyped, ControllerRuns, ControllerSteps
      <4>4. deployer' = [deployer EXCEPT ![c] = [deployer[c] EXCEPT !.pc = "planned", !.plan = plan]]
        BY <3>2 DEF DeployersTyped
      <4> HIDE DEF plan
      <4>5. DeployersTyped'
        BY <4>3, <4>4 DEF DeployersTyped
      <4> QED BY <3>2, <4>2, <4>5 DEF LocksTyped
    <3> QED BY <1>2, <3>1, <3>2 DEF MakePlan
  <2>2. SystemCalm
    BY <1>2, <2>1, UntouchedIsCalm DEF MakePlan
  <2> QED BY <1>2, <2>1, <2>2 DEF MakePlan, HostTyped, PartsTyped, UpdatersTyped
<1>3. CASE ReportPlan(c)
  <2>1. DeployersTyped' /\ LocksTyped' /\ deployLocks'.update = deployLocks.update
    BY <1>3, EmitKeeps DEF ReportPlan, Emit
  <2>2. SystemCalm
    BY <1>3, <2>1, UntouchedIsCalm DEF ReportPlan, Quietly
  <2> QED BY <1>3, <2>1, <2>2 DEF ReportPlan, Quietly, HostTyped, PartsTyped, DeployFilesTyped, UpdatersTyped
<1>4. CASE Apply(c)
  <2>1. DeployersTyped' /\ LocksTyped' /\ deployLocks'.update = deployLocks.update
    BY <1>4, RunEnds DEF Apply, DeployersTyped, LocksTyped, DeployFilesTyped, ControllerRuns, ControllerSteps
  <2>2. SystemCalm
    BY <1>4, <2>1, UntouchedIsCalm DEF Apply
  <2> QED BY <1>4, <2>1, <2>2 DEF Apply, HostTyped, PartsTyped, DeployFilesTyped, UpdatersTyped
<1>5. CASE ApplyLocked(c)
  <2>1. DeployersTyped' /\ LocksTyped' /\ deployLocks'.update = deployLocks.update
    <3>1. deployer[c] \in ControllerRuns
      BY DEF DeployersTyped
    <3> QED BY <1>5, <3>1, TakeRunLockKeeps DEF ApplyLocked, ControllerSteps
  <2>2. SystemCalm
    BY <1>5, <2>1, UntouchedIsCalm DEF ApplyLocked, Quietly
  <2> QED BY <1>5, <2>1, <2>2 DEF ApplyLocked, Quietly, HostTyped, PartsTyped, DeployFilesTyped, UpdatersTyped
<1>6. CASE ResetStage(c)
  <2>1. DeployersTyped' /\ LocksTyped' /\ DeployFilesTyped' /\ deployLocks'.update = deployLocks.update
    BY <1>6 DEF ResetStage, Go, DeployersTyped, LocksTyped, DeployFilesTyped, Stages, ControllerRuns, ControllerSteps
  <2>2. SystemCalm
    BY <1>6, <2>1, UntouchedIsCalm DEF ResetStage
  <2> QED BY <1>6, <2>1, <2>2 DEF ResetStage, HostTyped, PartsTyped, UpdatersTyped
<1>7. CASE CheckTarget(c)
  <2>1. DeployersTyped' /\ LocksTyped' /\ deployLocks'.update = deployLocks.update
    <3>1. CASE FailByStage(c)
      BY <3>1, FailByStageKeeps
    <3>2. CASE Go(c, "runtime") /\ UNCHANGED deployLocks
      BY <3>2, GoKeeps DEF ControllerSteps
    <3>3. CASE Emit(c, Refused, FALSE)
      BY <3>3, EmitKeeps DEF Emit
    <3> QED BY <1>7, <3>1, <3>2, <3>3 DEF CheckTarget
  <2>2. SystemCalm
    BY <1>7, <2>1, UntouchedIsCalm DEF CheckTarget, Quietly
  <2> QED BY <1>7, <2>1, <2>2 DEF CheckTarget, Quietly, HostTyped, PartsTyped, DeployFilesTyped, UpdatersTyped
<1>8. CASE CheckRuntime(c)
  <2>1. DeployersTyped' /\ LocksTyped' /\ deployLocks'.update = deployLocks.update
    <3>1. CASE deployer' = [deployer EXCEPT ![c].pc = "spawn", ![c].before = runtime] /\ UNCHANGED deployLocks
      <4>1. [deployer[c] EXCEPT !.pc = "spawn", !.before = runtime] \in ControllerRuns
        BY DEF PartsTyped, DeployersTyped, ControllerRuns, ControllerSteps
      <4>2. deployer' = [deployer EXCEPT ![c] = [deployer[c] EXCEPT !.pc = "spawn", !.before = runtime]]
        BY <3>1 DEF DeployersTyped
      <4> HIDE DEF DeployInv, DeployTyped
      <4>3. DeployersTyped'
        BY <4>1, <4>2 DEF DeployersTyped, DeployInv, DeployTyped
      <4> QED BY <3>1, <4>3 DEF LocksTyped, DeployInv, DeployTyped
    <3>2. CASE Emit(c, Refused, FALSE)
      BY <3>2, EmitKeeps DEF Emit
    <3> QED BY <1>8, <3>1, <3>2 DEF CheckRuntime
  <2>2. SystemCalm
    BY <1>8, <2>1, UntouchedIsCalm DEF CheckRuntime, Quietly
  <2> QED BY <1>8, <2>1, <2>2 DEF CheckRuntime, Quietly, HostTyped, PartsTyped, DeployFilesTyped, UpdatersTyped
<1>9. CASE SpawnUpdater(c)
  <2>1. DeployersTyped' /\ LocksTyped' /\ UpdatersTyped' /\ deployLocks'.update = deployLocks.update
    <3>1. CASE Emit(c, Refused, FALSE) /\ UNCHANGED updater
      BY <3>1, EmitKeeps DEF Emit, UpdatersTyped
    <3>2. CASE /\ updater' = [updater EXCEPT ![c] =
                    [NoUpdater EXCEPT !.pc = "lock", !.target = deployer[c].plan.target]]
               /\ Go(c, "updating") /\ UNCHANGED deployLocks
      <4>1. deployer[c].plan.target \in Nat
        BY DEF DeployersTyped, ControllerRuns, Plans
      <4>2. UpdatersTyped'
        BY <3>2, <4>1 DEF UpdatersTyped, NoUpdater, UpdaterSteps
      <4>3. DeployersTyped'
        BY <3>2 DEF Go, DeployersTyped, ControllerRuns, ControllerSteps
      <4> QED BY <3>2, <4>2, <4>3 DEF LocksTyped
    <3> QED BY <1>9, <3>1, <3>2 DEF SpawnUpdater
  <2>2. SystemCalm
    <3>1. CASE UNCHANGED updater
      BY <1>9, <2>1, <3>1, UntouchedIsCalm DEF SpawnUpdater
    <3>2. CASE updater' = [updater EXCEPT ![c] =
               [NoUpdater EXCEPT !.pc = "lock", !.target = deployer[c].plan.target]]
      <4>1. c \in Updaters /\ updater'[c].pc = "lock" /\ updater'[c].built = 0
        BY <3>2 DEF UpdatersTyped, Updaters, NoUpdater
      <4>2. \A v \in Updaters \ {c} : updater'[v] = updater[v]
        BY <3>2 DEF UpdatersTyped
      <4> QED BY <1>9, <2>1, <4>1, <4>2 DEF SpawnUpdater, SystemCalm, UpdaterWorks, Ready, ReadyFor
    <3> QED BY <1>9, <3>1, <3>2 DEF SpawnUpdater
  <2> QED BY <1>9, <2>1, <2>2 DEF SpawnUpdater, HostTyped, PartsTyped, DeployFilesTyped
<1>10. CASE AbortUpdate(c)
  <2>1. DeployersTyped' /\ LocksTyped'
    BY <1>10, RunEnds DEF AbortUpdate, DeployersTyped, LocksTyped, Holders
  <2>2. UpdatersTyped' /\ SystemCalm
    BY <1>10, UpdaterGone DEF AbortUpdate, Updaters
  <2> QED BY <1>10, <2>1, <2>2 DEF AbortUpdate, HostTyped, PartsTyped, DeployFilesTyped
<1>11. CASE UpdaterFailed(c)
  <2>1. DeployersTyped' /\ LocksTyped' /\ deployLocks'.update = deployLocks.update
    BY <1>11, FailByStageKeeps DEF UpdaterFailed
  <2>2. UpdatersTyped' /\ SystemCalm
    BY <1>11, <2>1, UpdaterGone DEF UpdaterFailed, Updaters
  <2> QED BY <1>11, <2>1, <2>2 DEF UpdaterFailed, HostTyped, PartsTyped, DeployFilesTyped
<1>12. CASE UpdaterSucceeded(c)
  <2>1. DeployersTyped' /\ LocksTyped' /\ deployLocks'.update = deployLocks.update
    <3>1. (IF files.evidence THEN "verify" ELSE "contain") \in ControllerSteps
      BY DEF ControllerSteps
    <3> DEFINE next == IF files.evidence THEN "verify" ELSE "contain"
    <3> DEFINE mine == [deployer[c] EXCEPT !.pc = next, !.failure = "verification_failure"]
    <3>2. deployer' = [deployer EXCEPT ![c] = mine]
      BY <1>12 DEF UpdaterSucceeded, DeployersTyped
    <3>3. mine \in ControllerRuns
      <4> HIDE DEF next
      <4> QED BY <3>1 DEF next, DeployersTyped, ControllerRuns, Failures
    <3> HIDE DEF next, mine
    <3>4. DeployersTyped'
      BY <3>2, <3>3 DEF DeployersTyped
    <3> QED BY <1>12, <3>4 DEF UpdaterSucceeded, LocksTyped
  <2>2. UpdatersTyped' /\ SystemCalm
    BY <1>12, <2>1, UpdaterGone DEF UpdaterSucceeded, Updaters
  <2> QED BY <1>12, <2>1, <2>2 DEF UpdaterSucceeded, HostTyped, PartsTyped, DeployFilesTyped
<1>13. CASE IndependentVerify(c)
  <2>1. DeployersTyped' /\ LocksTyped' /\ deployLocks'.update = deployLocks.update
    <3>1. CASE Go(c, "contain") /\ UNCHANGED deployLocks
      BY <3>1, GoKeeps DEF ControllerSteps
    <3>2. CASE Emit(c, "success", FALSE)
      BY <3>2, EmitKeeps DEF Emit
    <3> QED BY <1>13, <3>1, <3>2 DEF IndependentVerify
  <2>2. SystemCalm
    BY <1>13, <2>1, UntouchedIsCalm DEF IndependentVerify, Quietly
  <2> QED BY <1>13, <2>1, <2>2 DEF IndependentVerify, Quietly, HostTyped, PartsTyped, DeployFilesTyped, UpdatersTyped
<1>14. CASE LockHelperDies(c)
  <2>1. DeployersTyped' /\ LocksTyped' /\ deployLocks'.update = deployLocks.update
    BY <1>14 DEF LockHelperDies, DeployersTyped, LocksTyped, Holders
  <2>2. SystemCalm
    BY <1>14, <2>1, UntouchedIsCalm DEF LockHelperDies
  <2> QED BY <1>14, <2>1, <2>2 DEF LockHelperDies, HostTyped, PartsTyped, DeployFilesTyped, UpdatersTyped
<1>15. CASE LossNoticed(c)
  <2>1. DeployersTyped' /\ LocksTyped' /\ deployLocks'.update = deployLocks.update
    BY <1>15 DEF LossNoticed, DeployersTyped, LocksTyped, ControllerRuns
  <2>2. SystemCalm
    BY <1>15, <2>1, UntouchedIsCalm DEF LossNoticed
  <2> QED BY <1>15, <2>1, <2>2 DEF LossNoticed, HostTyped, PartsTyped, DeployFilesTyped, UpdatersTyped
<1>16. CASE ControllerKilled(c)
  <2>1. DeployersTyped' /\ LocksTyped' /\ deployLocks'.update = deployLocks.update
    BY <1>16, EmitKeeps DEF ControllerKilled
  <2>2. UpdatersTyped' /\ SystemCalm
    <3>1. CASE updater[c].pc \in {"done", "failed"}
      BY <1>16, <2>1, <3>1, UpdaterGone DEF ControllerKilled, Updaters
    <3>2. CASE updater[c].pc \notin {"done", "failed"}
      <4>1. updater' = updater
        BY <1>16, <3>2 DEF ControllerKilled, UpdatersTyped
      <4> QED BY <1>16, <2>1, <4>1, UntouchedIsCalm DEF ControllerKilled, UpdatersTyped
    <3> QED BY <3>1, <3>2
  <2> QED BY <1>16, <2>1, <2>2 DEF ControllerKilled, HostTyped, PartsTyped, DeployFilesTyped
<1>17. CASE OrphanDies(c)
  <2>1. DeployersTyped' /\ LocksTyped'
    BY <1>17 DEF OrphanDies, DeployersTyped, LocksTyped, Holders
  <2>2. UpdatersTyped' /\ SystemCalm
    BY <1>17, UpdaterGone DEF OrphanDies, Updaters, LocksTyped
  <2> QED BY <1>17, <2>1, <2>2 DEF OrphanDies, HostTyped, PartsTyped, DeployFilesTyped
<1> QED
  BY <1>1, <1>2, <1>3, <1>4, <1>5, <1>6, <1>7, <1>8, <1>9, <1>10, <1>11, <1>12, <1>13, <1>14, <1>15,
     <1>16, <1>17 DEF ControllerStep

--------------------------------------------------------------------------
(* The updater.                                                            *)

\* Only one updater works at a time.
LEMMA OneWorks ==
  ASSUME DeployInv, NEW u \in Updaters, updater[u].pc \in UpdaterWorks, NEW v \in Updaters, v # u
  PROVE  updater[v].pc \notin UpdaterWorks
BY DEF DeployInv, UpdaterAlone

\* exit: nobody works afterwards, and the locks are freed.
LEMMA ExitRests ==
  ASSUME DeployInv, NEW u \in Updaters, NEW ok \in BOOLEAN, updater[u].pc \in UpdaterWorks, Exit(u, ok)
  PROVE  UpdatersTyped' /\ LocksTyped' /\ UpdaterAlone' /\ Ready'
<1>1. UpdatersTyped' /\ LocksTyped'
  BY DEF DeployInv, DeployTyped, Exit, UpdatersTyped, LocksTyped, Holders, NoUpdater, UpdaterSteps
<1>2. updater'[u].pc \notin UpdaterWorks \cup {"lock"}
  BY DEF DeployInv, DeployTyped, Exit, UpdatersTyped, NoUpdater, UpdaterWorks
<1>3. \A v \in Updaters \ {u} : updater'[v] = updater[v]
  BY DEF DeployInv, DeployTyped, Exit, UpdatersTyped
<1>4. \A v \in Updaters : updater'[v].pc \notin UpdaterWorks
  BY <1>2, <1>3, OneWorks
<1>5. UpdaterAlone'
  BY <1>4 DEF UpdaterAlone
<1>6. Ready'
  BY <1>2, <1>3, <1>4 DEF DeployInv, Ready, ReadyFor, UpdaterWorks
<1> QED BY <1>1, <1>5, <1>6

\* An updater that goes on keeps its lock; only what its next step needs is left to show.
LEMMA UpdaterOnward ==
  ASSUME DeployInv, NEW u \in Updaters, updater[u].pc \in UpdaterWorks, NEW pc \in UpdaterWorks,
         Turns(u, pc), UNCHANGED deployLocks
  PROVE  /\ UpdatersTyped' /\ LocksTyped' /\ UpdaterAlone'
         /\ updater'[u].pc = pc /\ updater'[u].target = updater[u].target /\ updater'[u].built = updater[u].built
         /\ ReadyFor(u)' => Ready'
<1>1. UpdatersTyped' /\ LocksTyped'
  BY DEF DeployInv, DeployTyped, Turns, UpdatersTyped, LocksTyped, UpdaterSteps
<1>2. updater'[u].pc = pc /\ updater'[u].target = updater[u].target /\ updater'[u].built = updater[u].built
  BY DEF DeployInv, DeployTyped, Turns, UpdatersTyped
<1>3. \A v \in Updaters \ {u} : updater'[v] = updater[v] /\ updater[v].pc \notin UpdaterWorks
  BY OneWorks DEF DeployInv, DeployTyped, Turns, UpdatersTyped
<1>4. UpdaterAlone'
  BY <1>3 DEF DeployInv, UpdaterAlone
<1>5. ReadyFor(u)' => Ready'
  BY <1>3 DEF DeployInv, Ready, ReadyFor, UpdaterWorks
<1> QED BY <1>1, <1>2, <1>4, <1>5

\* compose-stop.sh leaves services as they were or stopped.
LEMMA StopsFit ==
  ASSUME DeployInv, NEW left \in SUBSET Running, StopsTo(left)
  PROVE  /\ UNCHANGED images => PartsTyped'
         /\ HostTyped' /\ host'.head = host.head /\ host'.schema = host.schema
         /\ RuntimeFitsSchema' /\ (left = {} => \A s \in ComposeServices : runtime'[s] = Down)
         /\ \A s \in ComposeServices : runtime[s] = Down => runtime'[s] = Down
<1> USE DEF DeployInv, DeployTyped, HostTyped, PartsTyped, StopsTo, Running, Down
<1>1. HostTyped' /\ host'.head = host.head /\ host'.schema = host.schema
  OBVIOUS
<1>2. runtime' \in [ComposeServices -> Nat]
  OBVIOUS
<1>3. \A s \in ComposeServices : runtime'[s] = runtime[s] \/ runtime'[s] = Down
  OBVIOUS
<1>4. left = {} => \A s \in ComposeServices : runtime'[s] = Down
  OBVIOUS
<1>5. RuntimeFitsSchema'
  BY <1>1, <1>3, <1>4 DEF RuntimeFitsSchema
<1> QED BY <1>1, <1>2, <1>3, <1>4, <1>5

\* The steps that leave the services, the schema and HEAD alone, when the
\* command succeeds and when it does not.
LEMMA EarlyUpdateSteps ==
  ASSUME DeployInv, NEW u \in Updaters,
         BeginUpdate(u) \/ Backup(u) \/ BuildImage(u) \/ StartupPreflight(u)
  PROVE  DeployInv'
<1> USE DEF DeployInv, DeployTyped
<1>0. UNCHANGED <<host, runtime, deployer>>
  BY DEF BeginUpdate, Backup, BuildImage, StartupPreflight
<1>a. HostTyped' /\ DeployersTyped' /\ runtime' \in [ComposeServices -> Nat] /\ RuntimeFitsSchema'
  BY <1>0 DEF HostTyped, DeployersTyped, PartsTyped, RuntimeFitsSchema, Running
<1>1. CASE BeginUpdate(u)
  <2>1. CASE MayUpdate(u) /\ host.head <= updater[u].target
    <3>1. updater' = [updater EXCEPT ![u].pc = "backup"] /\ deployLocks'.update = u
      BY <1>1, <2>1 DEF BeginUpdate, Turns
    <3>2. LocksTyped' /\ DeployFilesTyped'
      BY <1>1, <2>1 DEF BeginUpdate, Stage, LocksTyped, DeployFilesTyped, Holders, Updaters, Stages
    <3>3. UpdatersTyped' /\ updater'[u] = [updater[u] EXCEPT !.pc = "backup"]
      BY <3>1 DEF UpdatersTyped, UpdaterSteps, UpdaterWorks
    <3>4. \A v \in Updaters \ {u} : updater'[v] = updater[v] /\ updater[v].pc \notin UpdaterWorks
      BY <3>1, <2>1, DeployNames DEF MayUpdate, UpdaterAlone, UpdatersTyped, Updaters
    <3>5. UpdaterAlone'
      BY <3>1, <3>4 DEF UpdaterAlone
    <3>6. updater'[u].pc = "backup" /\ updater'[u].built = 0 /\ updater'[u].target = updater[u].target
      BY <1>1, <3>3 DEF BeginUpdate, Ready, ReadyFor, UpdatersTyped
    <3>7. Ready'
      BY <1>0, <2>1, <3>4, <3>6 DEF Ready, ReadyFor, UpdaterWorks
    <3>8. images' = images
      BY <1>1 DEF BeginUpdate
    <3> QED BY <1>0, <1>a, <3>2, <3>3, <3>5, <3>7, <3>8 DEF Behind, PartsTyped
  <2>2. CASE ~(MayUpdate(u) /\ host.head <= updater[u].target)
    <3>1. Exit(u, FALSE) /\ UNCHANGED <<files, images>>
      BY <1>1, <2>2 DEF BeginUpdate, Fails
    <3>2. UpdatersTyped' /\ SystemCalm
      BY <1>0, <3>1, UpdaterGone DEF Exit, LocksTyped
    <3>3. LocksTyped'
      BY <3>1 DEF Exit, LocksTyped, Holders
    <3> QED BY <1>a, <3>1, <3>2, <3>3, SystemCalmKeeps DEF DeployFilesTyped, PartsTyped
  <2> QED BY <2>1, <2>2
<1>2. CASE Backup(u) \/ StartupPreflight(u)
  <2>0. images' = images /\ updater[u].pc \in UpdaterWorks
    BY <1>2 DEF Backup, StartupPreflight, UpdaterWorks
  <2>1. CASE Fails(u)
    BY <1>0, <1>a, <2>0, <2>1, ExitRests DEF Fails, DeployFilesTyped, PartsTyped, Behind
  <2>2. CASE Backup(u) /\ Enters(u, "checkout", "checkout")
    <3>1. UpdatersTyped' /\ LocksTyped' /\ UpdaterAlone' /\ (ReadyFor(u)' => Ready')
          /\ updater'[u].pc = "checkout" /\ updater'[u].target = updater[u].target
          /\ updater'[u].built = updater[u].built
      BY <2>0, <2>2, UpdaterOnward DEF Enters, UpdaterWorks
    <3>2. DeployFilesTyped'
      BY <2>2 DEF Enters, Stage, DeployFilesTyped, Stages
    <3>3. ReadyFor(u)'
      BY <1>0, <2>2, <3>1 DEF Backup, Ready, ReadyFor
    <3> QED BY <1>0, <1>a, <2>0, <3>1, <3>2, <3>3 DEF Behind, PartsTyped
  <2>3. CASE StartupPreflight(u) /\ Enters(u, "quiesce", "quiescing")
    <3>1. UpdatersTyped' /\ LocksTyped' /\ UpdaterAlone' /\ (ReadyFor(u)' => Ready')
          /\ updater'[u].pc = "quiesce" /\ updater'[u].target = updater[u].target
          /\ updater'[u].built = updater[u].built
      BY <2>0, <2>3, UpdaterOnward DEF Enters, UpdaterWorks
    <3>2. DeployFilesTyped'
      BY <2>3 DEF Enters, Stage, DeployFilesTyped, Stages
    <3>3. ReadyFor(u)'
      BY <1>0, <2>0, <2>3, <3>1 DEF StartupPreflight, Ready, ReadyFor
    <3> QED BY <1>0, <1>a, <2>0, <3>1, <3>2, <3>3 DEF Behind, PartsTyped
  <2> QED BY <1>2, <2>1, <2>2, <2>3 DEF Backup, StartupPreflight
<1>3. CASE BuildImage(u)
  <2> DEFINE n == updater[u].built + 1
  <2>0. updater[u].pc \in UpdaterWorks /\ updater[u].pc = "build" /\ Built(u)
    BY <1>3 DEF BuildImage, UpdaterWorks, Ready, ReadyFor
  <2>1. CASE Fails(u) /\ UNCHANGED images
    BY <1>0, <1>a, <2>0, <2>1, ExitRests DEF Fails, DeployFilesTyped, PartsTyped, Behind
  <2>2. CASE ~(Fails(u) /\ UNCHANGED images)
    <3>1. n \in 1..3 /\ Len(BuildOrder) = 3 /\ BuildOrder[1] = "migrate" /\ BuildOrder[2] = "web"
          /\ BuildOrder[3] = "worker"
      BY <2>0 DEF Built, BuildOrder
    <3>2. images' = [images EXCEPT ![BuildOrder[n]] = host.head] /\ deployLocks' = deployLocks
          /\ updater' = [updater EXCEPT ![u].built = n, ![u].pc = IF n = 3 THEN "preflight" ELSE @]
          /\ Stage(u, IF n = 3 THEN "startup_preflight" ELSE files.stage)
      BY <1>3, <2>2, <3>1 DEF BuildImage
    <3>3. images' \in [ImageNames -> Nat] /\ \A i \in ImageNames : images'[i] = IF i = BuildOrder[n] THEN host.head ELSE images[i]
      BY <3>1, <3>2 DEF PartsTyped, HostTyped, ImageNames
    <3>4. DeployFilesTyped'
      BY <3>2 DEF Stage, DeployFilesTyped, Stages
    <3>5. UpdatersTyped' /\ updater'[u].built = n /\ updater'[u].pc = (IF n = 3 THEN "preflight" ELSE "build")
      <4>1. n \in Nat /\ (IF n = 3 THEN "preflight" ELSE updater[u].pc) \in UpdaterSteps
        BY <2>0, <3>1 DEF UpdaterSteps, UpdaterWorks
      <4> HIDE DEF n
      <4>2. UpdatersTyped' /\ updater'[u].built = n
            /\ updater'[u].pc = IF n = 3 THEN "preflight" ELSE updater[u].pc
        BY <3>2, <4>1 DEF UpdatersTyped
      <4> QED BY <2>0, <4>2
    <3>6. \A v \in Updaters \ {u} : updater'[v] = updater[v] /\ updater[v].pc \notin UpdaterWorks
      BY <2>0, <3>2, OneWorks DEF UpdatersTyped
    <3>7. UpdaterAlone'
      BY <2>0, <3>2, <3>5, <3>6 DEF UpdaterAlone
    <3>8. Behind'
      BY <1>0, <3>3 DEF Behind, HostTyped
    <3>9. ReadyFor(u)'
      BY <1>0, <2>0, <3>1, <3>3, <3>5 DEF ReadyFor, Built, ImageNames, ComposeServices
    <3>10. Ready'
      BY <3>6, <3>9 DEF Ready, ReadyFor, UpdaterWorks
    <3> QED BY <1>a, <3>2, <3>3, <3>4, <3>5, <3>7, <3>8, <3>10 DEF LocksTyped, PartsTyped
  <2> QED BY <2>1, <2>2
<1> QED BY <1>1, <1>2, <1>3

\* git merge: HEAD moves forward, under the updater's lock only.
LEMMA CheckoutKeeps ==
  ASSUME DeployInv, NEW u \in Updaters, Checkout(u)
  PROVE  DeployInv'
<1> USE DEF DeployInv, DeployTyped
<1>1. updater[u].pc \in UpdaterWorks /\ updater[u].pc = "checkout" /\ UNCHANGED <<images, runtime, deployer>>
  BY DEF Checkout, UpdaterWorks
<1>2. host.head <= updater[u].target /\ updater[u].built = 0 /\ updater[u].target \in Nat
  BY <1>1 DEF Ready, ReadyFor, UpdatersTyped
<1>3. CASE Fails(u) /\ UNCHANGED host
  BY <1>1, <1>3, ExitRests
     DEF Fails, DeployFilesTyped, PartsTyped, Behind, HostTyped, DeployersTyped, RuntimeFitsSchema, Running
<1>4. CASE /\ host' = [host EXCEPT !.head = updater[u].target,
                                   !.undeployed = @ \/ host.head # updater[u].target]
           /\ Enters(u, "build", "build")
  <2>1. HostTyped' /\ host'.head = updater[u].target /\ host'.schema = host.schema /\ host'.mixed = host.mixed
    BY <1>2, <1>4 DEF HostTyped
  <2>2. UpdatersTyped' /\ LocksTyped' /\ UpdaterAlone' /\ (ReadyFor(u)' => Ready')
        /\ updater'[u].pc = "build" /\ updater'[u].built = updater[u].built
    BY <1>1, <1>4, UpdaterOnward DEF Enters, UpdaterWorks
  <2>3. DeployFilesTyped'
    BY <1>4 DEF Enters, Stage, DeployFilesTyped, Stages
  <2>4. ReadyFor(u)'
    BY <1>2, <2>2 DEF ReadyFor, Built
  <2>5. Behind'
    BY <1>1, <1>2, <2>1 DEF Behind, HostTyped, PartsTyped
  <2>6. RuntimeFitsSchema'
    BY <1>1, <2>1 DEF RuntimeFitsSchema, Running
  <2> QED BY <1>1, <2>1, <2>2, <2>3, <2>4, <2>5, <2>6 DEF PartsTyped, DeployersTyped
<1> QED BY <1>3, <1>4 DEF Checkout

\* No DDL unless every service stopped.
LEMMA QuiesceKeeps ==
  ASSUME DeployInv, NEW u \in Updaters, Quiesce(u)
  PROVE  DeployInv'
<1> USE DEF DeployInv, DeployTyped
<1>1. updater[u].pc \in UpdaterWorks /\ updater[u].pc = "quiesce" /\ UNCHANGED <<images, deployer>>
  BY DEF Quiesce, UpdaterWorks
<1>2. PICK left \in SUBSET Running :
        StopsTo(left) /\ IF left = {} THEN Enters(u, "migrate", "migration") ELSE Fails(u)
  BY DEF Quiesce
<1>3. /\ PartsTyped' /\ HostTyped' /\ host'.head = host.head /\ host'.schema = host.schema
      /\ RuntimeFitsSchema' /\ (left = {} => \A s \in ComposeServices : runtime'[s] = Down)
  BY <1>1, <1>2, StopsFit
<1>4. Behind'
  BY <1>1, <1>3 DEF Behind
<1>5. CASE left # {}
  BY <1>1, <1>2, <1>3, <1>4, <1>5, ExitRests DEF Fails, DeployFilesTyped, DeployersTyped
<1>6. CASE left = {}
  <2>1. UpdatersTyped' /\ LocksTyped' /\ UpdaterAlone' /\ (ReadyFor(u)' => Ready') /\ updater'[u].pc = "migrate"
    BY <1>1, <1>2, <1>6, UpdaterOnward DEF Enters, UpdaterWorks
  <2>2. DeployFilesTyped'
    BY <1>2, <1>6 DEF Enters, Stage, DeployFilesTyped, Stages
  <2>3. ReadyFor(u)'
    BY <1>1, <1>3, <1>6, <2>1 DEF Ready, ReadyFor
  <2> QED BY <1>1, <1>3, <1>4, <2>1, <2>2, <2>3 DEF DeployersTyped
<1> QED BY <1>5, <1>6

\* The schema moves to HEAD, with every service down.
LEMMA MigrateKeeps ==
  ASSUME DeployInv, NEW u \in Updaters, Migrate(u)
  PROVE  DeployInv'
<1> USE DEF DeployInv, DeployTyped
<1>1. updater[u].pc \in UpdaterWorks /\ updater[u].pc = "migrate" /\ UNCHANGED <<images, runtime, deployer>>
  BY DEF Migrate, UpdaterWorks
<1>2. PICK applied \in BOOLEAN :
        /\ host' = [host EXCEPT !.schema = IF applied /\ images["migrate"] > @ THEN images["migrate"] ELSE @]
        /\ (applied /\ Turns(u, "start") /\ UNCHANGED <<files, deployLocks>>) \/ Fails(u)
  BY DEF Migrate
<1>3. /\ \A i \in ImageNames : images[i] = host.head
      /\ \A s \in ComposeServices : runtime[s] = Down
      /\ images["migrate"] \in Nat
  BY <1>1 DEF Ready, ReadyFor, PartsTyped, ImageNames
<1>4. HostTyped' /\ host'.head = host.head /\ host'.schema <= host.head /\ (applied => host'.schema = host.head)
  BY <1>2, <1>3 DEF HostTyped, Behind, ImageNames
<1>5. Behind'
  BY <1>1, <1>3, <1>4 DEF Behind, PartsTyped, HostTyped
<1>6. RuntimeFitsSchema'
  BY <1>1, <1>3 DEF RuntimeFitsSchema, Running
<1>7. CASE Fails(u)
  BY <1>1, <1>4, <1>5, <1>6, <1>7, ExitRests DEF Fails, DeployFilesTyped, PartsTyped, DeployersTyped
<1>8. CASE applied /\ Turns(u, "start") /\ UNCHANGED <<files, deployLocks>>
  <2>1. UpdatersTyped' /\ LocksTyped' /\ UpdaterAlone' /\ (ReadyFor(u)' => Ready') /\ updater'[u].pc = "start"
    BY <1>1, <1>8, UpdaterOnward DEF UpdaterWorks
  <2>2. ReadyFor(u)'
    BY <1>1, <1>3, <1>4, <1>8, <2>1 DEF ReadyFor
  <2> QED BY <1>1, <1>4, <1>5, <1>6, <1>8, <2>1, <2>2 DEF DeployFilesTyped, PartsTyped, DeployersTyped
<1> QED BY <1>2, <1>7, <1>8

\* Every service starts from an image of HEAD, which is the schema's commit.
LEMMA StartServicesKeeps ==
  ASSUME DeployInv, NEW u \in Updaters, StartServices(u)
  PROVE  DeployInv'
<1> USE DEF DeployInv, DeployTyped
<1>1. updater[u].pc \in UpdaterWorks /\ updater[u].pc = "start" /\ UNCHANGED <<images, deployer>>
  BY DEF StartServices, UpdaterWorks
<1>2. PICK up \in SUBSET ComposeServices :
        /\ runtime' = [s \in ComposeServices |-> IF s \in up THEN images[s] ELSE Down]
        /\ host' = [host EXCEPT !.undeployed = @ /\ up # ComposeServices]
        /\ (up = ComposeServices /\ Enters(u, "check", "verification")) \/ Fails(u)
  BY DEF StartServices
<1>3. \A i \in ImageNames : images[i] = host.schema
  BY <1>1 DEF Ready, ReadyFor
<1>4. HostTyped' /\ host'.head = host.head /\ host'.schema = host.schema
  BY <1>2 DEF HostTyped
<1>5. PartsTyped'
  BY <1>1, <1>2 DEF PartsTyped, ImageNames, Down
<1>6. RuntimeFitsSchema'
  BY <1>2, <1>3, <1>4 DEF RuntimeFitsSchema, Running, ImageNames
<1>7. Behind'
  BY <1>1, <1>4 DEF Behind
<1>8. CASE Fails(u)
  BY <1>1, <1>4, <1>5, <1>6, <1>7, <1>8, ExitRests DEF Fails, DeployFilesTyped, DeployersTyped
<1>9. CASE Enters(u, "check", "verification")
  <2>1. UpdatersTyped' /\ LocksTyped' /\ UpdaterAlone' /\ (ReadyFor(u)' => Ready') /\ updater'[u].pc = "check"
    BY <1>1, <1>9, UpdaterOnward DEF Enters, UpdaterWorks
  <2>2. DeployFilesTyped'
    BY <1>9 DEF Enters, Stage, DeployFilesTyped, Stages
  <2>3. ReadyFor(u)'
    BY <2>1 DEF ReadyFor
  <2> QED BY <1>1, <1>4, <1>5, <1>6, <1>7, <2>1, <2>2, <2>3 DEF DeployersTyped
<1> QED BY <1>2, <1>8, <1>9

LEMMA VerifyKeeps ==
  ASSUME DeployInv, NEW u \in Updaters, VerifyServices(u)
  PROVE  DeployInv'
<1> USE DEF DeployInv, DeployTyped
<1>1. updater[u].pc \in UpdaterWorks /\ UNCHANGED <<images, deployer>>
  BY DEF VerifyServices, UpdaterWorks
<1>2. PICK ok \in BOOLEAN : Exit(u, ok)
  BY DEF VerifyServices, Fails
<1>3. UpdatersTyped' /\ LocksTyped' /\ UpdaterAlone' /\ Ready'
  BY <1>1, <1>2, ExitRests
<1>4. DeployFilesTyped'
  BY DEF VerifyServices, Fails, DeployFilesTyped, Stages
<1>5. PartsTyped' /\ HostTyped' /\ Behind' /\ RuntimeFitsSchema'
  <2>1. CASE UNCHANGED <<runtime, host>>
    BY <1>1, <2>1 DEF PartsTyped, HostTyped, Behind, RuntimeFitsSchema, Running
  <2>2. CASE \E left \in SUBSET Running : StopsTo(left)
    BY <1>1, <2>2, StopsFit DEF Behind
  <2> QED BY <2>1, <2>2 DEF VerifyServices
<1> QED BY <1>1, <1>3, <1>4, <1>5 DEF DeployersTyped

--------------------------------------------------------------------------
(* The operator, and everything together.                                  *)

LEMMA ContainKeeps ==
  ASSUME DeployInv, NEW c \in Deployers, Contain(c)
  PROVE  DeployInv'
<1> USE DEF DeployInv, DeployTyped
<1>1. PICK left \in SUBSET Running : StopsTo(left) /\ Emit(c, deployer[c].failure, left = {})
  BY DEF Contain
<1>2. UNCHANGED <<images, files, updater>>
  BY DEF Contain
<1>3. DeployersTyped' /\ LocksTyped' /\ deployLocks'.update = deployLocks.update
  BY <1>1, EmitKeeps DEF Emit
<1>4. /\ PartsTyped' /\ HostTyped' /\ host'.head = host.head /\ host'.schema = host.schema
      /\ RuntimeFitsSchema' /\ \A s \in ComposeServices : runtime[s] = Down => runtime'[s] = Down
  BY <1>1, <1>2, StopsFit
<1>5. UpdaterAlone' /\ Behind'
  BY <1>2, <1>3, <1>4 DEF UpdaterAlone, Behind
<1>6. Ready'
  BY <1>2, <1>4 DEF Ready, ReadyFor, Built
<1> QED BY <1>2, <1>3, <1>4, <1>5, <1>6 DEF DeployFilesTyped, UpdatersTyped

\* By hand, services may start from images of different commits: then mixed.
LEMMA ByHandKeeps ==
  ASSUME DeployInv, StartByHand
  PROVE  DeployInv'
<1> USE DEF DeployInv, DeployTyped
<1>1. UNCHANGED <<images, files, deployLocks, deployer, updater>>
  BY DEF StartByHand
<1>2. \A u \in Updaters : updater[u].pc \in {"none", "done", "failed"}
  BY DEF StartByHand, UpdatersTyped
<1> DEFINE schema == IF images["migrate"] > host.schema THEN images["migrate"] ELSE host.schema
<1>3. PICK up \in SUBSET ComposeServices :
        /\ runtime' = [s \in ComposeServices |-> IF s \in up THEN images[s] ELSE Down]
        /\ host' = [host EXCEPT !.schema = schema,
                                !.undeployed = @ /\ runtime' # [s \in ComposeServices |-> host.head],
                                !.mixed = \E s \in up : images[s] # schema]
  BY Zenon DEF StartByHand
<1>4. schema \in Nat /\ schema <= host.head
  BY DEF HostTyped, PartsTyped, Behind, ImageNames
<1> HIDE DEF schema
<1>5. HostTyped' /\ host'.head = host.head /\ host'.schema = schema
      /\ host'.mixed = (\E s \in up : images[s] # schema)
  BY <1>3, <1>4 DEF HostTyped
<1>6. PartsTyped'
  BY <1>1, <1>3 DEF PartsTyped, ImageNames, Down
<1>7. Behind'
  BY <1>1, <1>4, <1>5 DEF Behind
<1>8. RuntimeFitsSchema'
  BY <1>3, <1>5 DEF RuntimeFitsSchema, Running
<1>9. UpdaterAlone' /\ Ready'
  BY <1>1, <1>2 DEF UpdaterAlone, Ready, ReadyFor, UpdaterWorks
<1> QED BY <1>1, <1>5, <1>6, <1>7, <1>8, <1>9 DEF DeployFilesTyped, LocksTyped, DeployersTyped, UpdatersTyped

LEMMA OperatorCalm ==
  ASSUME DeployInv, UpdateByHand \/ RemoteMoves
  PROVE  DeployTyped' /\ SystemCalm
<1> USE DEF DeployInv, DeployTyped
<1>1. CASE UpdateByHand
  <2>1. UpdatersTyped' /\ updater'[ByHand].pc = "lock" /\ updater'[ByHand].built = 0
    BY <1>1 DEF UpdateByHand, UpdatersTyped, UpdaterSteps, NoUpdater, HostTyped, Updaters
  <2>2. \A v \in Updaters \ {ByHand} : updater'[v] = updater[v]
    BY <1>1 DEF UpdateByHand, UpdatersTyped
  <2>3. SystemCalm
    BY <1>1, <2>1, <2>2 DEF UpdateByHand, SystemCalm, UpdaterWorks, Ready, ReadyFor
  <2> QED BY <1>1, <2>1, <2>3 DEF UpdateByHand, HostTyped, PartsTyped, DeployFilesTyped, LocksTyped, DeployersTyped
<1>2. CASE RemoteMoves
  <2>1. HostTyped' /\ host'.head = host.head /\ host'.schema = host.schema /\ host'.mixed = host.mixed
    BY <1>2 DEF RemoteMoves, HostTyped
  <2>2. SystemCalm
    BY <1>2, <2>1, UntouchedIsCalm DEF RemoteMoves
  <2> QED BY <1>2, <2>1, <2>2 DEF RemoteMoves, PartsTyped, DeployFilesTyped, LocksTyped, DeployersTyped, UpdatersTyped
<1> QED BY <1>1, <1>2

LEMMA DeployInitInv == DeployInit => DeployInv
<1> SUFFICES ASSUME DeployInit PROVE DeployInv
  OBVIOUS
<1> USE DEF DeployInit
<1>1. HostTyped /\ PartsTyped /\ DeployFilesTyped /\ LocksTyped
  BY DEF HostTyped, PartsTyped, ImageNames, DeployFilesTyped, NoPlan, Plans, Stages, LocksTyped, Holders
<1>2. DeployersTyped /\ UpdatersTyped
  BY RunEnds DEF DeployersTyped, UpdatersTyped, Updaters, NoUpdater, UpdaterSteps
<1>3. \A u \in Updaters : updater[u].pc = "none"
  BY DEF Updaters, NoUpdater
<1>4. UpdaterAlone /\ Ready
  BY <1>3 DEF UpdaterAlone, Ready, ReadyFor, UpdaterWorks
<1>5. Behind /\ RuntimeFitsSchema
  BY DEF Behind, ImageNames, RuntimeFitsSchema, Running
<1> QED BY <1>1, <1>2, <1>4, <1>5 DEF DeployInv, DeployTyped

LEMMA StepInv == DeployInv /\ [DeployNext]_deployVars => DeployInv'
<1> SUFFICES ASSUME DeployInv, [DeployNext]_deployVars PROVE DeployInv'
  OBVIOUS
<1>1. CASE \E c \in Deployers : ControllerStep(c)
  BY <1>1, ControllerCalm, SystemCalmKeeps, ContainKeeps DEF DeployInv
<1>2. CASE \E u \in Updaters : UpdaterStep(u)
  BY <1>2, EarlyUpdateSteps, CheckoutKeeps, QuiesceKeeps, MigrateKeeps, StartServicesKeeps, VerifyKeeps DEF UpdaterStep
<1>3. CASE UpdateByHand \/ RemoteMoves
  BY <1>3, OperatorCalm, SystemCalmKeeps DEF DeployInv
<1>4. CASE StartByHand
  BY <1>4, ByHandKeeps
<1>5. CASE UNCHANGED deployVars
  <2>1. DeployTyped'
    BY <1>5 DEF DeployInv, DeployTyped, HostTyped, PartsTyped, DeployFilesTyped, LocksTyped, DeployersTyped, UpdatersTyped, deployVars
  <2> QED BY <1>5, <2>1, UntouchedIsCalm, SystemCalmKeeps DEF DeployInv, deployVars
<1> QED BY <1>1, <1>2, <1>3, <1>4, <1>5 DEF DeployNext, Updaters

\* No service runs against a schema of another commit than its own, whichever
\* controllers, updaters started by hand, killed controllers and lost locks
\* interleave (scripts/deploy.mjs, scripts/update.sh, scripts/compose-migrate.sh).
THEOREM RuntimeFits == DeploySpec => []RuntimeFitsSchema
<1>1. DeployInv => RuntimeFitsSchema
  BY DEF DeployInv
<1> QED BY DeployInitInv, StepInv, <1>1, PTL DEF DeploySpec

--------------------------------------------------------------------------
(* What a controller's last line claims.                                   *)

\* Every image, the schema and whatever runs is of this commit.
Serves(n) == /\ \A i \in ImageNames : images[i] = n
             /\ host.schema = n
             /\ \A s \in ComposeServices : runtime[s] \in {Down, n}
Served(n) == n <= host.head /\ (n = host.head => Serves(n))

\* HEAD is deployed, unless an update that moved it has not started services.
HeadDeployed ==
  /\ host.head >= 1
  /\ ~host.undeployed => \A s \in ComposeServices : images[s] = host.head /\ runtime[s] \in {Down, host.head}

\* Steps that leave the deployed parts as they are, but for stopped services.
Steady == /\ images' = images /\ host'.head = host.head /\ host'.schema = host.schema
          /\ host'.undeployed = host.undeployed
          /\ \A s \in ComposeServices : runtime'[s] \in {Down, runtime[s]}

LEMMA SteadyServes ==
  ASSUME DeployInv, HeadDeployed, Steady
  PROVE  HeadDeployed' /\ \A n \in Nat : Served(n) => Served(n)'
BY DEF HeadDeployed, Steady, Served, Serves

LEMMA StopsSteady ==
  ASSUME DeployInv, UNCHANGED images, NEW left, StopsTo(left)
  PROVE  Steady
BY DEF DeployInv, DeployTyped, HostTyped, StopsTo, Steady

LEMMA ControllerSteady ==
  ASSUME DeployInv, NEW c \in Deployers, ControllerStep(c)
  PROVE  Steady /\ (~Contain(c) => UNCHANGED <<host, images, runtime>>)
<1>1. CASE Contain(c)
  BY <1>1, StopsSteady DEF Contain
<1>2. CASE ~Contain(c)
  <2>1. UNCHANGED <<host, images, runtime>>
    BY <1>2 DEF ControllerStep, Plan, MakePlan, ReportPlan, Apply, ApplyLocked, ResetStage, CheckTarget, CheckRuntime,
       SpawnUpdater, AbortUpdate, UpdaterFailed, UpdaterSucceeded, IndependentVerify, LockHelperDies, LossNoticed,
       ControllerKilled, OrphanDies, Quietly
  <2> QED BY <2>1 DEF Steady
<1> QED BY <1>1, <1>2

\* Whoever deploys HEAD deploys all of it: an updater builds, migrates to and
\* starts what is checked out, and so does an operator with those images.
LEMMA UpdaterServes ==
  ASSUME DeployInv, HeadDeployed, NEW u \in Updaters, UpdaterStep(u)
  PROVE  HeadDeployed' /\ \A n \in Nat : Served(n) => Served(n)'
<1> USE DEF DeployInv, DeployTyped
<1>1. CASE BeginUpdate(u) \/ Backup(u) \/ StartupPreflight(u) \/ Quiesce(u) \/ VerifyServices(u)
  <2>1. Steady
    <3>1. CASE UNCHANGED <<host, images, runtime>>
      BY <3>1 DEF Steady
    <3>2. CASE UNCHANGED images /\ \E left : StopsTo(left)
      BY <3>2, StopsSteady
    <3> QED BY <1>1, <3>1, <3>2 DEF BeginUpdate, Backup, StartupPreflight, Quiesce, VerifyServices
  <2> QED BY <2>1, SteadyServes
<1>2. CASE Checkout(u)
  <2>1. UNCHANGED <<images, runtime>> /\ host.head <= updater[u].target /\ updater[u].target \in Nat
    BY <1>2 DEF Checkout, Ready, ReadyFor, UpdatersTyped
  <2>2. CASE UNCHANGED host
    BY <2>1, <2>2, SteadyServes DEF Steady
  <2>3. CASE host' = [host EXCEPT !.head = updater[u].target,
                                  !.undeployed = @ \/ host.head # updater[u].target]
    <3>1. host'.head = updater[u].target /\ host'.schema = host.schema
          /\ (host'.undeployed <=> host.undeployed \/ host.head # updater[u].target)
      BY <2>3 DEF HostTyped
    <3> QED BY <2>1, <3>1 DEF HeadDeployed, Served, Serves, HostTyped
  <2> QED BY <1>2, <2>2, <2>3 DEF Checkout
<1>3. CASE BuildImage(u)
  <2>1. host' = host /\ runtime' = runtime /\ (images' = images \/ \E i : images' = [images EXCEPT ![i] = host.head])
    BY <1>3 DEF BuildImage
  <2>2. \A i \in ImageNames : images'[i] \in {images[i], host.head}
    BY <2>1 DEF PartsTyped
  <2> QED BY <2>1, <2>2 DEF HeadDeployed, Served, Serves, ImageNames
<1>4. CASE Migrate(u)
  <2>1. images' = images /\ runtime' = runtime /\ host'.head = host.head /\ host'.undeployed = host.undeployed
        /\ (host'.schema = host.schema \/ (host'.schema = images["migrate"] /\ images["migrate"] > host.schema))
    BY <1>4 DEF Migrate, HostTyped
  <2> QED BY <2>1 DEF HeadDeployed, Served, Serves, ImageNames, HostTyped
<1>5. CASE StartServices(u)
  <2>1. \A i \in ImageNames : images[i] = host.head
    BY <1>5 DEF StartServices, Ready, ReadyFor
  <2>2. images' = images /\ host'.head = host.head /\ host'.schema = host.schema
        /\ \A s \in ComposeServices : runtime'[s] \in {Down, images[s]}
    BY <1>5 DEF StartServices, HostTyped
  <2> QED BY <2>1, <2>2, ZenonT(60) DEF HeadDeployed, Served, Serves, ImageNames
<1> QED BY <1>1, <1>2, <1>3, <1>4, <1>5 DEF UpdaterStep

LEMMA OperatorServes ==
  ASSUME DeployInv, HeadDeployed, UpdateByHand \/ StartByHand \/ RemoteMoves
  PROVE  HeadDeployed' /\ \A n \in Nat : Served(n) => Served(n)'
<1> USE DEF DeployInv, DeployTyped
<1>1. CASE UpdateByHand \/ RemoteMoves
  <2>1. Steady
    BY <1>1 DEF UpdateByHand, RemoteMoves, Steady, HostTyped
  <2> QED BY <2>1, SteadyServes
<1>2. CASE StartByHand
  <2> DEFINE schema == IF images["migrate"] > host.schema THEN images["migrate"] ELSE host.schema
             all == [s \in ComposeServices |-> host.head]
  <2>1. PICK up \in SUBSET ComposeServices :
          /\ runtime' = [s \in ComposeServices |-> IF s \in up THEN images[s] ELSE Down]
          /\ host' = [host EXCEPT !.schema = schema, !.undeployed = @ /\ runtime' # all,
                                  !.mixed = \E s \in up : images[s] # schema]
          /\ images' = images
    BY <1>2 DEF StartByHand
  <2>2. host'.head = host.head /\ host'.schema = schema /\ (host'.undeployed <=> host.undeployed /\ runtime' # all)
    BY <2>1 DEF HostTyped
  <2>3. \A s \in ComposeServices : runtime'[s] \in {Down, images[s]} /\ (runtime'[s] # Down => runtime'[s] = images[s])
    BY <2>1
  <2>4. HeadDeployed'
    <3>1. CASE ~host.undeployed
      BY <2>1, <2>2, <2>3, <3>1 DEF HeadDeployed
    <3>2. CASE host.undeployed
      <4>1. ~host'.undeployed => \A s \in ComposeServices : runtime'[s] = host.head
        BY <2>2, <3>2
      <4>2. host.head # Down
        BY DEF HeadDeployed, Down, HostTyped
      <4> QED BY <2>1, <2>2, <2>3, <4>1, <4>2 DEF HeadDeployed
    <3> QED BY <3>1, <3>2
  <2>5. \A n \in Nat : Served(n) => Served(n)'
    BY <2>1, <2>2, <2>3 DEF Served, Serves, ImageNames, HostTyped
  <2> QED BY <2>4, <2>5
<1> QED BY <1>1, <1>2

--------------------------------------------------------------------------
(* The invariant behind the claims.                                        *)

\* From the checkout on an updater works on its target; once it has started
\* the services the target is served for good.
Arrived == \A u \in Updaters :
  /\ updater[u].pc \in {"build", "preflight", "quiesce", "migrate", "start", "check"} => host.head = updater[u].target
  /\ updater[u].pc \in {"check", "done"} => Served(updater[u].target)

PlanFollowed == \A c \in Deployers :
  /\ deployer[c].pc = "updating" /\ updater[c].pc # "none" => updater[c].target = deployer[c].plan.target
  /\ deployer[c].pc = "verify" => Served(deployer[c].plan.target)

HandLocks == updater[ByHand].pc \in UpdaterWorks => deployLocks.run = ByHand

\* The services are as the controller last looked at them.
ServicesUntouched(c) ==
  \/ deployer[c].pc = "spawn"
  \/ /\ deployer[c].pc = "updating"
     /\ \/ updater[c].pc \in {"lock", "backup", "checkout", "build", "preflight", "quiesce"}
        \/ updater[c].pc = "failed" /\ files.stage \in PreQuiescence

UndisturbedBy(c) ==
  /\ ~deployer[c].lost
  /\ Busy(c) => deployLocks.run = c
  /\ updater[c].pc # "none" => deployer[c].pc = "updating"
  /\ deployer[c].pc = "planned" /\ deployer[c].plan.old = deployer[c].plan.target => host.head = deployer[c].plan.target
  /\ ServicesUntouched(c) => \A s \in ComposeServices : runtime[s] = deployer[c].before[s] /\ runtime[s] # Down
  /\ updater[c].pc \in {"quiesce", "migrate", "start", "check"} => files.stage \notin PreQuiescence

\* While no lock helper and no controller was killed, one run at a time works.
Undisturbed == lapses \in Nat /\ (lapses = 0 => \A c \in Deployers : UndisturbedBy(c))

ClaimInv == HeadDeployed /\ Arrived /\ PlanFollowed /\ HandLocks /\ Undisturbed

--------------------------------------------------------------------------
(* What a step of an updater does to its record, the run lock and the stage. *)

EarlyUpdate == {"lock", "backup", "checkout", "build", "preflight"}
LateUpdate == {"quiesce", "migrate", "start", "check"}

UpdaterMoved(u) ==
  /\ UNCHANGED <<deployer, lapses, report>>
  /\ \A v \in Updaters \ {u} : updater'[v] = updater[v]
  /\ updater[u].pc \in EarlyUpdate \cup LateUpdate
  /\ updater'[u].pc # "none" => updater'[u].target = updater[u].target
  /\ updater'[u].pc \in EarlyUpdate \cup {"quiesce"} => updater[u].pc \in EarlyUpdate
  /\ updater[u].pc \in EarlyUpdate => runtime' = runtime
  /\ updater'[u].pc = "failed" => files' = files
  /\ updater'[u].pc = "done" => updater[u].pc = "check"
  /\ updater'[u].pc = "check" => StartServices(u)
  /\ updater'[u].pc \in {"build", "preflight", "quiesce", "migrate", "start", "check"} =>
       \/ Checkout(u) /\ host'.head = updater[u].target
       \/ /\ updater[u].pc \in {"build", "preflight", "quiesce", "migrate", "start", "check"}
          /\ host'.head = host.head
  /\ updater'[u].pc \in LateUpdate =>
       \/ u # ByHand => files'.stage \notin PreQuiescence
       \/ updater[u].pc = "migrate" /\ files' = files
  /\ updater'[u].pc \in UpdaterWorks =>
       \/ u = ByHand /\ deployLocks'.run = ByHand
       \/ u # ByHand /\ deployLocks'.run = deployLocks.run
       \/ deployLocks' = deployLocks /\ updater[u].pc \in UpdaterWorks
  /\ \/ deployLocks'.run = deployLocks.run
     \/ u = ByHand /\ deployLocks.run \in {ByHand, NoHolder}

LEMMA ExitMoved ==
  ASSUME DeployInv, NEW u \in Updaters, NEW ok \in BOOLEAN, Exit(u, ok), UNCHANGED <<deployer, lapses, report>>,
         updater[u].pc \in EarlyUpdate \cup LateUpdate, ok => updater[u].pc = "check", ~ok => files' = files,
         updater[u].pc \in EarlyUpdate => runtime' = runtime
  PROVE  UpdaterMoved(u)
<1> USE DEF DeployInv, DeployTyped
<1>1. \A v \in Updaters \ {u} : updater'[v] = updater[v]
  BY DEF Exit, UpdatersTyped
<1>2. updater'[u].pc \in {"none", "failed", "done"} /\ (updater'[u].pc = "done" => ok) /\ (updater'[u].pc = "failed" => ~ok)
      /\ (updater'[u].pc # "none" => updater'[u].target = updater[u].target)
  BY DEF Exit, UpdatersTyped, NoUpdater
<1>3. deployLocks'.run = deployLocks.run \/ (u = ByHand /\ deployLocks.run \in {ByHand, NoHolder})
  BY DEF Exit, LocksTyped
<1> QED BY <1>1, <1>2, <1>3 DEF UpdaterMoved, EarlyUpdate, LateUpdate, UpdaterWorks

LEMMA TurnMoved ==
  ASSUME DeployInv, NEW u \in Updaters, NEW pc \in UpdaterSteps, Turns(u, pc)
  PROVE  /\ \A v \in Updaters \ {u} : updater'[v] = updater[v]
         /\ updater'[u].pc = pc /\ updater'[u].target = updater[u].target /\ updater'[u].built = updater[u].built
BY DEF DeployInv, DeployTyped, UpdatersTyped, Turns

LEMMA UpdaterMoves ==
  ASSUME DeployInv, NEW u \in Updaters, UpdaterStep(u)
  PROVE  UpdaterMoved(u)
<1> USE DEF DeployInv, DeployTyped
<1>0. UNCHANGED <<deployer, lapses, report>>
  BY DEF UpdaterStep, BeginUpdate, Backup, Checkout, BuildImage, StartupPreflight, Quiesce, Migrate, StartServices,
     VerifyServices
<1>1. CASE BeginUpdate(u)
  <2>1. updater[u].pc = "lock" /\ UNCHANGED <<host, runtime>>
    BY <1>1 DEF BeginUpdate
  <2>2. CASE Fails(u)
    BY <1>0, <2>1, <2>2, ExitMoved DEF Fails, EarlyUpdate
  <2>3. CASE deployLocks' = [run |-> IF u = ByHand THEN u ELSE deployLocks.run, update |-> u] /\ MayUpdate(u)
             /\ Turns(u, "backup")
    <3>1. (\A v \in Updaters \ {u} : updater'[v] = updater[v])
          /\ updater'[u].pc = "backup" /\ updater'[u].target = updater[u].target
      BY <2>3, TurnMoved DEF UpdaterSteps, UpdaterWorks
    <3>2. deployLocks'.run = (IF u = ByHand THEN ByHand ELSE deployLocks.run)
          /\ (u = ByHand => deployLocks.run = NoHolder)
      BY <2>3 DEF MayUpdate
    <3> QED BY <1>0, <2>1, <3>1, <3>2 DEF UpdaterMoved, EarlyUpdate, LateUpdate
  <2> QED BY <1>1, <2>2, <2>3 DEF BeginUpdate
<1>2. CASE Backup(u)
  <2>1. updater[u].pc = "backup" /\ UNCHANGED <<host, runtime>>
    BY <1>2 DEF Backup
  <2>2. CASE Fails(u)
    BY <1>0, <2>1, <2>2, ExitMoved DEF Fails, EarlyUpdate
  <2>3. CASE Enters(u, "checkout", "checkout")
    <3>1. (\A v \in Updaters \ {u} : updater'[v] = updater[v])
          /\ updater'[u].pc = "checkout" /\ updater'[u].target = updater[u].target
      BY <2>3, TurnMoved DEF Enters, UpdaterSteps, UpdaterWorks
    <3> QED BY <1>0, <2>1, <2>3, <3>1 DEF Enters, UpdaterMoved, EarlyUpdate, LateUpdate, UpdaterWorks
  <2> QED BY <1>2, <2>2, <2>3 DEF Backup
<1>3. CASE Checkout(u)
  <2>1. updater[u].pc = "checkout" /\ UNCHANGED runtime
    BY <1>3 DEF Checkout
  <2>2. CASE Fails(u)
    BY <1>0, <2>1, <2>2, ExitMoved DEF Fails, EarlyUpdate
  <2>3. CASE /\ host' = [host EXCEPT !.head = updater[u].target, !.undeployed = @ \/ host.head # updater[u].target]
             /\ Enters(u, "build", "build")
    <3>1. (\A v \in Updaters \ {u} : updater'[v] = updater[v])
          /\ updater'[u].pc = "build" /\ updater'[u].target = updater[u].target
      BY <2>3, TurnMoved DEF Enters, UpdaterSteps, UpdaterWorks
    <3>2. host'.head = updater[u].target
      BY <2>3 DEF HostTyped
    <3> QED BY <1>0, <1>3, <2>1, <2>3, <3>1, <3>2 DEF Enters, UpdaterMoved, EarlyUpdate, LateUpdate, UpdaterWorks
  <2> QED BY <1>3, <2>2, <2>3 DEF Checkout
<1>4. CASE BuildImage(u)
  <2> DEFINE n == updater[u].built + 1
             last == n = Len(BuildOrder)
             pc == IF last THEN "preflight" ELSE "build"
  <2>1. updater[u].pc = "build" /\ UNCHANGED <<host, runtime>>
    BY <1>4 DEF BuildImage
  <2>2. CASE Fails(u)
    BY <1>0, <2>1, <2>2, ExitMoved DEF Fails, EarlyUpdate
  <2>3. CASE ~Fails(u)
    <3>1. updater' = [updater EXCEPT ![u].built = n, ![u].pc = IF last THEN "preflight" ELSE @]
          /\ UNCHANGED deployLocks
      BY <1>4, <2>3 DEF BuildImage
    <3> HIDE DEF n
    <3> HIDE DEF last
    <3>2. (\A v \in Updaters \ {u} : updater'[v] = updater[v]) /\ updater'[u].pc = (IF last THEN "preflight" ELSE updater[u].pc)
          /\ updater'[u].target = updater[u].target
      BY <3>1 DEF UpdatersTyped
    <3>3. updater'[u].pc \in {"build", "preflight"}
      BY <2>1, <3>2
    <3> QED BY <1>0, <2>1, <3>1, <3>2, <3>3 DEF UpdaterMoved, EarlyUpdate, LateUpdate, UpdaterWorks
  <2> QED BY <2>2, <2>3
<1>5. CASE StartupPreflight(u)
  <2>1. updater[u].pc = "preflight" /\ UNCHANGED <<host, runtime>>
    BY <1>5 DEF StartupPreflight
  <2>2. CASE Fails(u)
    BY <1>0, <2>1, <2>2, ExitMoved DEF Fails, EarlyUpdate
  <2>3. CASE Enters(u, "quiesce", "quiescing")
    <3>1. (\A v \in Updaters \ {u} : updater'[v] = updater[v])
          /\ updater'[u].pc = "quiesce" /\ updater'[u].target = updater[u].target
      BY <2>3, TurnMoved DEF Enters, UpdaterSteps, UpdaterWorks
    <3>2. u # ByHand => files'.stage = "quiescing"
      BY <2>3 DEF Enters, Stage, DeployFilesTyped
    <3> QED BY <1>0, <2>1, <2>3, <3>1, <3>2 DEF Enters, UpdaterMoved, EarlyUpdate, LateUpdate, UpdaterWorks, PreQuiescence
  <2> QED BY <1>5, <2>2, <2>3 DEF StartupPreflight
<1>6. CASE Quiesce(u)
  <2>1. PICK left \in SUBSET Running :
          StopsTo(left) /\ IF left = {} THEN Enters(u, "migrate", "migration") ELSE Fails(u)
    BY <1>6 DEF Quiesce
  <2>2. updater[u].pc = "quiesce" /\ host'.head = host.head
    BY <1>6, <2>1, StopsFit DEF Quiesce
  <2>3. CASE Fails(u)
    BY <1>0, <2>2, <2>3, ExitMoved DEF Fails, EarlyUpdate, LateUpdate
  <2>4. CASE Enters(u, "migrate", "migration")
    <3>1. (\A v \in Updaters \ {u} : updater'[v] = updater[v])
          /\ updater'[u].pc = "migrate" /\ updater'[u].target = updater[u].target
      BY <2>4, TurnMoved DEF Enters, UpdaterSteps, UpdaterWorks
    <3>2. u # ByHand => files'.stage = "migration"
      BY <2>4 DEF Enters, Stage, DeployFilesTyped
    <3> QED BY <1>0, <2>2, <2>4, <3>1, <3>2 DEF Enters, UpdaterMoved, EarlyUpdate, LateUpdate, UpdaterWorks, PreQuiescence
  <2> QED BY <2>1, <2>3, <2>4
<1>7. CASE Migrate(u)
  <2>1. PICK applied \in BOOLEAN :
          /\ host' = [host EXCEPT !.schema = IF applied /\ images["migrate"] > @ THEN images["migrate"] ELSE @]
          /\ (applied /\ Turns(u, "start") /\ UNCHANGED <<files, deployLocks>>) \/ Fails(u)
    BY <1>7 DEF Migrate
  <2>2. updater[u].pc = "migrate" /\ host'.head = host.head
    BY <1>7, <2>1 DEF Migrate, HostTyped
  <2>3. CASE Fails(u)
    BY <1>0, <2>2, <2>3, ExitMoved DEF Fails, EarlyUpdate, LateUpdate
  <2>4. CASE Turns(u, "start") /\ UNCHANGED <<files, deployLocks>>
    <3>1. (\A v \in Updaters \ {u} : updater'[v] = updater[v])
          /\ updater'[u].pc = "start" /\ updater'[u].target = updater[u].target
      BY <2>4, TurnMoved DEF UpdaterSteps, UpdaterWorks
    <3> QED BY <1>0, <2>2, <2>4, <3>1 DEF UpdaterMoved, EarlyUpdate, LateUpdate, UpdaterWorks
  <2> QED BY <2>1, <2>3, <2>4
<1>8. CASE StartServices(u)
  <2>1. PICK up \in SUBSET ComposeServices :
          /\ host' = [host EXCEPT !.undeployed = @ /\ up # ComposeServices]
          /\ (up = ComposeServices /\ Enters(u, "check", "verification")) \/ Fails(u)
    BY <1>8 DEF StartServices
  <2>2. updater[u].pc = "start" /\ host'.head = host.head
    BY <1>8, <2>1 DEF StartServices, HostTyped
  <2>3. CASE Fails(u)
    BY <1>0, <2>2, <2>3, ExitMoved DEF Fails, EarlyUpdate, LateUpdate
  <2>4. CASE Enters(u, "check", "verification")
    <3>1. (\A v \in Updaters \ {u} : updater'[v] = updater[v])
          /\ updater'[u].pc = "check" /\ updater'[u].target = updater[u].target
      BY <2>4, TurnMoved DEF Enters, UpdaterSteps, UpdaterWorks
    <3>2. u # ByHand => files'.stage = "verification"
      BY <2>4 DEF Enters, Stage, DeployFilesTyped
    <3> QED BY <1>0, <1>8, <2>2, <2>4, <3>1, <3>2 DEF Enters, UpdaterMoved, EarlyUpdate, LateUpdate, UpdaterWorks, PreQuiescence
  <2> QED BY <2>1, <2>3, <2>4
<1>9. CASE VerifyServices(u)
  <2>1. updater[u].pc = "check"
    BY <1>9 DEF VerifyServices
  <2>2. CASE Fails(u)
    BY <1>0, <2>1, <2>2, ExitMoved DEF Fails, EarlyUpdate, LateUpdate
  <2>3. CASE Exit(u, TRUE)
    BY <1>0, <2>1, <2>3, ExitMoved DEF EarlyUpdate, LateUpdate
  <2> QED BY <1>9, <2>2, <2>3 DEF VerifyServices
<1> QED BY <1>1, <1>2, <1>3, <1>4, <1>5, <1>6, <1>7, <1>8, <1>9 DEF UpdaterStep

\* A second updater only finds the lock taken.
LEMMA OneMoves ==
  ASSUME DeployInv, NEW u \in Updaters, UpdaterStep(u), NEW v \in Updaters, v # u, updater[v].pc \in UpdaterWorks
  PROVE  UNCHANGED <<host, images, runtime, files>>
<1>1. updater[u].pc \notin UpdaterWorks
  BY OneWorks
<1>2. BeginUpdate(u)
  BY <1>1 DEF UpdaterStep, UpdaterWorks, Backup, Checkout, BuildImage, StartupPreflight, Quiesce, Migrate,
     StartServices, VerifyServices
<1>3. deployLocks.update = v
  BY DEF DeployInv, UpdaterAlone
<1>4. ~MayUpdate(u)
  BY <1>3, DeployNames DEF MayUpdate, Updaters
<1> QED BY <1>2, <1>4 DEF BeginUpdate, Fails

\* The services that an updater starts are its target's.
LEMMA StartedServed ==
  ASSUME DeployInv, Arrived, NEW u \in Updaters, StartServices(u)
  PROVE  \A n \in Nat : n = updater[u].target => Served(n)'
<1> USE DEF DeployInv, DeployTyped
<1>1. updater[u].pc = "start" /\ images' = images
  BY DEF StartServices
<1>2. PICK up \in SUBSET ComposeServices :
        /\ runtime' = [s \in ComposeServices |-> IF s \in up THEN images[s] ELSE Down]
        /\ host' = [host EXCEPT !.undeployed = @ /\ up # ComposeServices]
  BY DEF StartServices
<1>3. host'.head = host.head /\ host'.schema = host.schema
  BY <1>2 DEF HostTyped
<1>4. (\A i \in ImageNames : images[i] = host.head) /\ host.schema = host.head /\ host.head = updater[u].target
  BY <1>1 DEF Ready, ReadyFor, Arrived
<1>5. \A s \in ComposeServices : runtime'[s] \in {Down, host.head}
  BY <1>2, <1>4 DEF ImageNames
<1> QED BY <1>1, <1>3, <1>4, <1>5 DEF Served, Serves, HostTyped

LEMMA UpdaterArrives ==
  ASSUME DeployInv, DeployInv', ClaimInv, NEW u \in Updaters, UpdaterStep(u)
  PROVE  Arrived'
<1>0. UpdaterMoved(u) /\ (\A n \in Nat : Served(n) => Served(n)') /\ (\A v \in Updaters : updater[v].target \in Nat)
  BY UpdaterMoves, UpdaterServes DEF ClaimInv, DeployInv, DeployTyped, UpdatersTyped
<1> DEFINE OnTarget == {"build", "preflight", "quiesce", "migrate", "start", "check"}
<1>1. ASSUME NEW v \in Updaters, updater'[v].pc \in OnTarget PROVE host'.head = updater'[v].target
  <2>1. CASE v = u
    BY <1>0, <1>1, <2>1 DEF UpdaterMoved, ClaimInv, Arrived
  <2>2. CASE v # u
    <3>1. updater'[v] = updater[v] /\ updater[v].pc \in UpdaterWorks
      BY <1>0, <1>1, <2>2 DEF UpdaterMoved, UpdaterWorks
    <3> QED BY <1>1, <2>2, <3>1, OneMoves DEF ClaimInv, Arrived
  <2> QED BY <2>1, <2>2
<1>2. ASSUME NEW v \in Updaters, updater'[v].pc \in {"check", "done"} PROVE Served(updater[v].target)'
  <2>1. CASE v = u
    <3>1. updater'[u].target = updater[u].target /\ (updater[u].pc = "check" \/ StartServices(u))
      BY <1>0, <1>2, <2>1 DEF UpdaterMoved
    <3>2. \A n \in Nat : n = updater[u].target => Served(n)'
      BY <1>0, <3>1, StartedServed DEF ClaimInv, Arrived
    <3> QED BY <1>0, <2>1, <3>1, <3>2 DEF Served, Serves
  <2>2. CASE v # u
    <3>1. updater'[v] = updater[v]
      BY <1>0, <2>2 DEF UpdaterMoved
    <3> QED BY <1>0, <1>2, <3>1 DEF ClaimInv, Arrived, Served, Serves
  <2> QED BY <2>1, <2>2
<1> QED BY <1>1, <1>2 DEF Arrived

LEMMA UpdaterFollows ==
  ASSUME DeployInv, ClaimInv, NEW u \in Updaters, UpdaterStep(u)
  PROVE  PlanFollowed' /\ HandLocks'
<1>0. UpdaterMoved(u) /\ (\A n \in Nat : Served(n) => Served(n)')
      /\ (\A c \in Deployers : deployer[c].plan.target \in Nat)
  BY UpdaterMoves, UpdaterServes DEF ClaimInv, DeployInv, DeployTyped, DeployersTyped, ControllerRuns, Plans
<1>1. \A v \in Updaters : updater'[v].pc # "none" => updater[v].pc # "none" /\ updater'[v].target = updater[v].target
  BY <1>0 DEF UpdaterMoved, EarlyUpdate, LateUpdate
<1>2. PlanFollowed'
  <2> SUFFICES ASSUME NEW c \in Deployers
               PROVE  /\ deployer'[c].pc = "updating" /\ updater'[c].pc # "none" =>
                           updater'[c].target = deployer'[c].plan.target
                      /\ deployer'[c].pc = "verify" => Served(deployer[c].plan.target)'
    BY DEF PlanFollowed
  <2>1. deployer' = deployer /\ c \in Updaters
    BY <1>0 DEF UpdaterMoved, Updaters
  <2> QED BY <1>0, <1>1, <2>1 DEF ClaimInv, PlanFollowed, Served, Serves
<1>3. HandLocks'
  <2> SUFFICES ASSUME updater'[ByHand].pc \in UpdaterWorks PROVE deployLocks'.run = ByHand
    BY DEF HandLocks
  <2>1. CASE u = ByHand
    BY <1>0, <2>1 DEF UpdaterMoved, ClaimInv, HandLocks
  <2>2. CASE u # ByHand
    <3>1. updater'[ByHand] = updater[ByHand] /\ deployLocks'.run = deployLocks.run
      BY <1>0, <2>2 DEF UpdaterMoved, Updaters
    <3> QED BY <3>1 DEF ClaimInv, HandLocks
  <2> QED BY <2>1, <2>2
<1> QED BY <1>2, <1>3

\* While nobody is killed, an updater other than the busy controller's own
\* finds the run lock taken.
LEMMA OneRun ==
  ASSUME DeployInv, ClaimInv, lapses = 0, NEW c \in Deployers, Busy(c), NEW u \in Updaters, u # c, UpdaterStep(u)
  PROVE  UNCHANGED <<host, images, runtime, files>>
<1> USE DEF ClaimInv, Undisturbed, UndisturbedBy
<1>1. deployLocks.run = c /\ c # ByHand /\ c # NoHolder
  BY DeployNames
<1>2. UpdaterMoved(u)
  BY UpdaterMoves
<1>3. u = ByHand
  BY <1>1, <1>2 DEF UpdaterMoved, Busy, Updaters, EarlyUpdate, LateUpdate
<1>4. updater[u].pc \notin UpdaterWorks
  BY <1>1, <1>3 DEF HandLocks
<1>5. BeginUpdate(u)
  BY <1>4 DEF UpdaterStep, UpdaterWorks, Backup, Checkout, BuildImage, StartupPreflight, Quiesce, Migrate,
     StartServices, VerifyServices
<1>6. ~MayUpdate(u)
  BY <1>1, <1>3 DEF MayUpdate
<1>7. UNCHANGED <<host, images, runtime, files>> 
  BY <1>5, <1>6 DEF BeginUpdate, Fails
<1> QED BY <1>7

LEMMA UpdaterUndisturbed ==
  ASSUME DeployInv, ClaimInv, NEW u \in Updaters, UpdaterStep(u)
  PROVE  Undisturbed'
<1>0. UpdaterMoved(u)
  BY UpdaterMoves
<1>1. lapses' \in Nat /\ lapses' = lapses /\ deployer' = deployer
  BY <1>0 DEF UpdaterMoved, ClaimInv, Undisturbed
<1> SUFFICES ASSUME lapses = 0, NEW c \in Deployers PROVE UndisturbedBy(c)'
  BY <1>1 DEF Undisturbed
<1>2. UndisturbedBy(c) /\ c \in Updaters /\ c # ByHand /\ c # NoHolder
  BY DeployNames DEF ClaimInv, Undisturbed, Updaters
<1>3. updater'[c].pc # "none" => updater[c].pc # "none"
  BY <1>0, <1>2 DEF UpdaterMoved, EarlyUpdate, LateUpdate
<1>4. Busy(c) => deployLocks'.run = c
  BY <1>0, <1>2 DEF UpdaterMoved, UndisturbedBy
<1>5. deployer[c].pc = "planned" => host'.head = host.head
  <2> SUFFICES ASSUME deployer[c].pc = "planned" PROVE host'.head = host.head
    OBVIOUS
  <2>1. Busy(c) /\ u # c
    BY <1>0, <1>2 DEF Busy, UndisturbedBy, UpdaterMoved, EarlyUpdate, LateUpdate
  <2> QED BY <2>1, OneRun
<1>6. ServicesUntouched(c)' => ServicesUntouched(c) /\ runtime' = runtime
  <2> SUFFICES ASSUME ServicesUntouched(c)' PROVE ServicesUntouched(c) /\ runtime' = runtime
    OBVIOUS
  <2>0. Busy(c)
    BY <1>1 DEF ServicesUntouched, Busy
  <2>1. CASE u # c
    <3>1. UNCHANGED <<runtime, files>>
      BY <2>0, <2>1, OneRun
    <3>2. updater'[c] = updater[c]
      BY <1>0, <1>2, <2>1 DEF UpdaterMoved
    <3> QED BY <1>1, <3>1, <3>2 DEF ServicesUntouched
  <2>2. CASE u = c
    <3>1. deployer[c].pc = "updating" /\ updater[c].pc \in EarlyUpdate \cup LateUpdate
      BY <1>0, <1>2, <2>2 DEF UpdaterMoved, UndisturbedBy, EarlyUpdate, LateUpdate
    <3>2. updater[c].pc \in EarlyUpdate
      <4>1. CASE updater'[c].pc \in EarlyUpdate \cup {"quiesce"}
        BY <1>0, <2>2, <4>1 DEF UpdaterMoved
      <4>2. CASE updater'[c].pc = "failed" /\ files'.stage \in PreQuiescence
        BY <1>0, <1>2, <2>2, <3>1, <4>2 DEF UpdaterMoved, UndisturbedBy, LateUpdate
      <4> QED BY <1>1, <3>1, <4>1, <4>2 DEF ServicesUntouched, EarlyUpdate
    <3> QED BY <1>0, <2>2, <3>1, <3>2 DEF UpdaterMoved, ServicesUntouched, EarlyUpdate
  <2> QED BY <2>1, <2>2
<1>7. updater'[c].pc \in LateUpdate => files'.stage \notin PreQuiescence
  <2> SUFFICES ASSUME updater'[c].pc \in LateUpdate PROVE files'.stage \notin PreQuiescence
    OBVIOUS
  <2>0. Busy(c)
    BY <1>2, <1>3 DEF Busy, UndisturbedBy, LateUpdate
  <2>1. CASE u # c
    <3>1. files' = files
      BY <2>0, <2>1, OneRun
    <3>2. updater'[c] = updater[c]
      BY <1>0, <1>2, <2>1 DEF UpdaterMoved
    <3> QED BY <1>2, <3>1, <3>2 DEF UndisturbedBy, LateUpdate
  <2>2. CASE u = c
    BY <1>0, <1>2, <2>2 DEF UpdaterMoved, UndisturbedBy, LateUpdate
  <2> QED BY <2>1, <2>2
<1> QED BY <1>1, <1>2, <1>3, <1>4, <1>5, <1>6, <1>7 DEF UndisturbedBy, Busy, LateUpdate

--------------------------------------------------------------------------
(* What a step of a controller does to its run, its updater and the run lock. *)

Elsewhere(c) ==
  /\ \A v \in Updaters \ {c} : updater'[v] = updater[v]
  /\ \A e \in Deployers \ {c} : deployer'[e] = deployer[e]
  /\ \/ deployLocks'.run = deployLocks.run
     \/ deployLocks.run = c /\ deployLocks'.run = NoHolder
     \/ deployLocks.run = NoHolder /\ deployLocks'.run = c
  /\ lapses' \in {lapses, lapses + 1}
  /\ files'.stage = files.stage \/ deployer[c].pc = "reset"

\* The same run, further on.
GoesOn(c, pcs) == /\ deployer'[c].pc \in pcs /\ deployer'[c].plan = deployer[c].plan
                  /\ deployer'[c].lost = deployer[c].lost /\ deployer'[c].before = deployer[c].before

\* Its run begins, goes on, spawns its updater, is over; or something is
\* killed, a loss is noticed, an orphan dies.
RunBegins(c) ==
  /\ deployer'[c].pc \in {"planning", "apply"} /\ ~deployer'[c].lost
  /\ deployer'[c].pc = "planning" => deployLocks'.run = c
  /\ updater'[c] = updater[c] /\ updater[c].pc = "none"
RunOn(c) ==
  /\ deployer'[c].pc \in {"reset", "target", "runtime", "contain", "planned", "spawn", "verify"}
  /\ deployer'[c].lost = deployer[c].lost
  /\ deployer'[c].pc = "planned" =>
       (deployer'[c].plan.old = deployer'[c].plan.target => host.head = deployer'[c].plan.target)
  /\ deployer'[c].pc = "spawn" => deployer'[c].before = runtime /\ Answers
  /\ deployer'[c].pc = "verify" =>
       deployer'[c].plan = deployer[c].plan /\ deployer[c].pc = "updating" /\ updater[c].pc = "done"
  /\ (Busy(c) /\ deployLocks'.run = deployLocks.run) \/ deployLocks'.run = c
  /\ updater'[c].pc = "none" \/ (updater'[c] = updater[c] /\ deployer[c].pc # "updating")
RunSpawns(c) ==
  /\ deployer[c].pc = "spawn" /\ GoesOn(c, {"updating"}) /\ deployLocks'.run = deployLocks.run
  /\ updater'[c].pc = "lock" /\ updater'[c].target = deployer[c].plan.target
RunOver(c) ==
  /\ deployer'[c] = NoRun
  /\ updater'[c].pc = "none" \/ (updater'[c] = updater[c] /\ deployer[c].pc # "updating")
RunHit(c) ==
  /\ \/ lapses' = lapses + 1
     \/ Busy(c) /\ deployLocks.run # c
     \/ Orphan(c) /\ updater[c].pc # "none"
  /\ deployer'[c] = NoRun \/ (deployer'[c].pc = deployer[c].pc /\ deployer'[c].plan = deployer[c].plan)
  /\ updater'[c].pc = "none" \/ updater'[c] = updater[c]
RunMoved(c) == RunBegins(c) \/ RunOn(c) \/ RunSpawns(c) \/ RunOver(c) \/ RunHit(c)

LEMMA EmitMoves ==
  ASSUME DeployInv, NEW c \in Deployers,
         deployer' = [deployer EXCEPT ![c] = NoRun],
         deployLocks' = [deployLocks EXCEPT !.run = IF @ = c THEN NoHolder ELSE @]
  PROVE  /\ deployer'[c] = NoRun /\ \A e \in Deployers \ {c} : deployer'[e] = deployer[e]
         /\ deployLocks'.run = deployLocks.run \/ (deployLocks.run = c /\ deployLocks'.run = NoHolder)
BY DEF DeployInv, DeployTyped, DeployersTyped, LocksTyped

LEMMA GoMoves ==
  ASSUME DeployInv, NEW c \in Deployers, NEW pc, Go(c, pc)
  PROVE  GoesOn(c, {pc}) /\ \A e \in Deployers \ {c} : deployer'[e] = deployer[e]
BY DEF DeployInv, DeployTyped, DeployersTyped, ControllerRuns, Go, GoesOn

LEMMA FailByStageMoves ==
  ASSUME DeployInv, NEW c \in Deployers, FailByStage(c)
  PROVE  /\ \A e \in Deployers \ {c} : deployer'[e] = deployer[e]
         /\ deployer'[c] = NoRun \/ GoesOn(c, {"contain"})
         /\ \/ deployLocks'.run = deployLocks.run
            \/ deployLocks.run = c /\ deployLocks'.run = NoHolder
         /\ deployer'[c] # NoRun => deployLocks' = deployLocks
<1>1. CASE FailureState(files.stage) = "pre_migration_failure"
  BY <1>1, EmitMoves DEF FailByStage, Emit
<1>2. CASE FailureState(files.stage) # "pre_migration_failure"
  BY <1>2 DEF DeployInv, DeployTyped, DeployersTyped, ControllerRuns, FailByStage, GoesOn
<1> QED BY <1>1, <1>2

LEMMA TakeRunLockMoves ==
  ASSUME DeployInv, NEW c \in Deployers, NEW pc, NEW STATE mine, mine \in ControllerRuns, TakeRunLock(c, pc, mine)
  PROVE  /\ \A e \in Deployers \ {c} : deployer'[e] = deployer[e]
         /\ \/ deployer'[c] = NoRun
            \/ deployer'[c] = [mine EXCEPT !.pc = pc] /\ deployLocks.run = NoHolder /\ deployLocks'.run = c
         /\ \/ deployLocks'.run = deployLocks.run
            \/ deployLocks.run = c /\ deployLocks'.run = NoHolder
            \/ deployLocks.run = NoHolder /\ deployLocks'.run = c
<1>1. CASE deployLocks.run # NoHolder
  BY <1>1, EmitMoves DEF TakeRunLock, Emit
<1>2. CASE deployLocks.run = NoHolder
  BY <1>2 DEF DeployInv, DeployTyped, DeployersTyped, LocksTyped, TakeRunLock
<1> QED BY <1>1, <1>2

LEMMA ControllerMoves ==
  ASSUME DeployInv, NEW c \in Deployers, ControllerStep(c)
  PROVE  Elsewhere(c) /\ RunMoved(c)
<1> USE DEF DeployInv, DeployTyped
<1>0. deployer[c] \in ControllerRuns /\ c \in Updaters
  BY DEF DeployersTyped, Updaters
<1>l. lapses' \in {lapses, lapses + 1}
  BY DEF ControllerStep, Plan, MakePlan, ReportPlan, Apply, ApplyLocked, ResetStage, CheckTarget, CheckRuntime,
     SpawnUpdater, AbortUpdate, UpdaterFailed, UpdaterSucceeded, IndependentVerify, Contain, LockHelperDies, LossNoticed,
     ControllerKilled, OrphanDies, Quietly
<1>1. CASE Plan(c)
  <2>1. /\ \A e \in Deployers \ {c} : deployer'[e] = deployer[e]
        /\ \/ deployer'[c] = NoRun
           \/ deployer'[c] = [NoRun EXCEPT !.pc = "planning"] /\ deployLocks.run = NoHolder /\ deployLocks'.run = c
        /\ \/ deployLocks'.run = deployLocks.run
           \/ deployLocks.run = c /\ deployLocks'.run = NoHolder
           \/ deployLocks.run = NoHolder /\ deployLocks'.run = c
    BY <1>1, RunEnds, TakeRunLockMoves DEF Plan
  <2>2. updater[c].pc = "none" /\ updater' = updater /\ files' = files
    BY <1>1 DEF Plan, Begins
  <2> QED BY <1>l, <2>1, <2>2 DEF Elsewhere, RunMoved, RunBegins, RunOver, NoRun
<1>2. CASE MakePlan(c)
  <2>1. deployer[c].pc = "planning" /\ UNCHANGED <<host, runtime, updater>>
    BY <1>2 DEF MakePlan
  <2>2. CASE Emit(c, Refused, FALSE) /\ UNCHANGED files
    BY <1>l, <2>1, <2>2, EmitMoves DEF Emit, Elsewhere, RunMoved, RunOver
  <2>3. CASE ~(Emit(c, Refused, FALSE) /\ UNCHANGED files)
    <3> DEFINE p == [old |-> host.head, target |-> host.remote]
    <3>1. files' = [files EXCEPT !.plan = p] /\ deployer' = [deployer EXCEPT ![c].pc = "planned", ![c].plan = p]
          /\ UNCHANGED deployLocks
      BY <1>2, <2>3 DEF MakePlan
    <3>2. p.old = host.head /\ p.target = host.remote
      OBVIOUS
    <3> HIDE DEF p
    <3>3. (\A e \in Deployers \ {c} : deployer'[e] = deployer[e]) /\ deployer'[c].pc = "planned" /\ deployer'[c].plan = p
          /\ deployer'[c].lost = deployer[c].lost
      BY <3>1 DEF DeployersTyped, ControllerRuns
    <3>4. files'.stage = files.stage
      BY <3>1 DEF DeployFilesTyped
    <3> QED BY <1>l, <2>1, <3>1, <3>2, <3>3, <3>4 DEF Elsewhere, RunMoved, RunOn, Busy
  <2> QED BY <2>2, <2>3
<1>3. CASE ReportPlan(c)
  BY <1>3, <1>l, EmitMoves DEF ReportPlan, Quietly, Emit, Elsewhere, RunMoved, RunOver
<1>4. CASE Apply(c)
  <2>1. deployer'[c].pc = "apply" /\ ~deployer'[c].lost /\ \A e \in Deployers \ {c} : deployer'[e] = deployer[e]
    BY <1>4 DEF Apply, DeployersTyped, NoRun
  <2> QED BY <1>4, <1>l, <2>1 DEF Apply, Begins, Elsewhere, RunMoved, RunBegins
<1>5. CASE ApplyLocked(c)
  <2>1. deployer[c].pc = "apply" /\ UNCHANGED <<updater, files>>
    BY <1>5 DEF ApplyLocked, Quietly
  <2>2. /\ \A e \in Deployers \ {c} : deployer'[e] = deployer[e]
        /\ \/ deployer'[c] = NoRun
           \/ deployer'[c] = [deployer[c] EXCEPT !.pc = "reset"] /\ deployLocks.run = NoHolder /\ deployLocks'.run = c
        /\ \/ deployLocks'.run = deployLocks.run
           \/ deployLocks.run = c /\ deployLocks'.run = NoHolder
           \/ deployLocks.run = NoHolder /\ deployLocks'.run = c
    BY <1>0, <1>5, TakeRunLockMoves DEF ApplyLocked
  <2>3. CASE deployer'[c] = NoRun
    BY <1>l, <2>1, <2>2, <2>3 DEF Elsewhere, RunMoved, RunOver
  <2>4. CASE deployer'[c] = [deployer[c] EXCEPT !.pc = "reset"] /\ deployLocks.run = NoHolder /\ deployLocks'.run = c
    <3>1. deployer'[c].pc = "reset" /\ deployer'[c].lost = deployer[c].lost
      BY <1>0, <2>4 DEF ControllerRuns
    <3> QED BY <1>l, <2>1, <2>2, <2>4, <3>1 DEF Elsewhere, RunMoved, RunOn
  <2> QED BY <2>2, <2>3, <2>4
<1>6. CASE ResetStage(c)
  <2>1. deployer[c].pc = "reset" /\ Go(c, "target") /\ UNCHANGED <<updater, deployLocks>>
    BY <1>6 DEF ResetStage
  <2> QED BY <1>l, <2>1, GoMoves DEF GoesOn, Elsewhere, RunMoved, RunOn, Busy
<1>7. CASE CheckTarget(c)
  <2>1. deployer[c].pc = "target" /\ UNCHANGED <<updater, files>>
    BY <1>7 DEF CheckTarget, Quietly
  <2>2. CASE Go(c, "runtime") /\ UNCHANGED deployLocks
    BY <1>l, <2>1, <2>2, GoMoves DEF GoesOn, Elsewhere, RunMoved, RunOn, Busy
  <2>3. CASE Emit(c, Refused, FALSE)
    BY <1>l, <2>1, <2>3, EmitMoves DEF Emit, Elsewhere, RunMoved, RunOver
  <2>4. CASE FailByStage(c)
    BY <1>l, <2>1, <2>4, FailByStageMoves DEF GoesOn, Elsewhere, RunMoved, RunOver, RunOn, Busy
  <2> QED BY <1>7, <2>2, <2>3, <2>4 DEF CheckTarget
<1>8. CASE CheckRuntime(c)
  <2>1. deployer[c].pc = "runtime" /\ UNCHANGED <<updater, files>>
    BY <1>8 DEF CheckRuntime, Quietly
  <2>2. CASE /\ Answers /\ UNCHANGED deployLocks
             /\ deployer' = [deployer EXCEPT ![c].pc = "spawn", ![c].before = runtime]
    <3>1. (\A e \in Deployers \ {c} : deployer'[e] = deployer[e]) /\ deployer'[c].pc = "spawn"
          /\ deployer'[c].before = runtime /\ deployer'[c].lost = deployer[c].lost
      BY <2>2 DEF DeployersTyped, ControllerRuns
    <3> QED BY <1>l, <2>1, <2>2, <3>1 DEF Elsewhere, RunMoved, RunOn, Busy
  <2>3. CASE Emit(c, Refused, FALSE)
    BY <1>l, <2>1, <2>3, EmitMoves DEF Emit, Elsewhere, RunMoved, RunOver
  <2> QED BY <1>8, <2>2, <2>3 DEF CheckRuntime
<1>9. CASE SpawnUpdater(c)
  <2>1. deployer[c].pc = "spawn" /\ files' = files
    BY <1>9 DEF SpawnUpdater
  <2>2. CASE Emit(c, Refused, FALSE) /\ UNCHANGED updater
    BY <1>l, <2>1, <2>2, EmitMoves DEF Emit, Elsewhere, RunMoved, RunOver
  <2>3. CASE /\ updater' = [updater EXCEPT ![c] = [NoUpdater EXCEPT !.pc = "lock", !.target = deployer[c].plan.target]]
             /\ Go(c, "updating") /\ UNCHANGED deployLocks
    <3>1. (\A v \in Updaters \ {c} : updater'[v] = updater[v]) /\ updater'[c].pc = "lock"
          /\ updater'[c].target = deployer[c].plan.target
      BY <1>0, <2>3 DEF UpdatersTyped, NoUpdater
    <3> QED BY <1>l, <2>1, <2>3, <3>1, GoMoves DEF Elsewhere, RunMoved, RunSpawns
  <2> QED BY <1>9, <2>2, <2>3 DEF SpawnUpdater
<1>10. CASE AbortUpdate(c)
  <2>1. (\A v \in Updaters \ {c} : updater'[v] = updater[v]) /\ updater'[c].pc = "none"
    BY <1>0, <1>10 DEF AbortUpdate, UpdatersTyped, NoUpdater
  <2>2. (\A e \in Deployers \ {c} : deployer'[e] = deployer[e]) /\ deployer'[c] = NoRun
    BY <1>10 DEF AbortUpdate, DeployersTyped
  <2>3. deployLocks'.run = (IF deployLocks.run = c THEN NoHolder ELSE deployLocks.run) /\ files' = files
    BY <1>10 DEF AbortUpdate
  <2> QED BY <1>l, <2>1, <2>2, <2>3 DEF Elsewhere, RunMoved, RunOver
<1>11. CASE UpdaterFailed(c)
  <2>1. (\A v \in Updaters \ {c} : updater'[v] = updater[v]) /\ updater'[c].pc = "none"
    BY <1>0, <1>11 DEF UpdaterFailed, UpdatersTyped, NoUpdater
  <2>2. deployer[c].pc = "updating" /\ files' = files /\ FailByStage(c)
    BY <1>11 DEF UpdaterFailed
  <2> QED BY <1>l, <2>1, <2>2, FailByStageMoves DEF GoesOn, Elsewhere, RunMoved, RunOver, RunOn, Busy
<1>12. CASE UpdaterSucceeded(c)
  <2>1. (\A v \in Updaters \ {c} : updater'[v] = updater[v]) /\ updater'[c].pc = "none"
    BY <1>0, <1>12 DEF UpdaterSucceeded, UpdatersTyped, NoUpdater
  <2> DEFINE next == IF files.evidence THEN "verify" ELSE "contain"
  <2>2. deployer[c].pc = "updating" /\ updater[c].pc = "done" /\ UNCHANGED <<files, deployLocks>>
        /\ deployer' = [deployer EXCEPT ![c].pc = next, ![c].failure = "verification_failure"]
    BY <1>12 DEF UpdaterSucceeded
  <2>3. next \in {"verify", "contain"}
    OBVIOUS
  <2> HIDE DEF next
  <2>4. (\A e \in Deployers \ {c} : deployer'[e] = deployer[e]) /\ deployer'[c].pc = next
        /\ deployer'[c].plan = deployer[c].plan /\ deployer'[c].lost = deployer[c].lost
    BY <2>2 DEF DeployersTyped, ControllerRuns
  <2> QED BY <1>l, <2>1, <2>2, <2>3, <2>4 DEF Elsewhere, RunMoved, RunOn, Busy
<1>13. CASE IndependentVerify(c)
  <2>1. deployer[c].pc = "verify" /\ UNCHANGED <<updater, files>>
    BY <1>13 DEF IndependentVerify, Quietly
  <2>2. CASE Go(c, "contain") /\ UNCHANGED deployLocks
    BY <1>l, <2>1, <2>2, GoMoves DEF GoesOn, Elsewhere, RunMoved, RunOn, Busy
  <2>3. CASE Emit(c, "success", FALSE)
    BY <1>l, <2>1, <2>3, EmitMoves DEF Emit, Elsewhere, RunMoved, RunOver
  <2> QED BY <1>13, <2>2, <2>3 DEF IndependentVerify
<1>14. CASE Contain(c)
  <2>1. deployer[c].pc = "contain" /\ UNCHANGED <<updater, files>>
    BY <1>14 DEF Contain
  <2>2. /\ deployer'[c] = NoRun /\ \A e \in Deployers \ {c} : deployer'[e] = deployer[e]
        /\ \/ deployLocks'.run = deployLocks.run
           \/ deployLocks.run = c /\ deployLocks'.run = NoHolder
    BY <1>14, EmitMoves DEF Contain, Emit
  <2> QED BY <1>l, <2>1, <2>2 DEF Elsewhere, RunMoved, RunOver
<1>15. CASE LockHelperDies(c)
  <2>1. deployLocks.run = c /\ deployLocks'.run = NoHolder
    BY <1>15 DEF LockHelperDies, LocksTyped
  <2> QED BY <1>15, <1>l, <2>1 DEF LockHelperDies, Elsewhere, RunMoved, RunHit
<1>16. CASE LossNoticed(c)
  <2>1. /\ \A e \in Deployers \ {c} : deployer'[e] = deployer[e]
        /\ deployer'[c].pc = deployer[c].pc /\ deployer'[c].plan = deployer[c].plan
    BY <1>16 DEF LossNoticed, DeployersTyped, ControllerRuns
  <2> QED BY <1>16, <1>l, <2>1 DEF LossNoticed, Elsewhere, RunMoved, RunHit
<1>17. CASE ControllerKilled(c)
  <2>1. (\A v \in Updaters \ {c} : updater'[v] = updater[v]) /\ (updater'[c].pc = "none" \/ updater'[c] = updater[c])
    BY <1>0, <1>17 DEF ControllerKilled, UpdatersTyped, NoUpdater
  <2>2. /\ deployer'[c] = NoRun /\ \A e \in Deployers \ {c} : deployer'[e] = deployer[e]
        /\ \/ deployLocks'.run = deployLocks.run
           \/ deployLocks.run = c /\ deployLocks'.run = NoHolder
    BY <1>17, EmitMoves DEF ControllerKilled
  <2> QED BY <1>17, <1>l, <2>1, <2>2 DEF ControllerKilled, Elsewhere, RunMoved, RunHit
<1>18. CASE OrphanDies(c)
  <2>1. (\A v \in Updaters \ {c} : updater'[v] = updater[v]) /\ updater'[c].pc = "none"
    BY <1>0, <1>18 DEF OrphanDies, UpdatersTyped, NoUpdater
  <2>2. deployLocks'.run = deployLocks.run
    BY <1>18 DEF OrphanDies, LocksTyped
  <2> QED BY <1>18, <1>l, <2>1, <2>2 DEF OrphanDies, Elsewhere, RunMoved, RunHit
<1> QED
  BY <1>1, <1>2, <1>3, <1>4, <1>5, <1>6, <1>7, <1>8, <1>9, <1>10, <1>11, <1>12, <1>13, <1>14, <1>15,
     <1>16, <1>17, <1>18 DEF ControllerStep

LEMMA ControllerArrives ==
  ASSUME DeployInv, ClaimInv, NEW c \in Deployers, ControllerStep(c)
  PROVE  Arrived' /\ PlanFollowed' /\ HandLocks'
<1>0. /\ Elsewhere(c) /\ RunMoved(c) /\ Steady /\ c \in Updaters /\ c # ByHand /\ ByHand # NoHolder
      /\ \A n \in Nat : Served(n) => Served(n)'
  BY ControllerMoves, ControllerSteady, SteadyServes, DeployNames DEF ClaimInv, Updaters
<1>t. (\A v \in Updaters : updater[v].target \in Nat) /\ (\A d \in Deployers : deployer[d].plan.target \in Nat)
  BY DEF DeployInv, DeployTyped, UpdatersTyped, DeployersTyped, ControllerRuns, Plans
<1>1. \A v \in Updaters : updater'[v] = updater[v] \/ updater'[v].pc \in {"none", "lock"}
  BY <1>0 DEF Elsewhere, RunMoved, RunBegins, RunOn, RunSpawns, RunOver, RunHit
<1>2. Arrived'
  <2> SUFFICES ASSUME NEW v \in Updaters, updater'[v] = updater[v]
               PROVE  /\ updater'[v].pc \in {"build", "preflight", "quiesce", "migrate", "start", "check"} =>
                           host'.head = updater'[v].target
                      /\ updater'[v].pc \in {"check", "done"} => Served(updater[v].target)'
    BY <1>1 DEF Arrived
  <2> QED BY <1>0, <1>t DEF ClaimInv, Arrived, Steady, Served, Serves
<1>3. HandLocks'
  BY <1>0 DEF Elsewhere, ClaimInv, HandLocks, Updaters
<1>4. PlanFollowed'
  <2> SUFFICES ASSUME NEW d \in Deployers
               PROVE  /\ deployer'[d].pc = "updating" /\ updater'[d].pc # "none" =>
                           updater'[d].target = deployer'[d].plan.target
                      /\ deployer'[d].pc = "verify" => Served(deployer[d].plan.target)'
    BY DEF PlanFollowed
  <2>1. CASE d # c
    BY <1>0, <1>t, <2>1 DEF Elsewhere, ClaimInv, PlanFollowed, Served, Serves, Updaters
  <2>2. CASE d = c /\ RunBegins(c)
    BY <2>2 DEF RunBegins
  <2>3. CASE d = c /\ RunOn(c)
    <3>1. deployer'[c].pc = "verify" => Served(deployer[c].plan.target) /\ deployer'[c].plan = deployer[c].plan
      BY <1>0, <2>3 DEF RunOn, ClaimInv, Arrived, PlanFollowed
    <3> QED BY <1>0, <1>t, <2>3, <3>1 DEF RunOn, Served, Serves
  <2>4. CASE d = c /\ RunSpawns(c)
    BY <2>4 DEF RunSpawns, GoesOn
  <2>5. CASE d = c /\ RunOver(c)
    BY <2>5 DEF RunOver, NoRun
  <2>6. CASE d = c /\ RunHit(c)
    <3>1. CASE deployer'[c] = NoRun
      BY <2>6, <3>1 DEF NoRun
    <3>2. CASE deployer'[c].pc = deployer[c].pc /\ deployer'[c].plan = deployer[c].plan
      BY <1>0, <1>t, <2>6, <3>2 DEF RunHit, ClaimInv, PlanFollowed, Served, Serves
    <3> QED BY <2>6, <3>1, <3>2 DEF RunHit
  <2> QED BY <1>0, <2>1, <2>2, <2>3, <2>4, <2>5, <2>6 DEF RunMoved
<1> QED BY <1>2, <1>3, <1>4

LEMMA ControllerUndisturbed ==
  ASSUME DeployInv, ClaimInv, NEW c \in Deployers, ControllerStep(c)
  PROVE  Undisturbed'
<1>0. /\ Elsewhere(c) /\ RunMoved(c) /\ Steady /\ (~Contain(c) => UNCHANGED <<host, images, runtime>>)
      /\ c \in Updaters /\ c # ByHand /\ c # NoHolder /\ lapses \in Nat
  BY ControllerMoves, ControllerSteady, DeployNames DEF ClaimInv, Updaters, Undisturbed
<1>1. lapses' \in Nat /\ (lapses' = 0 => lapses = 0 /\ lapses' # lapses + 1)
  BY <1>0 DEF Elsewhere
<1> SUFFICES ASSUME lapses = 0, lapses' = 0, NEW d \in Deployers PROVE UndisturbedBy(d)'
  BY <1>1 DEF Undisturbed
<1>2. UndisturbedBy(d) /\ UndisturbedBy(c) /\ d \in Updaters /\ d # NoHolder
  BY DeployNames DEF ClaimInv, Undisturbed, Updaters
<1>3. host'.head = host.head
  BY <1>0 DEF Steady
<1>4. CASE d # c
  <2>1. updater'[d] = updater[d] /\ deployer'[d] = deployer[d]
    BY <1>0, <1>2, <1>4 DEF Elsewhere
  <2>2. Busy(d) => deployLocks'.run = d
    BY <1>0, <1>2, <1>4 DEF Elsewhere, UndisturbedBy
  <2>3. Busy(d) => UNCHANGED runtime /\ files'.stage = files.stage
    <3> SUFFICES ASSUME Busy(d) PROVE UNCHANGED runtime /\ files'.stage = files.stage
      OBVIOUS
    <3>1. ~Busy(c)
      BY <1>2, <1>4 DEF UndisturbedBy
    <3> QED BY <1>0, <3>1 DEF Elsewhere, Busy, Contain
  <2>4. ServicesUntouched(d)' => Busy(d) /\ (Busy(d) => ServicesUntouched(d))
    BY <2>1, <2>3 DEF ServicesUntouched, Busy
  <2>5. updater[d].pc # "none" => Busy(d)
    BY <1>2 DEF UndisturbedBy, Busy
  <2> QED BY <1>2, <1>3, <2>1, <2>2, <2>3, <2>4, <2>5 DEF UndisturbedBy, Busy
<1>5. CASE d = c /\ RunBegins(c)
  BY <1>2, <1>5 DEF RunBegins, UndisturbedBy, Busy, ServicesUntouched
<1>6. CASE d = c /\ RunOn(c)
  <2>1. updater'[c].pc = "none"
    BY <1>2, <1>6 DEF RunOn, UndisturbedBy
  <2>2. deployLocks'.run = c
    BY <1>2, <1>6 DEF RunOn, UndisturbedBy
  <2>3. ServicesUntouched(c)' => deployer'[c].pc = "spawn"
    BY <1>6 DEF RunOn, ServicesUntouched
  <2>4. deployer'[c].pc = "spawn" => UNCHANGED runtime /\ \A s \in ComposeServices : runtime[s] # Down
    BY <1>0, <1>6 DEF RunOn, Answers, Running, Contain, Emit, NoRun, DeployInv, DeployTyped, DeployersTyped
  <2> QED BY <1>2, <1>3, <1>6, <2>1, <2>2, <2>3, <2>4 DEF RunOn, UndisturbedBy
<1>7. CASE d = c /\ RunSpawns(c)
  <2>1. UNCHANGED runtime
    BY <1>0, <1>7 DEF RunSpawns, Contain
  <2>2. ServicesUntouched(c) /\ Busy(c)
    BY <1>7 DEF RunSpawns, ServicesUntouched, Busy
  <2> QED BY <1>2, <1>7, <2>1, <2>2 DEF RunSpawns, GoesOn, UndisturbedBy
<1>8. CASE d = c /\ RunOver(c)
  BY <1>2, <1>8 DEF RunOver, NoRun, UndisturbedBy, Busy, ServicesUntouched
<1>9. CASE d = c /\ RunHit(c)
  BY <1>0, <1>1, <1>2, <1>9 DEF RunHit, UndisturbedBy, Orphan
<1> QED BY <1>0, <1>4, <1>5, <1>6, <1>7, <1>8, <1>9 DEF RunMoved

\* The operator starts services only where nothing runs and nobody updates.
LEMMA OperatorClaims ==
  ASSUME DeployInv, ClaimInv, UpdateByHand \/ StartByHand \/ RemoteMoves
  PROVE  Arrived' /\ PlanFollowed' /\ HandLocks' /\ Undisturbed'
<1> USE DEF DeployInv, DeployTyped
<1>0. (\A n \in Nat : Served(n) => Served(n)') /\ ByHand \in Updaters /\ \A c \in Deployers : c \in Updaters \ {ByHand}
  BY OperatorServes, DeployNames DEF ClaimInv, Updaters
<1>t. (\A v \in Updaters : updater[v].target \in Nat) /\ (\A d \in Deployers : deployer[d].plan.target \in Nat)
  BY DEF UpdatersTyped, DeployersTyped, ControllerRuns, Plans
<1>1. UNCHANGED <<deployer, deployLocks, lapses, files>> /\ host'.head = host.head
      /\ (runtime' = runtime \/ Running = {})
  BY DEF UpdateByHand, StartByHand, RemoteMoves, HostTyped
<1>2. /\ \A v \in Updaters : updater'[v] = updater[v] \/ updater'[v].pc = "lock"
      /\ \A c \in Deployers : updater'[c] = updater[c]
  <2>1. CASE UpdateByHand
    BY <1>0, <2>1 DEF UpdateByHand, UpdatersTyped, NoUpdater
  <2>2. CASE StartByHand \/ RemoteMoves
    BY <2>2 DEF StartByHand, RemoteMoves
  <2> QED BY <2>1, <2>2
<1>3. Arrived'
  <2> SUFFICES ASSUME NEW v \in Updaters, updater'[v] = updater[v]
               PROVE  /\ updater'[v].pc \in {"build", "preflight", "quiesce", "migrate", "start", "check"} =>
                           host'.head = updater'[v].target
                      /\ updater'[v].pc \in {"check", "done"} => Served(updater[v].target)'
    BY <1>2 DEF Arrived
  <2> QED BY <1>0, <1>t, <1>1 DEF ClaimInv, Arrived, Served, Serves
<1>4. PlanFollowed'
  <2> SUFFICES ASSUME NEW d \in Deployers
               PROVE  /\ deployer'[d].pc = "updating" /\ updater'[d].pc # "none" =>
                           updater'[d].target = deployer'[d].plan.target
                      /\ deployer'[d].pc = "verify" => Served(deployer[d].plan.target)'
    BY DEF PlanFollowed
  <2> QED BY <1>0, <1>t, <1>1, <1>2 DEF ClaimInv, PlanFollowed, Served, Serves
<1>5. HandLocks'
  BY <1>0, <1>1, <1>2 DEF ClaimInv, HandLocks, UpdaterWorks
<1>6. Undisturbed'
  <2> SUFFICES ASSUME lapses = 0, NEW c \in Deployers PROVE UndisturbedBy(c)'
    BY <1>1 DEF ClaimInv, Undisturbed
  <2>1. UndisturbedBy(c)
    BY DEF ClaimInv, Undisturbed
  <2>2. ServicesUntouched(c)' => ServicesUntouched(c) /\ runtime' = runtime
    BY <1>1, <1>2, <2>1 DEF ServicesUntouched, UndisturbedBy, Running, ComposeServices
  <2> QED BY <1>1, <1>2, <2>1, <2>2 DEF UndisturbedBy, Busy
<1> QED BY <1>3, <1>4, <1>5, <1>6

LEMMA InitClaims == DeployInit => ClaimInv
<1> SUFFICES ASSUME DeployInit PROVE ClaimInv
  OBVIOUS
<1> USE DEF DeployInit
<1>1. HeadDeployed
  BY DEF HeadDeployed
<1>2. \A u \in Updaters : updater[u].pc = "none"
  BY DEF Updaters, NoUpdater
<1>3. \A c \in Deployers : deployer[c].pc = "idle" /\ ~deployer[c].lost
  BY DEF NoRun
<1>4. ByHand \in Updaters /\ \A c \in Deployers : c \in Updaters
  BY DEF Updaters
<1>5. Arrived /\ PlanFollowed /\ HandLocks
  BY <1>2, <1>3, <1>4 DEF Arrived, PlanFollowed, HandLocks, UpdaterWorks
<1>6. Undisturbed
  BY <1>2, <1>3, <1>4 DEF Undisturbed, UndisturbedBy, Busy, ServicesUntouched
<1> QED BY <1>1, <1>5, <1>6 DEF ClaimInv

LEMMA StepClaims == DeployInv /\ DeployInv' /\ ClaimInv /\ [DeployNext]_deployVars => ClaimInv'
<1> SUFFICES ASSUME DeployInv, DeployInv', ClaimInv, [DeployNext]_deployVars PROVE ClaimInv'
  OBVIOUS
<1>1. CASE \E c \in Deployers : ControllerStep(c)
  BY <1>1, ControllerSteady, SteadyServes, ControllerArrives, ControllerUndisturbed DEF ClaimInv
<1>2. CASE \E u \in Updaters : UpdaterStep(u)
  BY <1>2, UpdaterServes, UpdaterArrives, UpdaterFollows, UpdaterUndisturbed DEF ClaimInv
<1>3. CASE UpdateByHand \/ StartByHand \/ RemoteMoves
  BY <1>3, OperatorServes, OperatorClaims DEF ClaimInv
<1>4. CASE UNCHANGED deployVars
  BY <1>4 DEF deployVars, ClaimInv, HeadDeployed, Arrived, Served, Serves, PlanFollowed, HandLocks, Undisturbed,
     UndisturbedBy, ServicesUntouched, Busy
<1> QED BY <1>1, <1>2, <1>3, <1>4 DEF DeployNext, Updaters

\* Who prints what, and what is so when it does.
LEMMA RefusalClaimsNothing ==
  ASSUME NEW c \in Deployers, Emit(c, Refused, FALSE)
  PROVE  ClaimHolds
<1>1. report'.state = "refused" /\ ~report'.contained
  BY DEF Emit, Refused
<1> QED BY <1>1 DEF ClaimHolds

LEMMA ClaimsHold ==
  ASSUME DeployInv, DeployInv', ClaimInv, NEW c \in Deployers, ControllerStep(c), report' \notin {report, Unreported}
  PROVE  ClaimHolds
<1> USE DEF DeployInv, DeployTyped
<1>0. deployer[c] \in ControllerRuns /\ (lapses = 0 => UndisturbedBy(c))
  BY DEF DeployersTyped, ClaimInv, Undisturbed
<1>s. report' # (IF report.by = c THEN Unreported ELSE report)
  OBVIOUS
<1>1. CASE Plan(c) \/ ApplyLocked(c)
  <2>1. Emit(c, Refused, FALSE)
    BY <1>1, <1>s DEF Plan, ApplyLocked, TakeRunLock, Silent
  <2> QED BY <2>1, RefusalClaimsNothing
<1>2. CASE MakePlan(c) \/ CheckRuntime(c) \/ SpawnUpdater(c)
  <2>1. Emit(c, Refused, FALSE)
    BY <1>2 DEF MakePlan, CheckRuntime, SpawnUpdater
  <2> QED BY <2>1, RefusalClaimsNothing
<1>3. CASE ReportPlan(c)
  <2>1. CASE deployer[c].plan.old # deployer[c].plan.target \/ deployer[c].lost
    BY <1>3, <2>1, RefusalClaimsNothing DEF ReportPlan
  <2>2. CASE deployer[c].plan.old = deployer[c].plan.target /\ ~deployer[c].lost
    <3>1. report' = [by |-> c, state |-> "already_current", contained |-> FALSE] /\ deployer[c].pc = "planned"
      BY <1>3, <2>2 DEF ReportPlan, Emit
    <3>2. report'.by = c /\ report'.state = "already_current" /\ ~report'.contained
      BY <3>1
    <3>3. lapses = 0 => host.head = deployer[c].plan.target
      BY <1>0, <2>2, <3>1 DEF UndisturbedBy
    <3>4. ~host.undeployed => \A s \in Running : runtime[s] = host.head
      BY DEF ClaimInv, HeadDeployed, Running
    <3> QED BY <3>2, <3>3, <3>4 DEF ClaimHolds
  <2> QED BY <2>1, <2>2
<1>4. CASE CheckTarget(c) \/ UpdaterFailed(c)
  <2>1. CASE Emit(c, Refused, FALSE)
    BY <2>1, RefusalClaimsNothing
  <2>2. CASE FailByStage(c) /\ ~Emit(c, Refused, FALSE)
    <3>1. files.stage \in PreQuiescence /\ report' = [by |-> c, state |-> "pre_migration_failure", contained |-> FALSE]
      BY <2>2 DEF FailByStage, FailureState, Emit
    <3>2. report'.by = c /\ report'.state = "pre_migration_failure" /\ ~report'.contained
      BY <3>1
    <3>3. deployer[c].pc = "updating" => updater[c].pc = "failed"
      BY <1>4 DEF CheckTarget, UpdaterFailed
    <3>4. deployer[c].pc = "updating" /\ lapses = 0 => \A s \in ComposeServices : runtime[s] = deployer[c].before[s]
      BY <1>0, <3>1, <3>3 DEF UndisturbedBy, ServicesUntouched
    <3> QED BY <3>2, <3>4 DEF ClaimHolds
  <2> QED BY <1>4, <2>1, <2>2 DEF CheckTarget, UpdaterFailed
<1>5. CASE AbortUpdate(c)
  <2>1. report'.state = "refused" /\ ~report'.contained
    BY <1>5 DEF AbortUpdate, Refused
  <2> QED BY <2>1 DEF ClaimHolds
<1>6. CASE IndependentVerify(c)
  <2>1. deployer[c].pc = "verify" /\ host.head = deployer[c].plan.target /\ Answers
        /\ report' = [by |-> c, state |-> "success", contained |-> FALSE]
    BY <1>6 DEF IndependentVerify, Emit
  <2>2. report'.by = c /\ report'.state = "success" /\ ~report'.contained
    BY <2>1
  <2>3. Serves(deployer[c].plan.target)
    BY <2>1 DEF ClaimInv, PlanFollowed, Served
  <2>4. \A s \in ComposeServices : runtime[s] # Down
    BY <2>1 DEF Answers, Running
  <2> QED BY <2>1, <2>2, <2>3, <2>4 DEF ClaimHolds, Serves
<1>7. CASE Contain(c)
  <2>1. PICK left \in SUBSET Running : StopsTo(left) /\ Emit(c, deployer[c].failure, left = {})
    BY <1>7 DEF Contain
  <2>2. report' = [by |-> c, state |-> deployer[c].failure, contained |-> left = {}]
    BY <2>1 DEF Emit
  <2>3. report'.state \in Failures /\ (report'.contained => left = {})
    BY <2>2 DEF DeployersTyped, ControllerRuns
  <2>4. report'.contained => \A s \in ComposeServices : runtime'[s] = Down
    BY <2>1, <2>3, StopsFit
  <2> QED BY <2>3, <2>4 DEF ClaimHolds, Failures
<1> QED
  BY <1>1, <1>2, <1>3, <1>4, <1>5, <1>6, <1>7, <1>s DEF ControllerStep, Apply, Silent, ResetStage, UpdaterSucceeded,
     LockHelperDies, LossNoticed, ControllerKilled, OrphanDies

\* What a controller's last line says is so: a success runs the reviewed commit
\* on its schema, an early failure left the services alone, a containment left
\* none running, a current checkout is deployed, whichever controllers, updaters
\* and operators interleave (scripts/deploy.mjs 218-456, scripts/update.sh).
THEOREM ReportsAreTrue == DeploySpec => ReportsHold
<1>1. DeployInv /\ DeployInv' /\ ClaimInv /\ [DeployNext]_deployVars
      => [report' \notin {report, Unreported} => ClaimHolds]_deployVars
  <2> SUFFICES ASSUME DeployInv, DeployInv', ClaimInv, DeployNext, report' \notin {report, Unreported} PROVE ClaimHolds
    OBVIOUS
  <2>1. ~(\E u \in Updaters : UpdaterStep(u)) /\ ~(UpdateByHand \/ StartByHand \/ RemoteMoves)
    BY UpdaterMoves DEF UpdaterMoved, UpdateByHand, StartByHand, RemoteMoves
  <2>2. \E c \in Deployers : ControllerStep(c)
    BY <2>1 DEF DeployNext, Updaters
  <2> QED BY <2>2, ClaimsHold
<1> QED BY DeployInitInv, StepInv, InitClaims, StepClaims, <1>1, PTL DEF DeploySpec, ReportsHold

--------------------------------------------------------------------------
(* What is deployed is a commit of the remote: HEAD, schema, images,       *)
(* services, plans and updaters all stay within what it has.               *)

HostSpans == /\ 1 <= host.head /\ host.head <= host.remote /\ host.remote <= MaxCommit
             /\ 1 <= host.schema /\ host.schema <= host.head
PartsSpan == /\ \A i \in ImageNames : 1 <= images[i] /\ images[i] <= host.head
             /\ \A s \in ComposeServices : runtime[s] <= host.head
PlansSpan == /\ files.plan.target <= host.remote
             /\ \A c \in Deployers : deployer[c].plan.target <= host.remote
             /\ \A u \in Updaters : updater[u].target <= host.remote
BuildSpans == \A u \in Updaters : updater[u].built <= Len(BuildOrder)
SpanInv == HostSpans /\ PartsSpan /\ PlansSpan /\ BuildSpans

LEMMA SpanNumbers ==
  ASSUME DeployInv
  PROVE  /\ host.head \in Nat /\ host.remote \in Nat /\ host.schema \in Nat /\ files.plan.target \in Nat
         /\ \A i \in ImageNames : images[i] \in Nat
         /\ \A s \in ComposeServices : runtime[s] \in Nat
         /\ \A c \in Deployers : deployer[c] \in ControllerRuns /\ deployer[c].plan.target \in Nat
         /\ \A u \in Updaters : updater[u].target \in Nat /\ updater[u].built \in Nat
<1>1. DeployTyped
  BY DEF DeployInv
<1>2. files.plan.target \in Nat
  BY <1>1 DEF DeployTyped, DeployFilesTyped, Plans
<1>3. \A c \in Deployers : deployer[c] \in ControllerRuns
  BY <1>1 DEF DeployTyped, DeployersTyped
<1>4. \A c \in Deployers : deployer[c].plan.target \in Nat
  BY <1>3 DEF ControllerRuns, Plans
<1> QED BY <1>1, <1>2, <1>3, <1>4 DEF DeployTyped, HostTyped, PartsTyped, UpdatersTyped

\* A controller moves neither HEAD nor images; its containment stops services.
LEMMA ControllerHosts ==
  ASSUME DeployInv, SpanInv, NEW c \in Deployers, ControllerStep(c)
  PROVE  host'.remote = host.remote /\ HostSpans' /\ PartsSpan'
<1> USE DEF DeployInv, DeployTyped
<1>1. CASE UNCHANGED <<host, images, runtime>>
  BY <1>1 DEF SpanInv, HostSpans, PartsSpan
<1>2. CASE Contain(c)
  <2>1. PICK left \in SUBSET Running : StopsTo(left) /\ images' = images
    BY <1>2 DEF Contain
  <2>2. host'.head = host.head /\ host'.remote = host.remote /\ host'.schema = host.schema
    BY <2>1 DEF StopsTo, HostTyped
  <2>3. \A s \in ComposeServices : runtime'[s] \in {runtime[s], Down}
    BY <2>1 DEF StopsTo
  <2> QED BY <2>1, <2>2, <2>3, SpanNumbers DEF Down, SpanInv, HostSpans, PartsSpan
<1> QED BY <1>1, <1>2 DEF ControllerStep, Plan, MakePlan, ReportPlan, Apply, ApplyLocked, ResetStage, CheckTarget,
     CheckRuntime, SpawnUpdater, AbortUpdate, UpdaterFailed, UpdaterSucceeded, IndependentVerify, LockHelperDies,
     LossNoticed, ControllerKilled, OrphanDies, Quietly

\* A plan is of the remote as it was, or the one that was written down.
LEMMA ControllerPlans ==
  ASSUME DeployInv, NEW c \in Deployers, ControllerStep(c)
  PROVE  deployer'[c].plan.target \in {0, deployer[c].plan.target, files.plan.target, host.remote}
<1> USE DEF DeployInv, DeployTyped
<1>0. deployer[c] \in ControllerRuns /\ NoRun.plan.target = 0
  BY DEF DeployersTyped, NoRun, NoPlan
<1>1. CASE deployer'[c] = NoRun \/ deployer'[c].plan = deployer[c].plan
  BY <1>0, <1>1
<1>2. CASE Plan(c)
  <2>1. deployer'[c] = NoRun \/ deployer'[c] = [NoRun EXCEPT !.pc = "planning"]
    BY <1>2, RunEnds, TakeRunLockMoves DEF Plan
  <2>2. [NoRun EXCEPT !.pc = "planning"].plan = NoRun.plan
    BY DEF NoRun
  <2> QED BY <1>0, <2>1, <2>2
<1>3. CASE MakePlan(c)
  <2>1. CASE Emit(c, Refused, FALSE)
    BY <1>1, <2>1, EmitMoves DEF Emit
  <2> DEFINE p == [old |-> host.head, target |-> host.remote]
  <2>2. CASE deployer' = [deployer EXCEPT ![c].pc = "planned", ![c].plan = p]
    <3>1. p.target = host.remote
      OBVIOUS
    <3> HIDE DEF p
    <3>2. deployer'[c].plan = p
      BY <2>2 DEF DeployersTyped, ControllerRuns
    <3> QED BY <3>1, <3>2
  <2> QED BY <1>3, <2>1, <2>2 DEF MakePlan
<1>4. CASE Apply(c)
  <2>1. deployer'[c].plan = files.plan
    BY <1>4 DEF Apply, DeployersTyped, NoRun
  <2> QED BY <2>1
<1>5. CASE ApplyLocked(c)
  <2>1. deployer'[c] = NoRun \/ deployer'[c] = [deployer[c] EXCEPT !.pc = "reset"]
    BY <1>0, <1>5, TakeRunLockMoves DEF ApplyLocked
  <2>2. [deployer[c] EXCEPT !.pc = "reset"].plan = deployer[c].plan
    BY <1>0 DEF ControllerRuns
  <2> QED BY <1>0, <2>1, <2>2
<1>6. CASE ReportPlan(c) \/ ResetStage(c) \/ CheckTarget(c) \/ SpawnUpdater(c) \/ UpdaterFailed(c)
           \/ IndependentVerify(c) \/ Contain(c)
  BY <1>1, <1>6, EmitMoves, GoMoves, FailByStageMoves DEF ReportPlan, ResetStage, CheckTarget, SpawnUpdater, UpdaterFailed,
     IndependentVerify, Contain, Emit, GoesOn
<1>7. CASE CheckRuntime(c) \/ AbortUpdate(c) \/ LossNoticed(c) \/ ControllerKilled(c)
  <2>1. CASE CheckRuntime(c)
    <3>1. CASE Emit(c, Refused, FALSE)
      BY <1>1, <3>1, EmitMoves DEF Emit
    <3>2. CASE deployer' = [deployer EXCEPT ![c].pc = "spawn", ![c].before = runtime]
      BY <1>0, <1>1, <3>2 DEF DeployersTyped, ControllerRuns
    <3> QED BY <2>1, <3>1, <3>2 DEF CheckRuntime
  <2>2. CASE AbortUpdate(c) \/ ControllerKilled(c)
    BY <1>1, <2>2 DEF AbortUpdate, ControllerKilled, DeployersTyped
  <2>3. CASE LossNoticed(c)
    BY <1>0, <1>1, <2>3 DEF LossNoticed, DeployersTyped, ControllerRuns
  <2> QED BY <1>7, <2>1, <2>2, <2>3
<1>8. CASE UpdaterSucceeded(c)
  <2> DEFINE next == IF files.evidence THEN "verify" ELSE "contain"
  <2>1. deployer' = [deployer EXCEPT ![c].pc = next, ![c].failure = "verification_failure"]
    BY <1>8 DEF UpdaterSucceeded
  <2> HIDE DEF next
  <2> QED BY <1>0, <1>1, <2>1 DEF DeployersTyped, ControllerRuns
<1>9. CASE LockHelperDies(c) \/ OrphanDies(c)
  BY <1>1, <1>9 DEF LockHelperDies, OrphanDies
<1> QED BY <1>2, <1>3, <1>4, <1>5, <1>6, <1>7, <1>8, <1>9 DEF ControllerStep

\* An updater is spawned for a plan, and nothing else makes one.
LEMMA ControllerSpawns ==
  ASSUME DeployInv, NEW c \in Deployers, ControllerStep(c)
  PROVE  /\ updater'[c].target \in {0, updater[c].target, deployer[c].plan.target}
         /\ updater'[c].built \in {0, updater[c].built}
         /\ files'.plan.target \in {files.plan.target, host.remote}
<1> USE DEF DeployInv, DeployTyped
<1>0. c \in Updaters /\ NoUpdater.target = 0 /\ NoUpdater.built = 0
  BY DEF Updaters, NoUpdater
<1>1. updater'[c].target \in {0, updater[c].target, deployer[c].plan.target} /\ updater'[c].built \in {0, updater[c].built}
  <2>1. CASE updater'[c] \in {updater[c], NoUpdater}
    BY <1>0, <2>1
  <2>2. CASE SpawnUpdater(c)
    BY <1>0, <2>1, <2>2 DEF SpawnUpdater, UpdatersTyped, NoUpdater
  <2>3. CASE AbortUpdate(c) \/ UpdaterFailed(c) \/ UpdaterSucceeded(c) \/ ControllerKilled(c) \/ OrphanDies(c)
    BY <1>0, <2>1, <2>3 DEF AbortUpdate, UpdaterFailed, UpdaterSucceeded, ControllerKilled, OrphanDies, UpdatersTyped
  <2> QED BY <2>1, <2>2, <2>3 DEF ControllerStep, Plan, MakePlan, ReportPlan, Apply, ApplyLocked, ResetStage, CheckTarget,
     CheckRuntime, IndependentVerify, Contain, LockHelperDies, LossNoticed, Quietly
<1>2. files'.plan.target \in {files.plan.target, host.remote}
  <2>1. CASE files'.plan = files.plan
    BY <2>1
  <2>2. CASE MakePlan(c)
    <3> DEFINE p == [old |-> host.head, target |-> host.remote]
    <3>1. UNCHANGED files \/ files' = [files EXCEPT !.plan = p]
      BY <2>2 DEF MakePlan
    <3>2. p.target = host.remote
      OBVIOUS
    <3> HIDE DEF p
    <3> QED BY <2>1, <3>1, <3>2 DEF DeployFilesTyped
  <2>3. CASE ResetStage(c)
    BY <2>1, <2>3 DEF ResetStage, DeployFilesTyped
  <2> QED BY <2>1, <2>2, <2>3 DEF ControllerStep, Plan, ReportPlan, Apply, ApplyLocked, CheckTarget, CheckRuntime,
     SpawnUpdater, AbortUpdate, UpdaterFailed, UpdaterSucceeded, IndependentVerify, Contain, LockHelperDies, LossNoticed,
     ControllerKilled, OrphanDies, Quietly
<1> QED BY <1>1, <1>2

LEMMA ControllerSpan ==
  ASSUME DeployInv, SpanInv, NEW c \in Deployers, ControllerStep(c)
  PROVE  SpanInv'
<1>1. HostSpans' /\ PartsSpan' /\ host'.remote = host.remote
  BY ControllerHosts
<1>2. /\ \A e \in Deployers \ {c} : deployer'[e] = deployer[e]
      /\ \A u \in Updaters \ {c} : updater'[u] = updater[u]
  BY ControllerMoves DEF Elsewhere
<1>3. deployer'[c].plan.target <= host.remote /\ updater'[c].target <= host.remote /\ files'.plan.target <= host.remote
  BY ControllerPlans, ControllerSpawns, SpanNumbers DEF SpanInv, PlansSpan, Updaters
<1>4. updater'[c].built <= Len(BuildOrder)
  BY ControllerSpawns DEF SpanInv, BuildSpans, BuildOrder, Updaters
<1> QED BY <1>1, <1>2, <1>3, <1>4 DEF SpanInv, PlansSpan, BuildSpans

\* An exit forgets the target and the images, or leaves them to its controller.
LEMMA ExitSpan ==
  ASSUME DeployInv, NEW u \in Updaters, NEW ok, Exit(u, ok)
  PROVE  updater'[u].target \in {0, updater[u].target} /\ updater'[u].built \in {0, updater[u].built}
BY DEF DeployInv, DeployTyped, UpdatersTyped, Exit, NoUpdater

LEMMA UpdaterTurns ==
  ASSUME DeployInv, NEW u \in Updaters, UpdaterStep(u)
  PROVE  /\ updater'[u].target \in {0, updater[u].target}
         /\ \/ updater'[u].built \in {0, updater[u].built}
            \/ updater[u].pc = "build" /\ updater'[u].built = updater[u].built + 1
<1> USE DEF DeployInv, DeployTyped
<1>1. CASE \E ok \in BOOLEAN : Exit(u, ok)
  BY <1>1, ExitSpan
<1>2. CASE \E pc \in UpdaterSteps : Turns(u, pc)
  BY <1>2, TurnMoved
<1>3. CASE BuildImage(u) /\ ~Fails(u)
  <2> DEFINE n == updater[u].built + 1
             pc == IF n = Len(BuildOrder) THEN "preflight" ELSE updater[u].pc
  <2>1. updater[u].pc = "build" /\ updater' = [updater EXCEPT ![u].built = n, ![u].pc = pc]
    BY <1>3 DEF BuildImage, UpdatersTyped
  <2> HIDE DEF n, pc
  <2>2. updater'[u].target = updater[u].target /\ updater'[u].built = n
    BY <2>1 DEF UpdatersTyped
  <2> QED BY <2>1, <2>2 DEF n
<1>4. CASE BuildImage(u) /\ Fails(u)
  BY <1>1, <1>4 DEF Fails
<1>5. CASE BeginUpdate(u) \/ Backup(u) \/ Checkout(u) \/ StartupPreflight(u) \/ Quiesce(u)
  BY <1>1, <1>2, <1>5 DEF BeginUpdate, Backup, Checkout, StartupPreflight, Quiesce, Enters, Fails, UpdaterSteps, UpdaterWorks
<1>6. CASE Migrate(u) \/ StartServices(u) \/ VerifyServices(u)
  BY <1>1, <1>2, <1>6 DEF Migrate, StartServices, VerifyServices, Enters, Fails, UpdaterSteps, UpdaterWorks
<1> QED BY <1>3, <1>4, <1>5, <1>6 DEF UpdaterStep

\* HEAD moves to what the remote had; what is built, migrated and started is of it.
LEMMA UpdaterHosts ==
  ASSUME DeployInv, SpanInv, NEW u \in Updaters, UpdaterStep(u)
  PROVE  host'.remote = host.remote /\ HostSpans' /\ PartsSpan'
<1> USE DEF DeployInv, DeployTyped
<1>s. ASSUME NEW left \in SUBSET Running, StopsTo(left), UNCHANGED images
      PROVE  host'.remote = host.remote /\ HostSpans' /\ PartsSpan'
  <2>1. host'.head = host.head /\ host'.remote = host.remote /\ host'.schema = host.schema
    BY <1>s DEF StopsTo, HostTyped
  <2>2. \A t \in ComposeServices : runtime'[t] \in {runtime[t], Down}
    BY <1>s DEF StopsTo
  <2> QED BY <1>s, <2>1, <2>2, SpanNumbers DEF Down, SpanInv, HostSpans, PartsSpan
<1>0. CASE UNCHANGED <<host, images, runtime>>
  BY <1>0 DEF SpanInv, HostSpans, PartsSpan
<1>1. CASE Checkout(u)
  <2>1. CASE UNCHANGED host
    BY <1>0, <1>1, <2>1 DEF Checkout
  <2>2. CASE host' = [host EXCEPT !.head = updater[u].target, !.undeployed = @ \/ host.head # updater[u].target]
    <3>1. host'.head = updater[u].target /\ host'.remote = host.remote /\ host'.schema = host.schema
      BY <2>2 DEF HostTyped
    <3>2. host.head <= updater[u].target /\ updater[u].target <= host.remote /\ updater[u].target \in Nat
      BY <1>1, SpanNumbers DEF Checkout, Ready, ReadyFor, SpanInv, PlansSpan
    <3>3. UNCHANGED <<images, runtime>>
      BY <1>1 DEF Checkout
    <3> QED BY <3>1, <3>2, <3>3, SpanNumbers DEF SpanInv, HostSpans, PartsSpan
  <2> QED BY <1>1, <2>1, <2>2 DEF Checkout
<1>2. CASE BuildImage(u)
  <2>1. UNCHANGED <<host, runtime>>
    BY <1>2 DEF BuildImage
  <2>2. \A i \in ImageNames : images'[i] \in {images[i], host.head}
    BY <1>2 DEF BuildImage, PartsTyped
  <2> QED BY <2>1, <2>2, SpanNumbers DEF SpanInv, HostSpans, PartsSpan
<1>3. CASE Migrate(u)
  <2>1. UNCHANGED <<images, runtime>>
    BY <1>3 DEF Migrate
  <2>2. /\ host'.head = host.head /\ host'.remote = host.remote
        /\ host'.schema \in {host.schema, images["migrate"]}
    BY <1>3 DEF Migrate, HostTyped
  <2>3. "migrate" \in ImageNames
    BY DEF ImageNames
  <2> QED BY <2>1, <2>2, <2>3, SpanNumbers DEF SpanInv, HostSpans, PartsSpan
<1>4. CASE StartServices(u)
  <2>1. PICK up \in SUBSET ComposeServices :
          /\ runtime' = [s \in ComposeServices |-> IF s \in up THEN images[s] ELSE Down]
          /\ host' = [host EXCEPT !.undeployed = @ /\ up # ComposeServices]
    BY <1>4 DEF StartServices
  <2>2. host'.head = host.head /\ host'.remote = host.remote /\ host'.schema = host.schema /\ images' = images
    BY <1>4, <2>1 DEF StartServices, HostTyped
  <2>3. \A s \in ComposeServices : runtime'[s] \in {images[s], Down} /\ s \in ImageNames
    BY <2>1 DEF ImageNames
  <2> QED BY <2>2, <2>3, SpanNumbers DEF Down, SpanInv, HostSpans, PartsSpan
<1>5. CASE Quiesce(u)
  BY <1>5, <1>s DEF Quiesce
<1>6. CASE VerifyServices(u)
  <2>1. CASE UNCHANGED <<runtime, host>>
    BY <1>0, <1>6, <2>1 DEF VerifyServices
  <2>2. CASE \E left \in SUBSET Running : StopsTo(left)
    BY <1>6, <1>s, <2>2 DEF VerifyServices
  <2> QED BY <1>6, <2>1, <2>2 DEF VerifyServices
<1> QED BY <1>0, <1>1, <1>2, <1>3, <1>4, <1>5, <1>6 DEF UpdaterStep, BeginUpdate, Backup, StartupPreflight

LEMMA UpdaterSpan ==
  ASSUME DeployInv, SpanInv, NEW u \in Updaters, UpdaterStep(u)
  PROVE  SpanInv'
<1> USE DEF DeployInv, DeployTyped
<1>1. HostSpans' /\ PartsSpan' /\ host'.remote = host.remote
  BY UpdaterHosts
<1>2. UNCHANGED deployer /\ \A v \in Updaters \ {u} : updater'[v] = updater[v]
  BY UpdaterMoves DEF UpdaterMoved
<1>3. files'.plan = files.plan
  BY DEF UpdaterStep, BeginUpdate, Backup, Checkout, BuildImage, StartupPreflight, Quiesce, Migrate, StartServices,
         VerifyServices, Enters, Fails, Stage, DeployFilesTyped
<1>4. updater'[u].target <= host.remote
  BY UpdaterTurns, SpanNumbers DEF SpanInv, PlansSpan
<1>5. updater'[u].built <= Len(BuildOrder)
  BY UpdaterTurns, SpanNumbers DEF Ready, ReadyFor, Built, SpanInv, BuildSpans, BuildOrder
<1> QED BY <1>1, <1>2, <1>3, <1>4, <1>5 DEF SpanInv, PlansSpan, BuildSpans

\* A start by hand uses the images there are; the remote grows to its bound.
LEMMA OperatorSpan ==
  ASSUME DeployInv, SpanInv, UpdateByHand \/ StartByHand \/ RemoteMoves
  PROVE  SpanInv'
<1> USE DEF DeployInv, DeployTyped
<1>1. CASE UpdateByHand
  <2>1. \A u \in Updaters : updater'[u] = updater[u] \/ (updater'[u].target = host.remote /\ updater'[u].built = 0)
    BY <1>1 DEF UpdateByHand, UpdatersTyped, NoUpdater
  <2>2. UNCHANGED <<host, images, runtime, files, deployer>>
    BY <1>1 DEF UpdateByHand
  <2> QED BY <2>1, <2>2, SpanNumbers DEF SpanInv, HostSpans, PartsSpan, PlansSpan, BuildSpans, BuildOrder
<1>2. CASE StartByHand
  <2> DEFINE schema == IF images["migrate"] > host.schema THEN images["migrate"] ELSE host.schema
  <2>1. UNCHANGED <<images, files, deployer, updater>>
    BY <1>2, Zenon DEF StartByHand
  <2>2. PICK up \in SUBSET ComposeServices :
          /\ runtime' = [s \in ComposeServices |-> IF s \in up THEN images[s] ELSE Down]
          /\ host' = [host EXCEPT !.schema = schema,
                                  !.undeployed = @ /\ runtime' # [s \in ComposeServices |-> host.head],
                                  !.mixed = \E s \in up : images[s] # schema]
    BY <1>2, Zenon DEF StartByHand
  <2>3. \A s \in ComposeServices : runtime'[s] \in {images[s], Down} /\ s \in ImageNames
    BY <2>2 DEF ImageNames
  <2>4. schema \in {host.schema, images["migrate"]} /\ "migrate" \in ImageNames
    BY DEF ImageNames
  <2> HIDE DEF schema
  <2>5. host'.head = host.head /\ host'.remote = host.remote /\ host'.schema = schema
    BY <2>2 DEF HostTyped
  <2> QED BY <2>1, <2>3, <2>4, <2>5, SpanNumbers DEF Down, SpanInv, HostSpans, PartsSpan, PlansSpan, BuildSpans
<1>3. CASE RemoteMoves
  <2>1. UNCHANGED <<images, runtime, files, deployer, updater>> /\ host.remote < MaxCommit
    BY <1>3 DEF RemoteMoves
  <2>2. host'.head = host.head /\ host'.remote = host.remote + 1 /\ host'.schema = host.schema
    BY <1>3 DEF RemoteMoves, HostTyped
  <2>3. host.remote \in Nat /\ MaxCommit \in Nat
    BY SpanNumbers, DeployBounds
  <2>4. HostSpans'
    BY <2>1, <2>2, <2>3, SpanNumbers DEF SpanInv, HostSpans
  <2>5. PartsSpan' /\ BuildSpans'
    BY <2>1, <2>2 DEF SpanInv, PartsSpan, BuildSpans
  <2>6. PlansSpan'
    BY <2>1, <2>2, <2>3, SpanNumbers DEF SpanInv, PlansSpan
  <2> QED BY <2>4, <2>5, <2>6 DEF SpanInv
<1> QED BY <1>1, <1>2, <1>3

LEMMA InitSpans == DeployInit => SpanInv
<1> SUFFICES ASSUME DeployInit PROVE SpanInv
  OBVIOUS
<1> USE DEF DeployInit
<1>1. HostSpans /\ PartsSpan
  BY DeployBounds DEF HostSpans, PartsSpan, ImageNames
<1>2. PlansSpan /\ BuildSpans
  BY DEF PlansSpan, BuildSpans, BuildOrder, NoPlan, NoRun, NoUpdater, Updaters
<1> QED BY <1>1, <1>2 DEF SpanInv

LEMMA NextSpans == DeployInv /\ SpanInv /\ [DeployNext]_deployVars => SpanInv'
<1> SUFFICES ASSUME DeployInv, SpanInv, [DeployNext]_deployVars PROVE SpanInv'
  OBVIOUS
<1>1. CASE UNCHANGED deployVars
  BY <1>1 DEF deployVars, SpanInv, HostSpans, PartsSpan, PlansSpan, BuildSpans
<1> QED BY <1>1, ControllerSpan, UpdaterSpan, OperatorSpan DEF DeployNext, Updaters

\* Whatever is deployed, planned, built or running is a commit that the
\* remote has, and no service, image or schema is ahead of HEAD: deploy.mjs
\* takes its target from the remote, update.sh moves HEAD forward only, and
\* the rest is made from HEAD.
THEOREM DeployTypeHolds == DeploySpec => []DeployTypeOK
<1>1. DeployInv /\ SpanInv => DeployTypeOK
  <2> SUFFICES ASSUME DeployInv, SpanInv PROVE DeployTypeOK
    OBVIOUS
  <2> USE DEF DeployInv, DeployTyped, SpanInv, HostSpans, PartsSpan, PlansSpan, BuildSpans
  <2>0. MaxCommit \in Nat
    BY DeployBounds
  <2>1. host.head \in 1..MaxCommit /\ host.remote \in 1..MaxCommit /\ host.schema \in 1..MaxCommit /\ host.head <= host.remote
    BY <2>0, SpanNumbers
  <2>2. DOMAIN images = ImageNames /\ DOMAIN updater = Updaters
    BY DEF PartsTyped, UpdatersTyped
  <2>3. \A i \in DOMAIN images : images[i] \in 1..MaxCommit
    BY <2>0, <2>1, <2>2, SpanNumbers
  <2>4. \A s \in ComposeServices : runtime[s] \in 0..MaxCommit
    BY <2>0, <2>1, SpanNumbers
  <2>5. deployLocks.run \in Deployers \cup {ByHand, NoHolder} /\ deployLocks.update \in Deployers \cup {ByHand, NoHolder}
    BY DEF LocksTyped, Holders
  <2>6. \A c \in Deployers : deployer[c].plan.target \in 0..MaxCommit
    BY <2>0, <2>1, SpanNumbers
  <2>7. \A u \in DOMAIN updater : updater[u].built \in 0..Len(BuildOrder)
    BY <2>2, SpanNumbers DEF BuildOrder
  <2> QED BY <2>1, <2>3, <2>4, <2>5, <2>6, <2>7 DEF DeployTypeOK
<1> QED BY <1>1, DeployInitInv, StepInv, InitSpans, NextSpans, PTL DEF DeploySpec

-----------------------------------------------------------------------------
(* The cutover of the legacy queue.                                        *)

OpenJobs == {"queued", "running", "failed"}
Seen == [state : {"absent", "good", "flawed"}, image : {0, 1}, done : BOOLEAN]
Batches == [Sidecars -> Seen]
SidecarFiles == [state : {"absent", "good", "flawed", "corrupt"}, image : {0, 1}, output : BOOLEAN]
SidecarRows == [exists : BOOLEAN, native : BOOLEAN, reviewed : BOOLEAN, pending : BOOLEAN, image : {0, 1},
         job : {"none", "completed"} \cup OpenJobs, token : BOOLEAN, expired : BOOLEAN]
BeforeMarker == {"idle", "intent", "drain", "discover", "stage", "restage", "publish"}
HelperWorking == {"discover", "stage", "restage", "publish", "examine", "persist", "withdraw"}
Late == {"examine", "persist", "withdraw"}
Imports == [pc : BeforeMarker \cup Late \cup {"release", "orphan", "orphanIntent", "orphanDrain"},
            batch : Batches, corrupt : BOOLEAN, published : BOOLEAN, skipped : SUBSET Sidecars,
            todo : SUBSET Sidecars, incomplete : BOOLEAN, human : SUBSET Sidecars,
            wereReviewed : SUBSET Sidecars, candidates : [Sidecars -> {"none", "fresh", "stale"}]]
Starters == [pc : {"idle", "lock", "reread", "fence"}, inventory : SUBSET Sidecars,
             authorized : SUBSET Sidecars, unchanged : BOOLEAN]

CutoverTyped ==
  /\ library \in [Sidecars -> SidecarFiles]
  /\ cutoverMarker \in [status : {"none", "retired", "repair"}, captured : Batches]
  /\ queueLocks \in [intent : Importers \cup LegacyCommands \cup {NoOne},
                     shared : SUBSET LegacyCommands, gate : Importers \cup {NoOne}]
  /\ legacyCommand \in [LegacyCommands -> {"idle", "intent", "gate", "check", "work"}]
  /\ importer \in [Importers -> Imports]
  /\ archiveRow \in [Sidecars -> SidecarRows]
  /\ stagedSidecars \in SUBSET Sidecars
  /\ publishing \in [Sidecars -> {"none", "encoding", "mutating"}]
  /\ starter \in Starters

\* The two kernel locks: the gate is either shared by commands or held by
\* one helper, and commands work only before there is a marker.
Locked ==
  /\ \A c \in LegacyCommands : legacyCommand[c] \in {"check", "work"} => c \in queueLocks.shared
  /\ queueLocks.gate # NoOne => queueLocks.shared = {}
  /\ \A i \in Importers : importer[i].pc \in HelperWorking => queueLocks.gate = i
  /\ \A c \in LegacyCommands : legacyCommand[c] = "work" => cutoverMarker.status = "none"

\* An encoder's row stays; a starter that holds the mutation locks meets no mutation.
Published ==
  /\ \A s \in Sidecars : /\ archiveRow[s].job # "none" => archiveRow[s].exists
                         /\ publishing[s] # "none" => archiveRow[s].exists
                         /\ publishing[s] = "mutating" => archiveRow[s].job = "running" /\ archiveRow[s].token
  /\ starter.pc \in {"reread", "fence"} => \A s \in starter.authorized : publishing[s] # "mutating"

Imported(s) == archiveRow[s].exists /\ ~archiveRow[s].native

\* Imported archives are the marker's, and what the legacy queue had put out
\* before the marker is never an open job.
Authority ==
  /\ cutoverMarker.status = "none" => Captured = {} /\ \A s \in Sidecars : ~Imported(s)
  /\ \A s \in Sidecars : Imported(s) => s \in Captured
  /\ \A s \in Captured : cutoverMarker.captured[s].done = library[s].output
  /\ \A s \in Sidecars : Imported(s) /\ (archiveRow[s].job \in OpenJobs \/ publishing[s] # "none") => ~library[s].output

Whole ==
  /\ cutoverMarker.status = "retired"
  /\ \A s \in Captured : cutoverMarker.captured[s].state = "good" /\ archiveRow[s].exists /\ archiveRow[s].job # "none"

\* A captured archive without a fence, or nothing staged, says that all of
\* the marker's records are in.
FencedUntilWhole ==
  /\ (\E s \in Captured : archiveRow[s].exists /\ ~archiveRow[s].pending) => Whole
  /\ stagedSidecars = {} /\ Captured # {} => Whole

Fenced(s) == s \in stagedSidecars /\ (archiveRow[s].exists => archiveRow[s].pending)

\* What an import at work knows, step by step.
Progressing(imp) ==
  /\ imp.pc \in BeforeMarker => imp.todo = {} /\ ~imp.incomplete
  /\ imp.pc \in HelperWorking \ {"discover"} => \A s \in Parsed(imp.batch) : imp.batch[s].done = library[s].output
  /\ imp.pc \in {"restage", "publish"} => Captured \subseteq Parsed(imp.batch)
  /\ imp.pc \in {"restage", "publish"} \cup Late => \A s \in Captured : Fenced(s)
  /\ imp.pc = "publish" => \A s \in Parsed(imp.batch) : Fenced(s)
  /\ imp.pc \in Late =>
       /\ \A s \in Sidecars : imp.batch[s].state = cutoverMarker.captured[s].state
       /\ imp.todo \subseteq Parsed(imp.batch)
       /\ \A s \in Parsed(imp.batch) \ imp.todo : imp.batch[s].state = "flawed" => imp.incomplete
       /\ ~imp.incomplete => cutoverMarker.status # "repair"
  /\ imp.pc = "persist" => \A s \in Foremost(imp.todo) : imp.batch[s].state = "flawed" => imp.incomplete
  /\ imp.pc = "withdraw" => imp.incomplete

CutoverInv ==
  /\ CutoverTyped /\ Locked /\ Published /\ Authority /\ FencedUntilWhole
  /\ \A i \in Importers : Progressing(importer[i])

--------------------------------------------------------------------------
(* Types.                                                                  *)

\* What a fence, an import, a review make of a row is a row.
LEMMA RowTypes ==
  ASSUME NEW STATE r, r \in SidecarRows, NEW STATE q,
         \/ \E st \in {"none", "completed"} \cup OpenJobs, re, pe, to, ex \in BOOLEAN :
              q = [r EXCEPT !.reviewed = re, !.pending = pe, !.job = st, !.token = to, !.expired = ex]
         \/ \E im \in {0, 1} : q = [r EXCEPT !.image = im]
  PROVE  q \in SidecarRows
BY DEF SidecarRows

LEMMA NoRowIsRow == NoRow \in SidecarRows
BY DEF NoRow, SidecarRows, OpenJobs

LEMMA UnseenIsSeen == Unseen \in Seen
BY DEF Unseen, Seen

LEMMA RestingTypes ==
  /\ NotImporting \in Imports /\ [NotImporting EXCEPT !.pc = "release"] \in Imports
  /\ \A pc \in {"orphan", "orphanIntent", "orphanDrain"} : [NotImporting EXCEPT !.pc = pc] \in Imports
  /\ NotStarting \in Starters
<1>1. [s \in Sidecars |-> Unseen] \in Batches
  BY UnseenIsSeen DEF Batches
<1> QED BY <1>1 DEF NotImporting, NotStarting, Imports, Starters, BeforeMarker, Late

\* Every step of an import but its return changes one field, or a few.
LEMMA PcTyped ==
  ASSUME NEW STATE p, p \in Imports, NEW pc \in BeforeMarker \cup Late \cup {"release"}
  PROVE  [p EXCEPT !.pc = pc] \in Imports
BY DEF Imports

LEMMA FencedTyped ==
  ASSUME CutoverTyped, NEW set \in SUBSET Sidecars
  PROVE  Fence(set, archiveRow) \in [Sidecars -> SidecarRows]
<1> SUFFICES ASSUME NEW s \in Sidecars PROVE Fence(set, archiveRow)[s] \in SidecarRows
  BY DEF Fence
<1>1. archiveRow[s] \in SidecarRows
  BY DEF CutoverTyped
<1> QED BY <1>1 DEF Fence, SidecarRows, OpenJobs

LEMMA RememberedTyped ==
  ASSUME CutoverTyped, NEW i \in Importers, NEW set \in SUBSET Sidecars
  PROVE  Remember(importer[i], set) \in Imports
<1>1. importer[i] \in Imports
  BY DEF CutoverTyped
<1> QED BY <1>1 DEF Remember, Imports

LEMMA ForgetsTyped ==
  ASSUME NEW STATE p, p \in Imports PROVE OrForgets(p) \in Imports
BY RestingTypes DEF OrForgets

LEMMA CommandTyped ==
  ASSUME CutoverTyped, NEW c \in LegacyCommands,
         \/ CommandArrives(c) \/ CommandGoesOn(c) \/ CommandArchives(c)
         \/ CommandPublishes(c) \/ CommandEnds(c)
  PROVE  CutoverTyped'
<1> DEFINE Locks == [intent : Importers \cup LegacyCommands \cup {NoOne},
                     shared : SUBSET LegacyCommands, gate : Importers \cup {NoOne}]
<1> USE DEF CutoverTyped, catalogVars
<1>0. CommandLeaves(c) =>
        /\ queueLocks' \in Locks
        /\ legacyCommand' \in [LegacyCommands -> {"idle", "intent", "gate", "check", "work"}]
  BY DEF CommandLeaves
<1>1. CASE CommandArrives(c)
  BY <1>1 DEF CommandArrives
<1>2. CASE CommandGoesOn(c)
  <2>1. CASE CommandEnters(c)
    <3>1. [queueLocks EXCEPT !.intent = c] \in Locks
      OBVIOUS
    <3> QED BY <2>1, <3>1 DEF CommandEnters
  <2>2. CASE CommandPasses(c)
    <3>1. [queueLocks EXCEPT !.intent = NoOne, !.shared = @ \cup {c}] \in Locks
      OBVIOUS
    <3> QED BY <2>2, <3>1 DEF CommandPasses
  <2>3. CASE CommandChecks(c)
    BY <1>0, <2>3 DEF CommandChecks
  <2> QED BY <1>2, <2>1, <2>2, <2>3 DEF CommandGoesOn
<1>3. CASE CommandArchives(c)
  <2>1. PICK s \in Sidecars : library' = [library EXCEPT ![s].state = "good"]
    BY <1>3 DEF CommandArchives
  <2>2. [library[s] EXCEPT !.state = "good"] \in SidecarFiles
    BY DEF SidecarFiles
  <2>3. library' \in [Sidecars -> SidecarFiles]
    BY <2>1, <2>2
  <2> QED BY <1>0, <1>3, <2>3 DEF CommandArchives
<1>4. CASE CommandPublishes(c)
  <2>1. PICK s \in Sidecars : library' = [library EXCEPT ![s].output = TRUE]
    BY <1>4 DEF CommandPublishes
  <2>2. \A f \in SidecarFiles : [f EXCEPT !.output = TRUE] \in SidecarFiles
    BY DEF SidecarFiles
  <2>3. library' \in [Sidecars -> SidecarFiles]
    BY <2>1, <2>2
  <2> QED BY <1>4, <2>3 DEF CommandPublishes
<1>5. CASE CommandEnds(c)
  BY <1>0, <1>5 DEF CommandEnds
<1> QED BY <1>1, <1>2, <1>3, <1>4, <1>5

\* Steps of an import that take and leave the locks, and the discovery.
LEMMA LockStepTyped ==
  ASSUME CutoverTyped, NEW i \in Importers,
         \/ ImportBegins(i) \/ HelperTakesIntent(i) \/ HelperTakesGate(i) \/ Discover(i)
         \/ ImportEnds(i) \/ ImportDies(i) \/ OrphanHelperEnds(i)
  PROVE  CutoverTyped'
<1> USE DEF CutoverTyped, catalogVars
<1>1. importer[i] \in Imports
  OBVIOUS
<1>2. \A pc \in BeforeMarker \cup Late \cup {"release", "orphan", "orphanIntent", "orphanDrain"} :
        [importer[i] EXCEPT !.pc = pc] \in Imports
  BY <1>1 DEF Imports
<1>3. CASE ImportBegins(i)
  BY <1>2, <1>3 DEF ImportBegins, ImportGoes, BeforeMarker
<1>4. CASE HelperTakesIntent(i)
  BY <1>2, <1>4 DEF HelperTakesIntent, ImportGoes, BeforeMarker
<1>5. CASE HelperTakesGate(i)
  BY <1>2, <1>5 DEF HelperTakesGate, ImportGoes, BeforeMarker
<1>6. CASE Discover(i)
  <2>1. \A s \in Sidecars : See(s) \in Seen
    BY UnseenIsSeen DEF See, Seen, SidecarFiles
  <2>2. [s \in Sidecars |-> See(s)] \in Batches
    BY <2>1 DEF Batches
  <2>3. \A b \in Batches, co \in BOOLEAN :
          [importer[i] EXCEPT !.pc = "stage", !.batch = b, !.corrupt = co] \in Imports
    BY <1>1 DEF Imports, BeforeMarker
  <2>4. importer' \in [Importers -> Imports]
    BY <1>6, <2>2, <2>3 DEF Discover
  <2> QED BY <1>6, <2>4 DEF Discover
<1>7. HelperReleases(i) => queueLocks' \in [intent : Importers \cup LegacyCommands \cup {NoOne},
                             shared : SUBSET LegacyCommands, gate : Importers \cup {NoOne}]
  BY DEF HelperReleases
<1>8. CASE ImportEnds(i)
  BY <1>7, <1>8, RestingTypes DEF ImportEnds
<1>9. CASE OrphanHelperEnds(i)
  BY <1>7, <1>9, RestingTypes DEF OrphanHelperEnds
<1>10. CASE ImportDies(i)
  BY <1>10, RestingTypes DEF ImportDies
<1> QED BY <1>3, <1>4, <1>5, <1>6, <1>8, <1>9, <1>10

LEMMA StageTyped ==
  ASSUME CutoverTyped, NEW i \in Importers,
         StageFirst(i) \/ StageRetired(i) \/ StageRepair(i) \/ Restage(i)
  PROVE  CutoverTyped'
<1> USE DEF CutoverTyped, catalogVars
<1>1. importer[i] \in Imports /\ cutoverMarker.captured \in Batches
  OBVIOUS
<1>2. Captured \in SUBSET Sidecars /\ Parsed(importer[i].batch) \in SUBSET Sidecars
  BY DEF Captured, Parsed
<1>3. \A set \in SUBSET Sidecars : Remember(importer[i], set) \in Imports
  BY RememberedTyped
<1>4. \A p \in Imports, pc \in BeforeMarker \cup Late \cup {"release"} : [p EXCEPT !.pc = pc] \in Imports
  BY DEF Imports
<1>5. \A p \in Imports, pc \in BeforeMarker \cup Late \cup {"release"} :
        [p EXCEPT !.pc = pc, !.published = TRUE] \in Imports
  BY DEF Imports
<1>6. \A p \in Imports, pc \in BeforeMarker \cup Late \cup {"release"}, set, skip \in SUBSET Sidecars, b \in Batches :
        [p EXCEPT !.pc = pc, !.published = TRUE, !.batch = b, !.todo = set, !.skipped = skip] \in Imports
  BY DEF Imports
<1>7. \A set \in SUBSET Sidecars : StageRows(set) =>
        archiveRow' \in [Sidecars -> SidecarRows] /\ stagedSidecars' \in SUBSET Sidecars
  BY FencedTyped DEF StageRows
<1>8. importer' \in [Importers -> Imports]
  <2>0. Returns(i) => importer' \in [Importers -> Imports]
    BY RestingTypes DEF Returns
  <2>1. CASE StageFirst(i)
    <3>1. \A pc \in {"release", "examine", "publish"} :
            OrForgets([Remember(importer[i], Parsed(importer[i].batch)) EXCEPT !.pc = pc]) \in Imports
      BY <1>2, <1>3, <1>4, ForgetsTyped DEF BeforeMarker, Late
    <3> QED BY <2>0, <2>1, <3>1 DEF StageFirst
  <2>2. CASE StageRetired(i)
    <3> DEFINE skip == {s \in Captured : library[s].image # cutoverMarker.captured[s].image}
    <3>1. \A pc \in {"release", "examine"} :
            OrForgets([Remember(importer[i], Captured) EXCEPT !.pc = pc, !.published = TRUE,
              !.batch = cutoverMarker.captured, !.todo = Captured, !.skipped = skip]) \in Imports
      BY <1>1, <1>2, <1>3, <1>6, ForgetsTyped DEF Late
    <3> QED BY <2>0, <2>2, <3>1 DEF StageRetired
  <2>3. CASE StageRepair(i)
    <3>1. \A pc \in {"release", "restage"} :
            OrForgets([Remember(importer[i], Captured) EXCEPT !.pc = pc, !.published = TRUE]) \in Imports
      BY <1>2, <1>3, <1>5, ForgetsTyped DEF BeforeMarker
    <3> QED BY <2>0, <2>3, <3>1 DEF StageRepair
  <2>4. CASE Restage(i)
    <3>1. \A pc \in {"release", "publish"} :
            OrForgets([Remember(importer[i], Parsed(importer[i].batch)) EXCEPT !.pc = pc]) \in Imports
      BY <1>2, <1>3, <1>4, ForgetsTyped DEF BeforeMarker
    <3> QED BY <2>0, <2>4, <3>1 DEF Restage
  <2> QED BY <2>1, <2>2, <2>3, <2>4
<1>9. archiveRow' \in [Sidecars -> SidecarRows] /\ stagedSidecars' \in SUBSET Sidecars
  BY <1>2, <1>7 DEF StageFirst, StageRetired, StageRepair, Restage
<1> QED BY <1>8, <1>9 DEF StageFirst, StageRetired, StageRepair, Restage

LEMMA MarkerTyped ==
  ASSUME CutoverTyped, NEW i \in Importers, Publish(i) \/ Examine(i) \/ Withdraw(i)
  PROVE  CutoverTyped'
<1> USE DEF CutoverTyped, catalogVars
<1> DEFINE Markers == [status : {"none", "retired", "repair"}, captured : Batches]
<1>1. importer[i] \in Imports
  OBVIOUS
<1>2. \A m \in Markers : MarkerBecomes(m) => cutoverMarker' \in Markers /\ starter' \in Starters
  BY DEF MarkerBecomes, Starters
<1>3. WithdrawPublication => cutoverMarker' \in Markers /\ starter' \in Starters
  <2>1. cutoverMarker \in Markers /\ [cutoverMarker EXCEPT !.status = "repair"] \in Markers
    OBVIOUS
  <2> QED BY <1>2, <2>1 DEF WithdrawPublication
<1>4. CASE Publish(i)
  <2>1. [status |-> "retired", captured |-> importer[i].batch] \in Markers
    BY <1>1 DEF Imports
  <2>2. Parsed(importer[i].batch) \in SUBSET Sidecars
    BY DEF Parsed
  <2>3. \A set \in SUBSET Sidecars : [importer[i] EXCEPT !.pc = "examine", !.todo = set] \in Imports
    BY <1>1 DEF Imports, Late
  <2>4. importer' \in [Importers -> Imports]
    BY <1>4, <2>2, <2>3 DEF Publish
  <2> QED BY <1>2, <1>4, <2>1, <2>4 DEF Publish
<1>5. CASE Withdraw(i)
  BY <1>1, <1>3, <1>5, PcTyped DEF Withdraw, ImportGoes, Late
<1>6. CASE Examine(i)
  <2>1. PICK s \in Sidecars :
          \/ importer' = [importer EXCEPT ![i].todo = @ \ {s}, ![i].incomplete = TRUE]
          \/ importer' = [importer EXCEPT ![i].pc = "persist", ![i].incomplete = TRUE, ![i].human = @ \cup {s}]
          \/ ImportGoes(i, "persist")
    <3>1. Foremost(importer[i].todo) \subseteq Sidecars
      BY <1>1 DEF Imports, Foremost
    <3> QED BY <1>6, <3>1 DEF Examine
  <2>2. /\ [importer[i] EXCEPT !.todo = @ \ {s}, !.incomplete = TRUE] \in Imports
        /\ [importer[i] EXCEPT !.pc = "persist", !.incomplete = TRUE, !.human = @ \cup {s}] \in Imports
        /\ [importer[i] EXCEPT !.pc = "persist"] \in Imports
    BY <1>1 DEF Imports, Late
  <2>3. importer' \in [Importers -> Imports]
    BY <2>1, <2>2 DEF ImportGoes
  <2>4. cutoverMarker' \in Markers /\ starter' \in Starters
    BY <1>3, <1>6 DEF Examine
  <2> QED BY <1>6, <2>3, <2>4 DEF Examine
<1> QED BY <1>4, <1>5, <1>6

\* The row an import makes of a sidecar.
LEMMA RowImportedTyped ==
  ASSUME CutoverTyped, NEW s \in Sidecars, NEW STATE seen, seen \in Seen, NEW conflict \in BOOLEAN
  PROVE  RowImported(s, seen, conflict) \in SidecarRows
<1>1. archiveRow[s] \in SidecarRows
  BY DEF CutoverTyped
<1>2. [archiveRow[s] EXCEPT !.image = seen.image] \in SidecarRows
  BY <1>1 DEF SidecarRows, Seen
<1>3. [NoRow EXCEPT !.exists = TRUE, !.pending = TRUE, !.image = seen.image] \in SidecarRows
  BY DEF NoRow, SidecarRows, Seen
<1>4. \A r \in SidecarRows, st \in {"none", "completed"} \cup OpenJobs : [r EXCEPT !.job = st] \in SidecarRows
  BY DEF SidecarRows
<1>5. \A r \in SidecarRows : r.job \in {"none", "completed"} \cup OpenJobs
  BY DEF SidecarRows
<1> QED BY <1>1, <1>2, <1>3, <1>4, <1>5 DEF RowImported, OpenJobs

LEMMA PersistTyped ==
  ASSUME CutoverTyped, NEW i \in Importers, Persist(i) \/ PersistFails(i) \/ GivesUp(i) \/ LiftFences(i)
  PROVE  CutoverTyped'
<1> USE DEF CutoverTyped, catalogVars
<1>1. importer[i] \in Imports /\ Foremost(importer[i].todo) \subseteq Sidecars
  BY DEF Imports, Foremost
<1>2. \A r \in SidecarRows, re, pe \in BOOLEAN : [r EXCEPT !.reviewed = re, !.pending = pe] \in SidecarRows
  BY DEF SidecarRows
<1>2a. \A r \in SidecarRows, re \in BOOLEAN : [r EXCEPT !.reviewed = re] \in SidecarRows
  BY DEF SidecarRows
<1>3. Returns(i) => importer' \in [Importers -> Imports]
  BY RestingTypes DEF Returns
<1>4. CASE Persist(i)
  <2>1. PICK s \in Foremost(importer[i].todo), conflict \in BOOLEAN : PersistSidecar(i, s, conflict)
    BY <1>4 DEF Persist
  <2>2. s \in Sidecars /\ importer[i].batch[s] \in Seen
    BY <1>1, <2>1 DEF Imports, Batches
  <2> DEFINE row == RowImported(s, importer[i].batch[s], conflict)
             human == row.job # "none" /\ NeedsHuman(importer[i], s, conflict)
  <2>3. row \in SidecarRows
    BY <2>1, <2>2, RowImportedTyped
  <2>4. human \in BOOLEAN /\ row.reviewed \in BOOLEAN
    BY <2>3 DEF SidecarRows
  <2> HIDE DEF row, human
  <2>5. [row EXCEPT !.reviewed = @ /\ ~human] \in SidecarRows
    BY <2>3, <2>4, <1>2a
  <2>6. archiveRow' \in [Sidecars -> SidecarRows]
    BY <2>1, <2>2, <2>5 DEF PersistSidecar, row, human
  <2>7. PICK pc \in Late, inc \in BOOLEAN, hum \in SUBSET Sidecars, cand \in [Sidecars -> {"none", "fresh", "stale"}] :
          importer' = [importer EXCEPT ![i] =
            [importer[i] EXCEPT !.pc = pc, !.todo = @ \ {s}, !.incomplete = inc, !.human = hum, !.candidates = cand]]
    <3> DEFINE one == IF importer[i].candidates[s] = "fresh" /\ archiveRow[s].image # importer[i].batch[s].image
                      THEN "stale"
                      ELSE IF importer[i].candidates[s] = "none" /\ ~human /\ ~importer[i].published /\ row.job # "none"
                           THEN "fresh" ELSE importer[i].candidates[s]
               cand == [importer[i].candidates EXCEPT ![s] = one]
               hum == IF human THEN importer[i].human \cup {s} ELSE importer[i].human
               pc == IF conflict THEN "withdraw" ELSE "examine"
               inc == importer[i].incomplete \/ conflict
    <3>1. cand \in [Sidecars -> {"none", "fresh", "stale"}] /\ hum \in SUBSET Sidecars
      BY <1>1, <2>2 DEF Imports
    <3>2. pc \in Late /\ inc \in BOOLEAN
      BY DEF Late
    <3>3. importer' = [importer EXCEPT ![i] =
            [importer[i] EXCEPT !.pc = pc, !.todo = @ \ {s}, !.incomplete = inc, !.human = hum, !.candidates = cand]]
      BY <2>1 DEF PersistSidecar, row, human
    <3> HIDE DEF cand, hum, pc, inc
    <3> QED BY <3>1, <3>2, <3>3
  <2>8. [importer[i] EXCEPT !.pc = pc, !.todo = @ \ {s}, !.incomplete = inc, !.human = hum, !.candidates = cand] \in Imports
    BY <1>1 DEF Imports
  <2>9. importer' \in [Importers -> Imports]
    BY <2>7, <2>8
  <2> QED BY <1>4, <2>6, <2>9 DEF Persist
<1>5. CASE PersistFails(i)
  <2>1. PICK s \in Foremost(importer[i].todo) :
          /\ archiveRow' = [archiveRow EXCEPT ![s].reviewed = FALSE]
          /\ importer' = [importer EXCEPT ![i] =
               [importer[i] EXCEPT !.pc = "withdraw", !.todo = @ \ {s}, !.incomplete = TRUE,
                                   !.human = @ \cup {s}, !.candidates[s] = "none"]]
    BY <1>5 DEF PersistFails
  <2>2. s \in Sidecars /\ archiveRow[s] \in SidecarRows
    BY <1>1, <2>1
  <2>3. archiveRow' \in [Sidecars -> SidecarRows]
    BY <1>2a, <2>1, <2>2
  <2>4. [importer[i] EXCEPT !.pc = "withdraw", !.todo = @ \ {s}, !.incomplete = TRUE,
                            !.human = @ \cup {s}, !.candidates[s] = "none"] \in Imports
    BY <1>1, <2>2 DEF Imports, Late
  <2> QED BY <1>5, <2>1, <2>3, <2>4 DEF PersistFails
<1>6. CASE GivesUp(i)
  <2>1. archiveRow' \in [Sidecars -> SidecarRows]
    BY <1>2a, <1>6 DEF GivesUp
  <2>2. WithdrawPublication =>
          /\ cutoverMarker' \in [status : {"none", "retired", "repair"}, captured : Batches]
          /\ starter' \in Starters
    BY DEF WithdrawPublication, MarkerBecomes, Starters
  <2> QED BY <1>3, <1>6, <2>1, <2>2 DEF GivesUp
<1>7. CASE LiftFences(i)
  <2>1. archiveRow' \in [Sidecars -> SidecarRows]
    <3>1. \A s \in Sidecars : archiveRow[s] \in SidecarRows /\ archiveRow[s].reviewed \in BOOLEAN
      BY DEF SidecarRows
    <3>2. PICK restored \in SUBSET Sidecars :
            archiveRow' = [s \in Sidecars |-> [archiveRow[s] EXCEPT !.pending = FALSE, !.reviewed = @ \/ s \in restored]]
      BY <1>7 DEF LiftFences
    <3>3. \A r \in SidecarRows, re, pe \in BOOLEAN : [r EXCEPT !.pending = pe, !.reviewed = re] \in SidecarRows
      BY DEF SidecarRows
    <3> QED BY <3>1, <3>2, <3>3
  <2> QED BY <1>3, <1>7, <2>1 DEF LiftFences
<1> QED BY <1>4, <1>5, <1>6, <1>7

LEMMA StarterTyped ==
  ASSUME CutoverTyped, WorkerStarts
  PROVE  CutoverTyped'
<1> USE DEF CutoverTyped, catalogVars
<1>1. \A pc \in {"lock", "reread", "fence"} : [starter EXCEPT !.pc = pc] \in Starters
  BY DEF Starters
<1>2. GivesUpStart => starter' \in Starters
  BY RestingTypes DEF GivesUpStart
<1>3. CASE StarterLooks
  <2>1. \A set \in SUBSET Sidecars :
          [pc |-> "lock", inventory |-> Captured, authorized |-> set, unchanged |-> TRUE] \in Starters
    BY DEF Starters, Captured
  <2> QED BY <1>3, <2>1 DEF StarterLooks
<1>4. CASE StarterLocks
  BY <1>1, <1>2, <1>4 DEF StarterLocks, Starts
<1>5. CASE StarterRereads
  BY <1>1, <1>2, <1>5 DEF StarterRereads, Starts
<1>6. CASE StarterDies
  BY <1>2, <1>6 DEF StarterDies
<1>7. CASE StarterFences
  <2>1. \A s \in Sidecars : TakenOver(s) \in SidecarRows
    <3> SUFFICES ASSUME NEW s \in Sidecars PROVE TakenOver(s) \in SidecarRows
      OBVIOUS
    <3>1. archiveRow[s] \in SidecarRows
      OBVIOUS
    <3>2. Refenced(s) \in SidecarRows
      BY <3>1 DEF Refenced, SidecarRows
    <3> QED BY <3>2 DEF TakenOver, SidecarRows, OpenJobs
  <2>2. archiveRow' \in [Sidecars -> SidecarRows]
    BY <1>7, <2>1 DEF StarterFences
  <2>3. stagedSidecars' \in SUBSET Sidecars
    BY <1>7 DEF StarterFences, Starters
  <2>4. importer' \in [Importers -> Imports]
    <3>1. \A p \in Imports, cand \in [Sidecars -> {"none", "fresh", "stale"}] : [p EXCEPT !.candidates = cand] \in Imports
      BY DEF Imports
    <3>2. \A p \in Imports : p.candidates \in [Sidecars -> {"none", "fresh", "stale"}]
      BY DEF Imports
    <3>3. \A p \in Imports : [s \in Sidecars |-> IF s \in starter.inventory /\ p.candidates[s] = "fresh"
                                                THEN "stale" ELSE p.candidates[s]]
                             \in [Sidecars -> {"none", "fresh", "stale"}]
      BY <3>2
    <3> DEFINE Aged(p) == [s \in Sidecars |->
                 IF s \in starter.inventory /\ p.candidates[s] = "fresh" THEN "stale" ELSE p.candidates[s]]
    <3>4. \A i \in Importers : Aged(importer[i]) \in [Sidecars -> {"none", "fresh", "stale"}]
      BY <3>3
    <3>5. CASE importer' = [i \in Importers |-> [importer[i] EXCEPT !.candidates = Aged(importer[i])]]
      <4> HIDE DEF Aged
      <4> QED BY <3>1, <3>4, <3>5
    <3> QED BY <1>7, <3>5 DEF StarterFences
  <2> QED BY <1>2, <1>7, <2>2, <2>3, <2>4 DEF StarterFences
<1> QED BY <1>3, <1>4, <1>5, <1>6, <1>7 DEF WorkerStarts

LEMMA WorkerTyped ==
  ASSUME CutoverTyped, NEW s \in Sidecars,
         \/ ClaimImported(s) \/ BeginMutation(s) \/ EndMutation(s) \/ EncodingStops(s) \/ PublisherDies(s)
         \/ EncodeLeaseEnds(s) \/ RecoverImported(s) \/ ArchivePublished(s) \/ ReviewedAgain(s) \/ Meddle(s)
  PROVE  CutoverTyped'
<1> USE DEF CutoverTyped, catalogVars
<1>1. archiveRow[s] \in SidecarRows /\ library[s] \in SidecarFiles
  OBVIOUS
<1>2. CASE ClaimImported(s)
  <2>1. [archiveRow[s] EXCEPT !.job = "running", !.expired = FALSE] \in SidecarRows
    BY <1>1 DEF SidecarRows, OpenJobs
  <2> QED BY <1>2, <2>1 DEF ClaimImported
<1>3. CASE BeginMutation(s)
  <2>1. [archiveRow[s] EXCEPT !.token = TRUE] \in SidecarRows
    BY <1>1 DEF SidecarRows
  <2> QED BY <1>3, <2>1 DEF BeginMutation
<1>4. CASE EndMutation(s)
  <2>1. [archiveRow[s] EXCEPT !.job = IF @ = "running" THEN "completed" ELSE @, !.token = FALSE] \in SidecarRows
    BY <1>1 DEF SidecarRows
  <2> QED BY <1>4, <2>1 DEF EndMutation
<1>5. CASE EncodingStops(s)
  BY <1>5 DEF EncodingStops
<1>6. CASE PublisherDies(s)
  BY <1>6 DEF PublisherDies
<1>7. CASE EncodeLeaseEnds(s)
  <2>1. [archiveRow[s] EXCEPT !.expired = TRUE] \in SidecarRows
    BY <1>1 DEF SidecarRows
  <2> QED BY <1>7, <2>1 DEF EncodeLeaseEnds
<1>8. CASE RecoverImported(s)
  <2>1. \A st \in {"queued", "completed"} :
          [archiveRow[s] EXCEPT !.job = st, !.token = FALSE, !.expired = FALSE] \in SidecarRows
    BY <1>1 DEF SidecarRows, OpenJobs
  <2>2. PICK st \in {"queued", "completed"} :
          archiveRow' = [archiveRow EXCEPT ![s].job = st, ![s].token = FALSE, ![s].expired = FALSE]
    BY <1>8 DEF RecoverImported
  <2> QED BY <1>8, <2>1, <2>2 DEF RecoverImported
<1>9. CASE ArchivePublished(s)
  <2>1. [NoRow EXCEPT !.exists = TRUE, !.native = TRUE, !.pending = stagedSidecars # {}] \in SidecarRows
    BY NoRowIsRow DEF SidecarRows
  <2> QED BY <1>9, <2>1 DEF ArchivePublished
<1>10. CASE ReviewedAgain(s)
  <2>1. [archiveRow[s] EXCEPT !.reviewed = TRUE, !.job = IF @ \in {"none", "failed"} THEN "queued" ELSE @] \in SidecarRows
    BY <1>1 DEF SidecarRows, OpenJobs
  <2> QED BY <1>10, <2>1 DEF ReviewedAgain
<1>11. CASE Meddle(s)
  <2>1. [library[s] EXCEPT !.image = 1 - @] \in SidecarFiles
    BY <1>1 DEF SidecarFiles
  <2>2. \A st \in {"absent", "good", "corrupt"} : [library[s] EXCEPT !.state = st] \in SidecarFiles
    BY <1>1 DEF SidecarFiles
  <2> QED BY <1>11, <2>1, <2>2 DEF Meddle
<1> QED BY <1>2, <1>3, <1>4, <1>5, <1>6, <1>7, <1>8, <1>9, <1>10, <1>11

--------------------------------------------------------------------------
(* Steps that leave marker and outputs as they are, and only fence rows,   *)
(* move their jobs or add rows of new discs.                               *)

RowKept(r, q) ==
  /\ r.exists => q.exists /\ q.native = r.native /\ (r.pending => q.pending)
  /\ q.exists => r.exists \/ (q.native /\ (stagedSidecars # {} => q.pending))
  /\ r.job # "none" => q.job # "none"
  /\ q.job \in OpenJobs => r.job \in OpenJobs \/ (r.exists /\ ~r.pending /\ r.job = "none")

SameImport(p, q) == q.pc = p.pc /\ q.batch = p.batch /\ q.todo = p.todo /\ q.incomplete = p.incomplete

Background ==
  /\ UNCHANGED cutoverMarker
  /\ \A s \in Sidecars : library'[s].output = library[s].output
  /\ \A s \in Sidecars : RowKept(archiveRow[s], archiveRow'[s])
  /\ stagedSidecars \subseteq stagedSidecars'
  /\ \A s \in Sidecars : publishing'[s] # "none" => publishing[s] # "none" \/ archiveRow[s].job = "queued"

LEMMA UntouchedRows ==
  \A s \in Sidecars : archiveRow'[s] = archiveRow[s] => RowKept(archiveRow[s], archiveRow'[s])
BY DEF RowKept

LEMMA WholeStays ==
  ASSUME CutoverInv, Background, Whole PROVE Whole'
BY DEF Background, Whole, RowKept, Captured

LEMMA BackgroundKeeps ==
  ASSUME CutoverInv, Background
  PROVE  Authority' /\ FencedUntilWhole'
<1> USE DEF CutoverInv
<1>1. Captured' = Captured
  BY DEF Captured, Background
<1>2. \A s \in Sidecars : Imported(s)' => Imported(s)
  BY DEF Imported, Background, RowKept
<1>3. Authority'
  <2>1. cutoverMarker.status = "none" => Captured' = {} /\ \A s \in Sidecars : ~Imported(s)'
    BY <1>1, <1>2 DEF Authority
  <2>2. \A s \in Sidecars : Imported(s)' => s \in Captured'
    BY <1>1, <1>2 DEF Authority
  <2>3. \A s \in Captured' : cutoverMarker'.captured[s].done = library'[s].output
    BY <1>1 DEF Authority, Background, Captured
  <2>4. ASSUME NEW s \in Sidecars, Imported(s)', archiveRow'[s].job \in OpenJobs \/ publishing'[s] # "none"
        PROVE  ~library[s].output
    <3>1. Imported(s) /\ s \in Captured
      BY <1>2, <2>4 DEF Authority
    <3>2. archiveRow[s].exists /\ ~archiveRow[s].pending => archiveRow[s].job # "none"
      BY <3>1 DEF FencedUntilWhole, Whole
    <3>3. archiveRow[s].job \in OpenJobs \/ publishing[s] # "none"
      BY <2>4, <3>2 DEF Background, RowKept, OpenJobs
    <3> QED BY <3>1, <3>3 DEF Authority
  <2> QED BY <2>1, <2>2, <2>3, <2>4 DEF Authority, Background
<1>4. FencedUntilWhole'
  <2>1. ASSUME NEW s \in Captured, archiveRow'[s].exists, ~archiveRow'[s].pending PROVE Whole
    <3>1. s \in Sidecars
      BY DEF Captured
    <3>2. CASE archiveRow[s].exists
      BY <2>1, <3>1, <3>2 DEF Background, RowKept, FencedUntilWhole
    <3>3. CASE ~archiveRow[s].exists
      BY <2>1, <3>1, <3>3 DEF Background, RowKept, FencedUntilWhole
    <3> QED BY <3>2, <3>3
  <2>2. stagedSidecars' = {} /\ Captured # {} => Whole
    BY DEF Background, FencedUntilWhole
  <2> QED BY <1>1, <2>1, <2>2, WholeStays DEF FencedUntilWhole
<1> QED BY <1>3, <1>4

\* A fenced sidecar stays fenced.
LEMMA FenceStays ==
  ASSUME Background, NEW s \in Sidecars, Fenced(s) PROVE Fenced(s)'
BY DEF Background, Fenced, RowKept

LEMMA ProgressKept ==
  ASSUME Background, NEW i \in Importers, Progressing(importer[i]), SameImport(importer[i], importer'[i])
  PROVE  Progressing(importer[i])'
<1>1. Captured' = Captured /\ Captured \subseteq Sidecars
  BY DEF Captured, Background
<1>2. Parsed(importer[i].batch)' = Parsed(importer[i].batch) /\ Parsed(importer[i].batch) \subseteq Sidecars
  BY DEF Parsed, SameImport
<1>3. Foremost(importer[i].todo)' = Foremost(importer[i].todo)
  BY DEF Foremost, SameImport
<1>4. \A s \in Sidecars : Fenced(s) => Fenced(s)'
  BY FenceStays
<1>5. UNCHANGED cutoverMarker /\ \A s \in Sidecars : library'[s].output = library[s].output
  BY DEF Background
<1> QED BY <1>1, <1>2, <1>3, <1>4, <1>5 DEF Progressing, SameImport

--------------------------------------------------------------------------
(* Legacy commands.                                                        *)

\* While the gate is shared no import works.
LEMMA SharedMeansIdle ==
  ASSUME Locked, NEW i \in Importers, importer[i].pc \in HelperWorking
  PROVE  /\ queueLocks.gate = i /\ queueLocks.shared = {}
         /\ \A c \in LegacyCommands : legacyCommand[c] \notin {"check", "work"}
         /\ \A j \in Importers \ {i} : importer[j].pc \notin HelperWorking
<1>1. queueLocks.gate = i /\ i # NoOne
  BY CutoverNames DEF Locked
<1> QED BY <1>1 DEF Locked

LEMMA CommandKeeps ==
  ASSUME CutoverInv, NEW c \in LegacyCommands,
         \/ CommandArrives(c) \/ CommandGoesOn(c) \/ CommandArchives(c)
         \/ CommandPublishes(c) \/ CommandEnds(c)
  PROVE  CutoverInv'
<1> USE DEF CutoverInv
<1>1. CutoverTyped'
  BY CommandTyped
<1>2. UNCHANGED <<cutoverMarker, importer, archiveRow, stagedSidecars, publishing, starter>>
  BY DEF CommandArrives, CommandGoesOn, CommandEnters, CommandPasses, CommandChecks, CommandArchives,
         CommandPublishes, CommandEnds, catalogVars
<1>3. Published'
  BY <1>2 DEF Published
<1>4. Locked'
  <2>1. legacyCommand \in [LegacyCommands -> {"idle", "intent", "gate", "check", "work"}]
        /\ queueLocks \in [intent : Importers \cup LegacyCommands \cup {NoOne},
                           shared : SUBSET LegacyCommands, gate : Importers \cup {NoOne}]
    BY DEF CutoverTyped
  <2>2. CommandLeaves(c) => Locked'
    BY <1>2, <2>1 DEF CommandLeaves, Locked
  <2>3. CASE CommandArrives(c)
    BY <1>2, <2>1, <2>3 DEF CommandArrives, Locked
  <2>4. CASE CommandEnters(c)
    BY <1>2, <2>1, <2>4 DEF CommandEnters, Locked
  <2>5. CASE CommandPasses(c)
    BY <1>2, <2>1, <2>5 DEF CommandPasses, Locked
  <2>6. CASE CommandChecks(c)
    BY <1>2, <2>1, <2>2, <2>6 DEF CommandChecks, Locked
  <2>7. CASE CommandPublishes(c)
    BY <1>2, <2>1, <2>7 DEF CommandPublishes, Locked
  <2> QED BY <2>2, <2>3, <2>4, <2>5, <2>6, <2>7 DEF CommandGoesOn, CommandArchives, CommandEnds
<1>5. CASE \A s \in Sidecars : library'[s].output = library[s].output
  <2>1. Background
    BY <1>2, <1>5, UntouchedRows DEF Background
  <2>2. \A i \in Importers : Progressing(importer[i])'
    BY <1>2, <2>1, ProgressKept DEF SameImport
  <2> QED BY <1>1, <1>3, <1>4, <2>1, <2>2, BackgroundKeeps
<1>6. CASE CommandPublishes(c)
  <2>1. cutoverMarker.status = "none" /\ Captured = {} /\ \A s \in Sidecars : ~Imported(s)
    BY <1>6 DEF CommandPublishes, Locked, Authority
  <2>2. \A i \in Importers : importer[i].pc \notin HelperWorking
    BY <1>6, SharedMeansIdle DEF CommandPublishes
  <2>3. Captured' = Captured /\ \A s \in Sidecars : ~Imported(s)'
    BY <1>2, <2>1 DEF Captured, Imported
  <2>4. Authority'
    BY <1>2, <2>1, <2>3 DEF Authority
  <2>5. FencedUntilWhole'
    BY <1>2, <2>1, <2>3 DEF FencedUntilWhole
  <2>6. \A i \in Importers : Progressing(importer[i])'
    BY <1>2, <2>2 DEF Progressing, HelperWorking, BeforeMarker, Late
  <2> QED BY <1>1, <1>3, <1>4, <2>4, <2>5, <2>6
<1>7. \/ CommandPublishes(c) \/ \A s \in Sidecars : library'[s].output = library[s].output
  <2>1. CASE CommandArchives(c)
    <3>1. PICK s \in Sidecars : library' = [library EXCEPT ![s].state = "good"]
      BY <2>1 DEF CommandArchives
    <3>2. \A t \in Sidecars : library[t] \in SidecarFiles
      BY DEF CutoverTyped
    <3>3. [library[s] EXCEPT !.state = "good"].output = library[s].output
      BY <3>2 DEF SidecarFiles
    <3> QED BY <3>1, <3>2, <3>3 DEF CutoverTyped
  <2> QED BY <2>1 DEF CommandArrives, CommandGoesOn, CommandEnters, CommandPasses, CommandChecks, CommandEnds
<1> QED BY <1>5, <1>6, <1>7

--------------------------------------------------------------------------
(* Steps of an import.                                                     *)

\* An import that is not late and not between its stages knows nothing that
\* could become false.
LEMMA IdleProgress ==
  ASSUME NEW STATE p, p.pc \notin HelperWorking \ {"discover"}, p.pc \in BeforeMarker => p.todo = {} /\ ~p.incomplete
  PROVE  Progressing(p)
BY DEF Progressing, HelperWorking, BeforeMarker, Late

LEMMA RestingKnowsNothing ==
  /\ Progressing(NotImporting) /\ NotImporting.pc = "idle"
  /\ \A pc \in {"release", "orphan", "orphanIntent", "orphanDrain"} :
       Progressing([NotImporting EXCEPT !.pc = pc]) /\ [NotImporting EXCEPT !.pc = pc].pc = pc
BY DEF NotImporting, Progressing, HelperWorking, BeforeMarker, Late

\* A step of one import that leaves marker, files and rows alone.
LEMMA ImportStepKeeps ==
  ASSUME CutoverInv, CutoverTyped', Locked', NEW i \in Importers,
         UNCHANGED <<cutoverMarker, library, archiveRow, stagedSidecars, publishing, starter>>,
         \A j \in Importers \ {i} : importer'[j] = importer[j],
         Progressing(importer'[i])
  PROVE  CutoverInv'
<1> USE DEF CutoverInv
<1>1. Background
  BY UntouchedRows DEF Background
<1>2. Published'
  BY DEF Published
<1>3. ASSUME NEW j \in Importers PROVE Progressing(importer[j])'
  <2>1. CASE j # i
    BY <1>1, <2>1, ProgressKept DEF SameImport
  <2>2. CASE j = i
    BY <2>2 DEF Progressing, Captured, Parsed, Fenced, Foremost
  <2> QED BY <2>1, <2>2
<1> QED BY <1>1, <1>2, <1>3, BackgroundKeeps

\* Taking and leaving the locks, and the discovery.
LEMMA LockStepKeeps ==
  ASSUME CutoverInv, NEW i \in Importers,
         \/ ImportBegins(i) \/ HelperTakesIntent(i) \/ HelperTakesGate(i) \/ Discover(i)
         \/ ImportEnds(i) \/ ImportDies(i) \/ OrphanHelperEnds(i)
  PROVE  CutoverInv'
<1> USE DEF CutoverInv
<1>1. CutoverTyped'
  BY LockStepTyped
<1>2. UNCHANGED <<cutoverMarker, library, archiveRow, stagedSidecars, publishing, starter, legacyCommand>>
  BY DEF ImportBegins, HelperTakesIntent, HelperTakesGate, Discover, ImportEnds, ImportDies, OrphanHelperEnds,
         catalogVars
<1>3. \A j \in Importers \ {i} : importer'[j] = importer[j]
  BY DEF CutoverTyped, ImportBegins, HelperTakesIntent, HelperTakesGate, Discover, ImportEnds, ImportDies,
         OrphanHelperEnds, ImportGoes
<1>4. importer \in [Importers -> Imports] /\ importer[i] \in Imports
  BY DEF CutoverTyped
<1>5. queueLocks \in [intent : Importers \cup LegacyCommands \cup {NoOne},
                      shared : SUBSET LegacyCommands, gate : Importers \cup {NoOne}]
  BY DEF CutoverTyped
<1>6. CASE ImportBegins(i) \/ HelperTakesIntent(i)
  <2>1. PICK pc \in {"intent", "drain", "orphanDrain"} :
          /\ importer' = [importer EXCEPT ![i].pc = pc]
          /\ pc # "orphanDrain" => importer[i].pc \in BeforeMarker
    BY <1>6 DEF ImportBegins, HelperTakesIntent, ImportGoes, ImportStep, BeforeMarker
  <2>2. /\ importer'[i].pc = pc /\ importer'[i].todo = importer[i].todo
        /\ importer'[i].incomplete = importer[i].incomplete
    BY <1>4, <2>1 DEF Imports
  <2>3. Progressing(importer'[i])
    BY <2>1, <2>2, IdleProgress DEF Progressing, HelperWorking, BeforeMarker
  <2>4. UNCHANGED <<queueLocks.gate, queueLocks.shared>>
    BY <1>5, <1>6 DEF ImportBegins, HelperTakesIntent
  <2>5. Locked'
    BY <1>2, <1>3, <2>1, <2>2, <2>4 DEF Locked, HelperWorking
  <2> QED BY <1>1, <1>2, <1>3, <2>3, <2>5, ImportStepKeeps
<1>7. CASE HelperTakesGate(i)
  <2>1. /\ importer'[i].pc = "discover" /\ importer'[i].todo = importer[i].todo
        /\ importer'[i].incomplete = importer[i].incomplete /\ importer[i].pc = "drain"
    BY <1>4, <1>7 DEF HelperTakesGate, ImportGoes, ImportStep, Imports
  <2>2. Progressing(importer'[i])
    BY <2>1, IdleProgress DEF Progressing, HelperWorking, BeforeMarker
  <2>3. \A j \in Importers : importer[j].pc \notin HelperWorking
    BY <1>7, CutoverNames DEF HelperTakesGate, Locked
  <2>4. queueLocks'.gate = i /\ queueLocks'.shared = queueLocks.shared /\ queueLocks.shared = {}
    BY <1>5, <1>7 DEF HelperTakesGate
  <2>5. Locked'
    BY <1>2, <1>3, <2>3, <2>4 DEF Locked
  <2> QED BY <1>1, <1>2, <1>3, <2>2, <2>5, ImportStepKeeps
<1>8. CASE Discover(i)
  <2>1. /\ importer'[i].pc = "stage" /\ importer'[i].todo = importer[i].todo
        /\ importer'[i].incomplete = importer[i].incomplete /\ importer[i].pc = "discover"
        /\ importer'[i].batch = [s \in Sidecars |-> See(s)]
    BY <1>4, <1>8 DEF Discover, ImportStep, Imports
  <2>2. \A s \in Sidecars : See(s).state # "absent" => See(s).done = library[s].output
    BY DEF See, Unseen
  <2>3. Progressing(importer'[i])
    BY <2>1, <2>2 DEF Progressing, Parsed, HelperWorking, BeforeMarker, Late
  <2>4. Locked'
    BY <1>2, <1>3, <1>8, <2>1 DEF Locked, Discover, HelperWorking
  <2> QED BY <1>1, <1>2, <1>3, <2>3, <2>4, ImportStepKeeps
<1>9. CASE ImportDies(i)
  <2>1. PICK pc \in {"orphan", "orphanIntent", "orphanDrain"} : importer'[i] = [NotImporting EXCEPT !.pc = pc]
    BY <1>4, <1>9 DEF ImportDies
  <2>2. Progressing(importer'[i]) /\ importer'[i].pc = pc
    BY <2>1, RestingKnowsNothing
  <2>3. Locked'
    BY <1>2, <1>3, <1>9, <2>2 DEF Locked, ImportDies, HelperWorking
  <2> QED BY <1>1, <1>2, <1>3, <2>2, <2>3, ImportStepKeeps
<1>10. CASE ImportEnds(i) \/ OrphanHelperEnds(i)
  <2>1. importer'[i] = NotImporting
    BY <1>4, <1>10 DEF ImportEnds, OrphanHelperEnds
  <2>2. Progressing(importer'[i]) /\ importer'[i].pc = "idle"
    BY <2>1, RestingKnowsNothing
  <2>3. /\ queueLocks'.shared = queueLocks.shared
        /\ queueLocks'.gate = IF queueLocks.gate = i THEN NoOne ELSE queueLocks.gate
    BY <1>5, <1>10 DEF ImportEnds, OrphanHelperEnds, HelperReleases
  <2>4. Locked'
    BY <1>2, <1>3, <2>2, <2>3 DEF Locked, HelperWorking
  <2> QED BY <1>1, <1>2, <1>3, <2>2, <2>4, ImportStepKeeps
<1> QED BY <1>6, <1>7, <1>8, <1>9, <1>10

--------------------------------------------------------------------------
(* The boundary.                                                           *)

\* A fence fails no job of a publisher at work.
LEMMA StageRowsKeep ==
  ASSUME CutoverTyped, Published, NEW set \in SUBSET Sidecars, StageRows(set), ~MutationActive(set),
         UNCHANGED <<publishing, starter, library, cutoverMarker>>
  PROVE  /\ Background /\ Published'
         /\ \A s \in set : Fenced(s)'
<1>1. \A s \in Sidecars : archiveRow[s] \in SidecarRows
  BY DEF CutoverTyped
<1>2. \A s \in Sidecars : archiveRow'[s] = Fence(set, archiveRow)[s]
  BY DEF StageRows
<1>3. ASSUME NEW s \in Sidecars, s \in set, archiveRow[s].exists
      PROVE  /\ archiveRow'[s].exists /\ archiveRow'[s].pending
             /\ archiveRow'[s].native = archiveRow[s].native /\ archiveRow'[s].token = archiveRow[s].token
             /\ archiveRow'[s].job = IF archiveRow[s].job = "running" THEN "failed" ELSE archiveRow[s].job
  <2>1. archiveRow'[s] = [archiveRow[s] EXCEPT !.reviewed = FALSE, !.pending = TRUE,
                                               !.job = IF @ = "running" THEN "failed" ELSE @]
    BY <1>2, <1>3 DEF Fence
  <2>2. archiveRow[s] \in SidecarRows
    BY <1>1
  <2> QED BY <1>3, <2>1, <2>2 DEF SidecarRows
<1>4. ASSUME NEW s \in Sidecars, s \notin set \/ ~archiveRow[s].exists PROVE archiveRow'[s] = archiveRow[s]
  BY <1>2, <1>4 DEF Fence
<1>5. ASSUME NEW s \in Sidecars PROVE RowKept(archiveRow[s], archiveRow'[s])
  <2>1. CASE s \in set /\ archiveRow[s].exists
    BY <1>3, <2>1 DEF RowKept, OpenJobs
  <2>2. CASE s \notin set \/ ~archiveRow[s].exists
    BY <1>4, <2>2, UntouchedRows
  <2> QED BY <2>1, <2>2
<1>6. Background
  BY <1>5 DEF Background, StageRows
<1>7. Published'
  <2>1. ASSUME NEW s \in Sidecars
        PROVE  /\ archiveRow'[s].job # "none" => archiveRow'[s].exists
               /\ publishing[s] # "none" => archiveRow'[s].exists
               /\ publishing[s] = "mutating" => archiveRow'[s].job = "running" /\ archiveRow'[s].token
    <3>1. publishing[s] = "mutating" => s \notin set
      BY DEF Published, MutationActive
    <3> QED BY <1>3, <1>4, <3>1 DEF Published
  <2> QED BY <2>1 DEF Published
<1>8. \A s \in set : Fenced(s)'
  BY <1>3, <1>4 DEF Fenced, StageRows
<1> QED BY <1>6, <1>7, <1>8

\* A step of one import that is fine by everybody else.
LEMMA OwnBackgroundKeeps ==
  ASSUME CutoverInv, CutoverTyped', Background, Published', NEW i \in Importers,
         UNCHANGED <<queueLocks, legacyCommand>>,
         \A j \in Importers \ {i} : importer'[j] = importer[j],
         importer[i].pc \in HelperWorking \/ importer'[i].pc \notin HelperWorking,
         Progressing(importer[i])'
  PROVE  CutoverInv'
<1> USE DEF CutoverInv
<1>1. Locked'
  BY DEF Locked, Background
<1>2. \A j \in Importers : Progressing(importer[j])'
  <2> SUFFICES ASSUME NEW j \in Importers, j # i PROVE Progressing(importer[j])'
    OBVIOUS
  <2> QED BY ProgressKept DEF SameImport
<1> QED BY <1>1, <1>2, BackgroundKeeps

LEMMA StageKeeps ==
  ASSUME CutoverInv, NEW i \in Importers,
         StageFirst(i) \/ StageRetired(i) \/ StageRepair(i) \/ Restage(i)
  PROVE  CutoverInv'
<1> USE DEF CutoverInv
<1>1. CutoverTyped' /\ importer[i] \in Imports /\ importer \in [Importers -> Imports]
  BY StageTyped DEF CutoverTyped
<1>2. UNCHANGED <<library, cutoverMarker, queueLocks, legacyCommand, publishing, starter>>
  BY DEF StageFirst, StageRetired, StageRepair, Restage
<1>3. importer[i].pc \in {"stage", "restage"} /\ importer[i].pc \in HelperWorking
  BY DEF StageFirst, StageRetired, StageRepair, Restage, ImportStep, HelperWorking
<1>4. \A j \in Importers \ {i} : importer'[j] = importer[j]
  BY <1>1 DEF StageFirst, StageRetired, StageRepair, Restage, Returns
<1>5. Captured \subseteq Sidecars /\ Parsed(importer[i].batch) \subseteq Sidecars
  BY DEF Captured, Parsed
<1>6. Captured' = Captured
  BY <1>2 DEF Captured
\* Refused, nothing changes and everything is forgotten.
<1>7. CASE Returns(i) /\ UNCHANGED catalogVars
  <2>1. importer'[i] = [NotImporting EXCEPT !.pc = "release"]
    BY <1>1, <1>7 DEF Returns
  <2>2. Progressing(importer'[i]) /\ importer'[i].pc = "release"
    BY <2>1, RestingKnowsNothing
  <2>3. Locked'
    BY <1>2, <1>4, <2>2 DEF Locked, HelperWorking
  <2> QED BY <1>1, <1>2, <1>4, <1>7, <2>2, <2>3, ImportStepKeeps DEF catalogVars
\* Otherwise rows are fenced, and the import returns or goes on.
<1>8. ASSUME NEW set \in SUBSET Sidecars, StageRows(set), ~MutationActive(set), Progressing(importer[i])'
      PROVE  CutoverInv'
  <2>1. Background /\ Published'
    BY <1>2, <1>8, StageRowsKeep
  <2> QED BY <1>1, <1>2, <1>3, <1>4, <1>8, <2>1, OwnBackgroundKeeps
<1>9. ASSUME NEW STATE p, importer'[i] = OrForgets(p), p.pc = "release"
      PROVE  Progressing(importer[i])'
  <2>1. importer'[i].pc = "release"
    BY <1>9, RestingKnowsNothing DEF OrForgets
  <2> QED BY <2>1 DEF Progressing, HelperWorking, BeforeMarker, Late
<1>10. \A set \in SUBSET Sidecars, pc \in BeforeMarker \cup Late \cup {"release"} :
         LET q == [Remember(importer[i], set) EXCEPT !.pc = pc] IN
         /\ q.pc = pc /\ q.batch = importer[i].batch /\ q.todo = importer[i].todo
         /\ q.incomplete = importer[i].incomplete
  BY <1>1 DEF Remember, Imports
<1>11. /\ importer[i].todo = {} /\ ~importer[i].incomplete
       /\ \A s \in Parsed(importer[i].batch) : importer[i].batch[s].done = library[s].output
  BY <1>3 DEF Progressing, BeforeMarker, HelperWorking
<1>12. CASE StageFirst(i) /\ ~(Returns(i) /\ UNCHANGED catalogVars)
  <2> DEFINE set == Parsed(importer[i].batch)
             pc == IF ~BoundaryComplete(set, {}) THEN "release" ELSE IF set = {} THEN "examine" ELSE "publish"
             p == [Remember(importer[i], set) EXCEPT !.pc = pc]
  <2>1. StageRows(set) /\ ~MutationActive(set) /\ importer'[i] = OrForgets(p)
    BY <1>1, <1>12 DEF StageFirst
  <2>2. p.pc = pc /\ p.batch = importer[i].batch /\ p.todo = {} /\ ~p.incomplete
    BY <1>5, <1>10, <1>11 DEF BeforeMarker, Late
  <2>3. cutoverMarker.status = "none" /\ Captured = {}
    BY <1>12 DEF StageFirst, Authority
  <2>4. \A s \in set : Fenced(s)'
    BY <1>2, <1>5, <2>1, StageRowsKeep
  <2>5. Progressing(importer[i])'
    <3>1. CASE pc = "release"
      BY <1>9, <2>1, <2>2, <3>1
    <3>2. CASE pc = "examine" /\ set = {}
      <4>1. importer'[i] = p /\ importer'[i].pc = "examine" /\ importer'[i].batch = importer[i].batch
            /\ importer'[i].todo = {} /\ ~importer'[i].incomplete
        BY <2>1, <2>2, <3>2 DEF OrForgets
      <4>2. \A s \in Sidecars : importer[i].batch[s].state = "absent" /\ cutoverMarker.captured[s].state = "absent"
        BY <2>3, <3>2 DEF Parsed, Captured
      <4> QED BY <1>2, <1>6, <2>3, <3>2, <4>1, <4>2 DEF Progressing, Parsed, BeforeMarker, Late
    <3>3. CASE pc = "publish"
      <4>1. importer'[i] = p /\ importer'[i].pc = "publish" /\ importer'[i].batch = importer[i].batch
            /\ importer'[i].todo = {} /\ ~importer'[i].incomplete
        BY <2>1, <2>2, <3>3 DEF OrForgets
      <4>2. Parsed(importer[i].batch)' = set
        BY <4>1 DEF Parsed
      <4> QED BY <1>2, <1>6, <1>11, <2>3, <2>4, <4>1, <4>2 DEF Progressing, BeforeMarker, Late
    <3> QED BY <3>1, <3>2, <3>3
  <2> QED BY <1>5, <1>8, <2>1, <2>5
<1>13. CASE StageRetired(i) /\ ~(Returns(i) /\ UNCHANGED catalogVars)
  <2> DEFINE pc == IF BoundaryComplete(Captured, {}) THEN "examine" ELSE "release"
             skip == {s \in Captured : library[s].image # cutoverMarker.captured[s].image}
             p == [Remember(importer[i], Captured) EXCEPT !.pc = pc, !.published = TRUE,
                     !.batch = cutoverMarker.captured, !.todo = Captured, !.skipped = skip]
  <2>1. StageRows(Captured) /\ ~MutationActive(Captured) /\ importer'[i] = OrForgets(p)
        /\ cutoverMarker.status = "retired"
    BY <1>1, <1>13 DEF StageRetired
  <2>2. p.pc = pc /\ p.batch = cutoverMarker.captured /\ p.todo = Captured /\ ~p.incomplete
    <3>1. Remember(importer[i], Captured) \in Imports /\ ~Remember(importer[i], Captured).incomplete
      <4>1. Remember(importer[i], Captured) \in Imports
        BY <1>5, RememberedTyped
      <4>2. Remember(importer[i], Captured).incomplete = importer[i].incomplete
        BY <1>1 DEF Remember, Imports
      <4> QED BY <1>11, <4>1, <4>2
    <3> DEFINE m == Remember(importer[i], Captured)
    <3> HIDE DEF m, pc, skip
    <3>2. /\ p = [m EXCEPT !.pc = pc, !.published = TRUE, !.batch = cutoverMarker.captured,
                           !.todo = Captured, !.skipped = skip]
          /\ m \in Imports /\ ~m.incomplete
      BY <3>1 DEF m
    <3> HIDE DEF p
    <3> QED BY <3>2 DEF Imports
  <2>3. \A s \in Captured : Fenced(s)'
    BY <1>2, <1>5, <2>1, StageRowsKeep
  <2>4. Progressing(importer[i])'
    <3>1. CASE pc = "release"
      BY <1>9, <2>1, <2>2, <3>1, ZenonT(60)
    <3>2. CASE pc = "examine"
      <4>1. importer'[i] = p /\ importer'[i].pc = "examine" /\ importer'[i].batch = cutoverMarker.captured
            /\ importer'[i].todo = Captured /\ ~importer'[i].incomplete
        BY <2>1, <2>2, <3>2 DEF OrForgets
      <4>2. Parsed(importer[i].batch)' = Captured
        BY <4>1 DEF Parsed, Captured
      <4>3. \A s \in Captured : cutoverMarker.captured[s].done = library[s].output
        BY DEF Authority
      <4> QED BY <1>2, <1>6, <2>1, <2>3, <4>1, <4>2, <4>3, ZenonT(60) DEF Progressing, BeforeMarker, Late
    <3> QED BY <3>1, <3>2
  <2> QED BY <1>5, <1>8, <2>1, <2>4
<1>14. CASE StageRepair(i) /\ ~(Returns(i) /\ UNCHANGED catalogVars)
  <2>1. PICK pc \in {"release", "restage"} :
          /\ pc = "restage" => Captured \subseteq Parsed(importer[i].batch)
          /\ importer'[i] = OrForgets([Remember(importer[i], Captured) EXCEPT !.pc = pc, !.published = TRUE])
    BY <1>1, <1>14 DEF StageRepair
  <2> DEFINE p == [Remember(importer[i], Captured) EXCEPT !.pc = pc, !.published = TRUE]
  <2>2. StageRows(Captured) /\ ~MutationActive(Captured)
    BY <1>14 DEF StageRepair
  <2>3. p.pc = pc /\ p.batch = importer[i].batch /\ p.todo = {} /\ ~p.incomplete
    <3>1. /\ Remember(importer[i], Captured) \in Imports /\ ~Remember(importer[i], Captured).incomplete
          /\ Remember(importer[i], Captured).todo = {}
          /\ Remember(importer[i], Captured).batch = importer[i].batch
      BY <1>1, <1>5, <1>11, RememberedTyped DEF Remember, Imports
    <3> QED BY <3>1 DEF Imports
  <2>4. \A s \in Captured : Fenced(s)'
    BY <1>2, <1>5, <2>2, StageRowsKeep
  <2>5. Progressing(importer[i])'
    <3>1. CASE pc = "release"
      BY <1>9, <2>1, <2>3, <3>1
    <3>2. CASE pc = "restage"
      <4>1. importer'[i] = p /\ importer'[i].pc = "restage" /\ importer'[i].batch = importer[i].batch
            /\ importer'[i].todo = {} /\ ~importer'[i].incomplete
        BY <2>1, <2>3, <3>2 DEF OrForgets
      <4>2. Parsed(importer[i].batch)' = Parsed(importer[i].batch)
        BY <4>1 DEF Parsed
      <4>3. Captured \subseteq Parsed(importer[i].batch)
        BY <2>1, <3>2
      <4> HIDE DEF p
      <4> QED BY <1>2, <1>6, <1>11, <2>4, <4>1, <4>2, <4>3 DEF Progressing, BeforeMarker, Late
    <3> QED BY <3>1, <3>2
  <2> QED BY <1>5, <1>8, <2>2, <2>5
<1>15. CASE Restage(i) /\ ~(Returns(i) /\ UNCHANGED catalogVars)
  <2> DEFINE set == Parsed(importer[i].batch)
             pc == IF BoundaryComplete(set, Captured) THEN "publish" ELSE "release"
             p == [Remember(importer[i], set) EXCEPT !.pc = pc]
  <2>1. StageRows(set) /\ ~MutationActive(set) /\ importer'[i] = OrForgets(p) /\ importer[i].pc = "restage"
    BY <1>1, <1>15 DEF Restage, ImportStep
  <2>2. p.pc = pc /\ p.batch = importer[i].batch /\ p.todo = {} /\ ~p.incomplete
    BY <1>5, <1>10, <1>11 DEF BeforeMarker, Late
  <2>3. \A s \in set : Fenced(s)'
    BY <1>2, <1>5, <2>1, StageRowsKeep
  <2>4. Captured \subseteq set
    BY <2>1 DEF Progressing
  <2>5. Progressing(importer[i])'
    <3>1. CASE pc = "release"
      BY <1>9, <2>1, <2>2, <3>1
    <3>2. CASE pc = "publish"
      <4>1. importer'[i] = p /\ importer'[i].pc = "publish" /\ importer'[i].batch = importer[i].batch
            /\ importer'[i].todo = {} /\ ~importer'[i].incomplete
        BY <2>1, <2>2, <3>2 DEF OrForgets
      <4>2. Parsed(importer[i].batch)' = set
        BY <4>1 DEF Parsed
      <4> QED BY <1>2, <1>6, <1>11, <2>3, <2>4, <4>1, <4>2 DEF Progressing, BeforeMarker, Late
    <3> QED BY <3>1, <3>2
  <2> QED BY <1>5, <1>8, <2>1, <2>5
<1> QED BY <1>7, <1>12, <1>13, <1>14, <1>15

--------------------------------------------------------------------------
(* The marker.                                                             *)

\* What the marker does to a starter leaves its locks alone.
LEMMA MarkerMoves ==
  ASSUME CutoverTyped, NEW STATE m, MarkerBecomes(m)
  PROVE  starter'.pc = starter.pc /\ starter'.authorized = starter.authorized
BY DEF CutoverTyped, MarkerBecomes, Starters

LEMMA MarkerPublishKeeps ==
  ASSUME CutoverInv, NEW i \in Importers, Publish(i)
  PROVE  CutoverInv'
<1> USE DEF CutoverInv
<1>1. CutoverTyped' /\ importer[i] \in Imports /\ importer \in [Importers -> Imports]
  BY MarkerTyped DEF CutoverTyped
<1>2. /\ UNCHANGED <<library, queueLocks, legacyCommand, archiveRow, stagedSidecars, publishing>>
      /\ cutoverMarker' = [status |-> "retired", captured |-> importer[i].batch]
      /\ importer[i].pc = "publish"
  BY DEF Publish, catalogVars, MarkerBecomes, ImportStep
<1> DEFINE set == Parsed(importer[i].batch)
<1>3. /\ importer'[i].pc = "examine" /\ importer'[i].batch = importer[i].batch
      /\ importer'[i].todo = set /\ importer'[i].incomplete = importer[i].incomplete
      /\ \A j \in Importers \ {i} : importer'[j] = importer[j]
  BY <1>1 DEF Publish, Imports
<1>4. Captured' = set /\ set \subseteq Sidecars
  BY <1>2 DEF Captured, Parsed
<1>5. /\ ~importer[i].incomplete /\ Captured \subseteq set
      /\ \A s \in set : importer[i].batch[s].done = library[s].output
      /\ \A s \in set : Fenced(s)
  BY <1>2 DEF Progressing, BeforeMarker, HelperWorking
<1>6. Published'
  BY <1>2, MarkerMoves DEF Published, Publish
<1>7. /\ \A c \in LegacyCommands : legacyCommand[c] \notin {"check", "work"}
      /\ \A j \in Importers \ {i} : importer[j].pc \notin HelperWorking
  BY <1>2, SharedMeansIdle DEF HelperWorking
<1>8. Locked'
  BY <1>2, <1>3, <1>7 DEF Locked, HelperWorking
<1>9. Authority'
  BY <1>2, <1>4, <1>5 DEF Authority, Imported
<1>10. FencedUntilWhole'
  BY <1>2, <1>4, <1>5 DEF FencedUntilWhole, Fenced
<1>11. ASSUME NEW j \in Importers PROVE Progressing(importer[j])'
  <2>1. CASE j # i
    BY <1>3, <1>7, <2>1 DEF Progressing, HelperWorking, BeforeMarker, Late
  <2>2. CASE j = i
    <3>1. Parsed(importer[i].batch)' = set
      BY <1>3 DEF Parsed
    <3>2. \A s \in set : Fenced(s)'
      BY <1>2, <1>5 DEF Fenced
    <3> QED BY <1>2, <1>3, <1>4, <1>5, <2>2, <3>1, <3>2 DEF Progressing, BeforeMarker, Late
  <2> QED BY <2>1, <2>2
<1> QED BY <1>1, <1>6, <1>8, <1>9, <1>10, <1>11

\* An import at work may withdraw the marker: everything captured is fenced.
LEMMA WithdrawalKeeps ==
  ASSUME CutoverInv, CutoverTyped', NEW i \in Importers, importer[i].pc \in Late,
         UNCHANGED <<library, queueLocks, legacyCommand, stagedSidecars, publishing>>,
         \A s \in Sidecars : archiveRow'[s].exists = archiveRow[s].exists
           /\ archiveRow'[s].native = archiveRow[s].native /\ archiveRow'[s].pending = archiveRow[s].pending
           /\ archiveRow'[s].job = archiveRow[s].job /\ archiveRow'[s].token = archiveRow[s].token,
         WithdrawPublication,
         \A j \in Importers \ {i} : importer'[j] = importer[j],
         Progressing(importer[i])'
  PROVE  CutoverInv'
<1> USE DEF CutoverInv
<1>1. /\ cutoverMarker'.captured = cutoverMarker.captured
      /\ cutoverMarker'.status = IF cutoverMarker.status = "retired" THEN "repair" ELSE cutoverMarker.status
      /\ starter'.pc = starter.pc /\ starter'.authorized = starter.authorized
  BY MarkerMoves DEF WithdrawPublication, MarkerBecomes, CutoverTyped
<1>2. Captured' = Captured /\ Captured \subseteq Sidecars
  BY <1>1 DEF Captured
<1>3. /\ \A c \in LegacyCommands : legacyCommand[c] \notin {"check", "work"}
      /\ \A j \in Importers \ {i} : importer[j].pc \notin HelperWorking
  BY SharedMeansIdle DEF HelperWorking, Late
<1>4. Locked'
  BY <1>1, <1>3 DEF Locked, HelperWorking, Late
<1>5. Published'
  BY <1>1 DEF Published
<1>6. Authority'
  BY <1>1, <1>2 DEF Authority, Imported
<1>7. \A s \in Captured : Fenced(s)
  BY DEF Progressing
<1>8. FencedUntilWhole'
  BY <1>2, <1>7 DEF FencedUntilWhole, Fenced
<1>9. \A j \in Importers \ {i} : Progressing(importer[j])'
  BY <1>3 DEF Progressing, HelperWorking, BeforeMarker, Late
<1> QED BY <1>4, <1>5, <1>6, <1>8, <1>9

LEMMA WithdrawKeeps ==
  ASSUME CutoverInv, NEW i \in Importers, Withdraw(i)
  PROVE  CutoverInv'
<1> USE DEF CutoverInv
<1>1. CutoverTyped' /\ importer[i] \in Imports /\ importer \in [Importers -> Imports]
  BY MarkerTyped DEF CutoverTyped
<1>2. /\ UNCHANGED <<library, queueLocks, legacyCommand, archiveRow, stagedSidecars, publishing>>
      /\ WithdrawPublication /\ importer[i].pc = "withdraw" /\ importer[i].pc \in Late
  BY DEF Withdraw, catalogVars, ImportStep, Late
<1>3. /\ importer'[i].pc = "examine" /\ importer'[i].batch = importer[i].batch
      /\ importer'[i].todo = importer[i].todo /\ importer'[i].incomplete /\ importer[i].incomplete
      /\ \A j \in Importers \ {i} : importer'[j] = importer[j]
  <2>1. importer[i].incomplete
    BY <1>2 DEF Progressing
  <2> QED BY <1>1, <2>1 DEF Withdraw, ImportGoes, Imports
<1>4. Progressing(importer[i])'
  <2>1. cutoverMarker'.captured = cutoverMarker.captured
    BY <1>2 DEF WithdrawPublication, MarkerBecomes, CutoverTyped
  <2>2. Captured' = Captured /\ Parsed(importer[i].batch)' = Parsed(importer[i].batch)
    BY <1>3, <2>1 DEF Captured, Parsed
  <2>3. \A s \in Captured : Fenced(s)'
    BY <1>2 DEF Progressing, Fenced
  <2> QED BY <1>2, <1>3, <2>1, <2>2, <2>3 DEF Progressing, HelperWorking, BeforeMarker, Late
<1> QED BY <1>1, <1>2, <1>3, <1>4, WithdrawalKeeps

\* The paths are ordered: an import goes through its sidecars one by one.
LEMMA OneForemost ==
  ASSUME NEW set \in SUBSET Sidecars, NEW s \in Foremost(set), NEW t \in Foremost(set)
  PROVE  s = t
<1>1. s \in Nat /\ t \in Nat /\ s <= t /\ t <= s
  BY CutoverNames DEF Foremost
<1> QED BY <1>1

LEMMA ExamineKeeps ==
  ASSUME CutoverInv, NEW i \in Importers, Examine(i)
  PROVE  CutoverInv'
<1> USE DEF CutoverInv
<1>1. CutoverTyped' /\ importer[i] \in Imports /\ importer \in [Importers -> Imports]
  BY MarkerTyped DEF CutoverTyped
<1>2. /\ UNCHANGED <<library, queueLocks, legacyCommand, archiveRow, stagedSidecars, publishing>>
      /\ importer[i].pc = "examine" /\ importer[i].pc \in Late /\ importer[i].pc \in HelperWorking
  BY DEF Examine, catalogVars, ImportStep, Late, HelperWorking
<1>3. PICK s \in Foremost(importer[i].todo) :
        \/ /\ importer' = [importer EXCEPT ![i].todo = @ \ {s}, ![i].incomplete = TRUE]
           /\ WithdrawPublication
        \/ /\ importer' = [importer EXCEPT ![i].pc = "persist", ![i].incomplete = TRUE, ![i].human = @ \cup {s}]
           /\ WithdrawPublication
        \/ /\ importer[i].batch[s].state # "flawed"
           /\ ImportGoes(i, "persist") /\ UNCHANGED <<cutoverMarker, starter>>
  BY DEF Examine
<1>4. \A j \in Importers \ {i} : importer'[j] = importer[j]
  BY <1>1, <1>3 DEF ImportGoes
<1>5. /\ s \in importer[i].todo /\ importer[i].todo \subseteq Parsed(importer[i].batch)
      /\ Parsed(importer[i].batch) \subseteq Sidecars
      /\ \A t \in Sidecars : importer[i].batch[t].state = cutoverMarker.captured[t].state
      /\ \A t \in Captured : Fenced(t)
      /\ \A t \in Parsed(importer[i].batch) : importer[i].batch[t].done = library[t].output
      /\ \A t \in Parsed(importer[i].batch) \ importer[i].todo :
           importer[i].batch[t].state = "flawed" => importer[i].incomplete
      /\ ~importer[i].incomplete => cutoverMarker.status # "repair"
  <2>1. Foremost(importer[i].todo) \subseteq importer[i].todo
    BY DEF Foremost
  <2> QED BY <1>2, <1>3, <2>1 DEF Progressing, Parsed, HelperWorking
<1>6. importer'[i].batch = importer[i].batch => Parsed(importer[i].batch)' = Parsed(importer[i].batch)
  BY DEF Parsed
<1>7. \A t \in Captured : Fenced(t)'
  BY <1>2, <1>5 DEF Fenced
<1>8. CASE WithdrawPublication /\ importer' = [importer EXCEPT ![i].todo = @ \ {s}, ![i].incomplete = TRUE]
  <2>1. cutoverMarker'.captured = cutoverMarker.captured /\ Captured' = Captured
    BY <1>8 DEF WithdrawPublication, MarkerBecomes, CutoverTyped, Captured
  <2>2. /\ importer'[i].pc = "examine" /\ importer'[i].batch = importer[i].batch
        /\ importer'[i].todo = importer[i].todo \ {s} /\ importer'[i].incomplete
    BY <1>1, <1>2, <1>8 DEF Imports
  <2>3. Progressing(importer[i])'
    BY <1>2, <1>5, <1>6, <1>7, <2>1, <2>2 DEF Progressing, HelperWorking, BeforeMarker, Late
  <2> QED BY <1>1, <1>2, <1>4, <1>8, <2>3, WithdrawalKeeps
<1>9. CASE /\ WithdrawPublication
           /\ importer' = [importer EXCEPT ![i].pc = "persist", ![i].incomplete = TRUE, ![i].human = @ \cup {s}]
  <2>1. cutoverMarker'.captured = cutoverMarker.captured /\ Captured' = Captured
    BY <1>9 DEF WithdrawPublication, MarkerBecomes, CutoverTyped, Captured
  <2>2. /\ importer'[i].pc = "persist" /\ importer'[i].batch = importer[i].batch
        /\ importer'[i].todo = importer[i].todo /\ importer'[i].incomplete
    BY <1>1, <1>9 DEF Imports
  <2>3. Progressing(importer[i])'
    BY <1>2, <1>5, <1>6, <1>7, <2>1, <2>2 DEF Progressing, HelperWorking, BeforeMarker, Late
  <2> QED BY <1>1, <1>2, <1>4, <1>9, <2>3, WithdrawalKeeps
<1>10. CASE /\ importer[i].batch[s].state # "flawed"
            /\ ImportGoes(i, "persist") /\ UNCHANGED <<cutoverMarker, starter>>
  <2>1. /\ importer'[i].pc = "persist" /\ importer'[i].batch = importer[i].batch
        /\ importer'[i].todo = importer[i].todo /\ importer'[i].incomplete = importer[i].incomplete
    BY <1>1, <1>10 DEF ImportGoes, Imports
  <2>2. Background /\ Published'
    BY <1>2, <1>10, UntouchedRows DEF Background, Published
  <2>3. Captured' = Captured
    BY <1>10 DEF Captured
  <2>4. Foremost(importer[i].todo)' = Foremost(importer[i].todo)
    BY <2>1 DEF Foremost
  <2>5. ~importer[i].incomplete => \A t \in Foremost(importer[i].todo) : importer[i].batch[t].state # "flawed"
    BY <1>1, <1>3, <1>10, OneForemost DEF Imports
  <2>6. Progressing(importer[i])'
    BY <1>2, <1>5, <1>6, <1>7, <1>10, <2>1, <2>3, <2>4, <2>5 DEF Progressing, HelperWorking, BeforeMarker, Late
  <2> QED BY <1>1, <1>2, <1>4, <1>10, <2>1, <2>2, <2>6, OwnBackgroundKeeps
<1> QED BY <1>3, <1>8, <1>9, <1>10

--------------------------------------------------------------------------
(* One sidecar after the other, and the end.                               *)

LEMMA ImportedRow ==
  ASSUME CutoverTyped, Published, NEW s \in Sidecars, NEW STATE seen, seen \in Seen, NEW conflict \in BOOLEAN
  PROVE  LET r == archiveRow[s]  q == RowImported(s, seen, conflict) IN
         /\ q \in SidecarRows /\ q.exists
         /\ r.exists => q.native = r.native /\ q.pending = r.pending
         /\ ~r.exists => ~q.native /\ q.pending
         /\ r.job # "none" => q.job = r.job /\ q.token = r.token
         /\ r.job = "none" => q.job \in {"none", "completed", "queued"}
         /\ r.job = "none" /\ q.job # "none" => seen.state = "good"
         /\ r.job = "none" /\ q.job = "queued" => ~seen.done
<1> DEFINE r == archiveRow[s]
           new == [NoRow EXCEPT !.exists = TRUE, !.pending = TRUE, !.image = seen.image]
           base == IF r.exists THEN [r EXCEPT !.image = seen.image] ELSE new
<1>1. r \in SidecarRows /\ (r.job # "none" => r.exists)
  BY DEF CutoverTyped, Published
<1>2. base \in SidecarRows /\ base.exists
      /\ (r.exists => base.native = r.native /\ base.pending = r.pending /\ base.job = r.job /\ base.token = r.token)
      /\ (~r.exists => ~base.native /\ base.pending /\ base.job = "none")
  BY <1>1 DEF NoRow, SidecarRows, Seen
<1>3. RowImported(s, seen, conflict) =
        [base EXCEPT !.job = IF @ = "none" /\ seen.state = "good" /\ ~conflict
                             THEN (IF seen.done THEN "completed" ELSE "queued") ELSE @]
  BY DEF RowImported
<1> HIDE DEF base
<1>4. LET q == RowImported(s, seen, conflict) IN
      /\ q.exists = base.exists /\ q.native = base.native /\ q.pending = base.pending /\ q.token = base.token
      /\ q.job = IF base.job = "none" /\ seen.state = "good" /\ ~conflict
                 THEN (IF seen.done THEN "completed" ELSE "queued") ELSE base.job
  BY <1>2, <1>3 DEF SidecarRows
<1>5. RowImported(s, seen, conflict) \in SidecarRows
  BY RowImportedTyped
<1> QED BY <1>1, <1>2, <1>4, <1>5

LEMMA PersistKeeps ==
  ASSUME CutoverInv, NEW i \in Importers, Persist(i)
  PROVE  CutoverInv'
<1> USE DEF CutoverInv
<1>1. CutoverTyped' /\ importer[i] \in Imports /\ importer \in [Importers -> Imports]
  BY PersistTyped DEF CutoverTyped
<1>2. /\ UNCHANGED <<library, cutoverMarker, queueLocks, legacyCommand, stagedSidecars, publishing, starter>>
      /\ importer[i].pc = "persist" /\ importer[i].pc \in Late /\ importer[i].pc \in HelperWorking
  BY DEF Persist, ImportStep, Late, HelperWorking
<1>3. PICK s \in Foremost(importer[i].todo), conflict \in BOOLEAN : PersistSidecar(i, s, conflict)
  BY DEF Persist
<1> DEFINE seen == importer[i].batch[s]
           row == RowImported(s, seen, conflict)
<1>4. /\ s \in importer[i].todo /\ s \in Parsed(importer[i].batch) /\ s \in Captured /\ s \in Sidecars
      /\ seen \in Seen /\ seen.done = library[s].output
  <2>1. s \in importer[i].todo /\ s \in Parsed(importer[i].batch) /\ s \in Sidecars
    BY <1>1, <1>2, <1>3 DEF Foremost, Progressing, Imports
  <2>2. s \in Captured
    BY <1>2, <2>1 DEF Progressing, Parsed, Captured
  <2>3. seen \in Seen
    BY <1>1, <2>1 DEF Imports, Batches
  <2>4. seen.done = library[s].output
    BY <1>2, <2>1 DEF Progressing
  <2> QED BY <2>1, <2>2, <2>3, <2>4
<1>5. /\ row \in SidecarRows /\ row.exists
      /\ archiveRow[s].exists => row.native = archiveRow[s].native /\ row.pending = archiveRow[s].pending
      /\ ~archiveRow[s].exists => ~row.native /\ row.pending
      /\ archiveRow[s].job # "none" => row.job = archiveRow[s].job /\ row.token = archiveRow[s].token
      /\ archiveRow[s].job = "none" => row.job \in {"none", "completed", "queued"}
      /\ archiveRow[s].job = "none" /\ row.job = "queued" => ~seen.done
  BY <1>4, ImportedRow
<1>6. \E re \in BOOLEAN : archiveRow' = [archiveRow EXCEPT ![s] = [row EXCEPT !.reviewed = re]]
  <2>1. row.reviewed \in BOOLEAN
    BY <1>5 DEF SidecarRows
  <2> QED BY <1>3, <2>1 DEF PersistSidecar
<1> HIDE DEF row
<1>7. /\ archiveRow'[s].exists /\ archiveRow'[s].native = row.native /\ archiveRow'[s].pending = row.pending
      /\ archiveRow'[s].job = row.job /\ archiveRow'[s].token = row.token
      /\ \A t \in Sidecars \ {s} : archiveRow'[t] = archiveRow[t]
  BY <1>4, <1>5, <1>6 DEF CutoverTyped, SidecarRows
<1>8. /\ importer'[i].pc = IF conflict THEN "withdraw" ELSE "examine"
      /\ importer'[i].batch = importer[i].batch
      /\ importer'[i].todo = importer[i].todo \ {s}
      /\ importer'[i].incomplete = (importer[i].incomplete \/ conflict)
      /\ \A j \in Importers \ {i} : importer'[j] = importer[j]
  BY <1>1, <1>3 DEF PersistSidecar, Imports
<1>9. Captured' = Captured /\ Parsed(importer[i].batch)' = Parsed(importer[i].batch)
  BY <1>2, <1>8 DEF Captured, Parsed
<1>10. Fenced(s) /\ cutoverMarker.status # "none"
  <2>1. Fenced(s)
    BY <1>2, <1>4 DEF Progressing
  <2>2. cutoverMarker.status # "none"
    BY <1>4 DEF Authority
  <2> QED BY <2>1, <2>2
<1>11. Published'
  <2>1. publishing[s] = "mutating" => row.job = "running" /\ row.token
    BY <1>4, <1>5 DEF Published
  <2> QED BY <1>2, <1>7, <2>1 DEF Published
<1>12. Locked'
  BY <1>2, <1>8 DEF Locked
<1>13. Authority'
  <2>1. ASSUME NEW t \in Sidecars, Imported(t)', archiveRow'[t].job \in OpenJobs \/ publishing[t] # "none"
        PROVE  ~library[t].output
    <3>1. CASE t # s
      BY <1>7, <2>1, <3>1 DEF Authority, Imported
    <3>2. CASE t = s /\ archiveRow[s].exists
      BY <1>4, <1>5, <1>7, <2>1, <3>2 DEF Authority, Imported, OpenJobs
    <3>3. CASE t = s /\ ~archiveRow[s].exists
      BY <1>4, <1>5, <1>7, <2>1, <3>3 DEF Published, OpenJobs
    <3> QED BY <3>1, <3>2, <3>3
  <2>2. \A t \in Sidecars : Imported(t)' => t \in Captured
    BY <1>4, <1>7 DEF Authority, Imported
  <2> QED BY <1>2, <1>9, <1>10, <2>1, <2>2 DEF Authority
<1>14. Whole => Whole'
  <2>1. \A t \in Captured : /\ archiveRow[t].exists => archiveRow'[t].exists
                            /\ archiveRow[t].job # "none" => archiveRow'[t].job # "none"
    BY <1>5, <1>7 DEF Captured
  <2> QED BY <1>2, <1>9, <2>1 DEF Whole
<1>15. FencedUntilWhole'
  <2>1. ASSUME NEW t \in Captured, archiveRow'[t].exists, ~archiveRow'[t].pending PROVE Whole
    <3>1. t # s
      BY <1>5, <1>7, <1>10, <2>1 DEF Fenced
    <3> QED BY <1>7, <2>1, <3>1 DEF FencedUntilWhole, Captured
  <2> QED BY <1>2, <1>9, <1>14, <2>1 DEF FencedUntilWhole
<1>16. \A t \in Sidecars : Fenced(t) => Fenced(t)'
  BY <1>2, <1>5, <1>7 DEF Fenced
<1>17. \A j \in Importers \ {i} : Progressing(importer[j])'
  <2>1. \A j \in Importers \ {i} : importer[j].pc \notin HelperWorking
    BY <1>2, SharedMeansIdle
  <2> QED BY <1>8, <2>1 DEF Progressing, HelperWorking, BeforeMarker, Late
<1>18. Progressing(importer[i])'
  <2>1. importer[i].batch[s].state = "flawed" => importer[i].incomplete
    BY <1>2, <1>3 DEF Progressing
  <2>2. /\ \A t \in Sidecars : importer[i].batch[t].state = cutoverMarker.captured[t].state
        /\ \A t \in Captured : Fenced(t)
        /\ importer[i].todo \subseteq Parsed(importer[i].batch)
        /\ \A t \in Parsed(importer[i].batch) : importer[i].batch[t].done = library[t].output
        /\ \A t \in Parsed(importer[i].batch) \ importer[i].todo :
             importer[i].batch[t].state = "flawed" => importer[i].incomplete
        /\ ~importer[i].incomplete => cutoverMarker.status # "repair"
    BY <1>2 DEF Progressing, HelperWorking
  <2>3. \A t \in Captured : Fenced(t)'
    BY <1>16, <2>2 DEF Captured
  <2>4. importer'[i].pc \in {"examine", "withdraw"} /\ (importer'[i].pc = "withdraw" => importer'[i].incomplete)
    BY <1>8
  <2> QED BY <1>2, <1>8, <1>9, <2>1, <2>2, <2>3, <2>4 DEF Progressing, HelperWorking, BeforeMarker, Late
<1> QED BY <1>1, <1>11, <1>12, <1>13, <1>15, <1>17, <1>18

LEMMA PersistFailsKeeps ==
  ASSUME CutoverInv, NEW i \in Importers, PersistFails(i)
  PROVE  CutoverInv'
<1> USE DEF CutoverInv
<1>1. CutoverTyped' /\ importer[i] \in Imports /\ importer \in [Importers -> Imports]
  BY PersistTyped DEF CutoverTyped
<1>2. /\ UNCHANGED <<library, cutoverMarker, queueLocks, legacyCommand, stagedSidecars, publishing, starter>>
      /\ importer[i].pc = "persist" /\ importer[i].pc \in Late /\ importer[i].pc \in HelperWorking
  BY DEF PersistFails, ImportStep, Late, HelperWorking
<1>3. PICK s \in Foremost(importer[i].todo) :
        /\ archiveRow' = [archiveRow EXCEPT ![s].reviewed = FALSE]
        /\ importer' = [importer EXCEPT ![i] =
             [importer[i] EXCEPT !.pc = "withdraw", !.todo = @ \ {s}, !.incomplete = TRUE,
                                 !.human = @ \cup {s}, !.candidates[s] = "none"]]
  BY DEF PersistFails
<1>4. /\ importer'[i].pc = "withdraw" /\ importer'[i].batch = importer[i].batch
      /\ importer'[i].todo = importer[i].todo \ {s} /\ importer'[i].incomplete
      /\ \A j \in Importers \ {i} : importer'[j] = importer[j]
  BY <1>1, <1>3 DEF Imports
<1>5. \A t \in Sidecars : archiveRow'[t].exists = archiveRow[t].exists
        /\ archiveRow'[t].native = archiveRow[t].native /\ archiveRow'[t].pending = archiveRow[t].pending
        /\ archiveRow'[t].job = archiveRow[t].job /\ archiveRow'[t].token = archiveRow[t].token
  BY <1>3 DEF CutoverTyped, SidecarRows
<1>6. Background /\ Published'
  <2>1. \A t \in Sidecars : RowKept(archiveRow[t], archiveRow'[t])
    BY <1>5 DEF RowKept
  <2>2. Published'
    BY <1>2, <1>5 DEF Published
  <2> QED BY <1>2, <2>1, <2>2 DEF Background
<1>7. Progressing(importer[i])'
  <2>1. Captured' = Captured /\ Parsed(importer[i].batch)' = Parsed(importer[i].batch)
    BY <1>2, <1>4 DEF Captured, Parsed
  <2>2. \A t \in Captured : Fenced(t)'
    BY <1>2, <1>5 DEF Progressing, Fenced, Captured
  <2>3. /\ \A t \in Sidecars : importer[i].batch[t].state = cutoverMarker.captured[t].state
        /\ importer[i].todo \subseteq Parsed(importer[i].batch)
        /\ \A t \in Parsed(importer[i].batch) : importer[i].batch[t].done = library[t].output
    BY <1>2 DEF Progressing, HelperWorking
  <2> QED BY <1>2, <1>4, <2>1, <2>2, <2>3 DEF Progressing, HelperWorking, BeforeMarker, Late
<1> QED BY <1>1, <1>2, <1>4, <1>6, <1>7, OwnBackgroundKeeps

LEMMA GivesUpKeeps ==
  ASSUME CutoverInv, NEW i \in Importers, GivesUp(i)
  PROVE  CutoverInv'
<1> USE DEF CutoverInv
<1>1. CutoverTyped' /\ importer[i] \in Imports /\ importer \in [Importers -> Imports]
  BY PersistTyped DEF CutoverTyped
<1>2. /\ UNCHANGED <<library, queueLocks, legacyCommand, stagedSidecars, publishing>>
      /\ WithdrawPublication /\ importer[i].pc \in Late
  BY DEF GivesUp, ImportStep, Late
<1>3. importer'[i].pc = "release" /\ \A j \in Importers \ {i} : importer'[j] = importer[j]
  BY <1>1, RestingKnowsNothing DEF GivesUp, Returns
<1>4. Progressing(importer[i])'
  BY <1>3 DEF Progressing, HelperWorking, BeforeMarker, Late
<1>5. \A s \in Sidecars : archiveRow'[s].exists = archiveRow[s].exists
        /\ archiveRow'[s].native = archiveRow[s].native /\ archiveRow'[s].pending = archiveRow[s].pending
        /\ archiveRow'[s].job = archiveRow[s].job /\ archiveRow'[s].token = archiveRow[s].token
  BY DEF GivesUp, CutoverTyped, SidecarRows
<1> QED BY <1>1, <1>2, <1>3, <1>4, <1>5, WithdrawalKeeps

\* An import that missed nothing has everything the marker captured.
LEMMA LiftFencesKeeps ==
  ASSUME CutoverInv, NEW i \in Importers, LiftFences(i)
  PROVE  CutoverInv'
<1> USE DEF CutoverInv
<1>1. CutoverTyped' /\ importer[i] \in Imports /\ importer \in [Importers -> Imports]
  BY PersistTyped DEF CutoverTyped
<1>2. /\ UNCHANGED <<library, cutoverMarker, queueLocks, legacyCommand, publishing, starter>>
      /\ importer[i].pc = "examine" /\ importer[i].pc \in HelperWorking /\ importer[i].todo = {}
      /\ ~importer[i].incomplete /\ MissingRecords(importer[i].batch) = {}
  BY DEF LiftFences, ImportStep, HelperWorking
<1>3. importer'[i].pc = "release" /\ \A j \in Importers \ {i} : importer'[j] = importer[j]
  BY <1>1, RestingKnowsNothing DEF LiftFences, Returns
<1>4. \A s \in Sidecars : archiveRow'[s].exists = archiveRow[s].exists
        /\ archiveRow'[s].native = archiveRow[s].native
        /\ archiveRow'[s].job = archiveRow[s].job /\ archiveRow'[s].token = archiveRow[s].token
  <2> SUFFICES ASSUME NEW s \in Sidecars
               PROVE  LET r == archiveRow[s]  q == archiveRow'[s] IN
                      q.exists = r.exists /\ q.native = r.native /\ q.job = r.job /\ q.token = r.token
    OBVIOUS
  <2>1. \E re : archiveRow'[s] = [archiveRow[s] EXCEPT !.pending = FALSE, !.reviewed = re]
    BY DEF LiftFences
  <2>2. archiveRow[s] \in SidecarRows
    BY DEF CutoverTyped
  <2> QED BY <2>1, <2>2 DEF SidecarRows
<1>5. Captured' = Captured /\ Captured \subseteq Sidecars
  BY <1>2 DEF Captured
<1>6. Captured # {} => Whole
  <2>1. Captured # {} => cutoverMarker.status = "retired"
    BY <1>2 DEF Progressing, Authority, Late, CutoverTyped
  <2>2. ASSUME NEW s \in Captured
        PROVE  cutoverMarker.captured[s].state = "good" /\ archiveRow[s].exists /\ archiveRow[s].job # "none"
    <3>1. s \in Sidecars /\ importer[i].batch[s].state = cutoverMarker.captured[s].state
      BY <1>2, <1>5 DEF Progressing, Late
    <3>2. importer[i].batch[s].state \in {"absent", "good", "flawed"}
      BY <1>1, <3>1 DEF Imports, Batches, Seen
    <3>3. s \in Parsed(importer[i].batch)
      BY <3>1 DEF Captured, Parsed
    <3>4. importer[i].batch[s].state = "good"
      BY <1>2, <3>2, <3>3 DEF Progressing, Late, Parsed
    <3> QED BY <1>2, <3>1, <3>3, <3>4 DEF MissingRecords
  <2> QED BY <2>1, <2>2 DEF Whole
<1>7. Captured # {} => Whole'
  BY <1>2, <1>4, <1>5, <1>6 DEF Whole
<1>8. FencedUntilWhole'
  BY <1>5, <1>7 DEF FencedUntilWhole
<1>9. Authority'
  BY <1>2, <1>4, <1>5 DEF Authority, Imported
<1>10. Published'
  BY <1>2, <1>4 DEF Published
<1>11. Locked'
  BY <1>2, <1>3 DEF Locked, HelperWorking
<1>12. ASSUME NEW j \in Importers PROVE Progressing(importer[j])'
  <2>1. CASE j = i
    BY <1>3, <2>1 DEF Progressing, HelperWorking, BeforeMarker, Late
  <2>2. CASE j # i
    <3>1. importer[j].pc \notin HelperWorking
      BY <1>2, <2>2, SharedMeansIdle
    <3> QED BY <1>3, <2>2, <3>1 DEF Progressing, HelperWorking, BeforeMarker, Late
  <2> QED BY <2>1, <2>2
<1> QED BY <1>1, <1>8, <1>9, <1>10, <1>11, <1>12

--------------------------------------------------------------------------
(* Workers that start, publishers, people.                                 *)

\* A step of the background that leaves the imports and locks alone.
LEMMA OthersKeep ==
  ASSUME CutoverInv, CutoverTyped', Background, Published', UNCHANGED <<queueLocks, legacyCommand>>,
         \A i \in Importers : SameImport(importer[i], importer'[i])
  PROVE  CutoverInv'
<1> USE DEF CutoverInv
<1>1. Locked'
  BY DEF Locked, Background, SameImport
<1>2. \A i \in Importers : Progressing(importer[i])'
  BY ProgressKept
<1> QED BY <1>1, <1>2, BackgroundKeeps

LEMMA TakenOverRow ==
  ASSUME CutoverTyped, NEW s \in Sidecars
  PROVE  LET r == archiveRow[s]  q == TakenOver(s) IN
         /\ q.exists = r.exists /\ q.native = r.native /\ (r.pending => q.pending)
         /\ q.job = IF Refenced(s).pending /\ r.job = "running" THEN "failed" ELSE r.job
         /\ ~(Refenced(s).pending /\ r.job = "running") => q.token = r.token
<1>1. archiveRow[s] \in SidecarRows
  BY DEF CutoverTyped
<1>2. /\ Refenced(s) \in SidecarRows /\ Refenced(s).exists = archiveRow[s].exists
      /\ Refenced(s).native = archiveRow[s].native /\ Refenced(s).job = archiveRow[s].job
      /\ Refenced(s).token = archiveRow[s].token
      /\ archiveRow[s].pending => Refenced(s).pending
  BY <1>1 DEF Refenced, SidecarRows
<1> QED BY <1>2 DEF TakenOver, SidecarRows

LEMMA StarterKeeps ==
  ASSUME CutoverInv, WorkerStarts
  PROVE  CutoverInv'
<1> USE DEF CutoverInv
<1>1. CutoverTyped' /\ UNCHANGED <<queueLocks, legacyCommand, cutoverMarker, library, publishing>>
  BY StarterTyped DEF WorkerStarts, StarterLooks, StarterLocks, StarterRereads, StarterFences, StarterDies
<1>2. NotStarting.pc = "idle"
  BY DEF NotStarting
<1>3. CASE UNCHANGED <<importer, catalogVars>>
  <2>1. Background
    BY <1>1, <1>3, UntouchedRows DEF Background, catalogVars
  <2>2. starter'.pc \in {"reread", "fence"} => \A s \in starter'.authorized : publishing[s] # "mutating"
    <3>1. \A pc \in {"reread", "fence"} : LET q == [starter EXCEPT !.pc = pc] IN
            q.pc = pc /\ q.authorized = starter.authorized
      BY DEF CutoverTyped, Starters
    <3>2. CASE StarterLooks
      BY <3>2 DEF StarterLooks
    <3>3. CASE StarterLocks
      BY <1>2, <3>1, <3>3 DEF StarterLocks, Starts, GivesUpStart
    <3>4. CASE StarterRereads
      BY <1>2, <3>1, <3>4 DEF StarterRereads, Starts, GivesUpStart, Published
    <3>5. CASE StarterFences \/ StarterDies
      BY <1>2, <3>5 DEF StarterFences, StarterDies, GivesUpStart
    <3> QED BY <3>2, <3>3, <3>4, <3>5 DEF WorkerStarts
  <2>3. Published'
    BY <1>1, <1>3, <2>2 DEF Published, catalogVars
  <2> QED BY <1>1, <1>3, <2>1, <2>3, OthersKeep DEF SameImport
<1>4. CASE StarterFences /\ ~UNCHANGED <<importer, catalogVars>>
  <2>1. /\ \A s \in Sidecars : archiveRow'[s] = TakenOver(s) /\ ~Unforeseen(s)
        /\ stagedSidecars \subseteq stagedSidecars' /\ starter.pc = "fence" /\ starter'.pc = "idle"
    BY <1>2, <1>4 DEF StarterFences, GivesUpStart
  <2>2. ASSUME NEW i \in Importers PROVE SameImport(importer[i], importer'[i])
    <3>1. importer[i] \in Imports
      BY DEF CutoverTyped
    <3>2. \E cand : importer'[i] = [importer[i] EXCEPT !.candidates = cand]
      BY <1>4 DEF StarterFences
    <3> QED BY <3>1, <3>2 DEF SameImport, Imports
  <2>3. ASSUME NEW s \in Sidecars PROVE RowKept(archiveRow[s], archiveRow'[s])
    BY <2>1, TakenOverRow DEF RowKept, OpenJobs
  <2>4. Background
    BY <1>1, <2>1, <2>3 DEF Background
  <2>5. ASSUME NEW s \in Sidecars, publishing[s] = "mutating"
        PROVE  archiveRow'[s].job = "running" /\ archiveRow'[s].token
    <3>1. s \notin starter.authorized /\ archiveRow[s].job = "running" /\ archiveRow[s].token
      BY <2>1, <2>5 DEF Published
    <3>2. ~Refenced(s).pending
      BY <2>1, <3>1 DEF Unforeseen
    <3> QED BY <2>1, <3>1, <3>2, TakenOverRow
  <2>6. Published'
    BY <1>1, <2>1, <2>5, TakenOverRow DEF Published
  <2> QED BY <1>1, <2>2, <2>4, <2>6, OthersKeep
<1> QED BY <1>3, <1>4 DEF WorkerStarts, StarterLooks, StarterLocks, StarterRereads, StarterDies

\* What the workers and people do to one row, or to no row.
LEMMA SidecarKeeps ==
  ASSUME CutoverInv, CutoverTyped', NEW s \in Sidecars,
         UNCHANGED <<cutoverMarker, queueLocks, legacyCommand, importer, stagedSidecars, starter>>,
         \A t \in Sidecars : library'[t].output = library[t].output,
         \A t \in Sidecars \ {s} : archiveRow'[t] = archiveRow[t] /\ publishing'[t] = publishing[t],
         RowKept(archiveRow[s], archiveRow'[s]),
         archiveRow'[s].job # "none" => archiveRow'[s].exists,
         publishing'[s] # "none" => publishing[s] # "none" \/ archiveRow[s].job = "queued",
         publishing'[s] = "mutating" => archiveRow'[s].job = "running" /\ archiveRow'[s].token,
         publishing'[s] = "mutating" => publishing[s] = "mutating" \/ ~StarterLocked(s)
  PROVE  CutoverInv'
<1> USE DEF CutoverInv
<1>1. Background
  BY UntouchedRows DEF Background
<1>2. Published'
  <2>1. publishing'[s] # "none" => archiveRow'[s].exists
    BY DEF Published, RowKept
  <2>2. starter.pc \in {"reread", "fence"} => \A t \in starter.authorized : publishing'[t] # "mutating"
    <3>1. starter.authorized \subseteq Sidecars
      BY DEF CutoverTyped, Starters
    <3> QED BY <3>1 DEF Published, StarterLocked
  <2> QED BY <2>1, <2>2 DEF Published
<1> QED BY <1>1, <1>2, OthersKeep DEF SameImport

LEMMA WorkerKeeps ==
  ASSUME CutoverInv, NEW s \in Sidecars,
         \/ ClaimImported(s) \/ BeginMutation(s) \/ EndMutation(s) \/ EncodingStops(s) \/ PublisherDies(s)
         \/ EncodeLeaseEnds(s) \/ RecoverImported(s) \/ ArchivePublished(s) \/ ReviewedAgain(s) \/ Meddle(s)
  PROVE  CutoverInv'
<1> USE DEF CutoverInv
<1>1. CutoverTyped'
  BY WorkerTyped
<1>2. UNCHANGED <<cutoverMarker, queueLocks, legacyCommand, importer, stagedSidecars, starter>>
  BY DEF ClaimImported, BeginMutation, EndMutation, EncodingStops, PublisherDies, EncodeLeaseEnds,
         RecoverImported, ArchivePublished, ReviewedAgain, Meddle, catalogVars
<1>3. \A t \in Sidecars : library'[t].output = library[t].output
  <2>1. CASE Meddle(s)
    <3>1. PICK f : \/ library' = [library EXCEPT ![s].image = f] \/ library' = [library EXCEPT ![s].state = f]
      BY <2>1 DEF Meddle
    <3>2. library \in [Sidecars -> SidecarFiles]
      BY DEF CutoverTyped
    <3>3. /\ [library[s] EXCEPT !.image = f].output = library[s].output
          /\ [library[s] EXCEPT !.state = f].output = library[s].output
      BY <3>2 DEF SidecarFiles
    <3>4. library'[s].output = library[s].output
      BY <3>1, <3>2, <3>3
    <3>5. \A t \in Sidecars \ {s} : library'[t] = library[t]
      BY <3>1, <3>2
    <3> QED BY <3>4, <3>5
  <2> QED BY <2>1 DEF ClaimImported, BeginMutation, EndMutation, EncodingStops, PublisherDies, EncodeLeaseEnds,
         RecoverImported, ArchivePublished, ReviewedAgain
<1>4. archiveRow \in [Sidecars -> SidecarRows] /\ archiveRow[s] \in SidecarRows
      /\ publishing \in [Sidecars -> {"none", "encoding", "mutating"}]
  BY DEF CutoverTyped
<1>5. \A t \in Sidecars \ {s} : archiveRow'[t] = archiveRow[t] /\ publishing'[t] = publishing[t]
  BY <1>4 DEF ClaimImported, BeginMutation, EndMutation, EncodingStops, PublisherDies, EncodeLeaseEnds,
         RecoverImported, ArchivePublished, ReviewedAgain, Meddle, catalogVars
<1>6. archiveRow[s].job # "none" => archiveRow[s].exists
  BY DEF Published
<1> DEFINE r == archiveRow[s]
           q == archiveRow'[s]
           Fine == /\ RowKept(r, q)
                   /\ q.job # "none" => q.exists
                   /\ publishing'[s] # "none" => publishing[s] # "none" \/ r.job = "queued"
                   /\ publishing'[s] = "mutating" => q.job = "running" /\ q.token
                   /\ publishing'[s] = "mutating" => publishing[s] = "mutating" \/ ~StarterLocked(s)
<1>7. ASSUME ClaimImported(s) PROVE Fine
  <2>1. /\ q = [r EXCEPT !.job = "running", !.expired = FALSE]
        /\ publishing'[s] = "encoding" /\ r.job = "queued"
    BY <1>4, <1>7 DEF ClaimImported
  <2>2. q.exists = r.exists /\ q.native = r.native /\ q.pending = r.pending /\ q.job = "running"
    BY <1>4, <2>1 DEF SidecarRows
  <2> QED BY <1>6, <2>1, <2>2 DEF RowKept, OpenJobs
<1>8. ASSUME BeginMutation(s) PROVE Fine
  <2>1. /\ q = [r EXCEPT !.token = TRUE] /\ r.job = "running"
        /\ publishing[s] = "encoding" /\ publishing'[s] = "mutating" /\ ~StarterLocked(s)
    BY <1>4, <1>8 DEF BeginMutation
  <2>2. q.exists = r.exists /\ q.native = r.native /\ q.pending = r.pending /\ q.job = r.job /\ q.token
    BY <1>4, <2>1 DEF SidecarRows
  <2> QED BY <1>6, <2>1, <2>2 DEF RowKept, OpenJobs
<1>9. ASSUME EndMutation(s) PROVE Fine
  <2>1. /\ q = [r EXCEPT !.job = IF @ = "running" THEN "completed" ELSE @, !.token = FALSE]
        /\ publishing'[s] = "none"
    BY <1>4, <1>9 DEF EndMutation
  <2>2. q.exists = r.exists /\ q.native = r.native /\ q.pending = r.pending
        /\ q.job = IF r.job = "running" THEN "completed" ELSE r.job
    BY <1>4, <2>1 DEF SidecarRows
  <2> QED BY <1>6, <2>1, <2>2 DEF RowKept, OpenJobs
<1>10. ASSUME EncodingStops(s) \/ PublisherDies(s) PROVE Fine
  BY <1>4, <1>6, <1>10, UntouchedRows DEF EncodingStops, PublisherDies, catalogVars
<1>11. ASSUME EncodeLeaseEnds(s) PROVE Fine
  <2>1. q = [r EXCEPT !.expired = TRUE] /\ publishing' = publishing
    BY <1>4, <1>11 DEF EncodeLeaseEnds
  <2>2. q.exists = r.exists /\ q.native = r.native /\ q.pending = r.pending /\ q.job = r.job /\ q.token = r.token
    BY <1>4, <2>1 DEF SidecarRows
  <2> QED BY <1>6, <2>1, <2>2 DEF RowKept, Published
<1>12. ASSUME RecoverImported(s) PROVE Fine
  <2>1. PICK st \in {"queued", "completed"} : q = [r EXCEPT !.job = st, !.token = FALSE, !.expired = FALSE]
    BY <1>4, <1>12 DEF RecoverImported
  <2>2. q.exists = r.exists /\ q.native = r.native /\ q.pending = r.pending /\ q.job = st /\ r.job = "running"
        /\ publishing'[s] = "none"
    BY <1>4, <1>12, <2>1 DEF RecoverImported, SidecarRows
  <2> QED BY <1>6, <2>1, <2>2 DEF RowKept, OpenJobs
<1>13. ASSUME ArchivePublished(s) PROVE Fine
  <2>1. q = [NoRow EXCEPT !.exists = TRUE, !.native = TRUE, !.pending = stagedSidecars # {}]
        /\ publishing' = publishing /\ ~r.exists
    BY <1>4, <1>13 DEF ArchivePublished
  <2>2. q.exists /\ q.native /\ q.job = "none" /\ (stagedSidecars # {} => q.pending)
    BY <2>1 DEF NoRow
  <2>3. publishing[s] = "none" /\ r.job = "none"
    BY <2>1 DEF Published
  <2> QED BY <2>1, <2>2, <2>3 DEF RowKept, OpenJobs
<1>14. ASSUME ReviewedAgain(s) PROVE Fine
  <2>1. q = [r EXCEPT !.reviewed = TRUE, !.job = IF @ \in {"none", "failed"} THEN "queued" ELSE @]
        /\ publishing' = publishing /\ r.exists /\ ~r.pending
    BY <1>4, <1>14 DEF ReviewedAgain
  <2>2. q.exists = r.exists /\ q.native = r.native /\ q.pending = r.pending /\ q.token = r.token
        /\ q.job = IF r.job \in {"none", "failed"} THEN "queued" ELSE r.job
    BY <1>4, <2>1 DEF SidecarRows
  <2> QED BY <1>6, <2>1, <2>2 DEF RowKept, OpenJobs, Published
<1>15. ASSUME Meddle(s) PROVE Fine
  BY <1>6, <1>15, UntouchedRows DEF Meddle, Published, catalogVars
<1>16. Fine
  BY <1>7, <1>8, <1>9, <1>10, <1>11, <1>12, <1>13, <1>14, <1>15
<1> QED BY <1>1, <1>2, <1>3, <1>5, <1>16, SidecarKeeps

--------------------------------------------------------------------------
(* The invariant, and what it says.                                        *)

LEMMA InitKeeps == CutoverInit => CutoverInv
<1> SUFFICES ASSUME CutoverInit PROVE CutoverInv
  OBVIOUS
<1> USE DEF CutoverInit
<1>1. PICK native \in SUBSET Sidecars :
        archiveRow = [s \in Sidecars |-> IF s \notin native THEN NoRow ELSE
          [NoRow EXCEPT !.exists = TRUE, !.native = TRUE, !.reviewed = TRUE, !.job = "queued"]]
  OBVIOUS
<1>2. ASSUME NEW s \in Sidecars
      PROVE  /\ archiveRow[s] \in SidecarRows
             /\ archiveRow[s].exists = archiveRow[s].native
             /\ archiveRow[s].job # "none" => archiveRow[s].exists
  BY <1>1 DEF NoRow, SidecarRows, OpenJobs
<1>3. Captured = {}
  BY DEF Captured, Unseen
<1>4. \A i \in Importers : importer[i] = NotImporting
  OBVIOUS
<1>5. CutoverTyped
  <2>1. archiveRow \in [Sidecars -> SidecarRows]
    BY <1>1, <1>2
  <2>2. importer \in [Importers -> Imports] /\ starter \in Starters
    BY RestingTypes
  <2>3. cutoverMarker \in [status : {"none", "retired", "repair"}, captured : Batches]
    BY UnseenIsSeen DEF Batches
  <2>4. library \in [Sidecars -> SidecarFiles]
    <3>1. \A st \in {"absent", "good", "flawed"} : [state |-> st, image |-> 0, output |-> FALSE] \in SidecarFiles
      BY DEF SidecarFiles
    <3> DEFINE S == {[state |-> st, image |-> 0, output |-> FALSE] : st \in {"absent", "good", "flawed"}}
    <3>2. S \subseteq SidecarFiles
      BY <3>1
    <3>3. library \in [Sidecars -> S]
      OBVIOUS
    <3> HIDE DEF S
    <3> QED BY <3>2, <3>3
  <2> QED BY <2>1, <2>2, <2>3, <2>4 DEF CutoverTyped
<1>6. Locked
  BY <1>4, RestingKnowsNothing DEF Locked, HelperWorking
<1>7. Published
  BY <1>2 DEF Published, NotStarting
<1>8. Authority
  BY <1>2, <1>3 DEF Authority, Imported
<1>9. FencedUntilWhole
  BY <1>3 DEF FencedUntilWhole
<1>10. \A i \in Importers : Progressing(importer[i])
  BY <1>4, RestingKnowsNothing DEF Progressing, HelperWorking, BeforeMarker, Late
<1> QED BY <1>5, <1>6, <1>7, <1>8, <1>9, <1>10 DEF CutoverInv

LEMMA StutterKeeps == CutoverInv /\ UNCHANGED cutoverVars => CutoverInv'
<1> SUFFICES ASSUME CutoverInv, UNCHANGED cutoverVars PROVE CutoverInv'
  OBVIOUS
<1> USE DEF cutoverVars
<1>1. CutoverTyped'
  BY DEF CutoverInv, CutoverTyped
<1>2. Background
  BY UntouchedRows DEF Background
<1>3. Published'
  BY DEF CutoverInv, Published
<1> QED BY <1>1, <1>2, <1>3, OthersKeep DEF SameImport

LEMMA NextKeeps == CutoverInv /\ CutoverNext => CutoverInv'
<1> SUFFICES ASSUME CutoverInv, CutoverNext PROVE CutoverInv'
  OBVIOUS
<1>1. ASSUME NEW c \in LegacyCommands,
             \/ CommandArrives(c) \/ CommandGoesOn(c) \/ CommandArchives(c)
             \/ CommandPublishes(c) \/ CommandEnds(c)
      PROVE  CutoverInv'
  BY <1>1, CommandKeeps
<1>2. ASSUME NEW i \in Importers, ImportBegins(i) \/ HelperTakesIntent(i) \/ ImportWork(i) \/ ImportDies(i)
      PROVE  CutoverInv'
  BY <1>2, LockStepKeeps, StageKeeps, MarkerPublishKeeps, ExamineKeeps, PersistKeeps, PersistFailsKeeps, WithdrawKeeps,
     GivesUpKeeps, LiftFencesKeeps DEF ImportWork
<1>3. ASSUME NEW s \in Sidecars,
             \/ ClaimImported(s) \/ BeginMutation(s) \/ EndMutation(s) \/ EncodingStops(s) \/ PublisherDies(s)
             \/ EncodeLeaseEnds(s) \/ RecoverImported(s) \/ ArchivePublished(s) \/ ReviewedAgain(s) \/ Meddle(s)
      PROVE  CutoverInv'
  BY <1>3, WorkerKeeps
<1> QED BY <1>1, <1>2, <1>3, StarterKeeps, CutoverNames DEF CutoverNext

LEMMA CutoverInvariant == CutoverSpec => []CutoverInv
BY InitKeeps, NextKeeps, StutterKeeps, PTL DEF CutoverSpec

\* For any library, any number of imports, commands, restarts and encoders:
\* legacy commands and workers never work on one library at a time, and no
\* worker encodes what the legacy queue had put out (the gate under
\* legacy_queue_command_lease and hold_cutover, completedAt of captured jobs).
THEOREM OneAuthority == CutoverSpec => []OneQueueAuthority
<1>1. CutoverInv => OneQueueAuthority
  BY DEF CutoverInv, Locked, Published, Authority, Imported, OneQueueAuthority
<1> QED BY <1>1, CutoverInvariant, PTL

\* An archive of the library is open again only when every captured one is
\* in the catalog, whatever imports died before (importLibrary's end,
\* stageCatalogReviewBoundary).
THEOREM WholeWhenOpen == CutoverSpec => []UnfencedIsWhole
<1>1. CutoverInv => UnfencedIsWhole
  BY DEF CutoverInv, FencedUntilWhole, Whole, UnfencedIsWhole
<1> QED BY <1>1, CutoverInvariant, PTL

\* No import and no starting worker takes the row of an encoder that changes
\* its output (the publication token, the mutation locks).
THEOREM PublisherKeeps == CutoverSpec => []PublisherKeepsItsRow
<1>1. CutoverInv => PublisherKeepsItsRow
  BY DEF CutoverInv, Published, PublisherKeepsItsRow
<1> QED BY <1>1, CutoverInvariant, PTL

--------------------------------------------------------------------------
(* What the rows and the locks hold: a row with a publication token is a   *)
(* running job's.                                                          *)

TokensRun == \A s \in Sidecars : archiveRow[s].token => archiveRow[s].job = "running"

\* The boundary is refused while a mutation is under way, so the running
\* jobs that it fails have no token.
LEMMA FenceLeavesTokens ==
  ASSUME CutoverTyped, TokensRun, NEW set \in SUBSET Sidecars, ~MutationActive(set), StageRows(set)
  PROVE  TokensRun'
<1> SUFFICES ASSUME NEW s \in Sidecars, archiveRow'[s].token PROVE archiveRow'[s].job = "running"
  BY DEF TokensRun
<1>1. archiveRow[s] \in SidecarRows
  BY DEF CutoverTyped
<1>2. archiveRow'[s] = Fence(set, archiveRow)[s]
  BY DEF StageRows
<1>3. CASE s \notin set \/ ~archiveRow[s].exists
  <2>1. archiveRow'[s] = archiveRow[s]
    BY <1>2, <1>3 DEF Fence
  <2> QED BY <2>1 DEF TokensRun
<1>4. CASE s \in set /\ archiveRow[s].exists
  <2>1. archiveRow'[s] = [archiveRow[s] EXCEPT !.reviewed = FALSE, !.pending = TRUE,
                                               !.job = IF @ = "running" THEN "failed" ELSE @]
    BY <1>2, <1>4 DEF Fence
  <2>2. archiveRow'[s].token = archiveRow[s].token
    BY <1>1, <2>1 DEF SidecarRows
  <2> QED BY <1>4, <2>2 DEF TokensRun, MutationActive
<1> QED BY <1>3, <1>4

LEMMA ImportTokens ==
  ASSUME CutoverInv, TokensRun, NEW i \in Importers, ImportWork(i)
  PROVE  TokensRun'
<1> USE DEF CutoverInv
<1>0. archiveRow \in [Sidecars -> SidecarRows] /\ importer[i] \in Imports /\ Captured \subseteq Sidecars
      /\ Parsed(importer[i].batch) \subseteq Sidecars
  BY DEF CutoverTyped, Captured, Parsed
<1>1. CASE UNCHANGED archiveRow
  BY <1>1 DEF TokensRun
<1>2. CASE StageFirst(i) \/ StageRetired(i) \/ StageRepair(i) \/ Restage(i)
  BY <1>0, <1>1, <1>2, FenceLeavesTokens DEF StageFirst, StageRetired, StageRepair, Restage, catalogVars
<1>3. CASE Persist(i)
  <2>1. PICK s \in Foremost(importer[i].todo), conflict \in BOOLEAN : PersistSidecar(i, s, conflict)
    BY <1>3 DEF Persist
  <2>2. s \in Sidecars /\ importer[i].batch[s] \in Seen
    BY <1>0, <2>1 DEF Foremost, Imports, Batches
  <2> DEFINE row == RowImported(s, importer[i].batch[s], conflict)
             human == row.job # "none" /\ NeedsHuman(importer[i], s, conflict)
  <2>3. row \in SidecarRows /\ (archiveRow[s].job # "none" => row.job = archiveRow[s].job /\ row.token = archiveRow[s].token)
        /\ (archiveRow[s].job = "none" => ~row.token)
    <3>1. row \in SidecarRows /\ (archiveRow[s].job # "none" => row.job = archiveRow[s].job /\ row.token = archiveRow[s].token)
      BY <2>2, ImportedRow
    <3>2. archiveRow[s].job = "none" => ~archiveRow[s].token
      BY <2>2 DEF TokensRun
    <3>3. ~archiveRow[s].token => ~row.token
      BY <1>0, <2>2 DEF RowImported, NoRow, SidecarRows
    <3> QED BY <3>1, <3>2, <3>3
  <2>4. archiveRow' = [archiveRow EXCEPT ![s] = [row EXCEPT !.reviewed = @ /\ ~human]]
    BY <2>1 DEF PersistSidecar
  <2> HIDE DEF row, human
  <2>5. archiveRow'[s].job = row.job /\ archiveRow'[s].token = row.token
    BY <1>0, <2>2, <2>3, <2>4 DEF SidecarRows
  <2>6. \A t \in Sidecars \ {s} : archiveRow'[t] = archiveRow[t]
    BY <1>0, <2>4
  <2> QED BY <2>2, <2>3, <2>5, <2>6 DEF TokensRun
<1>4. CASE PersistFails(i) \/ GivesUp(i) \/ LiftFences(i)
  <2>1. ASSUME NEW s \in Sidecars
        PROVE  archiveRow'[s].job = archiveRow[s].job /\ archiveRow'[s].token = archiveRow[s].token
    <3>1. archiveRow[s] \in SidecarRows
      BY <1>0
    <3>2. CASE PersistFails(i)
      BY <1>0, <3>1, <3>2 DEF PersistFails, SidecarRows
    <3>3. CASE GivesUp(i)
      BY <3>1, <3>3 DEF GivesUp, SidecarRows
    <3>4. CASE LiftFences(i)
      <4>1. PICK re : archiveRow'[s] = [archiveRow[s] EXCEPT !.pending = FALSE, !.reviewed = re]
        BY <3>4, Zenon DEF LiftFences
      <4> QED BY <3>1, <4>1 DEF SidecarRows
    <3> QED BY <1>4, <3>2, <3>3, <3>4
  <2> QED BY <2>1 DEF TokensRun
<1>5. ASSUME HelperTakesGate(i) \/ Discover(i) \/ Publish(i) \/ Examine(i) \/ Withdraw(i) \/ ImportEnds(i)
             \/ OrphanHelperEnds(i)
      PROVE  UNCHANGED archiveRow
  BY <1>5, Zenon DEF HelperTakesGate, Discover, Publish, Examine, Withdraw, ImportEnds, OrphanHelperEnds, catalogVars
<1> QED BY <1>1, <1>2, <1>3, <1>4, <1>5 DEF ImportWork

\* Who takes a job from its worker takes the token with it.
LEMMA WorkerTokens ==
  ASSUME CutoverInv, TokensRun, NEW s \in Sidecars,
         \/ ClaimImported(s) \/ BeginMutation(s) \/ EndMutation(s) \/ EncodingStops(s) \/ PublisherDies(s)
         \/ EncodeLeaseEnds(s) \/ RecoverImported(s) \/ ArchivePublished(s) \/ ReviewedAgain(s) \/ Meddle(s)
  PROVE  TokensRun'
<1> USE DEF CutoverInv
<1>0. archiveRow \in [Sidecars -> SidecarRows] /\ archiveRow[s] \in SidecarRows
  BY DEF CutoverTyped
<1>r. RecoverImported(s) =>
        \E st : archiveRow' = [archiveRow EXCEPT ![s].job = st, ![s].token = FALSE, ![s].expired = FALSE]
  BY Zenon DEF RecoverImported
<1>1. \A t \in Sidecars \ {s} : archiveRow'[t] = archiveRow[t]
  <2>1. CASE ClaimImported(s) \/ BeginMutation(s) \/ EndMutation(s) \/ EncodeLeaseEnds(s)
    BY <1>0, <2>1 DEF ClaimImported, BeginMutation, EndMutation, EncodeLeaseEnds
  <2>2. CASE EncodingStops(s) \/ PublisherDies(s) \/ Meddle(s)
    BY <2>2 DEF EncodingStops, PublisherDies, Meddle, catalogVars
  <2>3. CASE ArchivePublished(s) \/ ReviewedAgain(s)
    BY <1>0, <2>3 DEF ArchivePublished, ReviewedAgain
  <2>4. CASE RecoverImported(s)
    <3>1. PICK st : archiveRow' = [archiveRow EXCEPT ![s].job = st, ![s].token = FALSE, ![s].expired = FALSE]
      BY <1>r, <2>4, Zenon
    <3> QED BY <1>0, <3>1
  <2> QED BY <2>1, <2>2, <2>3, <2>4
<1> DEFINE r == archiveRow[s]
           q == archiveRow'[s]
<1>2. CASE ClaimImported(s) \/ EncodeLeaseEnds(s) \/ BeginMutation(s)
  <2>1. q.job = "running"
    BY <1>0, <1>2 DEF ClaimImported, EncodeLeaseEnds, BeginMutation, SidecarRows
  <2> QED BY <1>1, <2>1 DEF TokensRun
<1>3. CASE EndMutation(s) \/ RecoverImported(s) \/ ArchivePublished(s)
  <2>1. CASE EndMutation(s)
    <3>1. q = [r EXCEPT !.job = IF @ = "running" THEN "completed" ELSE @, !.token = FALSE]
      BY <1>0, <2>1 DEF EndMutation
    <3>2. ~q.token
      BY <1>0, <3>1 DEF SidecarRows
    <3> QED BY <1>1, <3>2 DEF TokensRun
  <2>3. CASE RecoverImported(s)
    <3>1. PICK st : archiveRow' = [archiveRow EXCEPT ![s].job = st, ![s].token = FALSE, ![s].expired = FALSE]
      BY <1>r, <2>3, Zenon
    <3>2. ~q.token
      BY <1>0, <3>1 DEF SidecarRows
    <3> QED BY <1>1, <3>2 DEF TokensRun
  <2>2. CASE ArchivePublished(s)
    <3>1. ~q.token
      BY <1>0, <2>2 DEF ArchivePublished, NoRow
    <3> QED BY <1>1, <3>1 DEF TokensRun
  <2> QED BY <1>3, <2>1, <2>2, <2>3
<1>4. CASE ReviewedAgain(s)
  <2>1. q.token = r.token /\ (r.job = "running" => q.job = "running")
    BY <1>0, <1>4 DEF ReviewedAgain, SidecarRows
  <2> QED BY <1>1, <2>1 DEF TokensRun
<1>5. CASE UNCHANGED archiveRow
  BY <1>5 DEF TokensRun
<1> QED BY <1>2, <1>3, <1>4, <1>5 DEF EncodingStops, PublisherDies, Meddle, catalogVars

LEMMA NextTokens == CutoverInv /\ TokensRun /\ CutoverNext => TokensRun'
<1> SUFFICES ASSUME CutoverInv, TokensRun, CutoverNext PROVE TokensRun'
  OBVIOUS
<1>1. CASE UNCHANGED archiveRow
  BY <1>1 DEF TokensRun
<1>2. ASSUME NEW c \in LegacyCommands,
             \/ CommandArrives(c) \/ CommandGoesOn(c) \/ CommandArchives(c)
             \/ CommandPublishes(c) \/ CommandEnds(c)
      PROVE  UNCHANGED archiveRow
  BY <1>2 DEF CommandArrives, CommandGoesOn, CommandEnters, CommandPasses, CommandChecks, CommandArchives,
              CommandPublishes, CommandEnds, catalogVars
<1>3. ASSUME NEW i \in Importers, ImportBegins(i) \/ HelperTakesIntent(i) \/ ImportDies(i)
      PROVE  UNCHANGED archiveRow
  BY <1>3 DEF ImportBegins, HelperTakesIntent, ImportDies, catalogVars
<1>4. CASE WorkerStarts
  <2>1. CASE \A s \in Sidecars : archiveRow'[s] = TakenOver(s)
    <3>1. ASSUME NEW s \in Sidecars, archiveRow'[s].token PROVE archiveRow'[s].job = "running"
      <4>1. archiveRow[s] \in SidecarRows
        BY DEF CutoverInv, CutoverTyped
      <4>2. Refenced(s) \in SidecarRows /\ Refenced(s).job = archiveRow[s].job /\ Refenced(s).token = archiveRow[s].token
        BY <4>1 DEF Refenced, SidecarRows
      <4>3. CASE Refenced(s).pending /\ archiveRow[s].job = "running"
        <5>1. archiveRow'[s] = [Refenced(s) EXCEPT !.job = "failed", !.token = FALSE]
          BY <2>1, <3>1, <4>3, Zenon DEF TakenOver
        <5> HIDE DEF Refenced
        <5> QED BY <3>1, <4>2, <5>1 DEF SidecarRows
      <4>4. CASE ~(Refenced(s).pending /\ archiveRow[s].job = "running")
        <5>1. archiveRow'[s] = Refenced(s)
          BY <2>1, <3>1, <4>4, Zenon DEF TakenOver
        <5> QED BY <3>1, <4>2, <5>1 DEF TokensRun
      <4> QED BY <4>3, <4>4
    <3> QED BY <3>1 DEF TokensRun
  <2> QED BY <1>1, <1>4, <2>1 DEF WorkerStarts, StarterLooks, StarterLocks, StarterRereads, StarterFences, StarterDies,
                                  catalogVars
<1> QED BY <1>1, <1>2, <1>3, <1>4, ImportTokens, WorkerTokens, CutoverNames DEF CutoverNext

\* What the rows, the marker and the two locks of a cutover hold, for any
\* library: whoever fails or completes a row takes its publication token
\* too (stageCatalogReviewBoundary refuses, the recovery settles it).
THEOREM CutoverTypeHolds == CutoverSpec => []CutoverTypeOK
<1>1. CutoverInit => TokensRun
  BY DEF CutoverInit, NoRow, TokensRun
<1>2. TokensRun /\ UNCHANGED cutoverVars => TokensRun'
  BY DEF TokensRun, cutoverVars
<1>3. CutoverInv /\ TokensRun => CutoverTypeOK
  <2> SUFFICES ASSUME CutoverInv, TokensRun PROVE CutoverTypeOK
    OBVIOUS
  <2>1. CutoverTyped
    BY DEF CutoverInv
  <2> QED BY <2>1 DEF TokensRun, CutoverTyped, SidecarFiles, SidecarRows, OpenJobs, Starters, CutoverTypeOK
<1> QED BY <1>1, <1>2, <1>3, NextTokens, CutoverInvariant, PTL DEF CutoverSpec
==============================================================================
