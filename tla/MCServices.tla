------------------------------ MODULE MCServices ------------------------------
(***************************************************************************)
(* The services around a recovery, each with its own rows and files, in    *)
(* one model for TLC.  They share no variable, so every behaviour of two   *)
(* of them together is a pair of behaviours of each alone: the initial     *)
(* state picks the service that runs, and the others rest.                 *)
(***************************************************************************)
EXTENDS EncodeJobs, Notifications, ArchiveIntake, DiscInspections, ImageOwnership, CatalogReview,
        Deployment, LegacyCutover, TLC

VARIABLE subject   \* the service this behaviour is about

Services == {"encode", "notify", "intake", "inspect", "own", "review", "deploy", "cutover"}
Chosen(service) == subject = service

\* The library of an import: one sidecar that can be imported, perhaps with
\* damaged records and perhaps already catalogued, and one still to come.
CutoverStart ==
  /\ library[1].state = (IF Chosen("cutover") THEN "flawed" ELSE "good")
  /\ \A s \in Sidecars \ {1} : library[s].state = "absent" /\ ~archiveRow[s].exists
  /\ Chosen("cutover") \/ ~archiveRow[1].exists

\* A resting service has one initial state only.
ServicesInit ==
  /\ subject \in Services
  /\ EncodeInit /\ (Chosen("encode") \/ /\ outputFile.final = NoFile
                                        /\ encodeJob[CHOOSE j \in EncodeIds : TRUE].res)
  /\ NotifyInit /\ (Chosen("notify") \/ \A e \in NoticeEvents : ~notice[e].event)
  /\ IntakeInit /\ InspectionInit /\ OwnershipInit
  /\ ReviewInit /\ DeployInit
  /\ CutoverInit /\ CutoverStart
  /\ Chosen("review") \/ (review["source"].outcome = "needs_review" /\ ~selections[1].unsafe)

ServicesNext ==
  /\ UNCHANGED subject
  /\ \/ Chosen("encode") /\ EncodeNext
        /\ UNCHANGED <<noticeVars, intakeVars, inspectionVars, ownershipVars, reviewVars, deployVars, cutoverVars>>
     \/ Chosen("notify") /\ NotifyNext
        /\ UNCHANGED <<encodeVars, intakeVars, inspectionVars, ownershipVars, reviewVars, deployVars, cutoverVars>>
     \/ Chosen("intake") /\ IntakeNext
        /\ UNCHANGED <<encodeVars, noticeVars, inspectionVars, ownershipVars, reviewVars, deployVars, cutoverVars>>
     \/ Chosen("inspect") /\ InspectionNext
        /\ UNCHANGED <<encodeVars, noticeVars, intakeVars, ownershipVars, reviewVars, deployVars, cutoverVars>>
     \/ Chosen("own") /\ OwnershipNext
        /\ UNCHANGED <<encodeVars, noticeVars, intakeVars, inspectionVars, reviewVars, deployVars, cutoverVars>>
     \/ Chosen("review") /\ ReviewNext
        /\ UNCHANGED <<encodeVars, noticeVars, intakeVars, inspectionVars, ownershipVars, deployVars, cutoverVars>>
     \/ Chosen("deploy") /\ DeployNext
        /\ UNCHANGED <<encodeVars, noticeVars, intakeVars, inspectionVars, ownershipVars, reviewVars, cutoverVars>>
     \/ Chosen("cutover") /\ CutoverNext
        /\ UNCHANGED <<encodeVars, noticeVars, intakeVars, inspectionVars, ownershipVars, reviewVars, deployVars>>

ServicesSpec ==
  ServicesInit /\ [][ServicesNext]_<<subject, encodeVars, noticeVars, intakeVars,
                                     inspectionVars, ownershipVars, reviewVars, deployVars, cutoverVars>>
\* Fairness: processes go on and poll again, clocks run, abandoned leases end.
\* Nothing an operator does and no fault is fair.
ServicesFairSpec ==
  /\ ServicesSpec
  \* The event loop, the passes of reconciliation, the exit of a signalled encoder.
  /\ \A w \in EncodeWorkers : /\ WF_encodeVars(Chosen("encode") /\ EncodeWork(w))
                              /\ WF_encodeVars(Chosen("encode") /\ EncodeReconcile(w))
  /\ \A j \in EncodeIds : WF_encodeVars(Chosen("encode") /\ LeaseExpires(j) /\ UNCHANGED encodeUsed)
  /\ \A t \in Claims : WF_encodeVars(Chosen("encode") /\ EncoderCloses(t))
  \* Every pass of a notification worker begins with maintenance.
  /\ \A c \in Couriers : /\ WF_noticeVars(Chosen("notify") /\ Dispatch(c))
                         /\ WF_noticeVars(Chosen("notify") /\ Maintain(c))
  /\ \A e \in NoticeEvents : /\ WF_noticeVars(Chosen("notify") /\ NoticeLeaseEnds(e))
                             /\ WF_noticeVars(Chosen("notify") /\ LifetimeEnds(e))
  \* A claim nobody renews ends, and every poll recovers what has expired.
  /\ \A w \in ArchiveLanes : WF_intakeVars(Chosen("intake") /\ LaneStep(w))
  /\ WF_intakeVars(Chosen("intake") /\ OrphanReaderEnds)
  /\ WF_intakeVars(Chosen("intake") /\ UnattendedLeaseEnds)
  /\ WF_intakeVars(Chosen("intake") /\ RecoverExpiredJob)
  /\ WF_intakeVars(Chosen("intake") /\ FinalizeExpiredCancellation)
  \* The settling deadline is a timer.
  /\ \A w \in Pollers : /\ WF_inspectionVars(Chosen("inspect") /\ PollStep(w))
                        /\ WF_inspectionVars(Chosen("inspect") /\ SettlingTimesOut(w))
  /\ WF_inspectionVars(Chosen("inspect") /\ LeaseRunsOut /\ Abandoned)
  \* The last heartbeat of a writer is written.
  /\ \A p \in ImageUsers : /\ WF_ownershipVars(Chosen("own") /\ UserStep(p))
                           /\ WF_ownershipVars(Chosen("own") /\ HeartbeatLands(p))
  /\ WF_ownershipVars(Chosen("own") /\ ClaimLeaseEnds)
  \* Lock requests wait or are repeated, and a legacy command ends.
  /\ \A c \in LegacyCommands : /\ WF_cutoverVars(Chosen("cutover") /\ CommandGoesOn(c))
                               /\ WF_cutoverVars(Chosen("cutover") /\ CommandEnds(c))
  /\ \A i \in Importers : WF_cutoverVars(Chosen("cutover") /\ ImportWork(i))

\* Workers and encode jobs are interchangeable: no service orders them.
WorkerSymmetry == Permutations(EncodeWorkers) \cup Permutations(EncodeIds)

\* What a first copy of two requests still depends on: not their numbers and
\* those of the inodes, not the map of a closed request that no worker has in
\* hand, not the bytes of an inode that nobody keeps or works on, and not
\* which job a worker has lost.
IntakeView ==
  LET inside == {w \in ArchiveLanes : lane[w].pc \notin {"idle", "claimed", "failing"}}
      inHand == {w \in inside : lane[w].pc \notin {"entered", "prepared", "published"}}
      WorkersOf(r) == {w \in inside : lane[w].req = r}
      live == {r \in ArchiveAsks : ActiveAsk(r) \/ WorkersOf(r) # {}}
      used == ({shelf.iso, reader.img, catalogued.img} \cup {rescue[r].img : r \in live}
               \cup {lane[w].img : w \in inHand}) \ {0}
      Inode(i) == IF i \in used THEN Cardinality({k \in used : k <= i})
                  ELSE IF i = 0 THEN 0 ELSE MaxCopyJobs + 1
      Map(r) == IF r \in live THEN <<rescue[r].res, Inode(rescue[r].img)>> ELSE <<"closed", 0>>
  IN <<{<<ask[r].st, copyJob.req = r, Map(r), WorkersOf(r)>> : r \in ArchiveAsks},
       copyJob.fresh, jobsStarted, catalogued.size, Inode(catalogued.img), Inode(shelf.iso),
       Inode(shelf.failed), Inode(reader.img), reader.by, reader.img \in partials,
       {<<Inode(i), image[i]>> : i \in used}, workspaceLock, laneStops,
       [w \in ArchiveLanes |->
          <<lane[w].pc, lane[w].pc # "idle" /\ HoldsJob(w),
            IF w \in inHand THEN Inode(lane[w].img) ELSE 0>>]>>

\* The resting services have one state: the service that runs tells two
\* states apart (the VIEW of the safety run).
ServicesView ==
  <<subject, CASE Chosen("encode") -> encodeVars [] Chosen("notify") -> noticeVars
               [] Chosen("intake") -> IntakeView [] Chosen("inspect") -> inspectionVars
               [] Chosen("own") -> ownershipVars [] Chosen("review") -> reviewVars
               [] Chosen("deploy") -> deployVars [] Chosen("cutover") -> cutoverVars>>

(* What the rows, files and processes of the service that runs may hold.   *)
ServicesTypeOK ==
  /\ Chosen("encode") => EncodeTypeOK /\ EncodeRowsLegal
  /\ Chosen("notify") => NotifyTypeOK
  /\ Chosen("intake") => IntakeTypeOK
  /\ Chosen("inspect") => InspectionTypeOK
  /\ Chosen("own") => OwnershipTypeOK
  /\ Chosen("review") => ReviewTypeOK
  /\ Chosen("deploy") => DeployTypeOK
  /\ Chosen("cutover") => CutoverTypeOK
=============================================================================
