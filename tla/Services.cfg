SPECIFICATION ServicesSpec
CONSTANTS
  EncodeIds = {j1, j2}
  EncodeWorkers = {w1, w2}
  MaxEncodeClaims = 2
  MaxEncodeFaults = 1
  MaxForeign = 1
  MaxEncodeRequests = 2
  NoticeEvents = {1}
  Couriers = {w1, w2}
  MaxAttempts = 3
  MaxGeneration = 3
  ArchiveLanes = {w1, w2}
  ArchiveAsks = {1, 2}
  SourceDiscs = {1, 2}
  MaxCopyJobs = 3
  MaxLaneStops = 1
  Pollers = {w1, w2}
  DriveDiscs = {d1, d2}
  MaxGenerations = 2
  MaxInspectionFailures = 1
  StableObservations = 2
  MaxPollStops = 1
  MaxManualRetries = 1
  ImageUsers = {u1, u2, u3}
  MaxImageStops = 0
  Reviewers = {w1, w2}
  MaxSelections = 2
  MaxReviewRequests = 2
  MaxSelectionJobs = 1
  Deployers = {w1, w2}
  ByHand = hand
  NoHolder = nobody
  MaxCommit = 3
  MaxRuns = 3
  MaxLapses = 1
  Sidecars = {1, 2}
  Importers = {i1}
  LegacyCommands = {c1}
  EncodedNow = {1}
  NoOne = nobody
  MaxImports = 2
  MaxMeddling = 1
  MaxCutoverFaults = 1
SYMMETRY WorkerSymmetry
VIEW ServicesView
INVARIANTS
  ServicesTypeOK
  OutputsSurvive CompletedInPlace
  OneCourierPerDelivery RecipientsSnapshottedOnce
  CataloguedImageStands RequestsFollowJobs
  InspectionNamesItsDisc
  PreviewAdmittedAlone WriterIsNamed
  ReviewedAsSeen AppliedOnceAsShown
  RuntimeFitsSchema
  OneQueueAuthority UnfencedIsWhole PublisherKeepsItsRow
PROPERTIES CancelClosesEncoder ReportsHold
CHECK_DEADLOCK FALSE
