SPECIFICATION ServicesFairSpec
CONSTANTS
  EncodeIds = {1, 2}
  EncodeWorkers = {w1}
  MaxEncodeClaims = 2
  MaxEncodeFaults = 1
  MaxForeign = 0
  MaxEncodeRequests = 1
  NoticeEvents = {1}
  Couriers = {w1, w2}
  MaxAttempts = 2
  MaxGeneration = 2
  ArchiveLanes = {w1, w2}
  ArchiveAsks = {1}
  SourceDiscs = {1}
  MaxCopyJobs = 2
  MaxLaneStops = 1
  Pollers = {w1, w2}
  DriveDiscs = {d1}
  MaxGenerations = 2
  MaxInspectionFailures = 2
  StableObservations = 2
  MaxPollStops = 1
  MaxManualRetries = 0
  ImageUsers = {u1, u2}
  MaxImageStops = 1
  Reviewers = {w1}
  MaxSelections = 1
  MaxReviewRequests = 0
  MaxSelectionJobs = 0
  Deployers = {w1}
  ByHand = hand
  NoHolder = nobody
  MaxCommit = 1
  MaxRuns = 0
  MaxLapses = 0
  Sidecars = {1}
  Importers = {w1}
  LegacyCommands = {c1, c2}
  EncodedNow = {}
  NoOne = nobody
  MaxImports = 2
  MaxMeddling = 0
  MaxCutoverFaults = 1
PROPERTIES EncodeSettles DeliverySettles BusyRequestSettles InsertionExamined TicketsAreServed CutoverDrains
CHECK_DEADLOCK FALSE
