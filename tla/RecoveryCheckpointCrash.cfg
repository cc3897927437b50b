CONSTANTS
  Sectors = {s1, s2}
  Units = 2
  MaxRevision = 3
  Pids = {p1}
  NoSector = NoSector
  NoManifest = NoManifest
  NoJournal = NoJournal
  TornJournal = TornJournal
  MaxFaults = 2
  MaxPowerLoss = 0
SPECIFICATION FairSpec
INVARIANTS
  InterruptionsReconcile
  ProjectionTrailsPointer
PROPERTIES
  InterruptedRecoveryResumes
  ReadersSeeAnArchive
CHECK_DEADLOCK FALSE
