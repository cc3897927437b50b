CONSTANTS
  Sectors = {s1, s2}
  Units = 2
  MaxRevision = 3
  Pids = {p1}
  NoSector = NoSector
  NoManifest = NoManifest
  NoJournal = NoJournal
  TornJournal = TornJournal
  MaxFaults = 1
  MaxPowerLoss = 0
SPECIFICATION Spec
INVARIANTS
  DatabaseFollowsDisk
CHECK_DEADLOCK FALSE
