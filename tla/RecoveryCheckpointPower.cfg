CONSTANTS
  Sectors = {s1, s2}
  Units = 2
  MaxRevision = 3
  Pids = {p1}
  NoSector = NoSector
  NoManifest = NoManifest
  NoJournal = NoJournal
  TornJournal = TornJournal
  MaxFaults = 2
  MaxPowerLoss = 2
SPECIFICATION Spec
INVARIANTS
  ReadersSeeCommitted
  UndoIsDurable
  OwnerNeverStuck
CHECK_DEADLOCK FALSE
