SPECIFICATION RecoverySpec
CONSTANTS
  Plain = {p1}
  Backups = {b1}
  Collectors = {c1}
  Missing = Missing
  OpenError = OpenError
  Checks = {"quick", "all", "repair"}
  Retention = 1
  MaxChunks = 1
  MaxClock = 1
  MaxSession = 3
INVARIANTS
  RecoveryTypeOK
  FindsNoneMissing
PROPERTIES
  RestoreFindsChunks
  ReadableStays
