SPECIFICATION RecoverySpec
CONSTANTS
  Plain = {p1}
  Backups = {b1}
  Collectors = {}
  Missing = Missing
  OpenError = OpenError
  Checks = {}
  Retention = 1
  MaxChunks = 1
  MaxClock = 0
  MaxSession = 3
PROPERTY RestoreReads
