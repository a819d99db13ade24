SPECIFICATION Spec
CONSTANTS
  Plain = {p1}
  Backups = {b1, b2}
  Collectors = {}
  Missing = Missing
  OpenError = OpenError
  Retention = 1
  MaxChunks = 1
  MaxClock = 0
  MaxSession = 1
PROPERTY SnapshotsKept
