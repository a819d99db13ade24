SPECIFICATION Spec
CONSTANTS
  Plain = {p1}
  Backups = {b1}
  Collectors = {c1}
  Missing = Missing
  OpenError = OpenError
  Retention = 1
  MaxChunks = 1
  MaxClock = 0
  MaxSession = 1
PROPERTY DeletesOnlyUnreferenced
