SPECIFICATION FairSpec
CONSTANTS
  Plain = {p1}
  Backups = {b1}
  Collectors = {c1}
  Missing = Missing
  OpenError = OpenError
  Retention = 1
  MaxChunks = 1
  MaxClock = 1
  MaxSession = 2
PROPERTIES
  RunsEnd
  OrphansReclaimed
