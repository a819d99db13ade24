SPECIFICATION Spec
CONSTANTS
  Plain = {p1}
  Backups = {b1, b2}
  Collectors = {c1, c2}
  Missing = Missing
  OpenError = OpenError
  Retention = 1
  MaxChunks = 1
  MaxClock = 1
  MaxSession = 2
SYMMETRY Symmetric
INVARIANTS
  TypeOK
  CleanSnapshotsComplete
  SweepInvariant
PROPERTIES
  RetentionRespected
  ImplementsButForNames
