SPECIFICATION FairSyncSpec
CONSTANTS
  p1 = p1
  p2 = p2
  Plain = {p1, p2}
  ChunkLists <- MCChunkLists
  Announcements = {n1}
  MaxChunks = 3
  MaxConcurrentFetch = 2
  Missing = Missing
  OpenError = OpenError
  NoFetch = NoFetch
INVARIANTS
  SyncTypeOK
  PendingIsLive
  DataMatchesHash
PROPERTY AnnouncementsFinish
