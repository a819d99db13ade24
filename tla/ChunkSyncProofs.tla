--------------------------- MODULE ChunkSyncProofs ---------------------------
(***************************************************************************)
(* Safety of chunk synchronisation, for every set of announcements, chunk  *)
(* lists of any length and any number of fetch slots.                      *)
(***************************************************************************)
EXTENDS ChunkSync, SequenceTheorems, TLAPS

\* A fetch under way belongs to a chunk its announcement has passed; its channel is
\* filled only while it is registered, and with data that has its hash.
FetchFacts ==
    /\ \A n \in Announcements : pos[n] <= Len(announced[n]) + 1
    /\ \A f \in Fetches : fpc[f] # "none" => apc[f[1]] = "scan" /\ f[2] < pos[f[1]]
    /\ \A f \in Fetches : respChan[f] # Missing => Registered(f)
    /\ \A r \in arrived : Hash(r.data) = r.hash

\* The channel the message loop has loaded is registered, and the data has its hash.
SendFacts ==
    \A m \in sending : Registered(m.chan) /\ HashOf(m.chan) = Hash(m.data)

SyncInductive ==
    SyncTypeOK /\ FetchFacts /\ SendFacts /\ PendingIsLive /\ DataMatchesHash

-----------------------------------------------------------------------------
(* Lists, addresses and bytes *)

\* An announced list is a sequence of addresses no longer than the bound.
LEMMA ChunkListsAreSeqs ==
  ASSUME NEW q \in ChunkLists \cup {<<>>}
  PROVE  q \in Seq(Addr) /\ Len(q) <= MaxChunks
  <1>1. CASE q = <<>>
    BY <1>1, SyncAssumption
  <1>2. CASE q # <<>>
    <2>1. PICK k \in 0 .. MaxChunks : q \in [1 .. k -> Addr]
      BY <1>2, SyncAssumption
    <2>2. k \in Nat /\ k <= MaxChunks
      BY SyncAssumption
    <2>3. q \in Seq(Addr)
      BY <2>1, <2>2, SeqDef
    <2>4. Len(q) = k
      BY <2>1, <2>2, <2>3
    <2> QED
      BY <2>2, <2>3, <2>4
  <1> QED
    BY <1>1, <1>2

\* A fetch under way asks for an address.
LEMMA HashOfIsAddr ==
  ASSUME SyncTypeOK, FetchFacts, NEW f \in Fetches, fpc[f] # "none"
  PROVE  HashOf(f) \in Addr
  <1>1. f[1] \in Announcements /\ f[2] \in 1 .. MaxChunks
    BY DEF Fetches
  <1>2. announced[f[1]] \in Seq(Addr)
    BY <1>1, ChunkListsAreSeqs DEF SyncTypeOK
  <1>3. f[2] < pos[f[1]] /\ pos[f[1]] <= Len(announced[f[1]]) + 1 /\ pos[f[1]] \in Nat
    BY <1>1, SyncAssumption DEF FetchFacts, SyncTypeOK
  <1> QED
    BY <1>1, <1>2, <1>3, SyncAssumption DEF HashOf

\* Bytes that hash to an address are the content it names; sealed bytes never do.
LEMMA BytesOfAddr ==
  ASSUME NEW data, Hash(data) \in Addr
  PROVE  data \in Plain /\ data \notin Sealed
  BY ValuesDistinct DEF Addr, Hash, Sealed

-----------------------------------------------------------------------------
(* The inductive invariant *)

\* Nothing is announced, stored or registered at first.
LEMMA InitSync == SyncInit => SyncInductive
  <1> SUFFICES ASSUME SyncInit PROVE SyncInductive
    OBVIOUS
  <1>1. stopped \in BOOLEAN
    BY Zenon DEF SyncInit
  <1>2. SyncTypeOK
    BY <1>1, SyncAssumption DEF SyncInit, Fresh, RepoInit, SyncTypeOK
  <1>3. FetchFacts
    BY DEF SyncInit, Fresh, FetchFacts
  <1>5. SendFacts
    BY DEF SyncInit, SendFacts
  <1>4. PendingIsLive /\ DataMatchesHash
    BY ValuesDistinct
    DEF SyncInit, Fresh, RepoInit, PendingIsLive, DataMatchesHash, BelongsTo, Sealed
  <1> QED
    BY <1>2, <1>3, <1>4, <1>5 DEF SyncInductive

\* A loaded channel stays good as long as its fetch is registered for the same hash.
LEMMA SendKept ==
  ASSUME SyncTypeOK, SendFacts, sending' \subseteq sending,
         \A m \in sending' : m.chan \in Fetches /\ Registered(m.chan) =>
            Registered(m.chan)' /\ HashOf(m.chan)' = HashOf(m.chan)
  PROVE  SendFacts'
  <1>1. \A m \in sending : m.chan \in Fetches
    BY DEF SyncTypeOK
  <1> QED
    BY <1>1, Zenon DEF SendFacts

\* The message loop.
LEMMA LoopPreserves ==
  ASSUME SyncInductive, LoopNext
  PROVE  SyncInductive'
  <1> USE DEF SyncInductive
  <1>1. ASSUME NEW n \in Announcements, NEW signed \in BOOLEAN, NEW chunks \in ChunkLists,
               OnAnnouncement(n, signed, chunks)
        PROVE  SyncInductive'
    <2>1. SyncTypeOK'
      BY <1>1, SyncAssumption DEF OnAnnouncement, SyncTypeOK, repoVars
    <2>2. \A f \in Fetches : fpc[f] # "none" => f[1] # n
      BY <1>1 DEF OnAnnouncement, FetchFacts
    <2>3. \A f \in Fetches : fpc[f] # "none" => HashOf(f)' = HashOf(f)
      BY <1>1, <2>2 DEF OnAnnouncement, SyncTypeOK, HashOf, Fetches
    <2>4. FetchFacts'
      <3>1. Len(chunks) \in Nat
        BY ChunkListsAreSeqs
      <3> QED
        BY <1>1, <2>2, <3>1
        DEF OnAnnouncement, SyncTypeOK, FetchFacts, Fetches, Registered
    <2>5. UNCHANGED <<blocks, fpc, respChan, pending, sending, reply>>
      BY <1>1 DEF OnAnnouncement, repoVars
    <2>6. PendingIsLive'
      BY <2>3, <2>5, ZenonT(30) DEF SyncTypeOK, PendingIsLive, Registered
    <2>7. DataMatchesHash'
      BY <2>3, <2>5 DEF FetchFacts, DataMatchesHash, Registered, BelongsTo
    <2>8. SendFacts'
      BY <2>3, <2>5, SendKept DEF Registered
    <2> QED
      BY <2>1, <2>4, <2>6, <2>7, <2>8
  <1>2. ASSUME NEW a \in Addr, NEW signed \in BOOLEAN, OnRequest(a, signed)
        PROVE  SyncInductive'
    <2>1. blocks[a] \in Sealed \cup Plain
      BY <1>2 DEF OnRequest, SyncTypeOK, Exists
    <2>2. reply' = {[hash |-> a, data |-> blocks[a]]}
      BY <1>2 DEF OnRequest
    <2>3. BelongsTo(blocks[a], a)
      BY DEF DataMatchesHash
    <2>4. \A r \in reply' : BelongsTo(r.data, r.hash)
      BY <2>2, <2>3
    <2>5. SyncTypeOK'
      BY <1>2, <2>1, <2>2 DEF OnRequest, SyncTypeOK, repoVars
    <2>6. SendFacts'
      BY <1>2, SendKept DEF OnRequest, Registered, HashOf
    <2> QED
      BY <1>2, <2>4, <2>5, <2>6
      DEF OnRequest, FetchFacts, PendingIsLive, DataMatchesHash, HashOf, Registered,
          BelongsTo, repoVars
  <1>3. ASSUME NEW a \in Addr, NEW data \in Bytes, NEW signed \in BOOLEAN,
               OnResponse(a, data, signed)
        PROVE  SyncInductive'
    <2>1. Hash(data) = a /\ data \in Plain /\ data \notin Sealed
      BY <1>3, BytesOfAddr DEF OnResponse
    <2>2. /\ blocks' = [blocks EXCEPT ![a] = data]
          /\ arrived' = {[hash |-> a, data |-> data]}
          /\ UNCHANGED <<apc, announced, pos, fpc, respChan, pending, sending, reply,
                         stopped>>
      BY <1>3 DEF OnResponse, Put
    <2>3. SyncTypeOK'
      BY <2>1, <2>2 DEF SyncTypeOK
    <2>4. BelongsTo(data, a)
      BY <2>1 DEF BelongsTo
    <2>5. \A x \in Addr : BelongsTo(blocks'[x], x)
      BY <2>2, <2>4 DEF DataMatchesHash, SyncTypeOK
    <2>6. \A r \in arrived' : Hash(r.data) = r.hash
      BY <2>1, <2>2
    <2>7. SendFacts'
      BY <2>2, SendKept DEF Registered, HashOf
    <2> QED
      BY <2>2, <2>3, <2>5, <2>6, <2>7
      DEF FetchFacts, PendingIsLive, DataMatchesHash, HashOf, Registered, BelongsTo
  <1>4. CASE Lookup
    <2>1. PICK r \in arrived :
             sending' = IF pending[r.hash] = NoFetch THEN {}
                        ELSE {[chan |-> pending[r.hash], data |-> r.data]}
      BY <1>4, Zenon DEF Lookup
    <2>2. r.hash \in Addr /\ r.data \in Bytes /\ Hash(r.data) = r.hash
      BY DEF SyncTypeOK, FetchFacts
    <2>3. \A m \in sending' : /\ m.chan \in Fetches /\ m.data \in Bytes
                              /\ Registered(m.chan) /\ HashOf(m.chan) = Hash(m.data)
      BY <2>1, <2>2 DEF SyncTypeOK, PendingIsLive
    <2>4. sending' \in SUBSET [chan : Fetches, data : Bytes]
      BY <2>1, <2>2 DEF SyncTypeOK
    <2>5. /\ arrived' = {}
          /\ UNCHANGED <<blocks, apc, announced, pos, fpc, respChan, pending, reply,
                         stopped>>
      BY <1>4 DEF Lookup, repoVars
    <2>6. SyncTypeOK'
      BY <2>4, <2>5 DEF SyncTypeOK
    <2>7. FetchFacts' /\ SendFacts'
      BY <2>3, <2>5 DEF FetchFacts, SendFacts, Registered, HashOf
    <2>8. PendingIsLive' /\ DataMatchesHash'
      BY <2>5 DEF PendingIsLive, DataMatchesHash, HashOf, Registered, BelongsTo
    <2> QED
      BY <2>6, <2>7, <2>8
  <1>5. CASE Send
    <2>1. PICK m \in sending :
             respChan' = [respChan EXCEPT ![m.chan] = IF @ = Missing THEN m.data ELSE @]
      BY <1>5, Zenon DEF Send
    <2>2. /\ m.chan \in Fetches /\ m.data \in Bytes
          /\ Registered(m.chan) /\ HashOf(m.chan) = Hash(m.data)
      BY DEF SyncTypeOK, SendFacts
    <2>3. \A f \in Fetches : respChan'[f] # respChan[f] =>
             /\ Registered(f) /\ HashOf(f) = Hash(m.data) /\ respChan'[f] = m.data
      BY <2>1, <2>2 DEF SyncTypeOK
    <2>4. respChan' \in [Fetches -> Bytes \cup {Missing}]
      BY <2>1, <2>2 DEF SyncTypeOK
    <2>5. /\ sending' = {}
          /\ UNCHANGED <<blocks, apc, announced, pos, fpc, pending, arrived, reply,
                         stopped>>
      BY <1>5 DEF Send, repoVars
    <2>6. SyncTypeOK'
      BY <2>4, <2>5 DEF SyncTypeOK
    <2>7. FetchFacts' /\ SendFacts'
      BY <2>3, <2>5 DEF FetchFacts, SendFacts, Registered
    <2>8. PendingIsLive' /\ DataMatchesHash'
      BY <2>3, <2>5 DEF PendingIsLive, DataMatchesHash, HashOf, Registered, BelongsTo
    <2> QED
      BY <2>6, <2>7, <2>8
  <1>6. CASE Panic
    <2>1. /\ apc' = [n \in Announcements |-> "idle"]
          /\ announced' = [n \in Announcements |-> <<>>]
          /\ pos' = [n \in Announcements |-> 1]
          /\ fpc' = [f \in Fetches |-> "none"]
          /\ respChan' = [f \in Fetches |-> Missing]
          /\ pending' = [a \in Addr |-> NoFetch]
      BY <1>6 DEF Panic, Fresh
    <2>2. /\ arrived = {} /\ sending = {}
          /\ UNCHANGED <<blocks, arrived, sending, reply, stopped>>
      BY <1>6 DEF Panic, LoopReady, repoVars
    <2>3. SyncTypeOK'
      BY <2>1, <2>2, SyncAssumption DEF SyncTypeOK
    <2>4. FetchFacts' /\ SendFacts'
      BY <2>1, <2>2 DEF FetchFacts, SendFacts
    <2>5. PendingIsLive' /\ DataMatchesHash'
      BY <2>1, <2>2 DEF PendingIsLive, DataMatchesHash, BelongsTo
    <2> QED
      BY <2>3, <2>4, <2>5
  <1>7. CASE Publish
    BY <1>7
    DEF Publish, SyncTypeOK, FetchFacts, SendFacts, PendingIsLive, DataMatchesHash, HashOf,
        Registered, BelongsTo, repoVars
  <1> QED
    BY <1>1, <1>2, <1>3, <1>4, <1>5, <1>6, <1>7 DEF LoopNext

\* The scan of an announcement starts fetches and waits for them.
LEMMA AnnouncementPreserves ==
  ASSUME SyncInductive, NEW n \in Announcements, AnnouncementNext(n)
  PROVE  SyncInductive'
  <1> USE DEF SyncInductive
  <1>1. announced[n] \in Seq(Addr) /\ Len(announced[n]) <= MaxChunks
    BY ChunkListsAreSeqs DEF SyncTypeOK
  <1>2. CASE ScanChunk(n)
    <2> DEFINE g == <<n, pos[n]>>
    <2>1. pos[n] \in 1 .. MaxChunks /\ pos[n] <= Len(announced[n]) /\ g \in Fetches
      BY <1>1, <1>2, SyncAssumption DEF ScanChunk, SyncTypeOK, Fetches
    <2>2. fpc[g] = "none" /\ respChan[g] = Missing
      <3>1. g[1] = n /\ g[2] = pos[n] /\ ~(pos[n] < pos[n])
        BY <2>1, SyncAssumption
      <3> HIDE DEF g
      <3> QED
        BY <2>1, <3>1 DEF FetchFacts, Registered
    <2>3. /\ fpc' = fpc \/ fpc' = [fpc EXCEPT ![g] = "queued"]
          /\ pos' = [pos EXCEPT ![n] = @ + 1] /\ apc[n] = "scan"
          /\ UNCHANGED <<blocks, apc, announced, respChan, pending, arrived, sending, reply,
                         stopped>>
      BY <1>2 DEF ScanChunk, repoVars
    <2>4. SyncTypeOK'
      <3>1. pos' \in [Announcements -> 1 .. MaxChunks + 1]
        BY <2>1, <2>3, SyncAssumption DEF SyncTypeOK
      <3> HIDE DEF g
      <3> QED
        BY <2>1, <2>3, <3>1, SMTT(30) DEF SyncTypeOK
    <2>5. \A f \in Fetches : f # g => fpc'[f] = fpc[f]
      BY <2>3 DEF SyncTypeOK
    <2>6. \A f \in Fetches : Registered(f) => Registered(f)'
      BY <2>2, <2>5 DEF Registered
    <2>7. FetchFacts'
      <3>1. \A m \in Announcements : pos'[m] <= Len(announced[m]) + 1 /\ pos'[m] >= pos[m]
        BY <1>1, <2>1, <2>3, SyncAssumption DEF SyncTypeOK, FetchFacts
      <3>2. \A f \in Fetches : fpc'[f] # "none" => apc[f[1]] = "scan" /\ f[2] < pos'[f[1]]
        <4> SUFFICES ASSUME NEW f \in Fetches, fpc'[f] # "none"
                     PROVE  apc[f[1]] = "scan" /\ f[2] < pos'[f[1]]
          OBVIOUS
        <4>1. CASE f = g
          BY <2>1, <2>3, <4>1 DEF SyncTypeOK
        <4>2. CASE f # g
          <5>1. f[1] \in Announcements /\ f[2] \in Int
            BY DEF Fetches
          <5>2. pos[f[1]] \in Int /\ pos'[f[1]] \in Int
            BY <2>4, <5>1, SyncAssumption DEF SyncTypeOK
          <5> QED
            BY <2>5, <3>1, <4>2, <5>1, <5>2 DEF FetchFacts
        <4> QED
          BY <4>1, <4>2
      <3> QED
        BY <2>3, <2>6, <3>1, <3>2 DEF FetchFacts
    <2>8. PendingIsLive'
      BY <2>3, <2>6 DEF SyncTypeOK, PendingIsLive, HashOf
    <2>9. SendFacts'
      BY <2>3, <2>6, SendKept DEF HashOf
    <2> QED
      BY <2>3, <2>4, <2>7, <2>8, <2>9 DEF DataMatchesHash, HashOf, BelongsTo
  <1>3. CASE ScanEnd(n)
    <2>1. \A f \in Fetches : fpc[f] # "none" => f[1] # n
      BY <1>3 DEF ScanEnd, Fetches
    <2>2. \A f \in Fetches : fpc[f] # "none" => HashOf(f)' = HashOf(f)
      BY <1>3, <2>1 DEF ScanEnd, SyncTypeOK, HashOf, Fetches
    <2>3. SyncTypeOK'
      BY <1>3, SyncAssumption DEF ScanEnd, SyncTypeOK, repoVars
    <2>4. UNCHANGED <<blocks, fpc, respChan, pending, arrived, sending, reply>>
      BY <1>3 DEF ScanEnd, repoVars
    <2>5. FetchFacts'
      BY <1>3, <2>1, <2>4 DEF ScanEnd, SyncTypeOK, FetchFacts, Fetches, Registered
    <2>6. PendingIsLive'
      BY <2>2, <2>4 DEF SyncTypeOK, PendingIsLive, Registered
    <2>7. DataMatchesHash'
      BY <2>2, <2>4 DEF FetchFacts, DataMatchesHash, Registered, BelongsTo
    <2>8. SendFacts'
      BY <2>2, <2>4, SendKept DEF Registered
    <2> QED
      BY <2>3, <2>5, <2>6, <2>7, <2>8
  <1> QED
    BY <1>2, <1>3 DEF AnnouncementNext

\* A fetch registers its channel under the hash it asks for, and takes whatever
\* entry the hash has away when it leaves.
LEMMA FetchPreserves ==
  ASSUME SyncInductive, NEW f \in Fetches, FetchNext(f)
  PROVE  SyncInductive'
  <1> USE DEF SyncInductive
  <1>1. fpc[f] # "none" /\ HashOf(f) \in Addr
    BY HashOfIsAddr
    DEF FetchNext, Acquire, FetchCheck, FetchRegister, FetchPublish, FetchReceive,
        FetchTimeout, FetchLeave
  <1>2. UNCHANGED <<blocks, apc, announced, pos, arrived, reply, stopped>>
    BY DEF FetchNext, Acquire, FetchCheck, FetchRegister, FetchPublish, FetchReceive,
           FetchTimeout, FetchLeave, repoVars
  <1>3. CASE Acquire(f) \/ FetchCheck(f) \/ FetchPublish(f) \/ FetchReceive(f)
             \/ FetchTimeout(f)
    <2>1. PICK next \in {"none", "check", "register", "wait", "leave"} :
             /\ fpc' = [fpc EXCEPT ![f] = next]
             /\ Registered(f) => next \in {"wait", "leave"}
             /\ UNCHANGED <<respChan, pending, sending>>
      BY <1>3 DEF Acquire, FetchCheck, FetchPublish, FetchReceive, FetchTimeout, Registered
    <2>2. SyncTypeOK'
      BY <1>2, <2>1 DEF SyncTypeOK
    <2>3. \A g \in Fetches : Registered(g) => Registered(g)'
      BY <2>1 DEF SyncTypeOK, Registered
    <2>4. FetchFacts'
      BY <1>1, <1>2, <2>1, <2>3 DEF SyncTypeOK, FetchFacts
    <2>5. PendingIsLive' /\ DataMatchesHash'
      BY <1>2, <2>1, <2>3 DEF SyncTypeOK, PendingIsLive, DataMatchesHash, HashOf, BelongsTo
    <2>6. SendFacts'
      BY <1>2, <2>1, <2>3, SendKept DEF HashOf
    <2> QED
      BY <2>2, <2>4, <2>5, <2>6
  <1>4. CASE FetchRegister(f)
    <2>1. /\ fpc' = [fpc EXCEPT ![f] = "publish"]
          /\ pending' = [pending EXCEPT ![HashOf(f)] = f]
          /\ UNCHANGED <<respChan, sending>>
      BY <1>4 DEF FetchRegister
    <2>2. SyncTypeOK'
      BY <1>1, <1>2, <2>1 DEF SyncTypeOK
    <2>3. \A g \in Fetches : Registered(g) \/ g = f => Registered(g)'
      BY <2>1 DEF SyncTypeOK, Registered
    <2>4. FetchFacts'
      BY <1>1, <1>2, <2>1, <2>3, SMTT(30) DEF SyncTypeOK, FetchFacts
    <2>5. PendingIsLive' /\ DataMatchesHash'
      BY <1>1, <1>2, <2>1, <2>3
      DEF SyncTypeOK, PendingIsLive, DataMatchesHash, HashOf, BelongsTo
    <2>6. SendFacts'
      BY <1>2, <2>1, <2>3, SendKept DEF HashOf
    <2> QED
      BY <2>2, <2>4, <2>5, <2>6
  <1>5. CASE FetchLeave(f)
    <2>1. /\ fpc' = [fpc EXCEPT ![f] = "none"]
          /\ pending' = [pending EXCEPT ![HashOf(f)] = NoFetch]
          /\ respChan' = [respChan EXCEPT ![f] = Missing]
          /\ sending' = {m \in sending : m.chan # f}
      BY <1>5 DEF FetchLeave
    <2>2. SyncTypeOK'
      BY <1>1, <1>2, <2>1 DEF SyncTypeOK
    <2>3. \A g \in Fetches : g # f => /\ Registered(g) => Registered(g)'
                                     /\ fpc'[g] = fpc[g]
      BY <2>1 DEF SyncTypeOK, Registered
    <2>4. FetchFacts'
      BY <1>2, <2>1, <2>3, SMTT(30) DEF SyncTypeOK, FetchFacts
    <2>5. PendingIsLive'
      BY <1>1, <1>2, <2>1, <2>3 DEF SyncTypeOK, PendingIsLive, HashOf
    <2>6. DataMatchesHash'
      BY <1>2, <2>1 DEF SyncTypeOK, DataMatchesHash, HashOf, BelongsTo
    <2>7. SendFacts'
      BY <1>2, <2>1, <2>3, SendKept DEF HashOf
    <2> QED
      BY <2>2, <2>4, <2>5, <2>6, <2>7
  <1> QED
    BY <1>3, <1>4, <1>5 DEF FetchNext

\* A backup stores a chunk that belongs to its address, and a collection deletes one.
LEMMA StorePreserves ==
  ASSUME SyncInductive, StoreChange
  PROVE  SyncInductive'
  <1> USE DEF SyncInductive
  <1>1. UNCHANGED syncVars
    BY DEF StoreChange
  <1>2. /\ blocks' \in [Addr -> Sealed \cup Plain \cup {Missing}]
        /\ \A a \in Addr : BelongsTo(blocks'[a], a)
    <2>1. ASSUME NEW p \in Plain, PutChunk(p, 1)
          PROVE  /\ blocks' \in [Addr -> Sealed \cup Plain \cup {Missing}]
                 /\ \A a \in Addr : BelongsTo(blocks'[a], a)
      <3>1. Encrypt(p, 1) \in Sealed /\ Encrypt(p, 1) \notin Plain
        BY ValuesDistinct DEF Encrypt, Sealed
      <3>2. Hash(p) \in Addr /\ BelongsTo(Encrypt(p, 1), Hash(p))
        BY <3>1 DEF Addr, BelongsTo, Encrypt
      <3> QED
        BY <2>1, <3>1, <3>2 DEF PutChunk, SyncTypeOK, DataMatchesHash
    <2>2. ASSUME NEW x \in Addr, Delete(x)
          PROVE  /\ blocks' \in [Addr -> Sealed \cup Plain \cup {Missing}]
                 /\ \A a \in Addr : BelongsTo(blocks'[a], a)
      <3>1. BelongsTo(Missing, x)
        BY ValuesDistinct DEF BelongsTo, Sealed
      <3> QED
        BY <2>2, <3>1 DEF Delete, SyncTypeOK, DataMatchesHash
    <2> QED
      BY <2>1, <2>2 DEF StoreChange
  <1>3. SyncTypeOK' /\ FetchFacts'
    BY <1>1, <1>2, SMTT(30) DEF SyncTypeOK, FetchFacts, Registered, syncVars
  <1>5. SendFacts'
    BY <1>1, SendKept, SMTT(30) DEF Registered, HashOf, syncVars
  <1>4. PendingIsLive' /\ DataMatchesHash'
    BY <1>1, <1>2, ZenonT(30)
    DEF PendingIsLive, DataMatchesHash, Registered, HashOf, BelongsTo, syncVars
  <1> QED
    BY <1>3, <1>4, <1>5

\* The invariant holds in every reachable state.
LEMMA SyncInductiveHolds == SyncSpec => []SyncInductive
  <1>1. SyncInductive /\ [SyncNext]_allVars => SyncInductive'
    <2> SUFFICES ASSUME SyncInductive, [SyncNext]_allVars PROVE SyncInductive'
      OBVIOUS
    <2>1. CASE LoopNext
      BY <2>1, LoopPreserves, SMTT(30)
    <2>2. CASE Cancel
      <3>1. stopped' \in BOOLEAN
        BY <2>2, Zenon DEF Cancel
      <3> QED
        BY <2>2, <3>1
        DEF Cancel, SyncInductive, SyncTypeOK, FetchFacts, SendFacts, PendingIsLive, DataMatchesHash,
            Registered, HashOf, BelongsTo, repoVars
    <2>3. CASE \E n \in Announcements : AnnouncementNext(n)
      BY <2>3, AnnouncementPreserves
    <2>4. CASE \E f \in Fetches : FetchNext(f)
      BY <2>4, FetchPreserves
    <2>5. CASE StoreChange
      BY <2>5, StorePreserves
    <2>6. CASE UNCHANGED allVars
      BY <2>6
      DEF allVars, syncVars, repoVars, SyncInductive, SyncTypeOK, FetchFacts, SendFacts,
          PendingIsLive, DataMatchesHash, Registered, HashOf, BelongsTo
    <2> QED
      BY <2>1, <2>2, <2>3, <2>4, <2>5, <2>6 DEF SyncNext
  <1> QED
    BY <1>1, InitSync, PTL DEF SyncSpec

\* Every reachable state of the chunk synchronisation is well typed.
THEOREM SyncTypeCorrect == SyncSpec => []SyncTypeOK
  BY SyncInductiveHolds, PTL DEF SyncInductive

\* Every entry of pendingFetches belongs to a fetch under way for that hash.
THEOREM PendingLive == SyncSpec => []PendingIsLive
  BY SyncInductiveHolds, PTL DEF SyncInductive

\* FetchChunk returns only data with the hash it was called for, and what the store
\* holds or a response carries under an address belongs to it.
THEOREM DataMatches == SyncSpec => []DataMatchesHash
  BY SyncInductiveHolds, PTL DEF SyncInductive

=============================================================================
