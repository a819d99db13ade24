------------------------------ MODULE ChunkSync ------------------------------
(***************************************************************************)
(* Chunk synchronisation on one node: the ChunkFetcher and SnapshotSyncer  *)
(* of internal/p2p/sync.go and the message loop of internal/agent that     *)
(* drives them.                                                            *)
(*                                                                         *)
(* The other peers are the environment: an announcement, a request or a    *)
(* response may arrive at any time, for any chunk, any number of times or  *)
(* never, with a good or a bad signature, and with data that may or may    *)
(* not match its hash.  The message loop handles one message at a time.    *)
(* Every announcement has a goroutine that looks for missing chunks and    *)
(* starts one fetch goroutine for each; backups and collections of the     *)
(* same process work on the store meanwhile.                               *)
(***************************************************************************)
EXTENDS Repository, FiniteSets

CONSTANTS Announcements,       \* announcements handled at the same time
          MaxChunks,           \* bound on the chunks of an announced snapshot
          ChunkLists,          \* the chunk lists peers announce
          MaxConcurrentFetch,  \* p2p.max_concurrent_fetch
          NoFetch

Fetches == Announcements \X (1 .. MaxChunks)

ASSUME SyncAssumption == /\ MaxChunks \in Nat
                         /\ ChunkLists \subseteq
                              UNION {[1 .. k -> Addr] : k \in 0 .. MaxChunks}
                         /\ MaxConcurrentFetch \in Nat \ {0}
                         /\ NoFetch \notin Fetches

VARIABLES apc,        \* control state of each announcement's goroutine
          announced,  \* the chunks of the announced snapshot
          pos,        \* position of the next one to look for
          fpc,        \* control state of each fetch
          respChan,   \* the fetch's response channel (capacity 1)
          pending,    \* pendingFetches: address -> the fetch whose channel it holds
          arrived,    \* the response stored by the message loop, no waiter looked up yet
          sending,    \* the channel it has loaded to send the data to
          reply,      \* the response to a request, not published yet
          stopped     \* has the node's context been cancelled?

syncVars == <<apc, announced, pos, fpc, respChan, pending, arrived, sending, reply,
              stopped>>
allVars == <<repoVars, syncVars>>

\* What a peer may send as the data of a chunk: a chunk sealed under the peer's
\* key, or bytes that hash to the chunk's address.
Bytes == [key : {0}, plain : Plain] \cup Plain

\* The hash a fetch asks for.
HashOf(f) == announced[f[1]][f[2]]

\* A fetch that holds a slot of its announcement's semaphore.
Active(f) == fpc[f] \notin {"none", "queued"}

\* A fetch whose channel has been registered and not yet removed.
Registered(f) == fpc[f] \in {"publish", "wait", "leave"}

\* A process that has just started.
Fresh ==
    [apc |-> [n \in Announcements |-> "idle"],
     announced |-> [n \in Announcements |-> <<>>],
     pos |-> [n \in Announcements |-> 1],
     fpc |-> [f \in Fetches |-> "none"],
     respChan |-> [f \in Fetches |-> Missing],
     pending |-> [a \in Addr |-> NoFetch]]

SyncInit ==
    /\ RepoInit
    /\ apc = Fresh.apc
    /\ announced = Fresh.announced
    /\ pos = Fresh.pos
    /\ fpc = Fresh.fpc
    /\ respChan = Fresh.respChan
    /\ pending = Fresh.pending
    /\ arrived = {}
    /\ sending = {}
    /\ reply = {}
    /\ stopped = FALSE

-----------------------------------------------------------------------------
(* The message loop, handlePubSub: it takes the next message when it has   *)
(* dealt with the last one and the context is not cancelled.               *)

\* Validate of the three kinds of message: the signature must verify under the key
\* the message itself carries.  Whether it does is the sender's choice.  (For a key
\* that has not the length of one it does not return: see Panic.)
Validate(signed) == signed

LoopReady == arrived = {} /\ sending = {} /\ reply = {} /\ ~stopped

\* HandleSnapshotAnnouncement: a signed announcement starts fetchMissingChunks.
OnAnnouncement(n, signed, chunks) ==
    /\ LoopReady
    /\ Validate(signed)
    /\ apc[n] = "idle"
    /\ apc' = [apc EXCEPT ![n] = "scan"]
    /\ announced' = [announced EXCEPT ![n] = chunks]
    /\ pos' = [pos EXCEPT ![n] = 1]
    /\ UNCHANGED <<repoVars, fpc, respChan, pending, arrived, sending, reply, stopped>>

\* HandleChunkRequest: a node that has the chunk answers with its stored bytes.
OnRequest(a, signed) ==
    /\ LoopReady
    /\ Validate(signed)
    /\ Exists(a)
    /\ reply' = {[hash |-> a, data |-> blocks[a]]}
    /\ UNCHANGED <<repoVars, apc, announced, pos, fpc, respChan, pending,
                   arrived, sending, stopped>>

\* topic.Publish sends the answer, or fails.
Publish ==
    /\ reply # {}
    /\ reply' = {}
    /\ UNCHANGED <<repoVars, apc, announced, pos, fpc, respChan, pending,
                   arrived, sending, stopped>>

\* Fault: the hash of the data is not compared with the hash of the response.
OnResponseUnchecked(a, data, signed) ==
    /\ LoopReady
    /\ Validate(signed)
    /\ Put(a, data)
    /\ arrived' = {[hash |-> a, data |-> data]}
    /\ UNCHANGED <<snaps, apc, announced, pos, fpc, respChan, pending, sending,
                   reply, stopped>>

\* HandleChunkResponse up to store.Put, which writes whatever is there already.
OnResponse(a, data, signed) ==
    /\ LoopReady
    /\ Validate(signed)
    /\ Hash(data) = a
    /\ Put(a, data)
    /\ arrived' = {[hash |-> a, data |-> data]}
    /\ UNCHANGED <<snaps, apc, announced, pos, fpc, respChan, pending, sending,
                   reply, stopped>>

\* pendingFetches.Load: the channel registered for the hash, if there is one.
Lookup ==
    /\ \E r \in arrived :
          sending' = IF pending[r.hash] = NoFetch THEN {}
                     ELSE {[chan |-> pending[r.hash], data |-> r.data]}
    /\ arrived' = {}
    /\ UNCHANGED <<repoVars, apc, announced, pos, fpc, respChan, pending, reply,
                   stopped>>

\* The data goes to that channel, whatever has become of its entry since, unless
\* the channel is full.
Send ==
    /\ \E m \in sending :
          respChan' = [respChan EXCEPT ![m.chan] = IF @ = Missing THEN m.data ELSE @]
    /\ sending' = {}
    /\ UNCHANGED <<repoVars, apc, announced, pos, fpc, pending, arrived, reply,
                   stopped>>

\* A message of any kind carries a key of the wrong length: ed25519.Verify panics
\* and nothing recovers, so the process ends.  The next one starts on its store.
Panic ==
    /\ LoopReady
    /\ apc' = Fresh.apc
    /\ announced' = Fresh.announced
    /\ pos' = Fresh.pos
    /\ fpc' = Fresh.fpc
    /\ respChan' = Fresh.respChan
    /\ pending' = Fresh.pending
    /\ UNCHANGED <<repoVars, arrived, sending, reply, stopped>>

\* P2P.Cancel: RunDaemon has caught a signal.
Cancel ==
    /\ ~stopped
    /\ stopped' = TRUE
    /\ UNCHANGED <<repoVars, apc, announced, pos, fpc, respChan, pending,
                   arrived, sending, reply>>

-----------------------------------------------------------------------------
(* SnapshotSyncer.fetchMissingChunks *)

\* Fault: the loop counts one chunk too many.
ScanChunkPastEnd(n) ==
    /\ apc[n] = "scan"
    /\ pos[n] <= Len(announced[n]) + 1
    /\ fpc' = IF pos[n] > Len(announced[n]) \/ Exists(announced[n][pos[n]]) THEN fpc
              ELSE [fpc EXCEPT ![<<n, pos[n]>>] = "queued"]
    /\ pos' = [pos EXCEPT ![n] = @ + 1]
    /\ UNCHANGED <<repoVars, apc, announced, respChan, pending, arrived, sending,
                   reply, stopped>>

\* The next chunk: one that is not in the store gets a goroutine.
ScanChunk(n) ==
    /\ apc[n] = "scan"
    /\ pos[n] <= Len(announced[n])
    /\ fpc' = IF Exists(announced[n][pos[n]]) THEN fpc
              ELSE [fpc EXCEPT ![<<n, pos[n]>>] = "queued"]
    /\ pos' = [pos EXCEPT ![n] = @ + 1]
    /\ UNCHANGED <<repoVars, apc, announced, respChan, pending, arrived, sending,
                   reply, stopped>>

\* wg.Wait returns when every goroutine has ended.
ScanEnd(n) ==
    /\ apc[n] = "scan"
    /\ pos[n] > Len(announced[n])
    /\ \A i \in 1 .. MaxChunks : fpc[<<n, i>>] = "none"
    /\ apc' = [apc EXCEPT ![n] = "idle"]
    /\ announced' = [announced EXCEPT ![n] = <<>>]
    /\ pos' = [pos EXCEPT ![n] = 1]
    /\ UNCHANGED <<repoVars, fpc, respChan, pending, arrived, sending, reply, stopped>>

\* sem <- struct{}{}: one semaphore per announcement.
Acquire(f) ==
    /\ fpc[f] = "queued"
    /\ Cardinality({g \in Fetches : g[1] = f[1] /\ Active(g)}) < MaxConcurrentFetch
    /\ fpc' = [fpc EXCEPT ![f] = "check"]
    /\ UNCHANGED <<repoVars, apc, announced, pos, respChan, pending, arrived,
                   sending, reply, stopped>>

-----------------------------------------------------------------------------
(* ChunkFetcher.FetchChunk *)

\* A chunk that is in the store by now is returned at once.
FetchCheck(f) ==
    /\ fpc[f] = "check"
    /\ fpc' = [fpc EXCEPT ![f] = IF Exists(HashOf(f)) THEN "none" ELSE "register"]
    /\ UNCHANGED <<repoVars, apc, announced, pos, respChan, pending, arrived,
                   sending, reply, stopped>>

\* pendingFetches.Store replaces the channel of any other fetch of this hash.
FetchRegister(f) ==
    /\ fpc[f] = "register"
    /\ fpc' = [fpc EXCEPT ![f] = "publish"]
    /\ pending' = [pending EXCEPT ![HashOf(f)] = f]
    /\ UNCHANGED <<repoVars, apc, announced, pos, respChan, arrived, sending, reply,
                   stopped>>

\* The request is published, or topic.Publish fails and the fetch is given up.
FetchPublish(f) ==
    /\ fpc[f] = "publish"
    /\ \E next \in {"wait", "leave"} : fpc' = [fpc EXCEPT ![f] = next]
    /\ UNCHANGED <<repoVars, apc, announced, pos, respChan, pending, arrived,
                   sending, reply, stopped>>

\* The cases of the select: a response, or the timeout or a cancelled context,
\* which may win although there is a response.
FetchReceive(f) ==
    /\ fpc[f] = "wait"
    /\ respChan[f] # Missing
    /\ fpc' = [fpc EXCEPT ![f] = "leave"]
    /\ UNCHANGED <<repoVars, apc, announced, pos, respChan, pending, arrived,
                   sending, reply, stopped>>

\* Fault: no timeout; only a response or a cancelled context ends the wait.
FetchNoTimeout(f) ==
    /\ fpc[f] = "wait"
    /\ stopped
    /\ fpc' = [fpc EXCEPT ![f] = "leave"]
    /\ UNCHANGED <<repoVars, apc, announced, pos, respChan, pending, arrived,
                   sending, reply, stopped>>

FetchTimeout(f) ==
    /\ fpc[f] = "wait"
    /\ fpc' = [fpc EXCEPT ![f] = "leave"]
    /\ UNCHANGED <<repoVars, apc, announced, pos, respChan, pending, arrived,
                   sending, reply, stopped>>

\* Fault: the entry in pendingFetches outlives the fetch.
FetchLeaveEntry(f) ==
    /\ fpc[f] = "leave"
    /\ fpc' = [fpc EXCEPT ![f] = "none"]
    /\ respChan' = [respChan EXCEPT ![f] = Missing]
    /\ sending' = {m \in sending : m.chan # f}
    /\ UNCHANGED <<repoVars, apc, announced, pos, pending, arrived, reply, stopped>>

\* The deferred calls: pendingFetches.Delete removes whatever channel the hash
\* has now, then the semaphore is released.  If the message loop has loaded the
\* fetch's channel, what it sends there is lost.
FetchLeave(f) ==
    /\ fpc[f] = "leave"
    /\ pending' = [pending EXCEPT ![HashOf(f)] = NoFetch]
    /\ fpc' = [fpc EXCEPT ![f] = "none"]
    /\ respChan' = [respChan EXCEPT ![f] = Missing]
    /\ sending' = {m \in sending : m.chan # f}
    /\ UNCHANGED <<repoVars, apc, announced, pos, arrived, reply, stopped>>

-----------------------------------------------------------------------------
(* The rest of the process *)

\* A backup stores a chunk; a collection deletes one.
StoreChange ==
    /\ \/ \E p \in Plain : PutChunk(p, 1)
       \/ \E a \in Addr : Delete(a)
    /\ UNCHANGED <<snaps, syncVars>>

-----------------------------------------------------------------------------
LoopNext ==
    \/ \E n \in Announcements, signed \in BOOLEAN, chunks \in ChunkLists :
          OnAnnouncement(n, signed, chunks)
    \/ \E a \in Addr, signed \in BOOLEAN : OnRequest(a, signed)
    \/ \E a \in Addr, data \in Bytes, signed \in BOOLEAN : OnResponse(a, data, signed)
    \/ Lookup
    \/ Send
    \/ Publish
    \/ Panic

AnnouncementNext(n) == ScanChunk(n) \/ ScanEnd(n)

FetchNext(f) ==
    \/ Acquire(f)
    \/ FetchCheck(f)
    \/ FetchRegister(f)
    \/ FetchPublish(f)
    \/ FetchReceive(f)
    \/ FetchTimeout(f)
    \/ FetchLeave(f)

SyncNext ==
    \/ LoopNext
    \/ Cancel
    \/ \E n \in Announcements : AnnouncementNext(n)
    \/ \E f \in Fetches : FetchNext(f)
    \/ StoreChange

SyncSpec == SyncInit /\ [][SyncNext]_allVars

\* The Go scheduler runs every goroutine that can run, timers fire, and a
\* goroutine blocked on the semaphore gets a slot in its turn (channel sends are
\* served in order).
SyncFairness ==
    /\ WF_allVars(Lookup \/ Send \/ Publish)
    /\ \A n \in Announcements : WF_allVars(AnnouncementNext(n))
    /\ \A f \in Fetches : SF_allVars(Acquire(f)) /\ WF_allVars(FetchNext(f))

FairSyncSpec == SyncSpec /\ SyncFairness

-----------------------------------------------------------------------------
(* Properties *)

\* Type correctness of the store, the message loop and every goroutine.
SyncTypeOK ==
    /\ blocks \in [Addr -> Sealed \cup Plain \cup {Missing}]
    /\ apc \in [Announcements -> {"idle", "scan"}]
    /\ announced \in [Announcements -> ChunkLists \cup {<<>>}]
    /\ pos \in [Announcements -> 1 .. MaxChunks + 1]
    /\ fpc \in [Fetches -> {"none", "queued", "check", "register", "publish",
                            "wait", "leave"}]
    /\ respChan \in [Fetches -> Bytes \cup {Missing}]
    /\ pending \in [Addr -> Fetches \cup {NoFetch}]
    /\ arrived \in SUBSET [hash : Addr, data : Bytes]
    /\ sending \in SUBSET [chan : Fetches, data : Bytes]
    /\ reply \in SUBSET [hash : Addr, data : Sealed \cup Plain]
    /\ stopped \in BOOLEAN

\* Every entry of pendingFetches belongs to a fetch that has not returned yet and
\* asked for that very hash, although fetches of the same hash replace and delete
\* each other's entries: a response never reaches the fetch of another chunk, and no
\* entry is left behind when the fetches are over.  (The fetch may be past its
\* select, having timed out, and take nothing from its channel any more.)
PendingIsLive ==
    \A a \in Addr : pending[a] # NoFetch =>
        /\ Registered(pending[a])
        /\ HashOf(pending[a]) = a

\* The bytes stand for the chunk a: they hash to it, or are sealed and open to a
\* chunk that does.
BelongsTo(data, a) ==
    /\ data \in Plain => Hash(data) = a
    /\ data \in Sealed => Hash(data.plain) = a

\* FetchChunk returns only data that hashes to the chunk it was called for, and
\* what the store holds or a response carries under an address belongs to it,
\* however responses, requests, fetches, backups and collections interleave.
DataMatchesHash ==
    /\ \A f \in Fetches : respChan[f] # Missing => Hash(respChan[f]) = HashOf(f)
    /\ \A a \in Addr : BelongsTo(blocks[a], a)
    /\ \A r \in reply : BelongsTo(r.data, r.hash)

\* fetchMissingChunks ends, whatever answers are lost and whichever fetch lost
\* its channel to another one: every goroutine it waits for ends.
AnnouncementsFinish ==
    \A n \in Announcements : apc[n] = "scan" ~> apc[n] = "idle"
=============================================================================
