-------------------------------- MODULE Vault --------------------------------
(***************************************************************************)
(* One agent process at a time over the repository: backups and garbage    *)
(* collections run concurrently inside the process, and the process may be *)
(* stopped between any two transactions and started again.                 *)
(*                                                                         *)
(* A backup is a goroutine in Agent.CreateAndSaveSnapshot (started by the  *)
(* snapshot command, by the API handler or by a scheduled task).  A        *)
(* collection is a goroutine in Collector.Run: the ticker loop is one, and *)
(* every POST to /api/v1/gc/run starts another.  Each step of either is    *)
(* one bolt transaction or one reading of the clock.  The message loop of  *)
(* the daemon is a third writer: it stores what peers send (ChunkSync).    *)
(*                                                                         *)
(* The bolt file lock admits one process at a time, so processes are       *)
(* numbered sessions.  agent.New derives its master key with a random      *)
(* salt, so the session number also stands for the key.                    *)
(***************************************************************************)
EXTENDS Repository

CONSTANTS Backups,     \* goroutines that create snapshots
          Collectors,  \* goroutines that collect garbage
          Retention,   \* the retention period, in seconds
          MaxChunks,   \* bound on the chunks of one backup
          MaxClock,    \* bound on the wall clock
          MaxSession   \* bound on the number of process starts

ASSUME BoundsAreNumbers == /\ Retention \in Nat
                           /\ MaxChunks \in Nat
                           /\ MaxClock \in Nat
                           /\ MaxSession \in Nat

VARIABLES clock,       \* wall clock in whole seconds
          session,     \* number of process starts; also the master key
          up,          \* is a process running?
          bpc,         \* control state of each backup
          hashes,      \* the addresses a backup has collected so far
          id,          \* the second that names the snapshot being built
          ts,          \* its timestamp
          gpc,         \* control state of each collection
          cutoff,      \* snapshots with a timestamp before it have expired
          expired,     \* IDs still to be deleted
          referenced,  \* addresses the mark phase found in use
          todo,        \* unreferenced addresses still to be looked at
          victim,      \* the address about to be deleted
          overlap,     \* auxiliary: has a sweep overlapped this backup?
          clean        \* auxiliary: IDs saved by a backup no sweep overlapped

processVars == <<clock, session, up>>
backupVars == <<bpc, hashes, id, ts, overlap>>
gcVars == <<gpc, cutoff, expired, referenced, todo, victim>>
vars == <<repoVars, processVars, backupVars, gcVars, clean>>

\* DeriveKey without a salt makes a random one, so no two processes share a key.
MasterKey == session

InFlight(b) == bpc[b] # "idle"

Sweeping(c) == gpc[c] \in {"list", "sweep", "delete"}

-----------------------------------------------------------------------------
Init ==
    /\ RepoInit
    /\ clock = 0
    /\ session = 0
    /\ up = FALSE
    /\ bpc = [b \in Backups |-> "idle"]
    /\ hashes = [b \in Backups |-> <<>>]
    /\ id = [b \in Backups |-> 0]
    /\ ts = [b \in Backups |-> 0]
    /\ overlap = [b \in Backups |-> FALSE]
    /\ gpc = [c \in Collectors |-> "idle"]
    /\ cutoff = [c \in Collectors |-> 0]
    /\ expired = [c \in Collectors |-> {}]
    /\ referenced = [c \in Collectors |-> {}]
    /\ todo = [c \in Collectors |-> {}]
    /\ victim = [c \in Collectors |-> Missing]
    /\ clean = {}

\* A second passes.
Tick ==
    /\ clock < MaxClock
    /\ clock' = clock + 1
    /\ UNCHANGED <<repoVars, session, up, backupVars, gcVars, clean>>

\* agent.New: open the database, derive a fresh key.
Start ==
    /\ ~up
    /\ up' = TRUE
    /\ session' = session + 1
    /\ UNCHANGED <<repoVars, clock, backupVars, gcVars, clean>>

\* The process exits or crashes; every goroutine is lost, bolt keeps what
\* was committed.
Stop ==
    /\ up
    /\ session < MaxSession
    /\ up' = FALSE
    /\ bpc' = [b \in Backups |-> "idle"]
    /\ hashes' = [b \in Backups |-> <<>>]
    /\ id' = [b \in Backups |-> 0]
    /\ ts' = [b \in Backups |-> 0]
    /\ overlap' = [b \in Backups |-> FALSE]
    /\ gpc' = [c \in Collectors |-> "idle"]
    /\ cutoff' = [c \in Collectors |-> 0]
    /\ expired' = [c \in Collectors |-> {}]
    /\ referenced' = [c \in Collectors |-> {}]
    /\ todo' = [c \in Collectors |-> {}]
    /\ victim' = [c \in Collectors |-> Missing]
    /\ UNCHANGED <<repoVars, clock, session, clean>>

\* HandleChunkResponse of the daemon's message loop stores bytes that hash to the
\* address as they are: not sealed, and in the place of a sealed chunk if there is
\* one.  What a peer seals never hashes to the address.  (ChunkSync has the rest.)
ReceiveChunk(plain) ==
    /\ up
    /\ Put(Hash(plain), plain)
    /\ UNCHANGED <<snaps, processVars, backupVars, gcVars, clean>>

-----------------------------------------------------------------------------
(* Agent.CreateAndSaveSnapshot and snapshots.CreateSnapshot *)

BackupBegin(b) ==
    /\ up
    /\ bpc[b] = "idle"
    /\ bpc' = [bpc EXCEPT ![b] = "walk"]
    /\ hashes' = [hashes EXCEPT ![b] = <<>>]
    /\ overlap' = [overlap EXCEPT ![b] = \E c \in Collectors : Sweeping(c)]
    /\ UNCHANGED <<repoVars, processVars, id, ts, gcVars, clean>>

\* Fault: the chunk itself is recorded in place of its hash.
BackupPutPlain(b, plain) ==
    /\ bpc[b] = "walk"
    /\ Len(hashes[b]) < MaxChunks
    /\ PutChunk(plain, MasterKey)
    /\ hashes' = [hashes EXCEPT ![b] = Append(@, plain)]
    /\ UNCHANGED <<snaps, processVars, bpc, id, ts, overlap, gcVars, clean>>

\* Fault: an error of PutChunk is ignored and the hash recorded all the same.
BackupPutIgnoringError(b, plain) ==
    /\ bpc[b] = "walk"
    /\ Len(hashes[b]) < MaxChunks
    /\ PutChunk(plain, MasterKey) \/ UNCHANGED blocks
    /\ hashes' = [hashes EXCEPT ![b] = Append(@, Hash(plain))]
    /\ UNCHANGED <<snaps, processVars, bpc, id, ts, overlap, gcVars, clean>>

\* The walk reads the next chunk, whatever the file holds by now, and stores it.
BackupPut(b, plain) ==
    /\ bpc[b] = "walk"
    /\ Len(hashes[b]) < MaxChunks
    /\ PutChunk(plain, MasterKey)
    /\ hashes' = [hashes EXCEPT ![b] = Append(@, Hash(plain))]
    /\ UNCHANGED <<snaps, processVars, bpc, id, ts, overlap, gcVars, clean>>

\* The ID and the timestamp are two readings of the clock.
BackupStampID(b) ==
    /\ bpc[b] = "walk"
    /\ id' = [id EXCEPT ![b] = clock]
    /\ bpc' = [bpc EXCEPT ![b] = "stamp"]
    /\ UNCHANGED <<repoVars, processVars, hashes, ts, overlap, gcVars, clean>>

BackupStampTime(b) ==
    /\ bpc[b] = "stamp"
    /\ ts' = [ts EXCEPT ![b] = clock]
    /\ bpc' = [bpc EXCEPT ![b] = "save"]
    /\ UNCHANGED <<repoVars, processVars, hashes, id, overlap, gcVars, clean>>

BackupReset(b) ==
    /\ bpc' = [bpc EXCEPT ![b] = "idle"]
    /\ hashes' = [hashes EXCEPT ![b] = <<>>]
    /\ id' = [id EXCEPT ![b] = 0]
    /\ ts' = [ts EXCEPT ![b] = 0]
    /\ overlap' = [overlap EXCEPT ![b] = FALSE]

\* The snapshot is saved.  What follows (adding up sizes, metrics, announcing
\* the snapshot) changes nothing here, and a failed announcement is only logged.
BackupSave(b) ==
    /\ bpc[b] = "save"
    /\ SaveSnapshot([id |-> id[b], ts |-> ts[b], chunks |-> hashes[b]])
    /\ clean' = IF overlap[b] THEN clean \ {id[b]} ELSE clean \cup {id[b]}
    /\ BackupReset(b)
    /\ UNCHANGED <<blocks, processVars, gcVars>>

\* Reading the tree, PutChunk or SaveSnapshot returned an error.
BackupFail(b) ==
    /\ bpc[b] \in {"walk", "save"}
    /\ BackupReset(b)
    /\ UNCHANGED <<repoVars, processVars, gcVars, clean>>

-----------------------------------------------------------------------------
(* Collector.Run *)

\* time.Now() has a fraction of a second and a snapshot's timestamp has not,
\* so the first whole second that has not expired is now - Retention or the
\* one after it.
GcBegin(c) ==
    /\ up
    /\ gpc[c] = "idle"
    /\ \E fraction \in {0, 1} :
          cutoff' = [cutoff EXCEPT ![c] = clock - Retention + fraction]
    /\ gpc' = [gpc EXCEPT ![c] = "cutoff"]
    /\ UNCHANGED <<repoVars, processVars, backupVars, expired, referenced,
                   todo, victim, clean>>

\* Fault: "not after" instead of time.Before.
GcListExpiredAtCutoff(c) ==
    /\ gpc[c] = "cutoff"
    /\ expired' = [expired EXCEPT
                     ![c] = {s.id : s \in {t \in snaps : t.ts <= cutoff[c]}}]
    /\ cutoff' = [cutoff EXCEPT ![c] = 0]
    /\ gpc' = [gpc EXCEPT ![c] = "expire"]
    /\ UNCHANGED <<repoVars, processVars, backupVars, referenced, todo, victim,
                   clean>>

GcListExpired(c) ==
    /\ gpc[c] = "cutoff"
    /\ expired' = [expired EXCEPT
                     ![c] = {s.id : s \in {t \in snaps : t.ts < cutoff[c]}}]
    /\ cutoff' = [cutoff EXCEPT ![c] = 0]
    /\ gpc' = [gpc EXCEPT ![c] = "expire"]
    /\ UNCHANGED <<repoVars, processVars, backupVars, referenced, todo, victim,
                   clean>>

\* The next expired snapshot, in key order, is deleted by its ID; a delete
\* that fails is logged and passed over.
GcExpire(c) ==
    /\ gpc[c] = "expire"
    /\ \E i \in expired[c] :
          /\ \A j \in expired[c] : i <= j
          /\ expired' = [expired EXCEPT ![c] = @ \ {i}]
          /\ \/ DeleteSnapshot(i) /\ clean' = clean \ {i}
             \/ UNCHANGED <<snaps, clean>>
    /\ UNCHANGED <<blocks, processVars, backupVars, gpc, cutoff, referenced,
                   todo, victim>>

\* Fault: an error of the second listing is ignored and the sweep goes on with
\* the empty set it returned.
GcMarkIgnoringError(c) ==
    /\ gpc[c] = "expire"
    /\ expired[c] = {}
    /\ \E marked \in {ReferencedBy(snaps), {}} :
          referenced' = [referenced EXCEPT ![c] = marked]
    /\ gpc' = [gpc EXCEPT ![c] = "list"]
    /\ overlap' = [b \in Backups |-> overlap[b] \/ InFlight(b)]
    /\ UNCHANGED <<repoVars, processVars, bpc, hashes, id, ts, cutoff,
                   expired, todo, victim, clean>>

\* findReferencedChunks lists the snapshots a second time.
GcMark(c) ==
    /\ gpc[c] = "expire"
    /\ expired[c] = {}
    /\ referenced' = [referenced EXCEPT ![c] = ReferencedBy(snaps)]
    /\ gpc' = [gpc EXCEPT ![c] = "list"]
    /\ overlap' = [b \in Backups |-> overlap[b] \/ InFlight(b)]
    /\ UNCHANGED <<repoVars, processVars, bpc, hashes, id, ts, cutoff,
                   expired, todo, victim, clean>>

\* Fault: the test for a reference is left out.
GcListChunksAll(c) ==
    /\ gpc[c] = "list"
    /\ todo' = [todo EXCEPT ![c] = ListAll]
    /\ gpc' = [gpc EXCEPT ![c] = "sweep"]
    /\ UNCHANGED <<repoVars, processVars, backupVars, cutoff, expired,
                   referenced, victim, clean>>

GcListChunks(c) ==
    /\ gpc[c] = "list"
    /\ todo' = [todo EXCEPT ![c] = ListAll \ referenced[c]]
    /\ gpc' = [gpc EXCEPT ![c] = "sweep"]
    /\ UNCHANGED <<repoVars, processVars, backupVars, cutoff, expired,
                   referenced, victim, clean>>

\* Fault: the loop never moves on to the next chunk.
GcGetRepeats(c, a) ==
    /\ gpc[c] = "sweep"
    /\ a \in todo[c]
    /\ IF Exists(a)
       THEN /\ victim' = [victim EXCEPT ![c] = a]
            /\ gpc' = [gpc EXCEPT ![c] = "delete"]
       ELSE UNCHANGED <<victim, gpc>>
    /\ UNCHANGED <<repoVars, processVars, backupVars, cutoff, expired,
                   referenced, todo, clean>>

\* Fault: the error test is the wrong way round.
GcGetInverted(c, a) ==
    /\ gpc[c] = "sweep"
    /\ a \in todo[c]
    /\ todo' = [todo EXCEPT ![c] = @ \ {a}]
    /\ IF ~Exists(a)
       THEN /\ victim' = [victim EXCEPT ![c] = a]
            /\ gpc' = [gpc EXCEPT ![c] = "delete"]
       ELSE UNCHANGED <<victim, gpc>>
    /\ UNCHANGED <<repoVars, processVars, backupVars, cutoff, expired,
                   referenced, clean>>

\* The size of the next unreferenced chunk is read; one that is gone is
\* passed over.
GcGet(c, a) ==
    /\ gpc[c] = "sweep"
    /\ a \in todo[c]
    /\ todo' = [todo EXCEPT ![c] = @ \ {a}]
    /\ IF Exists(a)
       THEN /\ victim' = [victim EXCEPT ![c] = a]
            /\ gpc' = [gpc EXCEPT ![c] = "delete"]
       ELSE UNCHANGED <<victim, gpc>>
    /\ UNCHANGED <<repoVars, processVars, backupVars, cutoff, expired,
                   referenced, clean>>

GcDelete(c) ==
    /\ gpc[c] = "delete"
    /\ Delete(victim[c]) \/ UNCHANGED blocks
    /\ victim' = [victim EXCEPT ![c] = Missing]
    /\ gpc' = [gpc EXCEPT ![c] = "sweep"]
    /\ UNCHANGED <<snaps, processVars, backupVars, cutoff, expired,
                   referenced, todo, clean>>

GcReset(c) ==
    /\ gpc' = [gpc EXCEPT ![c] = "idle"]
    /\ cutoff' = [cutoff EXCEPT ![c] = 0]
    /\ expired' = [expired EXCEPT ![c] = {}]
    /\ referenced' = [referenced EXCEPT ![c] = {}]
    /\ UNCHANGED <<repoVars, processVars, backupVars, todo, victim, clean>>

GcDone(c) ==
    /\ gpc[c] = "sweep"
    /\ todo[c] = {}
    /\ GcReset(c)

\* One of the three listings failed: the cycle is given up.
GcFail(c) ==
    /\ \/ gpc[c] \in {"cutoff", "list"}
       \/ gpc[c] = "expire" /\ expired[c] = {}
    /\ GcReset(c)

-----------------------------------------------------------------------------
BackupNext(b) ==
    \/ BackupBegin(b)
    \/ \E plain \in Plain : BackupPut(b, plain)
    \/ BackupStampID(b)
    \/ BackupStampTime(b)
    \/ BackupSave(b)
    \/ BackupFail(b)

GcNext(c) ==
    \/ GcBegin(c)
    \/ GcListExpired(c)
    \/ GcExpire(c)
    \/ GcMark(c)
    \/ GcListChunks(c)
    \/ \E a \in Addr : GcGet(c, a)
    \/ GcDelete(c)
    \/ GcDone(c)
    \/ GcFail(c)

Next ==
    \/ Tick
    \/ Start
    \/ Stop
    \/ \E plain \in Plain : ReceiveChunk(plain)
    \/ \E b \in Backups : BackupNext(b)
    \/ \E c \in Collectors : GcNext(c)

Spec == Init /\ [][Next]_vars

-----------------------------------------------------------------------------
(* Fairness for the liveness properties.  Goroutines that can run do run   *)
(* (the Go scheduler), the operator restarts a stopped agent, the ticker   *)
(* goes on starting collections, and a database error does not recur every *)
(* single time (strong fairness of the successful step).                   *)

Fairness ==
    /\ WF_vars(Start)
    /\ \A b \in Backups :
          WF_vars(bpc[b] # "idle" /\ BackupNext(b))
    /\ \A c \in Collectors :
          /\ WF_vars(GcNext(c))
          /\ SF_vars(GcListExpired(c))
          /\ SF_vars(GcMark(c))
          /\ SF_vars(GcListChunks(c))
          /\ SF_vars(GcDelete(c) /\ Delete(victim[c]))

FairSpec == Spec /\ Fairness

-----------------------------------------------------------------------------
(* Properties *)

\* Type correctness of the repository and of every goroutine's local state.
TypeOK ==
    /\ blocks \in [Addr -> Sealed \cup Plain \cup {Missing}]
    /\ snaps \in SUBSET Snapshot
    /\ clock \in Nat
    /\ session \in Nat
    /\ up \in BOOLEAN
    /\ bpc \in [Backups -> {"idle", "walk", "stamp", "save"}]
    /\ hashes \in [Backups -> Seq(Addr)]
    /\ id \in [Backups -> Int]
    /\ ts \in [Backups -> Int]
    /\ overlap \in [Backups -> BOOLEAN]
    /\ gpc \in [Collectors -> {"idle", "cutoff", "expire", "list", "sweep",
                               "delete"}]
    /\ cutoff \in [Collectors -> Int]
    /\ expired \in [Collectors -> SUBSET Int]
    /\ referenced \in [Collectors -> SUBSET Addr]
    /\ todo \in [Collectors -> SUBSET Addr]
    /\ victim \in [Collectors -> Addr \cup {Missing}]
    /\ clean \in SUBSET Int

\* Every chunk of a saved snapshot is in the store, provided that no mark and
\* sweep of Collector.Run overlapped the backup that saved it.  This is across
\* crashes, failed backups, chunks shared by dedup, snapshots overwritten under
\* the same ID, deletions that fail and collections that run side by side.
CleanSnapshotsComplete ==
    \A s \in snaps : s.id \in clean => \A a \in Range(s.chunks) : Exists(a)

\* GetChunk under key k returns every chunk of s.
Readable(s, k) == \A a \in Range(s.chunks) : Hash(GetChunk(a, k)) = a

\* A process that can read all of a snapshot can go on reading it: as long as the
\* snapshot stays in the table and no sweep overlapped its backup, neither a
\* collection nor a later process that backs up the same chunks under its own
\* key (PutChunk's dedup) takes a chunk away or seals it again.  Only a response
\* of a peer does that, when its raw bytes take the place of a sealed chunk.
ReadableStays ==
    [][\A s \in snaps \cap snaps', k \in 1 .. session :
          s.id \in clean \cap clean' /\ Readable(s, k) =>
              \/ Readable(s, k)'
              \/ \E a \in Range(s.chunks) : blocks'[a] \in Plain]_vars

\* deleteOldSnapshots removes a snapshot only if the second that names it lies
\* before now - Retention, even though it deletes by an ID from an earlier
\* listing and a backup may have saved a new snapshot under that ID since.
\* (The other way to leave the table is to be replaced under the same ID.)
RetentionRespected ==
    [][\A s \in snaps : \/ \E t \in snaps' : t.id = s.id
                        \/ s.id <= clock - Retention]_vars

\* A backup that no sweep has overlapped still has every chunk it stored, and
\* no collection is past its mark phase.
UntouchedBackups ==
    \A b \in Backups : InFlight(b) /\ ~overlap[b] =>
        /\ \A c \in Collectors : ~Sweeping(c)
        /\ \A a \in Range(hashes[b]) : Exists(a)

\* A collection past its mark phase has marked the chunks of every saved
\* snapshot that no sweep had overlapped.
MarksCoverClean ==
    \A c \in Collectors : Sweeping(c) =>
        \A s \in snaps : s.id \in clean => Range(s.chunks) \subseteq referenced[c]

\* What a collection is still to delete it did not mark.
VictimsUnmarked ==
    \A c \in Collectors :
        /\ gpc[c] = "sweep" => todo[c] \cap referenced[c] = {}
        /\ gpc[c] = "delete" => /\ todo[c] \cap referenced[c] = {}
                                /\ victim[c] \in Addr \ referenced[c]

\* A mark and sweep of Collector.Run, however its listings and deletions
\* interleave with backups and with other collections, takes nothing from a
\* backup or a saved snapshot it did not overlap with.  These are the facts that
\* make CleanSnapshotsComplete inductive.
SweepInvariant == UntouchedBackups /\ MarksCoverClean /\ VictimsUnmarked

\* A backup and a collection that have begun end (or the process does): neither
\* waits on the other.
RunsEnd ==
    /\ \A b \in Backups : bpc[b] # "idle" ~> bpc[b] = "idle"
    /\ \A c \in Collectors : gpc[c] # "idle" ~> gpc[c] = "idle"

\* No chunk stays in the store for ever without a saved snapshot that refers to
\* it: what a failed or interrupted backup, or an expired snapshot, leaves
\* behind is collected in the end.
OrphansReclaimed ==
    \A a \in Addr : []<>(~Exists(a) \/ a \in ReferencedBy(snaps))

\* The abstract repository: a chunk is stored if the store has it under any key,
\* and the intact snapshots are the clean ones.
Abstract == INSTANCE Archive WITH Chunk <- Addr, stored <- ListAll, saved <- snaps,
                                  intact <- clean, now <- clock

\* CreateAndSaveSnapshot and Collector.Run, in any number, with failures and process
\* exits between their transactions, implement the abstract repository with one
\* exception: each of their steps stores or reclaims one chunk, saves or expires one
\* snapshot, or is not seen.  An intact snapshot has all its chunks when it is saved
\* and loses none of them, and one expires only when the second that names it is old
\* enough.  The exception is a snapshot saved under the ID of another, of the same
\* second: it takes the other's place.
ImplementsButForNames == Abstract!ReplacingSpec

-----------------------------------------------------------------------------
(* Statements of the code's comments and tests that it does not keep.     *)

\* tests/integration_test.go:227, after five concurrent backups: "Expected %d
\* snapshots, got %d".  A backup whose snapshot is saved keeps it: no snapshot
\* leaves the table before it is as old as the retention.
SnapshotsKept == [][\A s \in snaps : s \in snaps' \/ s.id <= clock - Retention]_vars

\* internal/gc/collector.go:167: "deleteUnreferencedChunks deletes chunks not
\* referenced by any snapshot".
DeletesOnlyUnreferenced ==
    [][\A a \in Addr : Exists(a) /\ ~Exists(a)' => a \notin ReferencedBy(snaps)]_vars
=============================================================================
