------------------------------ MODULE Recovery ------------------------------
(***************************************************************************)
(* Reading the repository back: the restore command                        *)
(* (cmd/backup-agent-restore) and the verifier (internal/verification),    *)
(* over the running system of Vault.                                       *)
(*                                                                         *)
(* The restore command is a process of its own: it runs agent.New, so it   *)
(* waits for the database and derives a key of its own, and no backup or   *)
(* collection runs beside it.  The verifier is a goroutine of the agent's  *)
(* process; backups and collections go on between its transactions.        *)
(***************************************************************************)
EXTENDS Vault

CONSTANT Checks  \* the verifier calls made: "quick", "one", "all" or "repair"

VARIABLES rpc,       \* control state of the restore command
          rid,       \* the snapshot it was asked for
          rsnap,     \* the set holding the snapshot it loaded
          out,       \* what it has written to the output file so far
          rresult,   \* the exit status of a restore that has just ended
          vpc,       \* control state of the verifier
          quick,     \* QuickCheck rather than VerifySnapshot?
          vids,      \* IDs still to be verified
          vsnap,     \* the set holding the snapshot being verified
          vpos,      \* position of the chunk to look at next
          missing,   \* MissingChunks of the current result
          corrupted, \* CorruptedChunks of the current result
          repair,    \* RepairSnapshot: "no", "first" or "second" pass
          steady     \* auxiliary: vsnap has been saved and clean since it was loaded

restoreVars == <<rpc, rid, rsnap, out, rresult>>
verifyVars == <<vpc, quick, vids, vsnap, vpos, missing, corrupted,
                repair, steady>>
recoveryVars == <<vars, restoreVars, verifyVars>>

IDs == 0 .. MaxClock

\* LoadSnapshot: the snapshot with this ID, or nothing.
LoadSnapshot(i) == {s \in snaps : s.id = i}

RecoveryInit ==
    /\ Init
    /\ rpc = "idle" /\ rid = 0 /\ rsnap = {} /\ out = <<>> /\ rresult = "none"
    /\ vpc = "idle" /\ quick = FALSE /\ vids = {} /\ vsnap = {} /\ vpos = 1
    /\ missing = {} /\ corrupted = {} /\ repair = "no" /\ steady = FALSE

-----------------------------------------------------------------------------
(* restore-agent restore <snapshot-id> <target-dir> *)

RestoreBegin(i) ==
    /\ ~up
    /\ rpc = "idle"
    /\ session + 1 < MaxSession
    /\ up' = TRUE
    /\ session' = session + 1
    /\ rpc' = "load"
    /\ rid' = i
    /\ rresult' = "none"
    /\ UNCHANGED <<repoVars, clock, backupVars, gcVars, clean, rsnap, out,
                   verifyVars>>

\* The process exits and takes its variables with it.
RestoreExit(result) ==
    /\ up' = FALSE
    /\ rpc' = "idle"
    /\ rid' = 0
    /\ rsnap' = {}
    /\ out' = <<>>
    /\ rresult' = result

RestoreLoad ==
    /\ rpc = "load"
    /\ IF LoadSnapshot(rid) = {}
       THEN RestoreExit("notfound")
       ELSE /\ rsnap' = LoadSnapshot(rid)
            /\ rpc' = "copy"
            /\ UNCHANGED <<up, rid, out, rresult>>
    /\ UNCHANGED <<repoVars, clock, session, backupVars, gcVars, clean, verifyVars>>

\* One turn of the loop over the chunks, or its end.  A chunk that cannot be
\* read ends the command with an error.
RestoreCopy ==
    /\ rpc = "copy"
    /\ \E s \in rsnap :
          IF Len(out) = Len(s.chunks)
          THEN RestoreExit("ok")
          ELSE LET data == GetChunk(s.chunks[Len(out) + 1], MasterKey)
               IN  IF data \in {Missing, OpenError}
                   THEN RestoreExit(IF data = Missing THEN "missing"
                                    ELSE "unreadable")
                   ELSE /\ out' = Append(out, data)
                        /\ UNCHANGED <<up, rpc, rid, rsnap, rresult>>
    /\ UNCHANGED <<repoVars, clock, session, backupVars, gcVars, clean, verifyVars>>

\* The target directory or the output file cannot be written, or the command
\* is interrupted.
RestoreAbort ==
    /\ rpc # "idle"
    /\ RestoreExit("aborted")
    /\ UNCHANGED <<repoVars, clock, session, backupVars, gcVars, clean, verifyVars>>

-----------------------------------------------------------------------------
(* Verifier *)

VerifyOthers == <<repoVars, processVars, backupVars, gcVars, clean, restoreVars>>

\* QuickCheck ("quick"), VerifySnapshot ("one") or RepairSnapshot ("repair") of a
\* snapshot, or VerifyAllSnapshots ("all"), which lists the snapshots and then
\* loads them again one by one.
VerifyBegin(check) ==
    /\ up /\ rpc = "idle" /\ vpc = "idle"
    /\ vids' \in IF check = "all" THEN {{s.id : s \in snaps}}
                  ELSE {{i} : i \in IDs}
    /\ quick' = (check = "quick")
    /\ repair' = IF check = "repair" THEN "first" ELSE "no"
    /\ vpc' = "load"
    /\ UNCHANGED <<VerifyOthers, vsnap, vpos, missing, corrupted, steady>>

\* The next ID, in key order; a snapshot that is gone by now is passed over.
VerifyLoad ==
    /\ vpc = "load"
    /\ \E i \in vids :
          /\ \A j \in vids : i <= j
          /\ vids' = vids \ {i}
          /\ vsnap' = LoadSnapshot(i)
          /\ steady' = (vsnap' # {} /\ i \in clean)
    /\ vpos' = 1
    /\ missing' = {}
    /\ corrupted' = {}
    /\ vpc' = IF vsnap' = {} THEN "load" ELSE "check"
    /\ UNCHANGED <<VerifyOthers, quick, repair>>

\* Fault: the test for an error of store.Get is the wrong way round.
VerifyChunkInverted(a) == IF Exists(a) THEN "missing" ELSE "ok"

\* The first half of verifyChunk: the stored bytes are read and hashed.  Only raw
\* bytes get past this; a sealed chunk never hashes to its address.
VerifyChunk(a) ==
    IF ~Exists(a) THEN "missing"
    ELSE IF Hash(blocks[a]) # a THEN "corrupted" ELSE "open"

\* Fault: the loop runs past the last chunk.
VerifyNextChunkOverrun ==
    /\ vpc = "check"
    /\ ~quick
    /\ \E s \in vsnap :
          /\ vpos <= Len(s.chunks)
          /\ vpos' = vpos + Len(s.chunks) + 1
    /\ UNCHANGED <<VerifyOthers, vpc, quick, vids, vsnap, missing, corrupted,
                   repair, steady>>

\* VerifySnapshot looks at every chunk and sorts it by what verifyChunk says.
VerifyNextChunk ==
    /\ vpc = "check"
    /\ ~quick
    /\ \E s \in vsnap :
          /\ vpos <= Len(s.chunks)
          /\ LET a == s.chunks[vpos]
                 verdict == VerifyChunk(a)
             IN  /\ missing' = IF verdict = "missing" THEN missing \cup {a}
                               ELSE missing
                 /\ corrupted' = IF verdict = "corrupted" THEN corrupted \cup {a}
                                 ELSE corrupted
                 /\ vpc' = IF verdict = "open" THEN "open" ELSE "check"
                 /\ vpos' = IF verdict = "open" THEN vpos ELSE vpos + 1
    /\ UNCHANGED <<VerifyOthers, quick, vids, vsnap, repair, steady>>

\* The second half of verifyChunk: the chunk is read again, by GetChunk, which
\* opens it.  A sweep and a backup may have come in between.
VerifyOpen ==
    /\ vpc = "open"
    /\ \E s \in vsnap :
          LET a == s.chunks[vpos]
          IN  corrupted' = IF GetChunk(a, MasterKey) \in {Missing, OpenError}
                           THEN corrupted \cup {a} ELSE corrupted
    /\ vpos' = vpos + 1
    /\ vpc' = "check"
    /\ UNCHANGED <<VerifyOthers, quick, vids, vsnap, missing, repair, steady>>

\* QuickCheck asks whether each chunk exists and returns at the first that does
\* not.
QuickNextChunk ==
    /\ vpc = "check"
    /\ quick
    /\ \E s \in vsnap :
          /\ vpos <= Len(s.chunks)
          /\ LET a == s.chunks[vpos]
             IN  /\ missing' = IF Exists(a) THEN missing ELSE {a}
                 /\ vpos' = IF Exists(a) THEN vpos + 1 ELSE Len(s.chunks) + 1
    /\ UNCHANGED <<VerifyOthers, vpc, quick, vids, vsnap, corrupted, repair, steady>>

VerifyReset ==
    /\ vsnap' = {}
    /\ vpos' = 1
    /\ missing' = {}
    /\ corrupted' = {}
    /\ steady' = FALSE

\* Every chunk has been looked at, or there is no snapshot left to load.
PassOver ==
    \/ vpc = "check" /\ \A s \in vsnap : vpos > Len(s.chunks)
    \/ vpc = "load" /\ vids = {}

\* The first pass of RepairSnapshot has found something to repair.
NeedsRepair == vpc = "check" /\ repair = "first" /\ missing \cup corrupted # {}

\* The result is returned; VerifyAllSnapshots goes on to the next snapshot.
VerifyEnd ==
    /\ PassOver
    /\ ~NeedsRepair
    /\ vpc' = IF vids = {} THEN "idle" ELSE "load"
    /\ VerifyReset
    /\ quick' = (quick /\ vids # {})
    /\ repair' = "no"
    /\ UNCHANGED <<VerifyOthers, vids>>

RepairBegin ==
    /\ PassOver
    /\ NeedsRepair
    /\ vpc' = "fetch"
    /\ UNCHANGED <<VerifyOthers, quick, vids, vsnap, vpos, missing, corrupted, repair,
                   steady>>

\* fetchFunc is called for a missing chunk; an error is only logged.  It is the
\* caller's: here the fetch of ChunkSync.  Sealed bytes that peers answer with never
\* hash to the address and are dropped; raw bytes are stored by ReceiveChunk, before
\* the fetch returns or at any other time.
RepairFetch ==
    /\ vpc = "fetch"
    /\ \E a \in missing : missing' = missing \ {a}
    /\ UNCHANGED <<VerifyOthers, vpc, quick, vids, vsnap, vpos, corrupted, repair,
                   steady>>

\* The snapshot is loaded and verified again.
RepairVerify ==
    /\ vpc = "fetch"
    /\ missing = {}
    /\ vpc' = "load"
    /\ vids' = {s.id : s \in vsnap}
    /\ repair' = "second"
    /\ VerifyReset
    /\ UNCHANGED <<VerifyOthers, quick>>

-----------------------------------------------------------------------------
\* A step of the agent beside the verifier; a process exit ends the verifier too.
VaultStep ==
    /\ rpc = "idle"
    /\ Next
    /\ IF up'
       THEN /\ steady' = (steady /\ vsnap \subseteq snaps'
                                 /\ \A s \in vsnap : s.id \in clean')
            /\ UNCHANGED <<vpc, quick, vids, vsnap, vpos, missing, corrupted, repair>>
       ELSE /\ vpc' = "idle"
            /\ quick' = FALSE
            /\ vids' = {}
            /\ repair' = "no"
            /\ VerifyReset
    /\ rresult' = "none"
    /\ UNCHANGED <<rpc, rid, rsnap, out>>

RestoreNext ==
    \/ \E i \in IDs : RestoreBegin(i)
    \/ RestoreLoad
    \/ RestoreCopy
    \/ RestoreAbort

VerifyNext ==
    \/ \E check \in Checks : VerifyBegin(check)
    \/ VerifyLoad
    \/ VerifyNextChunk
    \/ VerifyOpen
    \/ QuickNextChunk
    \/ VerifyEnd
    \/ RepairBegin
    \/ RepairFetch
    \/ RepairVerify

RecoveryNext == VaultStep \/ RestoreNext \/ VerifyNext

RecoverySpec == RecoveryInit /\ [][RecoveryNext]_recoveryVars

-----------------------------------------------------------------------------
(* Properties *)

\* Type correctness of the restore command's and the verifier's local state.
RecoveryTypeOK ==
    /\ rpc \in {"idle", "load", "copy"}
    /\ rid \in IDs
    /\ rsnap \in SUBSET Snapshot
    /\ out \in Seq(Plain)
    /\ rresult \in {"none", "notfound", "ok", "missing", "unreadable",
                   "aborted"}
    /\ vpc \in {"idle", "load", "check", "open", "fetch"}
    /\ repair \in {"no", "first", "second"}
    /\ quick \in BOOLEAN
    /\ vids \in SUBSET IDs
    /\ vsnap \in SUBSET Snapshot
    /\ vpos \in 1 .. MaxChunks + 1
    /\ missing \in SUBSET Addr
    /\ corrupted \in SUBSET Addr
    /\ steady \in BOOLEAN

\* VerifySnapshot and QuickCheck read one chunk per transaction while backups
\* save, collections expire and sweep, and peers send chunks.  They find no chunk
\* missing from a snapshot that stays in the table for as long as they look at it,
\* if no sweep overlapped its backup.  (This is about MissingChunks only: the hash
\* of a sealed chunk makes VerifySnapshot call every intact one corrupted.)
FindsNoneMissing == steady => missing = {}

\* Whatever backups, crashes, expiries and collections came before it, a restore
\* never stops at a missing chunk of a snapshot that no sweep overlapped.
RestoreFindsChunks ==
    [][rpc = "copy" /\ rresult' = "missing" => rid \notin clean]_recoveryVars

-----------------------------------------------------------------------------
(* A statement of the repository's documents that the code does not keep. *)

\* README.md:327, Restore Workflow: "Decrypt each chunk and reconstruct files."
\* A restore does not fail on a chunk when all chunks of the snapshot are stored.
RestoreReads ==
    [][rpc = "copy" /\ rresult' = "unreadable" =>
          \E s \in rsnap : \E a \in Range(s.chunks) : ~Exists(a)]_recoveryVars
=============================================================================
