--------------------------- MODULE RecoveryProofs ---------------------------
(***************************************************************************)
(* What the restore command and the verifier promise, over backups,        *)
(* collections and process exits in any order, for every value of the      *)
(* constants.                                                              *)
(***************************************************************************)
EXTENDS Recovery, VaultProofs

\* Facts about the repository that reading it back rests on: an ID names one
\* snapshot, and snapshots keep within the bounds.
StoreFacts ==
    /\ \A s, t \in snaps : s.id = t.id => s = t
    /\ clock <= MaxClock
    /\ \A b \in Backups : Len(hashes[b]) <= MaxChunks
    /\ \A s \in snaps : s.id \in IDs /\ Len(s.chunks) <= MaxChunks

\* A restore works on the saved snapshot, writes no more chunks than it has, and
\* has no verifier beside it.
RestoreFacts ==
    /\ rpc = "idle" => out = <<>>
    /\ rpc = "load" => out = <<>> /\ rresult = "none"
    /\ rpc = "copy" =>
          /\ rresult = "none"
          /\ rsnap = LoadSnapshot(rid)
          /\ \A s \in rsnap : Len(out) <= Len(s.chunks)
    /\ vpc # "idle" => up /\ rpc = "idle"

\* One snapshot is verified at a time, a chunk read a second time is one of it, and
\* what steady stands for.
VerifyFacts ==
    /\ \A s, t \in vsnap : s = t
    /\ vpc = "open" => \A s \in vsnap : vpos <= Len(s.chunks)
    /\ \A s \in vsnap : s.id \in IDs /\ Len(s.chunks) <= MaxChunks
    /\ steady => vsnap \subseteq snaps /\ \A s \in vsnap : s.id \in clean
    /\ FindsNoneMissing

RecoveryInductive ==
    Implementation /\ StoreFacts /\ RecoveryTypeOK /\ RestoreFacts /\ VerifyFacts

-----------------------------------------------------------------------------
(* The repository *)

\* Nothing is stored or saved at first.
LEMMA InitStore == Init => StoreFacts
  BY BoundsAreNumbers DEF Init, RepoInit, StoreFacts

\* The clock keeps its bound, and a process exit empties the lists of hashes.
LEMMA ProcessStore ==
  ASSUME TypeOK, StoreFacts, Tick \/ Start \/ Stop
  PROVE  StoreFacts'
  <1> USE BoundsAreNumbers DEF TypeOK, StoreFacts, Exists, repoVars, backupVars, gcVars, IDs
  <1>1. CASE Tick
    BY <1>1 DEF Tick
  <1>2. CASE Start
    BY <1>2 DEF Start
  <1>3. CASE Stop
    BY <1>3 DEF Stop
  <1> QED
    BY <1>1, <1>2, <1>3

\* SaveSnapshot replaces the snapshot with the same ID, which is a second that has
\* come.
LEMMA BackupStore ==
  ASSUME TypeOK, TimeInvariant, StoreFacts, NEW b \in Backups, BackupNext(b)
  PROVE  StoreFacts'
  <1> USE BoundsAreNumbers DEF TypeOK, repoVars, processVars, gcVars
  <1>1. CASE BackupBegin(b)
    BY <1>1 DEF BackupBegin, StoreFacts, Exists
  <1>2. ASSUME NEW plain \in Plain, BackupPut(b, plain)
        PROVE  StoreFacts'
    <2>1. \A x \in Backups : Len(hashes'[x]) <= MaxChunks
      BY <1>2, HashIsAddr DEF BackupPut, StoreFacts
    <2> QED
      BY <1>2, <2>1 DEF BackupPut, StoreFacts
  <1>3. CASE BackupStampID(b) \/ BackupStampTime(b)
    BY <1>3 DEF BackupStampID, BackupStampTime, StoreFacts, Exists
  <1>4. CASE BackupSave(b)
    <2> DEFINE snap == [id |-> id[b], ts |-> ts[b], chunks |-> hashes[b]]
    <2>1. snaps' = {s \in snaps : s.id # snap.id} \cup {snap}
      BY <1>4, Zenon DEF BackupSave, SaveSnapshot
    <2>2. snap.id \in IDs /\ Len(snap.chunks) <= MaxChunks
      BY <1>4 DEF BackupSave, TimeInvariant, StoreFacts, IDs
    <2>3. /\ \A s, t \in snaps' : s.id = t.id => s = t
          /\ \A s \in snaps' : s.id \in IDs /\ Len(s.chunks) <= MaxChunks
      <3> HIDE DEF snap
      <3> QED
        BY <2>1, <2>2 DEF StoreFacts
    <2>4. \A x \in Backups : Len(hashes'[x]) <= MaxChunks
      BY <1>4 DEF BackupSave, BackupReset, StoreFacts
    <2> QED
      BY <1>4, <2>3, <2>4 DEF BackupSave, StoreFacts, Exists
  <1>5. CASE BackupFail(b)
    BY <1>5 DEF BackupFail, BackupReset, StoreFacts, Exists
  <1> QED
    BY <1>1, <1>2, <1>3, <1>4, <1>5 DEF BackupNext

\* A collection only takes away.
LEMMA GcStore ==
  ASSUME TypeOK, StoreFacts, NEW c \in Collectors, GcNext(c)
  PROVE  StoreFacts'
  <1>1. hashes' = hashes /\ clock' = clock /\ snaps' \subseteq snaps
    BY Zenon DEF GcNext, GcBegin, GcListExpired, GcExpire, GcMark, GcListChunks, GcGet,
           GcDelete, GcDone, GcFail, GcReset, DeleteSnapshot, repoVars, processVars,
           backupVars
  <1> QED
    BY <1>1, SMTT(30) DEF StoreFacts

\* So every step of Vault keeps these facts.
LEMMA StoreStep ==
  ASSUME Implementation, StoreFacts, [Next]_vars
  PROVE  StoreFacts'
  <1>1. TypeOK /\ TimeInvariant
    BY DEF Implementation, Inductive
  <1>2. CASE Next
    <2>1. ASSUME NEW plain \in Plain, ReceiveChunk(plain) PROVE StoreFacts'
      BY <2>1 DEF ReceiveChunk, StoreFacts, processVars, backupVars
    <2> QED
      BY <1>1, <1>2, <2>1, ProcessStore, BackupStore, GcStore DEF Next
  <1>3. CASE UNCHANGED vars
    BY <1>3 DEF vars, repoVars, processVars, backupVars, gcVars, StoreFacts, Exists
  <1> QED
    BY <1>2, <1>3

\* What a restore changes of Vault's state, the process and its key, matters to
\* neither invariant.
LEMMA OtherProcess ==
  ASSUME Implementation, StoreFacts, up' \in BOOLEAN, session' \in Nat,
         UNCHANGED <<repoVars, clock, backupVars, gcVars, clean>>
  PROVE  Implementation' /\ StoreFacts'
  <1> USE DEF repoVars, backupVars, gcVars
  <1>1. TypeOK'
    BY DEF Implementation, Inductive, TypeOK
  <1>2. CleanSnapshotsComplete' /\ SweepInvariant'
    BY DEF Implementation, Inductive, CleanSnapshotsComplete, SweepInvariant,
           UntouchedBackups, MarksCoverClean, VictimsUnmarked, InFlight, Sweeping, Exists
  <1>3. TimeInvariant' /\ StoreFacts'
    BY DEF Implementation, TimeInvariant, StoreFacts, Exists
  <1> QED
    BY <1>1, <1>2, <1>3 DEF Implementation, Inductive

-----------------------------------------------------------------------------
(* The restore command *)

\* No step of a restore is one of the repository's or of the verifier's.
LEMMA RestoreLeaves ==
  ASSUME RecoveryInductive, RestoreNext
  PROVE  /\ Implementation' /\ StoreFacts'
         /\ VerifyFacts'
         /\ UNCHANGED <<repoVars, clean, verifyVars>>
  <1>1. UNCHANGED <<repoVars, clock, backupVars, gcVars, clean, verifyVars>>
    BY DEF RestoreNext, RestoreBegin, RestoreLoad, RestoreCopy, RestoreAbort
  <1>2. session \in Nat /\ up \in BOOLEAN
    BY DEF RecoveryInductive, Implementation, Inductive, TypeOK
  <1>3. session' \in Nat
    BY <1>2 DEF RestoreNext, RestoreBegin, RestoreLoad, RestoreCopy, RestoreAbort
  <1>4. up' \in BOOLEAN
    BY <1>2, Zenon DEF RestoreNext, RestoreBegin, RestoreLoad, RestoreCopy, RestoreAbort,
                       RestoreExit
  <1>5. Implementation' /\ StoreFacts'
    BY <1>1, <1>3, <1>4, OtherProcess DEF RecoveryInductive
  <1>6. VerifyFacts'
    BY <1>1 DEF RecoveryInductive, VerifyFacts, FindsNoneMissing, verifyVars, repoVars
  <1> QED
    BY <1>1, <1>5, <1>6

\* What GetChunk returns for a chunk of a saved snapshot: a content or an error;
\* and no chunk of a clean snapshot is missing.
LEMMA GetChunkFinds ==
  ASSUME Implementation, StoreFacts, NEW s \in snaps, NEW n \in 1 .. Len(s.chunks), NEW k
  PROVE  LET a == s.chunks[n]
             data == GetChunk(a, k)
         IN  /\ data \notin {Missing, OpenError} => data \in Plain
             /\ s.id \in clean => data # Missing
  <1> DEFINE a == s.chunks[n]
  <1>1. s.chunks \in Seq(Addr) /\ a \in Addr
    BY DEF Implementation, Inductive, TypeOK, Snapshot
  <1>2. blocks[a] \in Sealed => blocks[a].plain \in Plain
    BY DEF Sealed
  <1>3. s.id \in clean => Exists(a)
    BY <1>1, SMTT(30) DEF Implementation, Inductive, CleanSnapshotsComplete, Range
  <1> QED
    BY <1>2, <1>3, ValuesDistinct DEF GetChunk, Decrypt

\* A restore goes from its begin over the chunks to an exit.
LEMMA RestorePreserves ==
  ASSUME RecoveryInductive, RestoreNext
  PROVE  RecoveryInductive'
  <1>1. /\ Implementation' /\ StoreFacts' /\ VerifyFacts'
        /\ UNCHANGED <<repoVars, clean, verifyVars>>
    BY RestoreLeaves
  <1> USE DEF RecoveryInductive, RestoreFacts, RecoveryTypeOK, verifyVars, repoVars,
              LoadSnapshot
  <1>2. <<>> \in Seq(Plain) /\ 0 \in IDs
    BY BoundsAreNumbers DEF IDs
  <1>3. ASSUME NEW result,
               result \in {"notfound", "ok", "missing", "unreadable", "aborted"},
               RestoreExit(result), rpc # "idle"
        PROVE  RecoveryInductive'
    BY <1>1, <1>2, <1>3 DEF RestoreExit
  <1>4. ASSUME NEW i \in IDs, RestoreBegin(i)
        PROVE  RecoveryInductive'
    BY <1>1, <1>4, SMTT(30) DEF RestoreBegin
  <1>5. CASE RestoreLoad
    <2>1. CASE LoadSnapshot(rid) = {}
      BY <1>3, <1>5, <2>1 DEF RestoreLoad
    <2>2. CASE LoadSnapshot(rid) # {}
      <3>1. LoadSnapshot(rid) \subseteq Snapshot
        BY DEF Implementation, Inductive, TypeOK
      <3>2. \A s \in LoadSnapshot(rid) : Len(s.chunks) \in Nat
        BY <3>1 DEF Snapshot
      <3>3. /\ rpc = "load" /\ rpc' = "copy" /\ rsnap' = LoadSnapshot(rid)
            /\ UNCHANGED <<up, rid, out, rresult>>
        BY <1>5, <2>2 DEF RestoreLoad
      <3>4. Len(out) = 0 /\ LoadSnapshot(rid)' = LoadSnapshot(rid)
        BY <1>1, <3>3
      <3>5. RestoreFacts'
        BY <1>1, <3>2, <3>3, <3>4, SMTT(30)
      <3> QED
        BY <1>1, <3>1, <3>3, <3>5
    <2> QED
      BY <2>1, <2>2
  <1>6. CASE RestoreCopy
    <2>1. PICK s \in rsnap :
             IF Len(out) = Len(s.chunks) THEN RestoreExit("ok")
             ELSE LET data == GetChunk(s.chunks[Len(out) + 1], MasterKey)
                  IN  IF data \in {Missing, OpenError}
                      THEN RestoreExit(IF data = Missing THEN "missing" ELSE "unreadable")
                      ELSE /\ out' = Append(out, data)
                           /\ UNCHANGED <<up, rpc, rid, rsnap, rresult>>
      BY <1>6 DEF RestoreCopy
    <2> DEFINE data == GetChunk(s.chunks[Len(out) + 1], MasterKey)
    <2>2. rpc = "copy" /\ s \in snaps
      BY <1>6 DEF RestoreCopy
    <2>3. CASE Len(out) = Len(s.chunks)
      BY <1>3, <2>1, <2>2, <2>3
    <2>4. CASE Len(out) # Len(s.chunks) /\ data \in {Missing, OpenError}
      BY <1>3, <2>1, <2>2, <2>4
    <2>5. CASE Len(out) # Len(s.chunks) /\ data \notin {Missing, OpenError}
      <3>1. Len(out) + 1 \in 1 .. Len(s.chunks)
        BY <2>2, <2>5 DEF Implementation, Inductive, TypeOK, Snapshot
      <3>2. data \in Plain
        BY <2>2, <2>5, <3>1, GetChunkFinds
      <3>3. /\ out' = Append(out, data)
            /\ UNCHANGED <<up, rpc, rid, rsnap, rresult>>
        BY <2>1, <2>5
      <3>4. \A t \in rsnap : t = s
        BY <2>2 DEF StoreFacts
      <3> HIDE DEF data
      <3>5. out' \in Seq(Plain) /\ Len(out') = Len(out) + 1
        BY <3>2, <3>3
      <3>6. RestoreFacts'
        BY <1>1, <2>2, <3>1, <3>3, <3>4, <3>5
      <3> QED
        BY <1>1, <3>3, <3>5, <3>6, SMTT(30)
    <2> QED
      BY <2>3, <2>4, <2>5, SMTT(30)
  <1>7. CASE RestoreAbort
    BY <1>3, <1>7 DEF RestoreAbort
  <1> QED
    BY <1>4, <1>5, <1>6, <1>7 DEF RestoreNext

-----------------------------------------------------------------------------
(* The verifier *)

\* The verifier writes nothing that others read.
LEMMA VerifyLeaves ==
  ASSUME RecoveryInductive, VerifyNext
  PROVE  /\ Implementation' /\ StoreFacts'
         /\ UNCHANGED <<vars, restoreVars>>
  <1>1. UNCHANGED <<vars, restoreVars>>
    BY SMTT(30) DEF VerifyNext, VerifyBegin, VerifyLoad, VerifyNextChunk, VerifyOpen,
           QuickNextChunk,
           VerifyEnd, RepairBegin, RepairFetch, RepairVerify, VerifyOthers, vars
  <1> QED
    BY <1>1, ImplementationStep, StoreStep, SMTT(30) DEF RecoveryInductive

\* VerifyBegin picks IDs, and VerifyLoad loads the snapshot of the least one.
LEMMA VerifyLoadPreserves ==
  ASSUME RecoveryInductive, VerifyLoad \/ \E check \in Checks : VerifyBegin(check)
  PROVE  RecoveryInductive'
  <1>1. /\ Implementation' /\ StoreFacts'
        /\ UNCHANGED <<vars, restoreVars>>
    BY VerifyLeaves, SMTT(30) DEF VerifyNext
  <1> USE BoundsAreNumbers
      DEF RecoveryInductive, RestoreFacts, RecoveryTypeOK, restoreVars, repoVars,
          processVars, vars, LoadSnapshot, VerifyFacts, FindsNoneMissing
  <1>2. snaps \subseteq Snapshot /\ \A s \in snaps : s.id \in IDs
    BY Zenon DEF Implementation, Inductive, TypeOK, StoreFacts
  <1>3. ASSUME NEW check \in Checks, VerifyBegin(check)
        PROVE  RecoveryInductive'
    <2>1. vids' \in SUBSET IDs
      BY <1>2, <1>3 DEF VerifyBegin
    <2>2. quick' \in BOOLEAN
      BY <1>3, SMTT(30) DEF VerifyBegin
    <2> QED
      BY <1>1, <1>3, <2>1, <2>2, SMTT(30) DEF VerifyBegin
  <1>4. CASE VerifyLoad
    <2>1. PICK i \in vids : /\ vids' = vids \ {i}
                            /\ vsnap' = LoadSnapshot(i)
                            /\ steady' = (vsnap' # {} /\ i \in clean)
      BY <1>4 DEF VerifyLoad
    <2>2. steady' \in BOOLEAN
      BY <2>1, Zenon
    <2>3. vpos' = 1 /\ missing' = {} /\ corrupted' = {} /\ vpc # "idle"
      BY <1>4, SMTT(30) DEF VerifyLoad
    <2>4. vpc' # "open"
      BY <1>4, SMTT(30) DEF VerifyLoad
    <2>5. VerifyFacts'
      BY <1>1, <1>2, <2>1, <2>3, <2>4, Zenon DEF StoreFacts
    <2> QED
      BY <1>1, <1>2, <1>4, <2>1, <2>2, <2>3, <2>5, SMTT(30) DEF VerifyLoad
  <1> QED
    BY <1>3, <1>4, Zenon

\* A chunk of a snapshot that is steady exists, so neither verifyChunk nor
\* QuickCheck finds it missing.
LEMMA VerifyChunkPreserves ==
  ASSUME RecoveryInductive, VerifyNextChunk \/ VerifyOpen \/ QuickNextChunk
  PROVE  RecoveryInductive'
  <1>1. /\ Implementation' /\ StoreFacts'
        /\ UNCHANGED <<vars, restoreVars>>
    BY VerifyLeaves DEF VerifyNext
  <1>2. PICK s \in vsnap :
          /\ vpos <= Len(s.chunks) /\ vpc' \in {"check", "open"}
          /\ missing' \subseteq missing \cup {s.chunks[vpos]}
          /\ Exists(s.chunks[vpos]) => missing' \subseteq missing
          /\ corrupted' \subseteq corrupted \cup {s.chunks[vpos]}
          /\ vpos' \in {vpos, vpos + 1, Len(s.chunks) + 1}
          /\ vpc' = "open" => vpos' = vpos
    BY ZenonT(30)
    DEF VerifyNextChunk, VerifyOpen, QuickNextChunk, VerifyChunk, RecoveryInductive,
        VerifyFacts
  <1>3. UNCHANGED <<quick, vids, vsnap, repair, steady>> /\ vpc # "idle"
    BY Zenon DEF VerifyNextChunk, VerifyOpen, QuickNextChunk
  <1> USE BoundsAreNumbers
      DEF RecoveryInductive, RestoreFacts, RecoveryTypeOK, restoreVars, repoVars,
          processVars, vars, LoadSnapshot, VerifyFacts, FindsNoneMissing
  <1>4. s \in Snapshot /\ Len(s.chunks) <= MaxChunks
    OBVIOUS
  <1>5. vpos \in 1 .. Len(s.chunks) /\ s.chunks[vpos] \in Addr /\ Len(s.chunks) \in Nat
    BY <1>2, <1>4 DEF Snapshot
  <1>6. vpos' \in 1 .. MaxChunks + 1
    BY <1>2, <1>4, <1>5, SMTT(30)
  <1>7. missing' \in SUBSET Addr /\ corrupted' \in SUBSET Addr
    BY <1>2, <1>5
  <1>8. steady => Exists(s.chunks[vpos])
    <2>1. s.chunks[vpos] \in Range(s.chunks)
      BY <1>4, <1>5 DEF Range, Snapshot
    <2> QED
      BY <2>1 DEF Implementation, Inductive, CleanSnapshotsComplete
  <1>9. VerifyFacts'
    <2>1. steady => missing' = {}
      BY <1>2, <1>8, SMTT(30)
    <2>2. vpc' = "open" => \A t \in vsnap' : vpos' <= Len(t.chunks)
      BY <1>2, <1>3, Zenon
    <2> QED
      BY <1>1, <1>3, <2>1, <2>2, Zenon
  <1>10. vpc' \in {"idle", "load", "check", "open", "fetch"} /\ (vpc' # "idle" => vpc # "idle")
    BY <1>2, <1>3, SMTT(30)
  <1> QED
    BY <1>1, <1>3, <1>6, <1>7, <1>9, <1>10

\* The end of a pass, and the fetches of RepairSnapshot, find nothing.
LEMMA VerifyEndPreserves ==
  ASSUME RecoveryInductive, VerifyEnd \/ RepairBegin \/ RepairFetch \/ RepairVerify
  PROVE  RecoveryInductive'
  <1>1. /\ Implementation' /\ StoreFacts'
        /\ UNCHANGED <<vars, restoreVars>>
    BY VerifyLeaves DEF VerifyNext
  <1> USE BoundsAreNumbers
      DEF RecoveryInductive, RestoreFacts, RecoveryTypeOK, restoreVars, repoVars,
          processVars, vars, LoadSnapshot, VerifyFacts, FindsNoneMissing
  <1>2. ASSUME VerifyReset
        PROVE  /\ VerifyFacts'
               /\ vsnap' \in SUBSET Snapshot /\ vpos' \in 1 .. MaxChunks + 1
               /\ missing' \in SUBSET Addr /\ corrupted' \in SUBSET Addr
               /\ steady' \in BOOLEAN
    <2>1. steady' \in BOOLEAN
      BY <1>2, ZenonT(30) DEF VerifyReset
    <2> QED
      BY <1>2, <2>1 DEF VerifyReset
  <1>3. CASE VerifyEnd
    <2>1. quick' \in BOOLEAN
      BY <1>3, ZenonT(30) DEF VerifyEnd
    <2> QED
      BY <1>1, <1>2, <1>3, <2>1 DEF VerifyEnd, PassOver
  <1>4. CASE RepairBegin
    BY <1>1, <1>4, SMTT(30) DEF RepairBegin, PassOver
  <1>5. CASE RepairFetch
    BY <1>1, <1>5, SMTT(30) DEF RepairFetch
  <1>6. CASE RepairVerify
    BY <1>1, <1>2, <1>6, SMTT(30) DEF RepairVerify
  <1> QED
    BY <1>3, <1>4, <1>5, <1>6, Zenon

-----------------------------------------------------------------------------
(* The whole system *)

\* A step of the agent beside the verifier keeps steady for as long as it is true,
\* and a process exit ends the verifier.
LEMMA VaultStepPreserves ==
  ASSUME RecoveryInductive, VaultStep
  PROVE  RecoveryInductive'
  <1>1. Implementation' /\ StoreFacts'
    BY ImplementationStep, StoreStep DEF RecoveryInductive, VaultStep
  <1> USE BoundsAreNumbers
      DEF RecoveryInductive, RestoreFacts, RecoveryTypeOK, VerifyFacts, FindsNoneMissing
  <1>2. /\ rpc = "idle" /\ rresult' = "none"
        /\ UNCHANGED <<rpc, rid, rsnap, out>>
    BY DEF VaultStep
  <1>3. CASE up'
    <2>1. /\ steady' = (steady /\ vsnap \subseteq snaps'
                               /\ \A s \in vsnap : s.id \in clean')
          /\ UNCHANGED <<vpc, quick, vids, vsnap, vpos, missing, corrupted, repair>>
      BY <1>3, SMTT(30) DEF VaultStep
    <2>2. steady' \in BOOLEAN
      BY <2>1
    <2>3. VerifyFacts'
      BY <2>1, Zenon
    <2> QED
      BY <1>1, <1>2, <1>3, <2>1, <2>2, <2>3, SMTT(30)
  <1>4. CASE ~up'
    <2>1. /\ vpc' = "idle" /\ vids' = {} /\ repair' = "no" /\ vsnap' = {} /\ vpos' = 1
          /\ missing' = {} /\ corrupted' = {} /\ steady' = FALSE /\ quick' = FALSE
      BY <1>4 DEF VaultStep, VerifyReset
    <2>2. steady' \in BOOLEAN /\ quick' \in BOOLEAN
      BY <2>1, Zenon
    <2> QED
      BY <1>1, <1>2, <2>1, <2>2
  <1> QED
    BY <1>3, <1>4

\* The invariant of reading back is inductive.
LEMMA RecoveryStep ==
  ASSUME RecoveryInductive, [RecoveryNext]_recoveryVars
  PROVE  RecoveryInductive'
  <1>1. CASE VaultStep
    BY <1>1, VaultStepPreserves
  <1>2. CASE RestoreNext
    BY <1>2, RestorePreserves
  <1>3. CASE VerifyNext
    BY <1>3, VerifyLoadPreserves, VerifyChunkPreserves, VerifyEndPreserves, SMTT(30)
    DEF VerifyNext
  <1>4. CASE UNCHANGED recoveryVars
    <2>1. Implementation' /\ StoreFacts'
      BY <1>4, ImplementationStep, StoreStep DEF recoveryVars, RecoveryInductive
    <2> QED
      BY <1>4, <2>1
      DEF recoveryVars, vars, repoVars, processVars, restoreVars, verifyVars,
          RecoveryInductive, RestoreFacts, RecoveryTypeOK, VerifyFacts, FindsNoneMissing,
          LoadSnapshot
  <1> QED
    BY <1>1, <1>2, <1>3, <1>4 DEF RecoveryNext

\* It holds in every reachable state.
LEMMA RecoveryHolds == RecoverySpec => []RecoveryInductive
  <1>1. RecoveryInit => RecoveryInductive
    <2> SUFFICES ASSUME RecoveryInit PROVE RecoveryInductive
      OBVIOUS
    <2>1. Implementation /\ StoreFacts
      BY InitTypeOK, InitInductive, InitTime, InitStore
      DEF RecoveryInit, Implementation, Inductive
    <2>2. quick \in BOOLEAN /\ steady \in BOOLEAN
      BY Zenon DEF RecoveryInit
    <2>3. <<>> \in Seq(Plain) /\ 0 \in IDs /\ 1 \in 1 .. MaxChunks + 1
      BY BoundsAreNumbers DEF IDs
    <2> QED
      BY <2>1, <2>2, <2>3
      DEF RecoveryInit, RecoveryInductive, RestoreFacts, RecoveryTypeOK, VerifyFacts,
          FindsNoneMissing
  <1>2. RecoveryInductive /\ [RecoveryNext]_recoveryVars => RecoveryInductive'
    BY RecoveryStep
  <1> QED
    BY <1>1, <1>2, PTL DEF RecoverySpec

\* The local state of the restore command and of the verifier is well typed; no
\* position runs past a snapshot's last chunk by more than one.
THEOREM RecoveryTypeCorrect == RecoverySpec => []RecoveryTypeOK
  BY RecoveryHolds, PTL DEF RecoveryInductive

\* VerifySnapshot and QuickCheck find no chunk of a clean snapshot missing beside
\* backups, expiries, sweeps and what peers send.
THEOREM VerifierTrustworthy == RecoverySpec => []FindsNoneMissing
  BY RecoveryHolds, PTL DEF RecoveryInductive, VerifyFacts

-----------------------------------------------------------------------------
(* Action properties *)

\* A restore in its loop ends only by its own step, and reports what it found.
LEMMA RestoreReports ==
  ASSUME RecoveryInductive, RecoveryNext, rpc = "copy", rresult' \in {"missing", "ok"}
  PROVE  \E s \in rsnap :
            /\ s \in snaps /\ s.id = rid
            /\ rresult' = "ok" => Len(out) = Len(s.chunks)
            /\ rresult' = "missing" =>
                  /\ Len(out) + 1 \in 1 .. Len(s.chunks)
                  /\ GetChunk(s.chunks[Len(out) + 1], MasterKey) = Missing
  <1> USE DEF RecoveryInductive, RestoreFacts
  <1>1. RestoreCopy
    <2>1. ~VaultStep /\ rresult = "none"
      BY ZenonT(30) DEF VaultStep
    <2>2. ~VerifyNext
      BY <2>1, VerifyLeaves, SMTT(30) DEF restoreVars
    <2> QED
      BY <2>1, <2>2, SMTT(30)
      DEF RecoveryNext, RestoreNext, RestoreBegin, RestoreLoad, RestoreAbort,
          RestoreExit
  <1>2. PICK s \in rsnap :
           IF Len(out) = Len(s.chunks) THEN RestoreExit("ok")
           ELSE LET data == GetChunk(s.chunks[Len(out) + 1], MasterKey)
                IN  IF data \in {Missing, OpenError}
                    THEN RestoreExit(IF data = Missing THEN "missing" ELSE "unreadable")
                    ELSE /\ out' = Append(out, data)
                         /\ UNCHANGED <<up, rpc, rid, rsnap, rresult>>
    BY <1>1 DEF RestoreCopy
  <1>3. s \in snaps /\ s.id = rid /\ Len(out) <= Len(s.chunks)
    BY DEF LoadSnapshot
  <1>4. Len(out) \in Nat /\ Len(s.chunks) \in Nat
    BY <1>3 DEF RecoveryTypeOK, Implementation, Inductive, TypeOK, Snapshot
  <1> QED
    BY <1>2, <1>3, <1>4 DEF RestoreExit

\* A restore never stops at a missing chunk of a snapshot whose backup no sweep
\* overlapped.
THEOREM RestoreFinds == RecoverySpec => RestoreFindsChunks
  <1> DEFINE Finds == rpc = "copy" /\ rresult' = "missing" => rid \notin clean
  <1>1. RecoveryInductive /\ [RecoveryNext]_recoveryVars => [Finds]_recoveryVars
    <2> SUFFICES ASSUME RecoveryInductive, RecoveryNext, rpc = "copy",
                        rresult' = "missing"
                 PROVE  rid \notin clean
      OBVIOUS
    <2> QED
      BY RestoreReports, GetChunkFinds DEF RecoveryInductive
  <1> QED
    BY <1>1, RecoveryHolds, PTL DEF RecoverySpec, RestoreFindsChunks

\* A restore or a verification leaves the store, the table and the marks alone.
LEMMA ReadingLeaves ==
  ASSUME RecoveryInductive, RestoreNext \/ VerifyNext
  PROVE  UNCHANGED <<blocks, snaps, clean, clock>>
  <1>1. CASE RestoreNext
    BY <1>1, Zenon
    DEF RestoreNext, RestoreBegin, RestoreLoad, RestoreCopy, RestoreAbort, repoVars
  <1>2. CASE VerifyNext
    BY <1>2, VerifyLeaves DEF vars, repoVars, processVars
  <1> QED
    BY <1>1, <1>2, SMTT(30)

\* A snapshot that can be read under a key, and whose backup no sweep overlapped,
\* can be read under it for as long as it is in the table: later processes with
\* their own keys, restores and sweeps included, until the raw bytes of a peer take
\* the place of one of its chunks.
THEOREM ReadableForGood == RecoverySpec => ReadableStays
  <1>1. RecoveryInductive /\ [RecoveryNext]_recoveryVars => [ReadableKept]_vars
    <2> SUFFICES ASSUME RecoveryInductive, RecoveryNext PROVE ReadableKept
      BY DEF recoveryVars
    <2>1. CASE VaultStep
      BY <2>1, ReadableStep DEF VaultStep, RecoveryInductive
    <2>2. CASE RestoreNext \/ VerifyNext
      BY <2>2, ReadingLeaves, SameChunksRead DEF ReadableKept
    <2> QED
      BY <2>1, <2>2 DEF RecoveryNext
  <1> QED
    BY <1>1, RecoveryHolds, PTL DEF RecoverySpec, ReadableStays, ReadableKept

\* Restores, verifications and repairs beside backups and collections still implement
\* the abstract repository but for the names: they are steps it does not see.
THEOREM ImplementsWithReaders == RecoverySpec => ImplementsButForNames
  <1>1. RecoveryInit => Abstract!ArchiveInit
    BY DEF RecoveryInit, Init, RepoInit, ListAll, Exists, Abstract!ArchiveInit
  <1>2. RecoveryInductive /\ [RecoveryNext]_recoveryVars
          => [Abstract!ReplacingNext]_(Abstract!archiveVars)
    <2> SUFFICES ASSUME RecoveryInductive, [RecoveryNext]_recoveryVars PROVE ArchiveStep
      BY DEF ArchiveStep
    <2>1. CASE VaultStep
      BY <2>1, ProcessSimulates, ReceiveSimulates, BackupSimulates, GcSimulates
      DEF VaultStep, Next, RecoveryInductive
    <2>2. CASE RestoreNext \/ VerifyNext
      BY <2>2, ReadingLeaves, SameBlocks DEF ArchiveStep, Abstract!archiveVars
    <2>3. CASE UNCHANGED recoveryVars
      BY <2>3, SameBlocks
      DEF recoveryVars, vars, repoVars, processVars, ArchiveStep, Abstract!archiveVars
    <2> QED
      BY <2>1, <2>2, <2>3 DEF RecoveryNext
  <1> QED
    BY <1>1, <1>2, RecoveryHolds, PTL
    DEF RecoverySpec, ImplementsButForNames, Abstract!ReplacingSpec

=============================================================================
