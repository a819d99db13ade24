----------------------------- MODULE VaultProofs -----------------------------
(***************************************************************************)
(* Proofs about Vault, for every set of chunks, backups and collectors and *)
(* every value of the bounds: its safety, and that it implements Archive.  *)
(***************************************************************************)
EXTENDS Vault, TLAPS

\* Every hash of a chunk is an address.
LEMMA HashIsAddr == \A p \in Plain : Hash(p) \in Addr
  BY DEF Addr

\* The chunks of a sequence of addresses are addresses.
LEMMA RangeOfAddrs == \A q \in Seq(Addr) : Range(q) \subseteq Addr
  BY DEF Range

\* Appending an address to a sequence adds exactly that address to its range.
LEMMA RangeOfAppend ==
  ASSUME NEW q \in Seq(Addr), NEW a \in Addr
  PROVE  Range(Append(q, a)) = Range(q) \cup {a}
  <1> DEFINE r == Append(q, a)
  <1>1. /\ DOMAIN r = 1 .. Len(q) + 1
        /\ DOMAIN q = 1 .. Len(q)
        /\ Len(q) \in Nat
        /\ r[Len(q) + 1] = a
        /\ \A i \in 1 .. Len(q) : r[i] = q[i]
    OBVIOUS
  <1>2. Range(r) \subseteq Range(q) \cup {a}
    BY <1>1 DEF Range
  <1>3. Range(q) \subseteq Range(r) /\ a \in Range(r)
    BY <1>1 DEF Range
  <1> QED
    BY <1>2, <1>3

-----------------------------------------------------------------------------
(* Type correctness *)

\* An empty repository and idle goroutines are well typed.
LEMMA InitTypeOK == Init => TypeOK
  <1> SUFFICES ASSUME Init PROVE TypeOK
    OBVIOUS
  <1>1. blocks \in [Addr -> Sealed \cup Plain \cup {Missing}] /\ snaps \in SUBSET Snapshot
    BY DEF Init, RepoInit
  <1>2. hashes \in [Backups -> Seq(Addr)]
    <2>1. <<>> \in Seq(Addr)
      OBVIOUS
    <2> QED
      BY <2>1 DEF Init
  <1>3. up \in BOOLEAN /\ overlap \in [Backups -> BOOLEAN]
    BY Zenon DEF Init
  <1>4. /\ id \in [Backups -> Int] /\ ts \in [Backups -> Int]
        /\ bpc \in [Backups -> {"idle", "walk", "stamp", "save"}]
    BY DEF Init
  <1>5. /\ expired \in [Collectors -> SUBSET Int]
        /\ referenced \in [Collectors -> SUBSET Addr]
        /\ todo \in [Collectors -> SUBSET Addr]
        /\ victim \in [Collectors -> Addr \cup {Missing}]
    BY DEF Init
  <1> QED
    BY <1>1, <1>2, <1>3, <1>4, <1>5 DEF Init, TypeOK

\* A tick, a process start and a process exit keep every variable in its type.
LEMMA ProcessTypeOK ==
  ASSUME TypeOK, Tick \/ Start \/ Stop
  PROVE  TypeOK'
  <1>1. CASE Tick
    BY <1>1 DEF TypeOK, Tick, repoVars, backupVars, gcVars
  <1>2. CASE Start
    BY <1>2 DEF TypeOK, Start, repoVars, backupVars, gcVars
  <1>3. CASE Stop
    <2>1. hashes' \in [Backups -> Seq(Addr)]
      <3>1. <<>> \in Seq(Addr)
        OBVIOUS
      <3> QED
        BY <1>3, <3>1 DEF Stop
    <2>2. up' \in BOOLEAN /\ overlap' \in [Backups -> BOOLEAN]
      BY <1>3, Zenon DEF Stop
    <2>3. /\ expired' \in [Collectors -> SUBSET Int]
          /\ referenced' \in [Collectors -> SUBSET Addr]
          /\ todo' \in [Collectors -> SUBSET Addr]
          /\ victim' \in [Collectors -> Addr \cup {Missing}]
      BY <1>3 DEF Stop
    <2> QED
      BY <1>3, <2>1, <2>2, <2>3 DEF TypeOK, Stop, repoVars
  <1> QED
    BY <1>1, <1>2, <1>3

\* So does storing the bytes of a peer.
LEMMA ReceiveTypeOK ==
  ASSUME TypeOK, NEW plain \in Plain, ReceiveChunk(plain)
  PROVE  TypeOK'
  <1>1. blocks' \in [Addr -> Sealed \cup Plain \cup {Missing}]
    BY HashIsAddr DEF TypeOK, ReceiveChunk, Put
  <1> QED
    BY <1>1 DEF TypeOK, ReceiveChunk, processVars, backupVars, gcVars

\* So does every step of CreateAndSaveSnapshot.
LEMMA BackupTypeOK ==
  ASSUME TypeOK, NEW b \in Backups, BackupNext(b)
  PROVE  TypeOK'
  <1> USE DEF TypeOK, repoVars, processVars, gcVars
  <1>1. CASE BackupBegin(b)
    BY <1>1 DEF BackupBegin
  <1>2. ASSUME NEW plain \in Plain, BackupPut(b, plain)
        PROVE  TypeOK'
    <2>1. blocks' \in [Addr -> Sealed \cup Plain \cup {Missing}]
      BY <1>2, HashIsAddr DEF BackupPut, PutChunk, Encrypt, Sealed, MasterKey
    <2>2. hashes' \in [Backups -> Seq(Addr)]
      BY <1>2, HashIsAddr DEF BackupPut
    <2> QED
      BY <1>2, <2>1, <2>2 DEF BackupPut
  <1>3. CASE BackupStampID(b)
    BY <1>3 DEF BackupStampID
  <1>4. CASE BackupStampTime(b)
    BY <1>4 DEF BackupStampTime
  <1>5. CASE BackupSave(b)
    <2>1. [id |-> id[b], ts |-> ts[b], chunks |-> hashes[b]] \in Snapshot
      BY DEF Snapshot
    <2>2. snaps' \in SUBSET Snapshot
      BY <1>5, <2>1 DEF BackupSave, SaveSnapshot
    <2>3. clean' \in SUBSET Int
      BY <1>5, ZenonT(30) DEF BackupSave
    <2> QED
      BY <1>5, <2>2, <2>3 DEF BackupSave, BackupReset
  <1>6. CASE BackupFail(b)
    BY <1>6 DEF BackupFail, BackupReset
  <1> QED
    BY <1>1, <1>2, <1>3, <1>4, <1>5, <1>6, SMTT(30) DEF BackupNext

\* So does every step of Collector.Run.
LEMMA GcTypeOK ==
  ASSUME TypeOK, NEW c \in Collectors, GcNext(c)
  PROVE  TypeOK'
  <1> USE DEF TypeOK, repoVars, processVars, backupVars
  <1>1. CASE GcBegin(c)
    <2>1. PICK fraction \in {0, 1} :
             cutoff' = [cutoff EXCEPT ![c] = clock - Retention + fraction]
      BY <1>1, Zenon DEF GcBegin
    <2>2. cutoff' \in [Collectors -> Int]
      BY <2>1, BoundsAreNumbers
    <2> QED
      BY <1>1, <2>2 DEF GcBegin
  <1>2. CASE GcListExpired(c)
    <2>1. {s.id : s \in {t \in snaps : t.ts < cutoff[c]}} \in SUBSET Int
      BY DEF Snapshot
    <2> QED
      BY <1>2, <2>1 DEF GcListExpired
  <1>3. CASE GcExpire(c)
    <2>1. snaps' \in SUBSET Snapshot /\ clean' \in SUBSET Int
      BY <1>3, Zenon DEF GcExpire, DeleteSnapshot
    <2>2. expired' \in [Collectors -> SUBSET Int]
      BY <1>3 DEF GcExpire
    <2> QED
      BY <1>3, <2>1, <2>2 DEF GcExpire
  <1>4. CASE GcMark(c)
    <2>1. ReferencedBy(snaps) \in SUBSET Addr
      BY RangeOfAddrs DEF ReferencedBy, Snapshot
    <2>2. overlap' \in [Backups -> BOOLEAN]
      BY <1>4 DEF GcMark, InFlight
    <2> QED
      BY <1>4, <2>1, <2>2 DEF GcMark
  <1>5. CASE GcListChunks(c)
    BY <1>5 DEF GcListChunks, ListAll
  <1>6. ASSUME NEW a \in Addr, GcGet(c, a)
        PROVE  TypeOK'
    BY <1>6, Zenon DEF GcGet
  <1>7. CASE GcDelete(c)
    <2>1. blocks' \in [Addr -> Sealed \cup Plain \cup {Missing}]
      BY <1>7, Zenon DEF GcDelete, Delete
    <2> QED
      BY <1>7, <2>1 DEF GcDelete
  <1>8. CASE GcDone(c)
    BY <1>8 DEF GcDone, GcReset
  <1>9. CASE GcFail(c)
    BY <1>9 DEF GcFail, GcReset
  <1> QED
    BY <1>1, <1>2, <1>3, <1>4, <1>5, <1>6, <1>7, <1>8, <1>9, SMTT(30) DEF GcNext

\* Every reachable state of the agent is well typed.
THEOREM TypeCorrect == Spec => []TypeOK
  <1>1. TypeOK /\ [Next]_vars => TypeOK'
    <2> SUFFICES ASSUME TypeOK, [Next]_vars PROVE TypeOK'
      OBVIOUS
    <2>1. CASE Next
      BY <2>1, ProcessTypeOK, ReceiveTypeOK, BackupTypeOK, GcTypeOK DEF Next
    <2>2. CASE UNCHANGED vars
      BY <2>2 DEF TypeOK, vars, repoVars, processVars, backupVars, gcVars
    <2> QED
      BY <2>1, <2>2
  <1> QED
    BY InitTypeOK, <1>1, PTL DEF Spec

-----------------------------------------------------------------------------
(* CleanSnapshotsComplete is not inductive by itself: SweepInvariant says    *)
(* why a sweep never reaches a chunk that a clean snapshot, or a backup that *)
(* may still become one, relies on.                                          *)

Inductive == TypeOK /\ CleanSnapshotsComplete /\ SweepInvariant

USE DEF SweepInvariant, UntouchedBackups, MarksCoverClean, VictimsUnmarked,
        CleanSnapshotsComplete, InFlight, Sweeping, Exists

\* There is no snapshot and no sweep at first.
LEMMA InitInductive == Init => CleanSnapshotsComplete /\ SweepInvariant
  BY DEF Init, RepoInit

\* The clock and a process start touch neither bucket; a process exit ends every
\* sweep and every backup in flight, so it leaves nothing to protect.
LEMMA ProcessPreserves ==
  ASSUME Inductive, Tick \/ Start \/ Stop
  PROVE  CleanSnapshotsComplete' /\ SweepInvariant'
  <1> USE DEF Inductive, repoVars, backupVars, gcVars
  <1>1. CASE Tick
    BY <1>1 DEF Tick
  <1>2. CASE Start
    BY <1>2 DEF Start
  <1>3. CASE Stop
    BY <1>3, SMTT(30) DEF Stop
  <1> QED
    BY <1>1, <1>2, <1>3

\* The bytes of a peer are stored and nothing is taken away.
LEMMA ReceiveStores ==
  ASSUME TypeOK, NEW plain \in Plain, ReceiveChunk(plain)
  PROVE  /\ Hash(plain) \in Addr /\ Exists(Hash(plain))'
         /\ \A a \in Addr : a # Hash(plain) => blocks'[a] = blocks[a]
         /\ \A a \in Addr : Exists(a) => Exists(a)'
  BY HashIsAddr, ValuesDistinct DEF TypeOK, ReceiveChunk, Put

\* So what was in the store before is in it after.
LEMMA ReceivePreserves ==
  ASSUME Inductive, NEW plain \in Plain, ReceiveChunk(plain)
  PROVE  CleanSnapshotsComplete' /\ SweepInvariant'
  <1> USE DEF Inductive, ReceiveChunk, processVars, backupVars, gcVars
  <1>1. \A a \in Addr : blocks[a] # Missing => blocks'[a] # Missing
    BY ReceiveStores
  <1>2. \A s \in snaps : Range(s.chunks) \subseteq Addr
    BY RangeOfAddrs DEF TypeOK, Snapshot
  <1>3. \A b \in Backups : Range(hashes[b]) \subseteq Addr
    BY RangeOfAddrs DEF TypeOK
  <1>4. CleanSnapshotsComplete'
    BY <1>1, <1>2
  <1>5. UntouchedBackups'
    BY <1>1, <1>3, SMTT(30)
  <1> QED
    BY <1>4, <1>5

\* No step of a backup takes a chunk away, and what BackupSave adds to the table
\* is either complete and unswept or not counted as clean.
LEMMA BackupPreserves ==
  ASSUME Inductive, NEW b \in Backups, BackupNext(b)
  PROVE  CleanSnapshotsComplete' /\ SweepInvariant'
  <1> USE DEF Inductive, repoVars, processVars, gcVars
  <1>1. CASE BackupBegin(b)
    <2>1. Range(hashes'[b]) = {}
      BY <1>1 DEF BackupBegin, TypeOK, Range
    <2>2. \A x \in Backups : x # b => /\ bpc'[x] = bpc[x]
                                     /\ hashes'[x] = hashes[x]
                                     /\ overlap'[x] = overlap[x]
      BY <1>1 DEF BackupBegin, TypeOK
    <2>3. overlap'[b] = \E c \in Collectors : Sweeping(c)
      BY <1>1 DEF BackupBegin, TypeOK
    <2>4. UntouchedBackups'
      BY <1>1, <2>1, <2>2, <2>3, ZenonT(30) DEF BackupBegin
    <2> QED
      BY <1>1, <2>4 DEF BackupBegin
  <1>2. ASSUME NEW plain \in Plain, BackupPut(b, plain)
        PROVE  CleanSnapshotsComplete' /\ SweepInvariant'
    <2>1. Exists(Hash(plain))' /\ \A a \in Addr : Exists(a) => Exists(a)'
      <3>1. Encrypt(plain, MasterKey) # Missing
        BY ValuesDistinct DEF Encrypt, TypeOK, MasterKey
      <3> QED
        BY <1>2, <3>1, HashIsAddr DEF BackupPut, PutChunk, TypeOK
    <2>2. \A s \in snaps : Range(s.chunks) \subseteq Addr
      BY RangeOfAddrs DEF TypeOK, Snapshot
    <2>3. CleanSnapshotsComplete'
      BY <1>2, <2>1, <2>2 DEF BackupPut
    <2>4. Range(hashes'[b]) = Range(hashes[b]) \cup {Hash(plain)}
      BY <1>2, HashIsAddr, RangeOfAppend DEF BackupPut, TypeOK
    <2>5. \A x \in Backups : Range(hashes[x]) \subseteq Addr
      BY RangeOfAddrs DEF TypeOK
    <2>6. \A x \in Backups : x # b => hashes'[x] = hashes[x]
      BY <1>2 DEF BackupPut, TypeOK
    <2>7. UntouchedBackups'
      BY <1>2, <2>1, <2>4, <2>5, <2>6 DEF BackupPut
    <2> QED
      BY <1>2, <2>3, <2>7 DEF BackupPut
  <1>3. CASE BackupStampID(b)
    BY <1>3 DEF BackupStampID, TypeOK
  <1>4. CASE BackupStampTime(b)
    BY <1>4, SMTT(30) DEF BackupStampTime, TypeOK
  <1>5. CASE BackupSave(b)
    <2> DEFINE snap == [id |-> id[b], ts |-> ts[b], chunks |-> hashes[b]]
    <2>1. \A s \in snaps' : s = snap \/ (s \in snaps /\ s.id # id[b])
      <3>1. snaps' = {s \in snaps : s.id # snap.id} \cup {snap}
        BY <1>5, ZenonT(30) DEF BackupSave, SaveSnapshot
      <3>2. snap.id = id[b]
        OBVIOUS
      <3> HIDE DEF snap
      <3> QED
        BY <3>1, <3>2
    <2>2. \A i : i # id[b] /\ i \in clean' => i \in clean
      BY <1>5 DEF BackupSave
    <2>3. id[b] \in clean' => ~overlap[b]
      BY <1>5 DEF BackupSave
    <2>4. \A c \in Collectors : Sweeping(c) => overlap[b]
      BY <1>5 DEF BackupSave
    <2>5. CleanSnapshotsComplete'
      <3>1. blocks' = blocks /\ snap.id = id[b] /\ snap.chunks = hashes[b]
        BY <1>5 DEF BackupSave
      <3>2. ~overlap[b] => \A a \in Range(hashes[b]) : blocks[a] # Missing
        BY <1>5 DEF BackupSave
      <3> HIDE DEF snap
      <3> QED
        BY <3>1, <3>2, <2>1, <2>2, <2>3
    <2>6. MarksCoverClean'
      BY <1>5, <2>1, <2>2, <2>3, <2>4, SMTT(30) DEF BackupSave
    <2>7. UntouchedBackups'
      BY <1>5, SMTT(30) DEF BackupSave, BackupReset, TypeOK
    <2> QED
      BY <1>5, <2>5, <2>6, <2>7, ZenonT(30) DEF BackupSave
  <1>6. CASE BackupFail(b)
    BY <1>6, SMTT(30) DEF BackupFail, BackupReset, TypeOK
  <1> QED
    BY <1>1, <1>2, <1>3, <1>4, <1>5, <1>6, SMTT(30) DEF BackupNext

\* The mark phase marks every chunk of a clean snapshot and flags the backups in
\* flight; the sweep then deletes only what was not marked.
LEMMA GcPreserves ==
  ASSUME Inductive, NEW c \in Collectors, GcNext(c)
  PROVE  CleanSnapshotsComplete' /\ SweepInvariant'
  <1> USE DEF Inductive, repoVars, processVars, backupVars
  <1>1. CASE GcBegin(c)
    BY <1>1, SMTT(30) DEF GcBegin, TypeOK
  <1>2. CASE GcListExpired(c)
    BY <1>2 DEF GcListExpired, TypeOK
  <1>3. CASE GcExpire(c)
    BY <1>3 DEF GcExpire, DeleteSnapshot, TypeOK
  <1>4. CASE GcMark(c)
    <2>1. \A b \in Backups : InFlight(b) => overlap'[b]
      BY <1>4, Zenon DEF GcMark
    <2>2. UntouchedBackups'
      BY <1>4, <2>1 DEF GcMark
    <2>3. \A s \in snaps : Range(s.chunks) \subseteq ReferencedBy(snaps)
      BY DEF ReferencedBy
    <2>4. MarksCoverClean'
      BY <1>4, <2>3 DEF GcMark, TypeOK
    <2> QED
      BY <1>4, <2>2, <2>4 DEF GcMark, TypeOK
  <1>5. CASE GcListChunks(c)
    BY <1>5 DEF GcListChunks, ListAll, TypeOK
  <1>6. ASSUME NEW a \in Addr, GcGet(c, a)
        PROVE  CleanSnapshotsComplete' /\ SweepInvariant'
    BY <1>6 DEF GcGet, TypeOK
  <1>7. CASE GcDelete(c)
    BY <1>7 DEF GcDelete, Delete, TypeOK
  <1>8. CASE GcDone(c)
    BY <1>8 DEF GcDone, GcReset, TypeOK
  <1>9. CASE GcFail(c)
    BY <1>9, SMTT(30) DEF GcFail, GcReset, TypeOK
  <1> QED
    BY <1>1, <1>2, <1>3, <1>4, <1>5, <1>6, <1>7, <1>8, <1>9, Zenon DEF GcNext

\* Inductive is an inductive invariant.
LEMMA InductiveStep ==
  ASSUME Inductive, [Next]_vars
  PROVE  Inductive'
  <1>1. TypeOK'
    BY ProcessTypeOK, ReceiveTypeOK, BackupTypeOK, GcTypeOK, ZenonT(30)
    DEF Inductive, Next, TypeOK, vars, repoVars, processVars, backupVars, gcVars
  <1>2. CASE Next
    BY <1>1, <1>2, ProcessPreserves, ReceivePreserves, BackupPreserves, GcPreserves, ZenonT(30)
    DEF Next, Inductive
  <1>3. CASE UNCHANGED vars
    BY <1>1, <1>3, SMTT(30)
    DEF Inductive, vars, repoVars, processVars, backupVars, gcVars
  <1> QED
    BY <1>2, <1>3

\* It holds in every reachable state.
LEMMA InductiveHolds == Spec => []Inductive
  <1>1. Init => Inductive
    BY InitTypeOK, InitInductive, Zenon DEF Inductive
  <1>2. Inductive /\ [Next]_vars => Inductive'
    BY InductiveStep
  <1> QED
    BY <1>1, <1>2, PTL DEF Spec

\* A saved snapshot whose backup no sweep overlapped has all its chunks in the
\* store, in every reachable state (CreateSnapshot, SaveSnapshot, Collector.Run).
THEOREM SnapshotsComplete == Spec => []CleanSnapshotsComplete
  <1>1. Inductive => CleanSnapshotsComplete
    BY DEF Inductive
  <1> QED
    BY <1>1, InductiveHolds, PTL

\* A mark and sweep of Collector.Run takes nothing from a backup or from a saved
\* snapshot it did not overlap with, however many collections run side by side.
THEOREM SweepsAreSafe == Spec => []SweepInvariant
  <1>1. Inductive => SweepInvariant
    BY DEF Inductive
  <1> QED
    BY <1>1, InductiveHolds, PTL

-----------------------------------------------------------------------------
(* Vault implements Archive. *)

\* The facts about time that the implementation rests on: a snapshot is stamped
\* with seconds that have come, its ID no later than its timestamp; a cutoff is
\* never in the future of the retention period; and what a collection has listed
\* as expired is past it, under whatever snapshot the ID stands for by then.
TimeInvariant ==
    /\ \A b \in Backups :
          /\ bpc[b] \in {"stamp", "save"} => 0 <= id[b] /\ id[b] <= clock
          /\ bpc[b] = "save" => id[b] <= ts[b] /\ ts[b] <= clock
    /\ \A s \in snaps : 0 <= s.id /\ s.id <= s.ts
    /\ \A c \in Collectors :
          /\ gpc[c] = "cutoff" => cutoff[c] <= clock - Retention + 1
          /\ gpc[c] = "expire" => \A i \in expired[c] : 0 <= i /\ i <= clock - Retention

\* Nothing is stamped or listed at first.
LEMMA InitTime == Init => TimeInvariant
  BY DEF Init, RepoInit, TimeInvariant

\* The clock only goes forward, and a process exit forgets stamps and listings.
LEMMA ProcessTime ==
  ASSUME TypeOK, TimeInvariant, Tick \/ Start \/ Stop
  PROVE  TimeInvariant'
  <1> USE BoundsAreNumbers DEF TypeOK, TimeInvariant, repoVars, backupVars, gcVars
  <1>1. CASE Tick
    <2>1. clock' = clock + 1 /\ clock \in Nat
      BY <1>1 DEF Tick
    <2>2. /\ snaps' = snaps /\ bpc' = bpc /\ id' = id /\ ts' = ts
          /\ gpc' = gpc /\ cutoff' = cutoff /\ expired' = expired
      BY <1>1 DEF Tick
    <2> QED
      BY <2>1, <2>2
  <1>2. CASE Start
    BY <1>2 DEF Start
  <1>3. CASE Stop
    BY <1>3, SMTT(30) DEF Stop
  <1> QED
    BY <1>1, <1>2, <1>3

\* BackupStampID and BackupStampTime read the clock, in this order, and BackupSave
\* saves what they read.
LEMMA BackupTime ==
  ASSUME TypeOK, TimeInvariant, NEW b \in Backups, BackupNext(b)
  PROVE  TimeInvariant'
  <1> USE DEF TypeOK, TimeInvariant, repoVars, processVars, gcVars
  <1>1. CASE BackupBegin(b)
    BY <1>1 DEF BackupBegin
  <1>2. ASSUME NEW plain \in Plain, BackupPut(b, plain)
        PROVE  TimeInvariant'
    BY <1>2 DEF BackupPut
  <1>3. CASE BackupStampID(b)
    BY <1>3 DEF BackupStampID
  <1>4. CASE BackupStampTime(b)
    BY <1>4 DEF BackupStampTime
  <1>5. CASE BackupSave(b)
    <2> DEFINE snap == [id |-> id[b], ts |-> ts[b], chunks |-> hashes[b]]
    <2>1. snaps' = {s \in snaps : s.id # snap.id} \cup {snap}
      BY <1>5, ZenonT(30) DEF BackupSave, SaveSnapshot
    <2>2. 0 <= snap.id /\ snap.id <= snap.ts
      BY <1>5 DEF BackupSave
    <2>3. \A s \in snaps' : 0 <= s.id /\ s.id <= s.ts
      <3> HIDE DEF snap
      <3> QED
        BY <2>1, <2>2
    <2>4. \A x \in Backups : /\ bpc'[x] = IF x = b THEN "idle" ELSE bpc[x]
                             /\ x # b => id'[x] = id[x] /\ ts'[x] = ts[x]
      BY <1>5 DEF BackupSave, BackupReset
    <2> QED
      BY <1>5, <2>3, <2>4, ZenonT(30) DEF BackupSave
  <1>6. CASE BackupFail(b)
    BY <1>6 DEF BackupFail, BackupReset
  <1> QED
    BY <1>1, <1>2, <1>3, <1>4, <1>5, <1>6, Zenon DEF BackupNext

\* GcBegin computes the cutoff from the clock, and GcListExpired lists only
\* snapshots with a timestamp before it.
LEMMA GcTime ==
  ASSUME TypeOK, TimeInvariant, NEW c \in Collectors, GcNext(c)
  PROVE  TimeInvariant'
  <1> USE BoundsAreNumbers DEF TypeOK, TimeInvariant, repoVars, processVars, backupVars
  <1>1. CASE GcBegin(c)
    <2>1. PICK fraction \in {0, 1} :
             cutoff' = [cutoff EXCEPT ![c] = clock - Retention + fraction]
      BY <1>1, ZenonT(30) DEF GcBegin
    <2>2. cutoff'[c] <= clock - Retention + 1
      BY <2>1
    <2>3. \A x \in Collectors : x # c => cutoff'[x] = cutoff[x] /\ gpc'[x] = gpc[x]
      BY <1>1, <2>1 DEF GcBegin
    <2>4. gpc'[c] = "cutoff"
      BY <1>1, SMTT(30) DEF GcBegin
    <2> QED
      BY <1>1, <2>2, <2>3, <2>4 DEF GcBegin
  <1>2. CASE GcListExpired(c)
    <2>1. expired'[c] = {s.id : s \in {t \in snaps : t.ts < cutoff[c]}}
      BY <1>2 DEF GcListExpired
    <2>2. \A s \in snaps : s.id \in Int /\ s.ts \in Int
      BY SMTT(30) DEF Snapshot
    <2>3. \A i \in expired'[c] : 0 <= i /\ i <= clock - Retention
      BY <1>2, <2>1, <2>2, SMTT(30) DEF GcListExpired
    <2>4. \A x \in Collectors : x # c => /\ expired'[x] = expired[x]
                                         /\ cutoff'[x] = cutoff[x]
                                         /\ gpc'[x] = gpc[x]
      BY <1>2 DEF GcListExpired
    <2>5. gpc'[c] = "expire"
      BY <1>2 DEF GcListExpired
    <2> QED
      BY <1>2, <2>3, <2>4, <2>5 DEF GcListExpired
  <1>3. CASE GcExpire(c)
    <2>1. \A s \in snaps' : s \in snaps
      BY <1>3 DEF GcExpire, DeleteSnapshot
    <2>2. \A x \in Collectors : expired'[x] \subseteq expired[x]
      BY <1>3 DEF GcExpire
    <2> QED
      BY <1>3, <2>1, <2>2 DEF GcExpire
  <1>4. CASE GcMark(c)
    BY <1>4 DEF GcMark
  <1>5. CASE GcListChunks(c)
    BY <1>5 DEF GcListChunks
  <1>6. ASSUME NEW a \in Addr, GcGet(c, a)
        PROVE  TimeInvariant'
    BY <1>6 DEF GcGet
  <1>7. CASE GcDelete(c)
    BY <1>7 DEF GcDelete
  <1>8. CASE GcDone(c)
    BY <1>8 DEF GcDone, GcReset
  <1>9. CASE GcFail(c)
    BY <1>9, SMTT(30) DEF GcFail, GcReset
  <1> QED
    BY <1>1, <1>2, <1>3, <1>4, <1>5, <1>6, <1>7, <1>8, <1>9, ZenonT(30) DEF GcNext

\* The invariant of the implementation.
Implementation == Inductive /\ TimeInvariant

\* The invariant of the implementation is inductive.
LEMMA ImplementationStep ==
  ASSUME Implementation, [Next]_vars
  PROVE  Implementation'
  <1>1. TypeOK /\ Inductive /\ TimeInvariant
    BY DEF Implementation, Inductive
  <1>2. Inductive'
    BY <1>1, InductiveStep
  <1>3. CASE Next
    <2>1. ASSUME NEW plain \in Plain, ReceiveChunk(plain) PROVE TimeInvariant'
      BY <1>1, <2>1, SMTT(30) DEF TimeInvariant, ReceiveChunk, processVars, backupVars, gcVars
    <2> QED
      BY <1>1, <1>2, <1>3, <2>1, ProcessTime, BackupTime, GcTime DEF Next, Implementation
  <1>4. CASE UNCHANGED vars
    BY <1>1, <1>2, <1>4, SMTT(30)
    DEF Implementation, TimeInvariant, vars, repoVars, processVars, backupVars, gcVars
  <1> QED
    BY <1>3, <1>4

\* Inductive and TimeInvariant hold in every reachable state.
LEMMA ImplementationHolds == Spec => []Implementation
  <1>1. Init => Implementation
    BY InitTypeOK, InitInductive, InitTime, Zenon DEF Implementation, Inductive
  <1>2. Implementation /\ [Next]_vars => Implementation'
    BY ImplementationStep
  <1> QED
    BY <1>1, <1>2, PTL DEF Spec

-----------------------------------------------------------------------------
(* Every step of Vault is a step of Archive, which may replace a snapshot under *)
(* its name, or leaves the variables of Archive alone.                       *)

USE DEF Exists

ArchiveStep == Abstract!ReplacingNext \/ UNCHANGED Abstract!archiveVars

\* If no block changes, neither does the set of stored chunks.
LEMMA SameBlocks == blocks' = blocks => ListAll' = ListAll
  BY DEF ListAll

\* A tick is the abstract clock's; starting and stopping a process is not seen.
LEMMA ProcessSimulates ==
  ASSUME Tick \/ Start \/ Stop
  PROVE  ArchiveStep
  <1>1. CASE Tick
    BY <1>1, SameBlocks
    DEF Tick, repoVars, ArchiveStep, Abstract!ReplacingNext, Abstract!ArchiveNext, Abstract!Pass
  <1>2. CASE Start \/ Stop
    BY <1>2, SameBlocks, SMTT(30) DEF Start, Stop, repoVars, ArchiveStep, Abstract!archiveVars
  <1> QED
    BY <1>1, <1>2

\* The bytes of a peer are stored, whatever was there before.
LEMMA ReceiveSimulates ==
  ASSUME Implementation, NEW plain \in Plain, ReceiveChunk(plain)
  PROVE  ArchiveStep
  <1> DEFINE a == Hash(plain)
  <1>1. /\ a \in Addr /\ Exists(a)'
        /\ \A x \in Addr : x # a => blocks'[x] = blocks[x]
    BY ReceiveStores, ZenonT(30) DEF Implementation, Inductive
  <1>2. ListAll' = ListAll \cup {a}
    BY <1>1, ZenonT(30) DEF ListAll
  <1>3. Abstract!Put(a)
    BY <1>2 DEF ReceiveChunk, processVars, Abstract!Put
  <1> QED
    BY <1>1, <1>3, ZenonT(30) DEF ArchiveStep, Abstract!ReplacingNext, Abstract!ArchiveNext

\* PutChunk stores a chunk or finds it there; BackupSave saves a snapshot that is
\* whole if no sweep overlapped the backup; the other steps are not seen.
LEMMA BackupSimulates ==
  ASSUME Implementation, NEW b \in Backups, BackupNext(b)
  PROVE  ArchiveStep
  <1> USE DEF Implementation, Inductive, TypeOK, repoVars, processVars, gcVars
  <1>1. ASSUME NEW plain \in Plain, BackupPut(b, plain)
        PROVE  ArchiveStep
    <2> DEFINE a == Hash(plain)
    <2>1. a \in Addr
      BY HashIsAddr
    <2>2. CASE Exists(a)
      BY <1>1, <2>2, SameBlocks
      DEF BackupPut, PutChunk, ArchiveStep, Abstract!archiveVars
    <2>3. CASE ~Exists(a)
      <3>1. blocks' = [blocks EXCEPT ![a] = Encrypt(plain, MasterKey)]
        BY <1>1, <2>3 DEF BackupPut, PutChunk
      <3>2. Encrypt(plain, MasterKey) # Missing
        BY ValuesDistinct DEF Encrypt, MasterKey
      <3>3. ListAll' = ListAll \cup {a}
        BY <2>1, <3>1, <3>2 DEF ListAll
      <3>4. Abstract!Put(a)
        BY <1>1, <3>3 DEF BackupPut, Abstract!Put
      <3> QED
        BY <2>1, <3>4 DEF ArchiveStep, Abstract!ReplacingNext, Abstract!ArchiveNext
    <2> QED
      BY <2>2, <2>3
  <1>2. CASE BackupSave(b)
    <2> DEFINE snap == [id |-> id[b], ts |-> ts[b], chunks |-> hashes[b]]
    <2>1. /\ snaps' = {s \in snaps : s.id # snap.id} \cup {snap}
          /\ clean' = IF overlap[b] THEN clean \ {id[b]} ELSE clean \cup {id[b]}
          /\ blocks' = blocks /\ clock' = clock
      BY <1>2, ZenonT(30) DEF BackupSave, SaveSnapshot
    <2>2. snap.id = id[b] /\ snap.chunks = hashes[b] /\ id[b] <= clock
      BY <1>2 DEF BackupSave, TimeInvariant
    <2>3. ~overlap[b] => Range(hashes[b]) \subseteq ListAll
      <3>1. Range(hashes[b]) \subseteq Addr
        BY RangeOfAddrs
      <3> QED
        BY <1>2, <3>1, ZenonT(30)
        DEF BackupSave, ListAll, SweepInvariant, UntouchedBackups, InFlight
    <2>4. snap \in snaps'
      BY <2>1
    <2> HIDE DEF snap
    <2>5. overlap[b] => Abstract!Record(snap, FALSE)
      BY <2>1, <2>2, SameBlocks, ZenonT(30) DEF Abstract!Record
    <2>6. ~overlap[b] => Abstract!Record(snap, TRUE)
      BY <2>1, <2>2, <2>3, SameBlocks, SMTT(30) DEF Abstract!Record, Range, Abstract!Range
    <2>7. ASSUME NEW whole \in BOOLEAN, Abstract!Record(snap, whole)
          PROVE  Abstract!Save(snap, whole) \/ Abstract!Replace(snap, whole)
      BY <2>7, Zenon DEF Abstract!Save, Abstract!Replace
    <2> QED
      BY <2>4, <2>5, <2>6, <2>7, Zenon
      DEF ArchiveStep, Abstract!ReplacingNext, Abstract!ArchiveNext
  <1>3. CASE \/ BackupBegin(b) \/ BackupStampID(b) \/ BackupStampTime(b)
             \/ BackupFail(b)
    BY <1>3, SameBlocks, Zenon
    DEF BackupBegin, BackupStampID, BackupStampTime, BackupFail, ArchiveStep,
        Abstract!archiveVars
  <1> QED
    BY <1>1, <1>2, <1>3 DEF BackupNext

\* GcExpire expires a snapshot, GcDelete reclaims a chunk no intact snapshot has;
\* the other steps are not seen.
LEMMA GcSimulates ==
  ASSUME Implementation, NEW c \in Collectors, GcNext(c)
  PROVE  ArchiveStep
  <1> USE DEF Implementation, Inductive, TypeOK, repoVars, processVars, backupVars
  <1>1. CASE GcExpire(c)
    <2>1. PICK i \in expired[c] : \/ DeleteSnapshot(i) /\ clean' = clean \ {i}
                                  \/ UNCHANGED <<snaps, clean>>
      BY <1>1 DEF GcExpire
    <2>2. blocks' = blocks /\ clock' = clock /\ gpc[c] = "expire"
      BY <1>1 DEF GcExpire
    <2>3. i \in Int /\ 0 <= i /\ i <= clock - Retention
      BY <2>2 DEF TimeInvariant
    <2>4. i \in 0 .. clock
      BY <2>3, BoundsAreNumbers
    <2>5. CASE UNCHANGED <<snaps, clean>>
      BY <2>2, <2>5, SameBlocks DEF ArchiveStep, Abstract!archiveVars
    <2>6. CASE DeleteSnapshot(i) /\ clean' = clean \ {i}
      <3>1. Abstract!Expire(i)
        BY <2>2, <2>3, <2>6, SameBlocks DEF DeleteSnapshot, Abstract!Expire
      <3> QED
        BY <2>4, <3>1 DEF ArchiveStep, Abstract!ReplacingNext, Abstract!ArchiveNext
    <2> QED
      BY <2>1, <2>5, <2>6
  <1>2. CASE GcDelete(c)
    <2> DEFINE a == victim[c]
    <2>1. a \in Addr \ referenced[c]
      BY <1>2 DEF GcDelete, SweepInvariant, VictimsUnmarked
    <2>2. snaps' = snaps /\ clean' = clean /\ clock' = clock
      BY <1>2 DEF GcDelete
    <2>3. CASE blocks' = blocks
      BY <2>2, <2>3, SameBlocks DEF ArchiveStep, Abstract!archiveVars
    <2>4. CASE Delete(a)
      <3>1. ListAll' = ListAll \ {a}
        BY <2>1, <2>4 DEF Delete, ListAll
      <3>2. \A s \in snaps : s.id \in clean => a \notin Range(s.chunks)
        BY <1>2, <2>1, SMTT(30) DEF GcDelete, SweepInvariant, MarksCoverClean, Sweeping
      <3>3. Abstract!Reclaim(a)
        BY <2>2, <3>1, <3>2, SMTT(30) DEF Abstract!Reclaim, Range, Abstract!Range
      <3> QED
        BY <2>1, <3>3 DEF ArchiveStep, Abstract!ReplacingNext, Abstract!ArchiveNext
    <2> QED
      BY <1>2, <2>3, <2>4 DEF GcDelete
  <1>3. CASE \/ GcBegin(c) \/ GcListExpired(c) \/ GcMark(c) \/ GcListChunks(c)
             \/ (\E a \in Addr : GcGet(c, a)) \/ GcDone(c) \/ GcFail(c)
    BY <1>3, SameBlocks, Zenon
    DEF GcBegin, GcListExpired, GcMark, GcListChunks, GcGet, GcDone, GcFail,
        GcReset, ArchiveStep, Abstract!archiveVars
  <1> QED
    BY <1>1, <1>2, <1>3 DEF GcNext

\* CreateAndSaveSnapshot, PutChunk and Collector.Run implement the abstract repository,
\* but for snapshots that replace another of the same second.
THEOREM Implements == Spec => ImplementsButForNames
  <1>1. Init => Abstract!ArchiveInit
    BY DEF Init, RepoInit, ListAll, Exists, Abstract!ArchiveInit
  <1>2. Implementation /\ [Next]_vars
          => [Abstract!ReplacingNext]_(Abstract!archiveVars)
    <2> SUFFICES ASSUME Implementation, [Next]_vars PROVE ArchiveStep
      BY DEF ArchiveStep
    <2>1. CASE Next
      BY <2>1, ProcessSimulates, ReceiveSimulates, BackupSimulates, GcSimulates
      DEF Next
    <2>2. CASE UNCHANGED vars
      BY <2>2, SameBlocks
      DEF vars, repoVars, processVars, ArchiveStep, Abstract!archiveVars
    <2> QED
      BY <2>1, <2>2
  <1> QED
    BY <1>1, <1>2, ImplementationHolds, PTL
    DEF Spec, ImplementsButForNames, Abstract!ReplacingSpec

\* deleteOldSnapshots removes a snapshot only when the second that names it is past
\* the retention period.
THEOREM RetentionHolds == Spec => RetentionRespected
  <1> DEFINE Kept == \A s \in snaps : \/ \E t \in snaps' : t.id = s.id
                                      \/ s.id <= clock - Retention
  <1>1. Implementation /\ [Next]_vars => [Kept]_vars
    <2> SUFFICES ASSUME Implementation, Next PROVE Kept
      OBVIOUS
    <2>1. CASE snaps' = snaps
      BY <2>1
    <2>2. ASSUME NEW b \in Backups, BackupSave(b) PROVE Kept
      <3> DEFINE snap == [id |-> id[b], ts |-> ts[b], chunks |-> hashes[b]]
      <3>1. snaps' = {s \in snaps : s.id # snap.id} \cup {snap}
        BY <2>2, Zenon DEF BackupSave, SaveSnapshot
      <3> HIDE DEF snap
      <3> QED
        BY <3>1
    <2>3. ASSUME NEW c \in Collectors, GcExpire(c) PROVE Kept
      <3>1. PICK i \in expired[c] : DeleteSnapshot(i) \/ snaps' = snaps
        BY <2>3, SMTT(30) DEF GcExpire
      <3>2. i <= clock - Retention
        BY <2>3, SMTT(30) DEF GcExpire, Implementation, TimeInvariant
      <3> QED
        BY <3>1, <3>2 DEF DeleteSnapshot
    <2>4. \/ snaps' = snaps
          \/ \E b \in Backups : BackupSave(b)
          \/ \E c \in Collectors : GcExpire(c)
      BY Zenon DEF Next, BackupNext, GcNext, Tick, Start, Stop, ReceiveChunk, BackupBegin,
             BackupPut, BackupStampID, BackupStampTime, BackupFail, GcBegin, GcListExpired,
             GcMark, GcListChunks, GcGet, GcDelete, GcDone, GcFail, GcReset, repoVars
    <2> QED
      BY <2>1, <2>2, <2>3, <2>4
  <1> QED
    BY <1>1, ImplementationHolds, PTL DEF Spec, RetentionRespected

-----------------------------------------------------------------------------
(* Reading under one key *)

\* What a step may do to a snapshot that stays: the body of ReadableStays.
ReadableKept ==
    \A s \in snaps \cap snaps', k \in 1 .. session :
        s.id \in clean \cap clean' /\ Readable(s, k) =>
            \/ Readable(s, k)'
            \/ \E a \in Range(s.chunks) : blocks'[a] \in Plain

\* An address names one content, so a chunk that can be read is in the store.
LEMMA ReadableExists ==
  ASSUME TypeOK, NEW s \in snaps, NEW k, Readable(s, k), NEW a \in Range(s.chunks)
  PROVE  a \in Addr /\ Exists(a)
  <1>1. a \in Addr
    BY RangeOfAddrs DEF TypeOK, Snapshot
  <1>2. PICK p \in Plain : a = Hash(p)
    BY <1>1 DEF Addr
  <1>3. GetChunk(a, k) = p
    BY <1>2, SMTT(30) DEF Readable, Hash
  <1> QED
    BY <1>1, <1>3, ValuesDistinct DEF GetChunk

\* If a snapshot's chunks stay in the store as they are, it stays readable.
LEMMA SameChunksRead ==
  ASSUME NEW s, NEW k, Readable(s, k),
         \A a \in Range(s.chunks) : blocks'[a] = blocks[a]
  PROVE  Readable(s, k)'
  BY ZenonT(30) DEF Readable, GetChunk, Decrypt

\* PutChunk leaves a stored chunk as it is, and a sweep deletes none that a clean
\* snapshot has; the bytes of a peer are the exception.
LEMMA ReadableStep ==
  ASSUME Implementation, Next
  PROVE  ReadableKept
  <1> USE DEF Implementation, Inductive
  <1> SUFFICES ASSUME NEW s \in snaps \cap snaps', NEW k \in 1 .. session,
                      s.id \in clean \cap clean', Readable(s, k)
               PROVE  \A a \in Range(s.chunks) : \/ blocks'[a] = blocks[a]
                                                  \/ blocks'[a] \in Plain
    BY SameChunksRead, ZenonT(30) DEF ReadableKept
  <1>1. CASE blocks' = blocks
    BY <1>1, Zenon
  <1>2. ASSUME NEW b \in Backups, NEW plain \in Plain, BackupPut(b, plain)
        PROVE  \A a \in Range(s.chunks) : blocks'[a] = blocks[a]
    BY <1>2, ReadableExists, HashIsAddr, ZenonT(30) DEF BackupPut, PutChunk, TypeOK
  <1>3. ASSUME NEW c \in Collectors, GcDelete(c)
        PROVE  \A a \in Range(s.chunks) : blocks'[a] = blocks[a]
    <2>1. victim[c] \notin Range(s.chunks)
      BY <1>3 DEF GcDelete, SweepInvariant, VictimsUnmarked, MarksCoverClean, Sweeping
    <2>2. Range(s.chunks) \subseteq Addr
      BY RangeOfAddrs, SMTT(30) DEF TypeOK, Snapshot
    <2> QED
      BY <1>3, <2>1, <2>2, ZenonT(30) DEF GcDelete, Delete, TypeOK
  <1>4. ASSUME NEW plain \in Plain, ReceiveChunk(plain)
        PROVE  \A a \in Range(s.chunks) : blocks'[a] = blocks[a] \/ blocks'[a] \in Plain
    <2>1. Range(s.chunks) \subseteq Addr
      BY RangeOfAddrs, SMTT(30) DEF TypeOK, Snapshot
    <2> QED
      BY <1>4, <2>1, HashIsAddr, ZenonT(30) DEF ReceiveChunk, Put, TypeOK
  <1>5. \/ blocks' = blocks
        \/ \E b \in Backups, plain \in Plain : BackupPut(b, plain)
        \/ \E c \in Collectors : GcDelete(c)
        \/ \E plain \in Plain : ReceiveChunk(plain)
    BY Zenon DEF Next, BackupNext, GcNext, Tick, Start, Stop, BackupBegin, BackupStampID,
           BackupStampTime, BackupSave, BackupFail, GcBegin, GcListExpired, GcExpire,
           GcMark, GcListChunks, GcGet, GcDone, GcFail, GcReset, repoVars
  <1> QED
    BY <1>1, <1>2, <1>3, <1>4, <1>5, SMTT(30)

=============================================================================
