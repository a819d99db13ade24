----------------------------- MODULE Repository -----------------------------
(***************************************************************************)
(* The on-disk repository of one node: the "blocks" and "snapshots" bolt   *)
(* buckets, the content-addressed chunk store over the first               *)
(* (internal/storage) and the snapshot table over the second               *)
(* (internal/versioning).  Every operation below is one bolt transaction,  *)
(* so it is one atomic change of blocks or of snaps.                       *)
(*                                                                         *)
(* Chunks are abstracted to model values.  SHA-256 is a tag around its     *)
(* argument (injective, never the identity).  A sealed chunk remembers the *)
(* key that sealed it and the plaintext; AES-GCM opens it under that key   *)
(* only.  The random nonce is left out: nothing compares two ciphertexts.  *)
(***************************************************************************)
EXTENDS Integers, Sequences, Functions

CONSTANTS Plain,     \* chunk contents the chunker can produce
          Missing,   \* what bucket.Get returns for a key that is not there
          OpenError  \* the error of a GCM open under the wrong key

\* Contents, sealed chunks and the two errors are values of different kinds.
ASSUME ValuesDistinct == /\ Missing \notin [key : Int, plain : Plain]
                         /\ Missing \notin Plain \cup {OpenError}
                         /\ OpenError \notin Plain
                         /\ \A p \in Plain : p \notin [key : Int, plain : Plain]

VARIABLES blocks,  \* address -> sealed chunk, raw bytes of a peer, or Missing
          snaps    \* the saved snapshot records

repoVars == <<blocks, snaps>>

Hash(data) == <<"sha256", data>>

Addr == {Hash(p) : p \in Plain}

Sealed == [key : Int, plain : Plain]

Snapshot == [id : Int, ts : Int, chunks : Seq(Addr)]

Encrypt(plain, key) == [key |-> key, plain |-> plain]

\* Raw bytes do not open under any key.
Decrypt(data, key) ==
    IF data \in Sealed /\ data.key = key THEN data.plain ELSE OpenError

RepoInit ==
    /\ blocks = [a \in Addr |-> Missing]
    /\ snaps = {}

-----------------------------------------------------------------------------
(* internal/storage/store.go *)

Exists(a) == blocks[a] # Missing

ListAll == {a \in Addr : Exists(a)}

\* Fault: the chunk is sealed and written without looking for it first.
PutChunkNoDedup(plain, key) ==
    blocks' = [blocks EXCEPT ![Hash(plain)] = Encrypt(plain, key)]

\* A chunk that is already stored is left as it is, whatever key sealed it.
PutChunk(plain, key) ==
    blocks' = IF Exists(Hash(plain)) THEN blocks
              ELSE [blocks EXCEPT ![Hash(plain)] = Encrypt(plain, key)]

\* What GetChunk returns for an address, Missing and OpenError its errors.
GetChunk(a, key) == IF Exists(a) THEN Decrypt(blocks[a], key) ELSE Missing

\* Put writes the bytes it is given, whatever is there already.
Put(a, data) == blocks' = [blocks EXCEPT ![a] = data]

Delete(a) == blocks' = [blocks EXCEPT ![a] = Missing]

-----------------------------------------------------------------------------
(* internal/versioning/version.go *)

\* The table is keyed by the snapshot's ID: saving one replaces any other
\* snapshot with the same ID.
SaveSnapshot(snap) == snaps' = {s \in snaps : s.id # snap.id} \cup {snap}

DeleteSnapshot(id) == snaps' = {s \in snaps : s.id # id}

ReferencedBy(S) == UNION {Range(s.chunks) : s \in S}
=============================================================================
