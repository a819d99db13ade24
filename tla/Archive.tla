------------------------------- MODULE Archive -------------------------------
(***************************************************************************)
(* What a backup repository promises, without processes, keys or           *)
(* transactions.  Snapshots are saved, stay for the retention period and   *)
(* expire.  Some are intact: all their chunks are stored when they are     *)
(* saved, and none of those chunks is reclaimed while they are there.      *)
(* Vault implements it but for the names: they are seconds, and a second   *)
(* snapshot of the same second replaces the first.                         *)
(***************************************************************************)
EXTENDS Integers, Functions

CONSTANTS Chunk,     \* addresses of chunks
          Retention  \* how long a snapshot is kept, in seconds

VARIABLES stored,  \* the chunks that can be read
          saved,   \* the snapshots: records of an id, a timestamp and chunks
          intact,  \* the IDs of the intact ones
          now

archiveVars == <<stored, saved, intact, now>>

ArchiveInit == stored = {} /\ saved = {} /\ intact = {} /\ now = 0

Pass ==
    /\ now' = now + 1
    /\ UNCHANGED <<stored, saved, intact>>

Put(a) ==
    /\ stored' = stored \cup {a}
    /\ UNCHANGED <<saved, intact, now>>

Taken(i) == \E t \in saved : t.id = i

\* A snapshot is named after a second that has come.
Record(s, whole) ==
    /\ s.id <= now
    /\ whole => Range(s.chunks) \subseteq stored
    /\ saved' = {t \in saved : t.id # s.id} \cup {s}
    /\ intact' = IF whole THEN intact \cup {s.id} ELSE intact \ {s.id}
    /\ UNCHANGED <<stored, now>>

\* A snapshot gets a name of its own and no other is lost.
Save(s, whole) == ~Taken(s.id) /\ Record(s, whole)

Expire(i) ==
    /\ i <= now - Retention
    /\ saved' = {t \in saved : t.id # i}
    /\ intact' = intact \ {i}
    /\ UNCHANGED <<stored, now>>

\* A chunk that no intact snapshot has may go at any time.
Reclaim(a) ==
    /\ \A s \in saved : s.id \in intact => a \notin Range(s.chunks)
    /\ stored' = stored \ {a}
    /\ UNCHANGED <<saved, intact, now>>

\* The snapshot a step adds is among saved'.
ArchiveNext ==
    \/ Pass
    \/ \E a \in Chunk : Put(a) \/ Reclaim(a)
    \/ \E s \in saved', whole \in BOOLEAN : Save(s, whole)
    \/ \E i \in 0 .. now : Expire(i)

ArchiveSpec == ArchiveInit /\ [][ArchiveNext]_archiveVars

\* What the repository does not promise: a snapshot takes the place of another.
Replace(s, whole) == Taken(s.id) /\ Record(s, whole)

ReplacingNext ==
    \/ ArchiveNext
    \/ \E s \in saved', whole \in BOOLEAN : Replace(s, whole)

ReplacingSpec == ArchiveInit /\ [][ReplacingNext]_archiveVars
=============================================================================
