----------------------------- MODULE MCChunkSync -----------------------------
(* ChunkSync for TLC: snapshots that list one chunk twice, next to each other   *)
(* or not, and another one, so that two fetches of one hash overlap and a third *)
(* waits for a slot; and the snapshot of an empty directory.                    *)
EXTENDS ChunkSync

CONSTANTS p1, p2

MCChunkLists == {<<>>,
                 <<Hash(p1), Hash(p1), Hash(p2)>>,
                 <<Hash(p1), Hash(p2), Hash(p1)>>}
=============================================================================
