------------------------------- MODULE Chunker -------------------------------
(***************************************************************************)
(* Cutting files into chunks: Chunker.Next (internal/chunker) and the walk *)
(* of snapshots.CreateSnapshot that calls it.                              *)
(*                                                                         *)
(* A file is its length and a chunk the interval of its bytes.  Each call  *)
(* of Next fills a new buffer with one Read and scans it from its start,   *)
(* so where the hash of the bytes read so far has its low 13 bits clear is *)
(* an arbitrary set of positions of that buffer.                           *)
(***************************************************************************)
EXTENDS Integers, Sequences, FiniteSetsExt

VARIABLES wpc,    \* the walk: "idle", "walk", "done" or "failed"
          tree,   \* the lengths of the files it visits, in order
          cur,    \* the file it is at
          pos,    \* how many of its bytes have been read
          chunks  \* the chunks stored: bytes from+1 .. to of file, of a Read up to end

walkVars == <<wpc, tree, cur, pos, chunks>>

WalkReset(pc) == wpc' = pc /\ tree' = <<>> /\ cur' = 1 /\ pos' = 0 /\ chunks' = <<>>

WalkInit == wpc = "idle" /\ tree = <<>> /\ cur = 1 /\ pos = 0 /\ chunks = <<>>

WalkBegin(files) ==
    /\ wpc = "idle"
    /\ wpc' = "walk"
    /\ tree' = files
    /\ UNCHANGED <<cur, pos, chunks>>

\* Fault: a boundary is looked for from the first byte on.
ChunkEndNoMin(n, min, max, hits) ==
    LET ends == {i + 1 : i \in hits} IN IF ends = {} THEN n ELSE Min(ends)

\* The scan of Next over the n bytes read: the chunk ends behind the first boundary
\* (a byte of hits) that is not among the first min bytes, or after max bytes, or
\* with the buffer.
ChunkEnd(n, min, max, hits) ==
    LET ends == {i + 1 : i \in {j \in hits : j >= min}} \cup {m \in {max} : n >= max}
    IN  IF ends = {} THEN n ELSE Min(ends)

\* One turn of CreateSnapshot's loop: Next reads into a buffer of max bytes and
\* returns the chunk at its start, which PutChunk stores.  What the Read delivered
\* behind the chunk is not looked at again.
WalkChunk(min, max) ==
    /\ wpc = "walk"
    /\ cur <= Len(tree)
    /\ \E n \in 1 .. Min({max, tree[cur] - pos}) :
          \E hits \in SUBSET (0 .. n - 1) :
             /\ chunks' = Append(chunks, [file |-> cur, from |-> pos, end |-> pos + n,
                                          to |-> pos + ChunkEnd(n, min, max, hits)])
             /\ pos' = pos + n
    /\ UNCHANGED <<wpc, tree, cur>>

\* Fault: the end of a file is noticed only behind a chunk of it.
WalkNextFileNonEmpty ==
    /\ wpc = "walk"
    /\ cur <= Len(tree)
    /\ pos = tree[cur] /\ pos > 0
    /\ cur' = cur + 1
    /\ pos' = 0
    /\ UNCHANGED <<wpc, tree, chunks>>

\* Next returns io.EOF, and the walk goes on to the next file.
WalkNextFile ==
    /\ wpc = "walk"
    /\ cur <= Len(tree)
    /\ pos = tree[cur]
    /\ cur' = cur + 1
    /\ pos' = 0
    /\ UNCHANGED <<wpc, tree, chunks>>

\* A file cannot be opened or read, or PutChunk fails: no snapshot is made.
WalkFail == wpc = "walk" /\ WalkReset("failed")

WalkEnd ==
    /\ wpc = "walk"
    /\ cur > Len(tree)
    /\ wpc' = "done"
    /\ UNCHANGED <<tree, cur, pos, chunks>>

WalkNext(min, max) == WalkChunk(min, max) \/ WalkNextFile \/ WalkFail \/ WalkEnd

-----------------------------------------------------------------------------
(* Properties *)

\* The number of bytes of file f that are in some chunk.
BytesChunked(f) == MapThenSumSet(LAMBDA k : chunks[k].to - chunks[k].from,
                                 {k \in DOMAIN chunks : chunks[k].file = f})

\* The chunks a snapshot lists are in the order of the files and of their bytes, do
\* not overlap, and leave out only what one Read delivered behind a boundary: every
\* Read begins where the last one ended, and bytes of it are missing only if the
\* chunk in front of them has more than min bytes.
ChunksInOrder(min) ==
    \A k \in 1 .. Len(chunks) :
        LET c == chunks[k]
            p == IF k = 1 THEN [file |-> 0, end |-> 0] ELSE chunks[k - 1]
        IN  /\ IF p.file = c.file THEN c.from = p.end
               ELSE p.file < c.file /\ c.from = 0
            /\ c.to <= c.end
            /\ c.to < c.end => c.to - c.from > min

\* No chunk is empty or longer than max.
ChunkSizes(max) ==
    \A k \in 1 .. Len(chunks) :
        /\ chunks[k].from < chunks[k].to
        /\ chunks[k].to - chunks[k].from <= max
=============================================================================
