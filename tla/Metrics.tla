------------------------------- MODULE Metrics -------------------------------
(***************************************************************************)
(* The metrics of one process (internal/monitoring/metrics.go), recorded   *)
(* by any goroutine, and the page the metrics server makes of them.        *)
(*                                                                         *)
(* Every counter is atomic and a histogram has a lock, but a recorder      *)
(* changes several of them one after the other, and the page reads them    *)
(* one after the other.  A recorder is the sequence of its additions, each *)
(* of one.  Modelled are all calls that add to more than one counter; the  *)
(* amounts of bytes and of deleted blocks are left out, and of a histogram *)
(* only the number of its observations is kept.                            *)
(***************************************************************************)
EXTENDS Integers, Sequences, FiniteSets

CONSTANTS Recorders,  \* goroutines that record
          ErrorTypes, \* types of error they record
          MaxCalls    \* bound on the calls they make

ASSUME RecordersFinite == IsFiniteSet(Recorders)

Counters == {"BackupsCreated", "BackupsFailed", "RestoresFailed", "ChunksStored",
             "DeduplicatedChunks", "BlocksStored", "ChunkRequestsReceived",
             "ChunkRequestsSent", "ChunkRequestsFailed", "TotalErrors",
             "NetworkErrors", "StorageErrors", "CryptoErrors", "BackupDuration",
             "RestoresCompleted", "RestoreDuration", "ChunksFetched",
             "ChunkFetchDuration", "GarbageCollectionRuns"}

VARIABLES metrics,  \* counter -> value
          todo,     \* recorder -> the additions of its call that are still to come
          calls,    \* calls made so far
          page      \* the values the page being made shows so far

metricVars == <<metrics, todo, calls, page>>

RecordBackupCreated == <<"BackupsCreated", "BackupDuration">>

\* Fault: the total is left alone.
RecordBackupFailedOnly == <<"BackupsFailed">>

RecordBackupFailed == <<"BackupsFailed", "TotalErrors">>

RecordRestoreCompleted == <<"RestoresCompleted", "RestoreDuration">>

RecordRestoreFailed == <<"RestoresFailed", "TotalErrors">>

RecordChunkStored(deduplicated) ==
    <<"ChunksStored", IF deduplicated THEN "DeduplicatedChunks" ELSE "BlocksStored">>

RecordChunkFetched == <<"ChunksFetched", "ChunkFetchDuration">>

RecordGarbageCollection == <<"GarbageCollectionRuns">>

RecordChunkRequest(sent, failed) ==
    <<IF sent THEN "ChunkRequestsSent" ELSE "ChunkRequestsReceived">> \o
    IF failed THEN <<"ChunkRequestsFailed", "NetworkErrors", "TotalErrors">> ELSE <<>>

ErrorCounter == [network |-> "NetworkErrors", storage |-> "StorageErrors",
                 crypto |-> "CryptoErrors"]

\* Fault: an error of another type counts under its own name.
RecordErrorOwnName(type) ==
    <<"TotalErrors">> \o
    IF type \in DOMAIN ErrorCounter THEN <<ErrorCounter[type]>> ELSE <<type>>

\* An error of another type counts in the total only.
RecordError(type) ==
    <<"TotalErrors">> \o
    IF type \in DOMAIN ErrorCounter THEN <<ErrorCounter[type]>> ELSE <<>>

\* The calls a goroutine may make.
Records ==
    {RecordBackupCreated, RecordBackupFailed, RecordRestoreCompleted,
     RecordRestoreFailed, RecordChunkFetched, RecordGarbageCollection}
    \cup {RecordChunkStored(d) : d \in BOOLEAN}
    \cup {RecordChunkRequest(s, f) : s \in BOOLEAN, f \in BOOLEAN}
    \cup {RecordError(t) : t \in ErrorTypes}

\* Fault: the page reads the backups after the histogram of their durations.
PageOrderLate ==
    <<"BackupsFailed", "RestoresFailed", "ChunksStored", "DeduplicatedChunks",
      "BlocksStored", "TotalErrors", "NetworkErrors", "StorageErrors", "CryptoErrors",
      "BackupDuration", "BackupsCreated">>

\* The order in which metricsHandler loads the values that are related to others on
\* the page; those that stand alone are left out.
PageOrder ==
    <<"BackupsCreated", "BackupsFailed", "RestoresFailed", "ChunksStored",
      "DeduplicatedChunks", "BlocksStored", "TotalErrors", "NetworkErrors",
      "StorageErrors", "CryptoErrors", "BackupDuration">>

-----------------------------------------------------------------------------
MetricInit ==
    /\ metrics = [c \in Counters |-> 0]
    /\ todo = [r \in Recorders |-> <<>>]
    /\ calls = 0
    /\ page = <<>>

Call(r) ==
    /\ todo[r] = <<>>
    /\ calls < MaxCalls
    /\ calls' = calls + 1
    /\ \E record \in Records : todo' = [todo EXCEPT ![r] = record]
    /\ UNCHANGED <<metrics, page>>

Add(r) ==
    /\ todo[r] # <<>>
    /\ metrics' = [metrics EXCEPT ![Head(todo[r])] = @ + 1]
    /\ todo' = [todo EXCEPT ![r] = Tail(@)]
    /\ UNCHANGED <<calls, page>>

\* metricsHandler loads the next value.
Load ==
    /\ Len(page) < Len(PageOrder)
    /\ page' = Append(page, metrics[PageOrder[Len(page) + 1]])
    /\ UNCHANGED <<metrics, todo, calls>>

\* The page is complete.
Send ==
    /\ Len(page) = Len(PageOrder)
    /\ page' = <<>>
    /\ UNCHANGED <<metrics, todo, calls>>

MetricNext == (\E r \in Recorders : Call(r) \/ Add(r)) \/ Load \/ Send

MetricSpec == MetricInit /\ [][MetricNext]_metricVars

-----------------------------------------------------------------------------
(* Properties *)

\* Type correctness; every addition is to a counter there is.
MetricTypeOK ==
    /\ metrics \in [Counters -> Nat]
    /\ todo \in [Recorders -> Seq(Counters)]
    /\ calls \in 0 .. MaxCalls
    /\ page \in Seq(Nat) /\ Len(page) <= Len(PageOrder)

\* The value a complete page shows.
Shows(counter) == page[CHOOSE i \in 1 .. Len(PageOrder) : PageOrder[i] = counter]

\* A page whose values were loaded one by one while recorders were at work is off by
\* at most one call of each recorder: it shows no more backups than durations, no
\* more failed backups and restores than errors, and no more chunks stored than new
\* and deduplicated ones, but for calls under way.  (It may show fewer.)  The kinds
\* of error are loaded after their total and may exceed the total it shows, but not
\* what the total has become by then.
PageAddsUp ==
    Len(page) = Len(PageOrder) =>
        LET slack == Cardinality(Recorders)
        IN  /\ Shows("BackupsCreated") <= Shows("BackupDuration") + slack
            /\ Shows("BackupsFailed") + Shows("RestoresFailed")
                 <= Shows("TotalErrors") + slack
            /\ Shows("ChunksStored")
                 <= Shows("DeduplicatedChunks") + Shows("BlocksStored") + slack
            /\ Shows("BackupsFailed") + Shows("RestoresFailed") + Shows("NetworkErrors")
                 + Shows("StorageErrors") + Shows("CryptoErrors")
                 <= metrics["TotalErrors"] + slack

\* When nobody is recording, the errors by kind do not exceed the total.
ErrorsAddUp ==
    (\A r \in Recorders : todo[r] = <<>>) =>
        metrics["BackupsFailed"] + metrics["RestoresFailed"] + metrics["NetworkErrors"]
          + metrics["StorageErrors"] + metrics["CryptoErrors"] <= metrics["TotalErrors"]
=============================================================================
