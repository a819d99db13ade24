------------------------------ MODULE MCCommands ------------------------------
(* Commands for TLC: which settings, directories and peers there are. *)
EXTENDS Commands

CONSTANT q1

\* Single settings: usable ones, and ones at or beyond a limit.
Settings == {
    <<"min_chunk_size", -1>>, <<"min_chunk_size", 1>>, <<"min_chunk_size", 2>>,
    <<"max_chunk_size", 2>>, <<"max_chunk_size", 3>>, <<"max_chunk_size", 100000>>,
    <<"avg_chunk_size", 2>>, <<"avg_chunk_size", 3>>,
    <<"discovery_interval", -1>>, <<"max_concurrent_fetch", -1>>,
    <<"retention_days", -1>>, <<"retention_days", 0>>,
    <<"enable_rate_limiting", 1>>, <<"requests_per_second", 300>>, <<"burst_size", -1>>,
    <<"enable_metrics", 1>>, <<"metrics_port", 65536>>,
    <<"log_level", "INFO">>, <<"log_level", "loud">>,
    <<"peer_bootstrap", <<q1>> >>}

FileOf(S) == [f \in {s[1] : s \in S} |-> (CHOOSE s \in S : s[1] = f)[2]]

\* All files with up to three settings.
MCFiles ==
    {Unset} \cup {FileOf({r, s, t}) : r, s, t \in Settings}

MCEnvs == {
    Unset, [listen_port |-> Garbage], [listen_port |-> 0], [listen_port |-> 65536],
    [metrics_port |-> Garbage], [metrics_port |-> 1], [log_level |-> "loud"],
    [log_level |-> "debug"], [compression |-> Garbage],
    [peer_bootstrap |-> <<Garbage, q1>>]}

\* A file long enough for two buffers, and a directory with an empty file.
MCTrees == {<<5>>, <<1, 0, 3>>}
=============================================================================
