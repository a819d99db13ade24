------------------------------- MODULE Config -------------------------------
(***************************************************************************)
(* config.Load after the file has been decoded: overrides from the         *)
(* environment, defaults for what is unset, validation.  A configuration   *)
(* is a record with the names of the YAML file; a flag is 0 or 1, a        *)
(* duration a number of seconds.  Settings that nothing here tells apart   *)
(* (lists of admins, paths and addresses other than the bootstrap peers,   *)
(* relay, tracing, automatic backups) are left out.                        *)
(***************************************************************************)
EXTENDS Integers, Sequences

CONSTANT Garbage  \* the text of an environment variable that is no number or flag

Words == {"repository_path", "log_level", "log_format"}

Numbers == {
    "listen_port", "min_chunk_size", "max_chunk_size", "avg_chunk_size", "compression",
    "max_peers", "connection_timeout", "discovery_interval", "heartbeat_interval",
    "max_concurrent_fetch", "chunk_fetch_timeout", "reconnect_backoff",
    "max_reconnect_backoff", "max_cache_size", "gc_interval", "retention_days",
    "verify_on_restore", "enable_deduplication", "enable_metrics", "metrics_port",
    "enable_profiling", "profiling_port", "health_check_port", "backup_interval",
    "max_backup_retries", "enable_rate_limiting", "requests_per_second", "burst_size",
    "max_request_size"}

\* The values of the settings that the file leaves out.
Zero == [f \in Numbers \cup Words \cup {"peer_bootstrap"} |->
            IF f \in Numbers THEN 0 ELSE IF f \in Words THEN "" ELSE <<>>]

Default == [
    min_chunk_size |-> 2048, max_chunk_size |-> 65536, avg_chunk_size |-> 8192,
    listen_port |-> 9000, repository_path |-> "./data",
    max_peers |-> 50, connection_timeout |-> 30, discovery_interval |-> 300,
    heartbeat_interval |-> 30, max_concurrent_fetch |-> 10, chunk_fetch_timeout |-> 60,
    reconnect_backoff |-> 5, max_reconnect_backoff |-> 300,
    max_cache_size |-> 2^30, gc_interval |-> 86400, retention_days |-> 30,
    metrics_port |-> 9090, profiling_port |-> 6060, health_check_port |-> 8080,
    log_level |-> "info", log_format |-> "json",
    backup_interval |-> 86400, max_backup_retries |-> 3,
    requests_per_second |-> 100, burst_size |-> 200, max_request_size |-> 100 * 2^20]

\* Switched on whatever the file says.
Forced == {"verify_on_restore", "enable_deduplication"}

\* applyEnvironmentOverrides: env has the variables that are set and not empty.  A
\* port that does not parse is ignored; any other text than true or 1 clears the
\* compression flag.
Overrides(c, env) ==
    [f \in DOMAIN c |-> IF f \notin DOMAIN env THEN c[f]
                        ELSE IF env[f] # Garbage THEN env[f]
                        ELSE IF f = "compression" THEN 0 ELSE c[f]]

\* applyDefaults: a setting that is zero is taken for one that the file leaves out.
Defaults(c) ==
    [f \in DOMAIN c |-> IF f \in Forced THEN 1
                        ELSE IF f \in DOMAIN Default /\ c[f] = Zero[f] THEN Default[f]
                        ELSE c[f]]

IsPort(n) == 1 <= n /\ n <= 65535

\* strings.ToLower on the spellings of a log level.
ToLower(level) == IF level = "INFO" THEN "info" ELSE level

ValidateSizes(c) ==
    /\ c.min_chunk_size > 0
    /\ c.max_chunk_size > c.min_chunk_size
    /\ c.min_chunk_size <= c.avg_chunk_size /\ c.avg_chunk_size <= c.max_chunk_size

ValidatePorts(c) ==
    /\ IsPort(c.listen_port)
    /\ c.enable_metrics = 1 => IsPort(c.metrics_port)
    /\ c.enable_profiling = 1 => IsPort(c.profiling_port)
    /\ IsPort(c.health_check_port)

Validate(c) ==
    /\ ValidateSizes(c)
    /\ ValidatePorts(c)
    /\ c.repository_path # ""
    /\ c.max_peers >= 1
    /\ c.max_concurrent_fetch >= 1
    /\ c.retention_days >= 0
    /\ c.max_cache_size >= 0
    /\ ToLower(c.log_level) \in {"debug", "info", "warn", "error", "fatal"}
    /\ c.log_format \in {"json", "text"}
    /\ c.enable_rate_limiting = 1 => /\ c.requests_per_second >= 1
                                     /\ c.burst_size >= c.requests_per_second
=============================================================================
