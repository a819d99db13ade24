------------------------------ MODULE RateLimit ------------------------------
(***************************************************************************)
(* Rate and resource limits (internal/ratelimit).                          *)
(*                                                                         *)
(* A Limiter keeps one token bucket per client.  A request looks its       *)
(* bucket up under the lock and takes a token from it after the lock is    *)
(* released, so the clean-up goroutine may drop the table in between and   *)
(* leave the request with a bucket that nobody else will use.  Buckets are *)
(* heap objects, numbered; a number that nothing refers to is used again.  *)
(* The limiter is enabled: a disabled one admits everything.               *)
(*                                                                         *)
(* A ResourceLimiter counts the bytes and the goroutines its callers say   *)
(* they hold.  It knows of no holders: a caller may release any number of  *)
(* bytes and report the end of a goroutine that was never counted, and the *)
(* counts are clamped at zero.                                             *)
(***************************************************************************)
EXTENDS Integers, FiniteSetsExt

CONSTANTS Clients,
          Whitelist,      \* clients that are not limited
          Requests,       \* requests handled at the same time
          Buckets,        \* rate.Limiter objects
          None,           \* no bucket, no client
          Rate,           \* requestsPerSec: tokens a bucket gains in a second
          Burst,          \* tokens a bucket holds
          MaxLimiters,    \* entries the clean-up lets the table have: 10000
          MaxCleanups,    \* bound on the clean-ups that drop the table
          Holders,        \* callers of the resource limiter
          Amounts,        \* bytes a caller may ask for or release
          MaxStray,       \* bound on what is released without being held
          MaxMemory,      \* maxMemoryBytes
          MaxGoroutines   \* maxGoroutines

ASSUME LimitAssumption == /\ Whitelist \subseteq Clients
                          /\ Buckets \subseteq Nat
                          /\ None \notin Buckets \cup Clients
                          /\ IsFiniteSet(Requests)
                          /\ Rate \in Nat /\ Burst \in Nat
                          /\ MaxLimiters \in Nat /\ MaxCleanups \in Nat
                          /\ Amounts \subseteq Nat \ {0}
                          /\ MaxMemory \in Nat /\ MaxGoroutines \in Nat
                          /\ MaxStray \in Nat

VARIABLES limiters,        \* client -> its bucket, or None
          tokens,          \* bucket -> tokens
          qpc,             \* control state of each request
          client,          \* request -> the client it is from
          bucket,          \* request -> the bucket it has looked up
          cleanups,        \* clean-ups that have dropped the table
          budget,          \* auxiliary: the tokens of a bucket that is never dropped
          currentMemory,
          goroutineCount,
          memory,          \* auxiliary: holder -> bytes it was granted and has not released
          working,         \* auxiliary: the holders that run in a counted goroutine
          strayBytes,      \* auxiliary: bytes released by holders that did not hold them
          strayEnds        \* auxiliary: ends reported of goroutines that were not counted

limiterVars == <<limiters, tokens, qpc, client, bucket, cleanups, budget>>
memoryVars == <<currentMemory, memory, strayBytes>>
goroutineVars == <<goroutineCount, working, strayEnds>>
resourceVars == <<memoryVars, goroutineVars>>
limitVars == <<limiterVars, resourceVars>>

LimitInit ==
    /\ limiters = [c \in Clients |-> None]
    /\ tokens = [k \in Buckets |-> 0]
    /\ qpc = [r \in Requests |-> "idle"]
    /\ client = [r \in Requests |-> None]
    /\ bucket = [r \in Requests |-> None]
    /\ cleanups = 0
    /\ budget = [c \in Clients |-> Burst]
    /\ currentMemory = 0
    /\ goroutineCount = 0
    /\ memory = [h \in Holders |-> 0]
    /\ working = {}
    /\ strayBytes = 0
    /\ strayEnds = 0

-----------------------------------------------------------------------------
(* Limiter *)

InUse(k) == (\E c \in Clients : limiters[c] = k) \/ (\E r \in Requests : bucket[r] = k)

\* A request arrives: one from a client on the whitelist is served as it is, any
\* other goes on to its bucket, to take a token (Allow, Middleware).
Arrive(r, c) ==
    /\ qpc[r] = "idle"
    /\ c \notin Whitelist
    /\ client' = [client EXCEPT ![r] = c]
    /\ qpc' = [qpc EXCEPT ![r] = "allow"]
    /\ UNCHANGED <<limiters, tokens, bucket, cleanups, budget, resourceVars>>

\* Fault: the lookup and the insertion are not one critical section, so two first
\* requests of a client get a bucket each.
GetLimiterUnlocked(r) ==
    /\ qpc[r] = "allow"
    /\ bucket[r] = None
    /\ \E k \in Buckets :
          /\ ~InUse(k)
          /\ limiters' = [limiters EXCEPT ![client[r]] = k]
          /\ tokens' = [tokens EXCEPT ![k] = Burst]
          /\ bucket' = [bucket EXCEPT ![r] = k]
    /\ UNCHANGED <<qpc, client, cleanups, budget, resourceVars>>

\* GetLimiter: the client's bucket, or a new and full one.
GetLimiter(r) ==
    /\ qpc[r] = "allow"
    /\ bucket[r] = None
    /\ IF limiters[client[r]] # None
       THEN /\ bucket' = [bucket EXCEPT ![r] = limiters[client[r]]]
            /\ UNCHANGED <<limiters, tokens>>
       ELSE \E k \in Buckets :
               /\ ~InUse(k)
               /\ \A j \in Buckets : InUse(j) \/ k <= j
               /\ limiters' = [limiters EXCEPT ![client[r]] = k]
               /\ tokens' = [tokens EXCEPT ![k] = Burst]
               /\ bucket' = [bucket EXCEPT ![r] = k]
    /\ UNCHANGED <<qpc, client, cleanups, budget, resourceVars>>

\* The request is over.
Leave(r) ==
    /\ qpc' = [qpc EXCEPT ![r] = "idle"]
    /\ client' = [client EXCEPT ![r] = None]
    /\ bucket' = [bucket EXCEPT ![r] = None]
    /\ UNCHANGED <<limiters, cleanups, resourceVars>>

\* Fault: the token is taken whether or not there is one.
AdmitUnchecked(r) ==
    /\ bucket[r] # None
    /\ tokens' = [tokens EXCEPT ![bucket[r]] = @ - 1]
    /\ budget' = [budget EXCEPT ![client[r]] = @ - 1]
    /\ Leave(r)

\* The bucket gives a token and the request is admitted.
Admit(r) ==
    /\ bucket[r] # None
    /\ tokens[bucket[r]] > 0
    /\ tokens' = [tokens EXCEPT ![bucket[r]] = @ - 1]
    /\ budget' = [budget EXCEPT ![client[r]] = @ - 1]
    /\ Leave(r)

\* The bucket is empty: Too Many Requests.
Refuse(r) ==
    /\ bucket[r] # None
    /\ tokens[bucket[r]] = 0
    /\ UNCHANGED <<tokens, budget>>
    /\ Leave(r)

\* A second passes.
Refill ==
    /\ tokens' = [k \in Buckets |-> IF InUse(k) THEN Min({Burst, tokens[k] + Rate})
                                    ELSE 0]
    /\ budget' = [c \in Clients |-> Min({Burst, budget[c] + Rate})]
    /\ UNCHANGED <<limiters, qpc, client, bucket, cleanups, resourceVars>>

\* CleanupOldLimiters, at a tick of StartCleanup.
CleanupOldLimiters ==
    /\ Cardinality({c \in Clients : limiters[c] # None}) > MaxLimiters
    /\ cleanups < MaxCleanups
    /\ limiters' = [c \in Clients |-> None]
    /\ cleanups' = cleanups + 1
    /\ UNCHANGED <<tokens, qpc, client, bucket, budget, resourceVars>>

-----------------------------------------------------------------------------
(* ResourceLimiter *)

\* Fault: a refused allocation is counted.
AllocateMemoryCounts(h, bytes) ==
    /\ currentMemory' = currentMemory + bytes
    /\ memory' = IF currentMemory + bytes > MaxMemory THEN memory
                 ELSE [memory EXCEPT ![h] = @ + bytes]
    /\ UNCHANGED <<limiterVars, strayBytes, goroutineVars>>

\* A refused allocation changes nothing.
AllocateMemory(h, bytes) ==
    /\ currentMemory + bytes <= MaxMemory
    /\ currentMemory' = currentMemory + bytes
    /\ memory' = [memory EXCEPT ![h] = @ + bytes]
    /\ UNCHANGED <<limiterVars, strayBytes, goroutineVars>>

\* Any caller may release any number of bytes, held or not.
ReleaseMemory(h, bytes) ==
    /\ currentMemory' = Max({0, currentMemory - bytes})
    /\ memory' = [memory EXCEPT ![h] = Max({0, @ - bytes})]
    /\ strayBytes' = strayBytes + Max({0, bytes - memory[h]})
    /\ strayBytes' <= MaxStray
    /\ UNCHANGED <<limiterVars, goroutineVars>>

StartGoroutine(h) ==
    /\ h \notin working
    /\ goroutineCount < MaxGoroutines
    /\ goroutineCount' = goroutineCount + 1
    /\ working' = working \cup {h}
    /\ UNCHANGED <<limiterVars, memoryVars, strayEnds>>

\* Any caller may report an end, whether or not its goroutine was counted.
EndGoroutine(h) ==
    /\ goroutineCount' = Max({0, goroutineCount - 1})
    /\ working' = working \ {h}
    /\ strayEnds' = IF h \in working THEN strayEnds ELSE strayEnds + 1
    /\ strayEnds' <= MaxStray
    /\ UNCHANGED <<limiterVars, memoryVars>>

-----------------------------------------------------------------------------
RequestNext(r) ==
    \/ \E c \in Clients : Arrive(r, c)
    \/ GetLimiter(r)
    \/ Admit(r)
    \/ Refuse(r)

HolderNext(h) ==
    \/ \E bytes \in Amounts : AllocateMemory(h, bytes) \/ ReleaseMemory(h, bytes)
    \/ StartGoroutine(h)
    \/ EndGoroutine(h)

LimiterNext ==
    \/ \E r \in Requests : RequestNext(r)
    \/ Refill
    \/ CleanupOldLimiters

ResourceNext == \E h \in Holders : HolderNext(h)

LimitNext == LimiterNext \/ ResourceNext

LimitSpec == LimitInit /\ [][LimitNext]_limitVars

-----------------------------------------------------------------------------
(* Properties *)

\* Type correctness; no bucket holds more than Burst tokens or a negative number.
LimitTypeOK ==
    /\ limiters \in [Clients -> Buckets \cup {None}]
    /\ tokens \in [Buckets -> 0 .. Burst]
    /\ qpc \in [Requests -> {"idle", "allow"}]
    /\ client \in [Requests -> (Clients \ Whitelist) \cup {None}]
    /\ bucket \in [Requests -> Buckets \cup {None}]
    /\ cleanups \in 0 .. MaxCleanups
    /\ budget \in [Clients -> Int]
    /\ currentMemory \in 0 .. MaxMemory
    /\ goroutineCount \in 0 .. MaxGoroutines
    /\ memory \in [Holders -> Nat]
    /\ working \subseteq Holders
    /\ strayBytes \in 0 .. MaxStray /\ strayEnds \in 0 .. MaxStray

\* A client is admitted no more often than one bucket of Burst tokens and Rate
\* tokens a second allows, although its requests look the bucket up and use it in
\* separate steps.  Each clean-up that drops the table costs at most a fresh burst
\* and one admission for every request that was holding a bucket.
AdmissionsBounded ==
    \A c \in Clients : budget[c] >= -(cleanups * (Burst + Cardinality(Requests)))

\* The bytes that are held, each named by its holder and a number.
HeldBytes == UNION {{h} \X (1 .. memory[h]) : h \in Holders}

\* The resource limiter never counts a byte or a goroutine that nobody holds, and
\* what it does not count although it is held is at most what other callers have
\* released without holding it: after such a release, and whatever the clamps at
\* zero swallow of it, the callers exceed a limit by no more than that.
ResourcesAccounted ==
    /\ currentMemory <= Cardinality(HeldBytes)
    /\ Cardinality(HeldBytes) <= currentMemory + strayBytes
    /\ goroutineCount <= Cardinality(working)
    /\ Cardinality(working) <= goroutineCount + strayEnds
=============================================================================
