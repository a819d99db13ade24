--------------------------- MODULE RateLimitProofs ---------------------------
(***************************************************************************)
(* The bound on admissions and the accounting of resources, for every set  *)
(* of clients, requests, buckets and holders and all rates and limits.     *)
(***************************************************************************)
EXTENDS RateLimit, FiniteSetTheorems, TLAPS

\* What the client's bucket can still give: a client that has none in the table will
\* be given a full one.
Potential(c) == IF limiters[c] = None THEN Burst ELSE tokens[limiters[c]]

\* The client's requests that hold a bucket which the table has dropped.
Stale(c) == {r \in Requests : client[r] = c /\ bucket[r] # None /\ bucket[r] # limiters[c]}

\* What the clean-ups so far may have cost.
Allowance == cleanups * (Burst + Cardinality(Requests))

\* A request under way is from a client, and one that is over holds no bucket.
RequestFacts ==
    \A r \in Requests : /\ qpc[r] = "idle" => bucket[r] = None
                        /\ qpc[r] # "idle" => client[r] \in Clients

\* Every token a client can still take is covered by its budget and the allowance.
BudgetFacts ==
    \A c \in Clients : /\ budget[c] <= Burst
                       /\ cleanups = 0 => Stale(c) = {}
                       /\ budget[c] + Allowance >= Potential(c) + Cardinality(Stale(c))

ResourceFacts == ResourcesAccounted /\ IsFiniteSet(HeldBytes) /\ IsFiniteSet(working)

LimiterInductive == LimitTypeOK /\ RequestFacts /\ BudgetFacts

LimitInductive == LimiterInductive /\ ResourceFacts

-----------------------------------------------------------------------------
\* The smaller and the larger of two integers.
LEMMA MinMaxOfTwo ==
  ASSUME NEW a \in Int, NEW b \in Int
  PROVE  /\ Min({a, b}) = IF a <= b THEN a ELSE b
         /\ Max({a, b}) = IF a >= b THEN a ELSE b
  <1>1. \A x, y \in {a, b} : x \in Int /\ (x = a \/ x = b)
    OBVIOUS
  <1> DEFINE m == IF a <= b THEN a ELSE b
             M == IF a >= b THEN a ELSE b
  <1>2. m \in {a, b} /\ \A y \in {a, b} : m <= y
    OBVIOUS
  <1>3. M \in {a, b} /\ \A y \in {a, b} : M >= y
    OBVIOUS
  <1>4. Min({a, b}) \in {a, b} /\ \A y \in {a, b} : Min({a, b}) <= y
    BY <1>2 DEF Min
  <1>5. Max({a, b}) \in {a, b} /\ \A y \in {a, b} : Max({a, b}) >= y
    BY <1>3 DEF Max
  <1> QED
    BY <1>2, <1>3, <1>4, <1>5

\* A count that is clamped at zero.
LEMMA Clamp ==
  ASSUME NEW a \in Nat, NEW b \in Nat
  PROVE  Max({0, a - b}) = IF a >= b THEN a - b ELSE 0
  <1> DEFINE d == a - b
  <1>1. d \in Int /\ 0 \in Int /\ (0 >= d <=> ~(a > b)) /\ (a = b => d = 0)
    OBVIOUS
  <1>2. Max({0, d}) = IF 0 >= d THEN 0 ELSE d
    <2> HIDE DEF d
    <2> QED
      BY <1>1, MinMaxOfTwo
  <1>3. (IF 0 >= d THEN 0 ELSE d) = IF a >= b THEN a - b ELSE 0
    OBVIOUS
  <1> QED
    BY <1>2, <1>3, Zenon

\* The number of stale requests is at most that of all requests.
LEMMA StaleIsFinite ==
  ASSUME NEW S \in SUBSET Requests
  PROVE  /\ IsFiniteSet(S)
         /\ Cardinality(S) \in Nat /\ Cardinality(Requests) \in Nat
         /\ Cardinality(S) <= Cardinality(Requests)
  BY LimitAssumption, FS_Subset, FS_CardinalityType

\* Another clean-up adds one burst and one admission per request.
LEMMA AllowanceGrows ==
  ASSUME NEW n \in Nat, NEW x \in Nat
  PROVE  /\ n * x \in Nat
         /\ (n + 1) * x = n * x + x
         /\ n > 0 => n * x >= x
  <1>1. n * x \in Nat /\ (n + 1) * x = n * x + x
    OBVIOUS
  <1>2. CASE n > 0
    <2>1. n - 1 \in Nat /\ (n - 1) * x \in Nat /\ n * x = (n - 1) * x + x
      BY <1>2
    <2> QED
      BY <1>1, <2>1
  <1> QED
    BY <1>1, <1>2
\* What the invariant says of one client, in numbers.
LEMMA ClientFacts ==
  ASSUME LimiterInductive, NEW c \in Clients
  PROVE  /\ Potential(c) \in 0 .. Burst
         /\ budget[c] \in Int /\ budget[c] <= Burst
         /\ Burst \in Nat /\ Rate \in Nat
         /\ Allowance \in Nat
         /\ cleanups > 0 => Allowance >= Cardinality(Requests)
         /\ Cardinality(Stale(c)) \in Nat
         /\ Cardinality(Stale(c)) <= Allowance
         /\ budget[c] + Allowance >= Potential(c) + Cardinality(Stale(c))
  <1>1. Potential(c) \in 0 .. Burst
    <2>1. Burst \in 0 .. Burst
      BY LimitAssumption
    <2>2. limiters[c] # None => limiters[c] \in Buckets
      BY DEF LimiterInductive, LimitTypeOK
    <2>3. limiters[c] # None => tokens[limiters[c]] \in 0 .. Burst
      BY <2>2 DEF LimiterInductive, LimitTypeOK
    <2> QED
      BY <2>1, <2>3 DEF Potential
  <1>2. budget[c] \in Int /\ Burst \in Nat /\ Rate \in Nat
    BY LimitAssumption DEF LimiterInductive, LimitTypeOK
  <1>3. /\ Cardinality(Stale(c)) \in Nat /\ Cardinality(Requests) \in Nat
        /\ Cardinality(Stale(c)) <= Cardinality(Requests)
    BY StaleIsFinite DEF Stale
  <1>4. cleanups \in Nat
    BY DEF LimiterInductive, LimitTypeOK
  <1>5. Allowance \in Nat /\ (cleanups > 0 => Allowance >= Cardinality(Requests))
    <2>1. Burst + Cardinality(Requests) \in Nat
      BY <1>2, <1>3
    <2>2. /\ Allowance \in Nat
          /\ cleanups > 0 => Allowance >= Burst + Cardinality(Requests)
      BY <1>4, <2>1, AllowanceGrows DEF Allowance
    <2> QED
      BY <1>2, <1>3, <2>2
  <1>6. Cardinality(Stale(c)) <= Allowance
    <2>1. CASE cleanups = 0
      BY <1>5, <2>1, FS_EmptySet DEF LimiterInductive, BudgetFacts
    <2>2. CASE cleanups > 0
      BY <1>3, <1>5, <2>2
    <2> QED
      BY <1>4, <2>1, <2>2
  <1> QED
    BY <1>1, <1>2, <1>3, <1>5, <1>6 DEF LimiterInductive, BudgetFacts

\* A client's budget stays covered by a step that spends no more of it than of what
\* its bucket and its stale requests can still take.
LEMMA StaysCovered ==
  ASSUME LimiterInductive, NEW c \in Clients, cleanups' = cleanups,
         Stale(c)' \subseteq Stale(c), Potential(c)' \in Int, budget'[c] \in Int,
         budget'[c] <= Burst,
         \/ budget'[c] - budget[c] >= Potential(c)' - Potential(c)
         \/ /\ budget'[c] - budget[c] >= Potential(c)' - Potential(c) - 1
            /\ Stale(c)' # Stale(c)
  PROVE  /\ budget'[c] <= Burst
         /\ cleanups' = 0 => Stale(c)' = {}
         /\ budget'[c] + Allowance' >= Potential(c)' + Cardinality(Stale(c)')
  <1>1. Allowance' = Allowance
    BY DEF Allowance
  <1>2. IsFiniteSet(Stale(c))
    BY StaleIsFinite DEF Stale
  <1>3. /\ Cardinality(Stale(c)') \in Nat
        /\ Cardinality(Stale(c)') <= Cardinality(Stale(c))
        /\ Stale(c)' # Stale(c) => Cardinality(Stale(c)') # Cardinality(Stale(c))
    BY <1>2, FS_Subset, FS_CardinalityType
  <1>4. cleanups' = 0 => Stale(c)' = {}
    BY DEF LimiterInductive, BudgetFacts
  <1>5. /\ Potential(c) \in Int /\ budget[c] \in Int /\ Allowance \in Int
        /\ Cardinality(Stale(c)) \in Nat
        /\ budget[c] + Allowance >= Potential(c) + Cardinality(Stale(c))
    BY ClientFacts
  <1>6. budget'[c] + Allowance >= Potential(c)' + Cardinality(Stale(c)')
    <2>1. CASE budget'[c] - budget[c] >= Potential(c)' - Potential(c)
      BY <1>3, <1>5, <2>1
    <2>2. CASE /\ budget'[c] - budget[c] >= Potential(c)' - Potential(c) - 1
               /\ Stale(c)' # Stale(c)
      <3>1. Cardinality(Stale(c)') # Cardinality(Stale(c))
        BY <1>3, <2>2, Zenon
      <3>2. Cardinality(Stale(c)') <= Cardinality(Stale(c)) - 1
        BY <1>3, <1>5, <3>1
      <3>3. budget'[c] - budget[c] >= Potential(c)' - Potential(c) - 1
        BY <2>2
      <3> QED
        BY <1>3, <1>5, <3>2, <3>3
    <2> QED
      BY <2>1, <2>2
  <1> QED
    BY <1>1, <1>4, <1>6

\* A request arrives: it holds no bucket yet.
LEMMA ArrivePreserves ==
  ASSUME LimiterInductive, NEW r \in Requests, NEW c \in Clients, Arrive(r, c)
  PROVE  LimiterInductive'
  <1>1. LimitTypeOK'
    BY DEF LimiterInductive, Arrive, LimitTypeOK, resourceVars,
       memoryVars, goroutineVars
  <1>2. RequestFacts'
    BY DEF LimiterInductive, Arrive, LimitTypeOK, RequestFacts
  <1>3. ASSUME NEW d \in Clients
        PROVE  /\ Stale(d)' \subseteq Stale(d)
               /\ Potential(d)' = Potential(d) /\ budget'[d] = budget[d]
               /\ cleanups' = cleanups
    BY DEF LimiterInductive, Arrive, LimitTypeOK, RequestFacts, Stale, Potential
  <1>4. BudgetFacts'
    BY <1>3, ClientFacts, StaysCovered DEF BudgetFacts
  <1> QED
    BY <1>1, <1>2, <1>4 DEF LimiterInductive

\* A request is given its client's bucket or a full one that nothing refers to: it
\* is not stale, and no other client's bucket changes.
LEMMA GetLimiterPreserves ==
  ASSUME LimiterInductive, NEW r \in Requests, GetLimiter(r)
  PROVE  LimiterInductive'
  <1>1. client[r] \in Clients /\ limiters[client[r]] \in Buckets \cup {None}
    BY DEF LimiterInductive, GetLimiter, LimitTypeOK, RequestFacts
  <1>2. UNCHANGED <<qpc, client, cleanups, budget, resourceVars>>
    BY DEF GetLimiter
  <1>3. CASE limiters[client[r]] # None
    <2>1. /\ bucket' = [bucket EXCEPT ![r] = limiters[client[r]]]
          /\ UNCHANGED <<limiters, tokens>>
      BY <1>3 DEF GetLimiter
    <2>2. LimitTypeOK'
      BY <1>1, <1>2, <2>1 DEF LimiterInductive, LimitTypeOK, resourceVars,
       memoryVars, goroutineVars
    <2>3. RequestFacts'
      BY <1>2, <2>1 DEF LimiterInductive, LimitTypeOK, RequestFacts, GetLimiter
    <2>4. ASSUME NEW d \in Clients
          PROVE  /\ Stale(d)' \subseteq Stale(d)
                 /\ Potential(d)' = Potential(d) /\ budget'[d] = budget[d]
                 /\ cleanups' = cleanups
      BY <1>2, <2>1 DEF LimiterInductive, LimitTypeOK, Stale, Potential
    <2>5. BudgetFacts'
      BY <2>4, ClientFacts, StaysCovered DEF BudgetFacts
    <2> QED
      BY <2>2, <2>3, <2>5 DEF LimiterInductive
  <1>4. CASE limiters[client[r]] = None
    <2>1. PICK k \in Buckets :
             /\ ~InUse(k)
             /\ limiters' = [limiters EXCEPT ![client[r]] = k]
             /\ tokens' = [tokens EXCEPT ![k] = Burst]
             /\ bucket' = [bucket EXCEPT ![r] = k]
      BY <1>4 DEF GetLimiter
    <2>2. Burst \in 0 .. Burst /\ k # None
      BY LimitAssumption
    <2>3. LimitTypeOK'
      BY <1>1, <1>2, <2>1, <2>2 DEF LimiterInductive, LimitTypeOK, resourceVars,
       memoryVars, goroutineVars
    <2>4. RequestFacts'
      BY <1>2, <2>1 DEF LimiterInductive, LimitTypeOK, RequestFacts, GetLimiter
    <2>5. ASSUME NEW d \in Clients
          PROVE  /\ Stale(d)' \subseteq Stale(d)
                 /\ Potential(d)' = Potential(d) /\ budget'[d] = budget[d]
                 /\ cleanups' = cleanups
      <3>1. limiters[d] # k /\ \A q \in Requests : bucket[q] # k
        BY <2>1 DEF InUse
      <3>2. limiters'[d] = IF d = client[r] THEN k ELSE limiters[d]
        BY <1>1, <2>1 DEF LimiterInductive, LimitTypeOK
      <3>3. \A q \in Requests : bucket'[q] = IF q = r THEN k ELSE bucket[q]
        BY <2>1 DEF LimiterInductive, LimitTypeOK
      <3>4. Stale(d)' \subseteq Stale(d)
        BY <1>2, <1>4, <2>2, <3>1, <3>2, <3>3 DEF Stale
      <3>5. Potential(d)' = Potential(d)
        <4>1. \A b \in Buckets : tokens'[b] = IF b = k THEN Burst ELSE tokens[b]
          BY <2>1 DEF LimiterInductive, LimitTypeOK
        <4>2. limiters[d] # None => limiters[d] \in Buckets
          BY DEF LimiterInductive, LimitTypeOK
        <4> QED
          BY <1>4, <2>2, <3>1, <3>2, <4>1, <4>2 DEF Potential
      <3> QED
        BY <1>2, <3>4, <3>5
    <2>6. BudgetFacts'
      BY <2>5, ClientFacts, StaysCovered DEF BudgetFacts
    <2> QED
      BY <2>3, <2>4, <2>6 DEF LimiterInductive
  <1> QED
    BY <1>3, <1>4

\* A token is taken: from the client's own bucket, whose potential falls with the
\* budget, or by a stale request, which is then over.
LEMMA AdmitPreserves ==
  ASSUME LimiterInductive, NEW r \in Requests, Admit(r)
  PROVE  LimiterInductive'
  <1> DEFINE k == bucket[r]
  <1>1. k \in Buckets /\ tokens[k] \in 1 .. Burst /\ client[r] \in Clients
    <2>1. k \in Buckets /\ tokens[k] > 0
      BY DEF LimiterInductive, Admit, LimitTypeOK
    <2>2. tokens[k] \in 0 .. Burst
      BY <2>1 DEF LimiterInductive, LimitTypeOK
    <2>3. client[r] \in Clients
      BY DEF LimiterInductive, Admit, RequestFacts
    <2> QED
      BY <2>1, <2>2, <2>3
  <1>2. /\ tokens' = [tokens EXCEPT ![k] = @ - 1]
        /\ budget' = [budget EXCEPT ![client[r]] = @ - 1]
        /\ qpc' = [qpc EXCEPT ![r] = "idle"]
        /\ client' = [client EXCEPT ![r] = None]
        /\ bucket' = [bucket EXCEPT ![r] = None]
        /\ UNCHANGED <<limiters, cleanups, resourceVars>>
    BY DEF Admit, Leave
  <1>3. LimitTypeOK'
    <2>1. tokens[k] - 1 \in 0 .. Burst
      BY <1>1, LimitAssumption
    <2>2. tokens' \in [Buckets -> 0 .. Burst]
      BY <1>1, <1>2, <2>1 DEF LimiterInductive, LimitTypeOK
    <2>3. budget' \in [Clients -> Int]
      BY <1>1, <1>2 DEF LimiterInductive, LimitTypeOK
    <2> QED
      BY <1>2, <2>2, <2>3 DEF LimiterInductive, LimitTypeOK, resourceVars,
       memoryVars, goroutineVars
  <1>4. RequestFacts'
    BY <1>2 DEF LimiterInductive, LimitTypeOK, RequestFacts
  <1>5. ASSUME NEW d \in Clients
        PROVE  /\ Stale(d)' \subseteq Stale(d)
               /\ r \in Stale(d) => Stale(d)' # Stale(d)
    <2>1. \A q \in Requests :
             /\ client'[q] = IF q = r THEN None ELSE client[q]
             /\ bucket'[q] = IF q = r THEN None ELSE bucket[q]
      BY <1>2 DEF LimiterInductive, LimitTypeOK
    <2>2. Stale(d)' \subseteq Stale(d) /\ r \notin Stale(d)'
      BY <1>2, <2>1 DEF Stale
    <2> QED
      BY <2>2
  <1>6. ASSUME NEW d \in Clients
        PROVE  /\ Potential(d)' \in Int /\ Potential(d)' <= Potential(d)
               /\ limiters[d] = k => Potential(d)' = Potential(d) - 1
    <2>1. \A b \in Buckets : /\ tokens'[b] = IF b = k THEN tokens[b] - 1 ELSE tokens[b]
                             /\ tokens[b] \in Int
      BY <1>2 DEF LimiterInductive, LimitTypeOK
    <2>2. limiters'[d] = limiters[d] /\ (limiters[d] # None => limiters[d] \in Buckets)
      BY <1>2 DEF LimiterInductive, LimitTypeOK
    <2>3. Burst \in Int /\ k # None
      BY <1>1, LimitAssumption
    <2> QED
      BY <2>1, <2>2, <2>3 DEF Potential
  <1>7. ASSUME NEW d \in Clients
        PROVE  /\ budget'[d] <= Burst
               /\ cleanups' = 0 => Stale(d)' = {}
               /\ budget'[d] + Allowance' >= Potential(d)' + Cardinality(Stale(d)')
    <2>1. budget[d] \in Int /\ budget[d] <= Burst /\ Burst \in Int /\ Potential(d) \in Int
      BY ClientFacts
    <2>2. budget'[d] = IF d = client[r] THEN budget[d] - 1 ELSE budget[d]
      BY <1>2 DEF LimiterInductive, LimitTypeOK
    <2>3. budget'[d] \in Int /\ budget'[d] <= Burst /\ cleanups' = cleanups
      BY <1>2, <2>1, <2>2
    <2>4. CASE d # client[r]
      <3>1. budget'[d] - budget[d] >= Potential(d)' - Potential(d)
        BY <1>6, <2>1, <2>2, <2>4
      <3> QED
        BY <1>5, <1>6, <2>3, <3>1, StaysCovered
    <2>5. CASE d = client[r] /\ limiters[d] = k
      <3>1. budget'[d] - budget[d] >= Potential(d)' - Potential(d)
        BY <1>6, <2>1, <2>2, <2>5
      <3> QED
        BY <1>5, <1>6, <2>3, <3>1, StaysCovered
    <2>6. CASE d = client[r] /\ limiters[d] # k
      <3>1. r \in Stale(d)
        BY <2>6 DEF Stale, Admit
      <3>2. budget'[d] - budget[d] >= Potential(d)' - Potential(d) - 1
        BY <1>6, <2>1, <2>2, <2>6
      <3> QED
        BY <1>5, <1>6, <2>3, <3>1, <3>2, StaysCovered
    <2> QED
      BY <2>4, <2>5, <2>6
  <1> QED
    BY <1>3, <1>4, <1>7 DEF LimiterInductive, BudgetFacts

\* A request is refused: it ends without a token.
LEMMA RefusePreserves ==
  ASSUME LimiterInductive, NEW r \in Requests, Refuse(r)
  PROVE  LimiterInductive'
  <1>1. /\ qpc' = [qpc EXCEPT ![r] = "idle"]
        /\ client' = [client EXCEPT ![r] = None]
        /\ bucket' = [bucket EXCEPT ![r] = None]
        /\ UNCHANGED <<tokens, budget, limiters, cleanups, resourceVars>>
    BY DEF Refuse, Leave
  <1>2. LimitTypeOK'
    BY <1>1 DEF LimiterInductive, LimitTypeOK, resourceVars,
       memoryVars, goroutineVars
  <1>3. RequestFacts'
    BY <1>1 DEF LimiterInductive, LimitTypeOK, RequestFacts
  <1>4. ASSUME NEW d \in Clients
        PROVE  /\ Stale(d)' \subseteq Stale(d)
               /\ Potential(d)' = Potential(d) /\ budget'[d] = budget[d]
               /\ cleanups' = cleanups
    BY <1>1 DEF LimiterInductive, LimitTypeOK, Stale, Potential
  <1>5. BudgetFacts'
    BY <1>4, ClientFacts, StaysCovered DEF BudgetFacts
  <1> QED
    BY <1>2, <1>3, <1>5 DEF LimiterInductive

\* A second passes: a budget that is not filled up gains as much as any bucket can,
\* and one that is covers a full bucket and all stale requests with the allowance.
LEMMA RefillPreserves ==
  ASSUME LimiterInductive, Refill
  PROVE  LimiterInductive'
  <1>1. UNCHANGED <<limiters, qpc, client, bucket, cleanups, resourceVars>>
    BY DEF Refill
  <1>2. ASSUME NEW b \in Buckets
        PROVE  /\ tokens'[b] \in 0 .. Burst /\ tokens[b] \in Nat
               /\ InUse(b) => tokens'[b] <= tokens[b] + Rate
    <2>1. tokens[b] \in Nat /\ Burst \in Nat /\ Rate \in Nat
      BY LimitAssumption DEF LimiterInductive, LimitTypeOK
    <2>2. tokens'[b] = IF InUse(b) THEN Min({Burst, tokens[b] + Rate}) ELSE 0
      BY DEF Refill
    <2>3. Min({Burst, tokens[b] + Rate})
             = IF Burst <= tokens[b] + Rate THEN Burst ELSE tokens[b] + Rate
      BY <2>1, MinMaxOfTwo
    <2> QED
      BY <2>1, <2>2, <2>3
  <1>3. ASSUME NEW d \in Clients
        PROVE  /\ budget[d] \in Int /\ budget'[d] \in Int
               /\ budget'[d] = IF Burst <= budget[d] + Rate THEN Burst
                               ELSE budget[d] + Rate
    <2>1. budget[d] \in Int /\ Burst \in Nat /\ Rate \in Nat
      BY LimitAssumption DEF LimiterInductive, LimitTypeOK
    <2>2. budget'[d] = Min({Burst, budget[d] + Rate})
      BY DEF Refill
    <2> QED
      BY <2>1, <2>2, MinMaxOfTwo
  <1>4. LimitTypeOK'
    <2>1. tokens' \in [Buckets -> 0 .. Burst]
      BY <1>2 DEF Refill
    <2>2. budget' \in [Clients -> Int]
      BY <1>3 DEF Refill
    <2> QED
      BY <1>1, <2>1, <2>2 DEF LimiterInductive, LimitTypeOK, resourceVars,
       memoryVars, goroutineVars
  <1>5. RequestFacts'
    BY <1>1 DEF LimiterInductive, RequestFacts
  <1>6. ASSUME NEW d \in Clients
        PROVE  /\ Stale(d)' = Stale(d) /\ Allowance' = Allowance
               /\ Potential(d)' \in 0 .. Burst /\ Potential(d)' <= Potential(d) + Rate
    <2>1. Stale(d)' = Stale(d) /\ Allowance' = Allowance
      BY <1>1 DEF Stale, Allowance
    <2>2. Burst \in Nat /\ Rate \in Nat
      BY LimitAssumption
    <2>3. limiters[d] # None => limiters[d] \in Buckets /\ InUse(limiters[d])
      BY DEF LimiterInductive, LimitTypeOK, InUse
    <2> QED
      BY <1>1, <1>2, <2>1, <2>2, <2>3 DEF Potential
  <1>7. ASSUME NEW d \in Clients
        PROVE  /\ budget'[d] <= Burst
               /\ cleanups' = 0 => Stale(d)' = {}
               /\ budget'[d] + Allowance' >= Potential(d)' + Cardinality(Stale(d)')
    <2>1. cleanups' = 0 => Stale(d)' = {}
      BY <1>1, <1>6 DEF LimiterInductive, BudgetFacts
    <2>2. Cardinality(Stale(d)') = Cardinality(Stale(d))
      BY <1>6
    <2>3. /\ Potential(d) \in 0 .. Burst /\ Burst \in Nat /\ Rate \in Nat
          /\ Allowance \in Nat
          /\ Cardinality(Stale(d)) \in Nat /\ Cardinality(Stale(d)) <= Allowance
          /\ budget[d] + Allowance >= Potential(d) + Cardinality(Stale(d))
      BY ClientFacts
    <2> QED
      BY <1>3, <1>6, <2>1, <2>2, <2>3
  <1> QED
    BY <1>4, <1>5, <1>7 DEF LimiterInductive, BudgetFacts

\* The table is dropped: at worst every request becomes stale and every client is
\* given a full bucket, which is what the allowance grows by.
LEMMA CleanupPreserves ==
  ASSUME LimiterInductive, CleanupOldLimiters
  PROVE  LimiterInductive'
  <1>1. /\ limiters' = [c \in Clients |-> None] /\ cleanups' = cleanups + 1
        /\ cleanups < MaxCleanups
        /\ UNCHANGED <<tokens, qpc, client, bucket, budget, resourceVars>>
    BY DEF CleanupOldLimiters
  <1>2. cleanups \in Nat /\ MaxCleanups \in Nat /\ Burst \in Nat
    BY LimitAssumption DEF LimiterInductive, LimitTypeOK
  <1>3. LimitTypeOK'
    <2>1. cleanups' \in 0 .. MaxCleanups
      BY <1>1, <1>2
    <2> QED
      BY <1>1, <2>1 DEF LimiterInductive, LimitTypeOK, resourceVars,
       memoryVars, goroutineVars
  <1>4. RequestFacts'
    BY <1>1 DEF LimiterInductive, RequestFacts
  <1>5. ASSUME NEW d \in Clients
        PROVE  /\ budget'[d] <= Burst
               /\ cleanups' = 0 => Stale(d)' = {}
               /\ budget'[d] + Allowance' >= Potential(d)' + Cardinality(Stale(d)')
    <2>1. Potential(d)' = Burst
      BY <1>1 DEF Potential
    <2>2. /\ Cardinality(Requests) \in Nat /\ Cardinality(Stale(d)') \in Nat
          /\ Cardinality(Stale(d)') <= Cardinality(Requests)
      <3>1. Stale(d)' \subseteq Requests
        BY DEF Stale
      <3> QED
        BY <3>1, StaleIsFinite
    <2>3. Allowance' = Allowance + (Burst + Cardinality(Requests))
      <3>1. Burst + Cardinality(Requests) \in Nat
        BY <1>2, <2>2
      <3>2. (cleanups + 1) * (Burst + Cardinality(Requests))
               = cleanups * (Burst + Cardinality(Requests)) + (Burst + Cardinality(Requests))
        BY <1>2, <3>1, AllowanceGrows
      <3> QED
        BY <1>1, <3>2 DEF Allowance
    <2>4. /\ budget[d] \in Int /\ budget[d] <= Burst /\ Allowance \in Nat
          /\ budget[d] + Allowance >= 0
      <3>1. /\ Potential(d) \in Nat /\ budget[d] \in Int /\ budget[d] <= Burst
            /\ Allowance \in Nat /\ Cardinality(Stale(d)) \in Nat
            /\ budget[d] + Allowance >= Potential(d) + Cardinality(Stale(d))
        BY ClientFacts
      <3> QED
        BY <3>1
    <2> QED
      BY <1>1, <1>2, <2>1, <2>2, <2>3, <2>4
  <1> QED
    BY <1>3, <1>4, <1>5 DEF LimiterInductive, BudgetFacts

\* The bytes of one holder beside those of the others.
LEMMA HeldSplit ==
  ASSUME NEW h \in Holders, NEW f \in [Holders -> Nat], NEW g \in [Holders -> Nat],
         g[h] = 0, \A j \in Holders \ {h} : f[j] = g[j],
         NEW Hf, Hf = UNION {{j} \X (1 .. f[j]) : j \in Holders},
         NEW Hg, Hg = UNION {{j} \X (1 .. g[j]) : j \in Holders},
         IsFiniteSet(Hf) \/ IsFiniteSet(Hg)
  PROVE  /\ IsFiniteSet(Hf) /\ IsFiniteSet(Hg)
         /\ Cardinality(Hf) = Cardinality(Hg) + f[h]
         /\ Cardinality(Hg) \in Nat
  <1> DEFINE own == {h} \X (1 .. f[h])
  <1>1. IsFiniteSet(own) /\ Cardinality(own) = f[h]
    <2>1. IsFiniteSet({h}) /\ Cardinality({h}) = 1
      BY FS_Singleton, Zenon
    <2>2. IsFiniteSet(1 .. f[h]) /\ Cardinality(1 .. f[h]) = f[h]
      BY FS_Interval
    <2>3. IsFiniteSet(own) /\ Cardinality(own) = 1 * f[h]
      BY <2>1, <2>2, FS_Product, SMTT(30)
    <2> QED
      BY <2>3
  <1>2. Hf = Hg \cup own
    <2>1. \A x : x \in Hf <=> \E j \in Holders : x \in {j} \X (1 .. f[j])
      OBVIOUS
    <2>2. \A x : x \in Hg <=> \E j \in Holders : x \in {j} \X (1 .. g[j])
      OBVIOUS
    <2>3. ({h} \X (1 .. g[h])) = {}
      OBVIOUS
    <2>4. \A j \in Holders \ {h} : ({j} \X (1 .. f[j])) = ({j} \X (1 .. g[j]))
      OBVIOUS
    <2>5. \A x : x \in Hf <=> x \in Hg \/ x \in own
      <3> HIDE DEF own
      <3> SUFFICES ASSUME NEW x
                   PROVE  (\E j \in Holders : x \in {j} \X (1 .. f[j]))
                          <=> (\E j \in Holders : x \in {j} \X (1 .. g[j])) \/ x \in own
        BY <2>1, <2>2, Zenon
      <3>1. ASSUME NEW j \in Holders, x \in {j} \X (1 .. f[j]), x \notin own
            PROVE  \E i \in Holders : x \in {i} \X (1 .. g[i])
        <4>1. j # h
          BY <3>1 DEF own
        <4> QED
          BY <2>4, <3>1, <4>1, Zenon
      <3>2. ASSUME NEW j \in Holders, x \in {j} \X (1 .. g[j])
            PROVE  \E i \in Holders : x \in {i} \X (1 .. f[i])
        <4>1. j # h
          BY <2>3, <3>2
        <4> QED
          BY <2>4, <3>2, <4>1, Zenon
      <3>3. x \in own => \E j \in Holders : x \in {j} \X (1 .. f[j])
        BY DEF own
      <3> QED
        BY <3>1, <3>2, <3>3, Zenon
    <2> QED
      BY <2>5
  <1>3. Hg \cap own = {}
    <2> SUFFICES ASSUME NEW x \in Hg, x \in own PROVE FALSE
      OBVIOUS
    <2>1. PICK j \in Holders : x \in {j} \X (1 .. g[j])
      OBVIOUS
    <2>2. x[1] = j /\ x[1] = h
      BY <2>1
    <2> QED
      BY <2>1, <2>2
  <1> HIDE DEF own
  <1>4. IsFiniteSet(Hg)
    <2>1. Hg \in SUBSET Hf
      BY <1>2
    <2> QED
      BY <2>1, FS_Subset
  <1>5. IsFiniteSet(Hf) /\ Cardinality(Hf) = Cardinality(Hg) + Cardinality(own) - 0
    BY <1>1, <1>2, <1>3, <1>4, FS_Union, FS_EmptySet
  <1>6. Cardinality(Hg) \in Nat
    BY <1>4, FS_CardinalityType
  <1> QED
    BY <1>1, <1>4, <1>5, <1>6

\* When one holder's bytes change, the number of bytes held changes by as much.
LEMMA HeldChange ==
  ASSUME NEW h \in Holders, NEW f \in [Holders -> Nat], NEW g \in [Holders -> Nat],
         \A j \in Holders \ {h} : f[j] = g[j],
         NEW Hf, Hf = UNION {{j} \X (1 .. f[j]) : j \in Holders},
         NEW Hg, Hg = UNION {{j} \X (1 .. g[j]) : j \in Holders},
         IsFiniteSet(Hf)
  PROVE  /\ IsFiniteSet(Hg)
         /\ Cardinality(Hf) \in Nat /\ Cardinality(Hg) \in Nat
         /\ Cardinality(Hf) >= f[h]
         /\ Cardinality(Hg) = Cardinality(Hf) - f[h] + g[h]
  <1> DEFINE z == [f EXCEPT ![h] = 0]
             Hz == UNION {{j} \X (1 .. z[j]) : j \in Holders}
  <1>1. /\ z \in [Holders -> Nat] /\ z[h] = 0
        /\ \A j \in Holders \ {h} : f[j] = z[j] /\ g[j] = z[j]
    OBVIOUS
  <1>2. Hz = UNION {{j} \X (1 .. z[j]) : j \in Holders}
    OBVIOUS
  <1> HIDE DEF z, Hz
  <1>3. /\ IsFiniteSet(Hz) /\ Cardinality(Hz) \in Nat
        /\ Cardinality(Hf) = Cardinality(Hz) + f[h]
    BY <1>1, <1>2, HeldSplit
  <1>4. IsFiniteSet(Hg) /\ Cardinality(Hg) = Cardinality(Hz) + g[h]
    BY <1>1, <1>2, <1>3, HeldSplit, SMTT(30)
  <1>5. f[h] \in Nat /\ g[h] \in Nat
    OBVIOUS
  <1> QED
    BY <1>3, <1>4, <1>5

\* A step that leaves the limiter alone.
LEMMA SameLimiter ==
  ASSUME LimiterInductive, LimitTypeOK', UNCHANGED limiterVars
  PROVE  LimiterInductive'
  <1>1. RequestFacts'
    BY DEF LimiterInductive, RequestFacts, limiterVars
  <1>2. BudgetFacts'
    BY DEF LimiterInductive, BudgetFacts, Allowance, Potential, Stale, limiterVars
  <1> QED
    BY <1>1, <1>2 DEF LimiterInductive

\* A step that leaves the resources alone.
LEMMA SameResources ==
  ASSUME ResourceFacts, UNCHANGED resourceVars
  PROVE  ResourceFacts'
  BY DEF ResourceFacts, ResourcesAccounted, HeldBytes, resourceVars, memoryVars,
         goroutineVars

\* AllocateMemory and ReleaseMemory: the count changes with what the holder holds,
\* but for the bytes that it releases and does not hold.
LEMMA MemoryPreserves ==
  ASSUME LimitInductive, NEW h \in Holders, NEW bytes \in Amounts,
         AllocateMemory(h, bytes) \/ ReleaseMemory(h, bytes)
  PROVE  LimitInductive'
  <1> DEFINE n == Cardinality(HeldBytes)
  <1>1. UNCHANGED limiterVars /\ UNCHANGED <<goroutineCount, working, strayEnds>>
    BY DEF AllocateMemory, ReleaseMemory, goroutineVars
  <1>2. /\ memory \in [Holders -> Nat] /\ memory[h] \in Nat /\ bytes \in Nat
        /\ currentMemory \in 0 .. MaxMemory /\ strayBytes \in 0 .. MaxStray
        /\ MaxMemory \in Nat /\ MaxStray \in Nat
    BY LimitAssumption DEF LimitInductive, LimiterInductive, LimitTypeOK
  <1>3. /\ IsFiniteSet(HeldBytes) /\ n \in Nat
        /\ currentMemory <= n /\ n <= currentMemory + strayBytes
    BY FS_CardinalityType DEF LimitInductive, ResourceFacts, ResourcesAccounted
  <1>4. ASSUME NEW m \in Nat, memory' = [memory EXCEPT ![h] = m]
        PROVE  /\ memory' \in [Holders -> Nat] /\ IsFiniteSet(HeldBytes')
               /\ n >= memory[h] /\ Cardinality(HeldBytes') = n - memory[h] + m
    <2>1. /\ memory' \in [Holders -> Nat] /\ memory'[h] = m
          /\ \A j \in Holders \ {h} : memory[j] = memory'[j]
      BY <1>2, <1>4
    <2>2. HeldBytes' = UNION {{j} \X (1 .. memory'[j]) : j \in Holders}
      BY DEF HeldBytes
    <2>3. HeldBytes = UNION {{j} \X (1 .. memory[j]) : j \in Holders}
      BY DEF HeldBytes
    <2> QED
      BY <1>2, <1>3, <2>1, <2>2, <2>3, HeldChange
  <1>5. /\ memory' \in [Holders -> Nat] /\ IsFiniteSet(HeldBytes')
        /\ currentMemory' \in 0 .. MaxMemory /\ strayBytes' \in 0 .. MaxStray
        /\ currentMemory' <= Cardinality(HeldBytes')
        /\ Cardinality(HeldBytes') <= currentMemory' + strayBytes'
    <2>1. CASE AllocateMemory(h, bytes)
      <3>1. /\ currentMemory + bytes <= MaxMemory
            /\ currentMemory' = currentMemory + bytes
            /\ memory' = [memory EXCEPT ![h] = memory[h] + bytes]
            /\ strayBytes' = strayBytes
        BY <2>1 DEF AllocateMemory
      <3>2. memory[h] + bytes \in Nat
        BY <1>2
      <3>3. /\ memory' \in [Holders -> Nat] /\ IsFiniteSet(HeldBytes')
            /\ Cardinality(HeldBytes') = n - memory[h] + (memory[h] + bytes)
        BY <1>4, <3>1, <3>2, ZenonT(30)
      <3> HIDE DEF n
      <3> QED
        BY <1>2, <1>3, <3>1, <3>3
    <2>2. CASE ReleaseMemory(h, bytes)
      <3> DEFINE left == IF memory[h] >= bytes THEN memory[h] - bytes ELSE 0
                 stray == IF memory[h] >= bytes THEN 0 ELSE bytes - memory[h]
      <3>1. /\ Max({0, memory[h] - bytes}) = left
            /\ Max({0, bytes - memory[h]}) = stray
            /\ Max({0, currentMemory - bytes})
                 = IF currentMemory >= bytes THEN currentMemory - bytes ELSE 0
        <4>1. currentMemory \in Nat
          BY <1>2
        <4>2. Max({0, memory[h] - bytes}) = left
          BY <1>2, Clamp, Zenon
        <4>3. Max({0, bytes - memory[h]}) = IF bytes >= memory[h] THEN bytes - memory[h]
                                            ELSE 0
          BY <1>2, Clamp, Zenon
        <4>4. (IF bytes >= memory[h] THEN bytes - memory[h] ELSE 0) = stray
          BY <1>2
        <4>5. Max({0, currentMemory - bytes})
                = IF currentMemory >= bytes THEN currentMemory - bytes ELSE 0
          BY <1>2, <4>1, Clamp, Zenon
        <4> QED
          BY <4>2, <4>3, <4>4, <4>5, Zenon
      <3>2. /\ currentMemory' = IF currentMemory >= bytes THEN currentMemory - bytes
                                ELSE 0
            /\ memory' = [memory EXCEPT ![h] = left]
            /\ strayBytes' = strayBytes + stray /\ strayBytes' <= MaxStray
        BY <2>2, <3>1, ZenonT(30) DEF ReleaseMemory
      <3>3. left \in Nat /\ stray \in Nat /\ memory[h] - left = bytes - stray
        BY <1>2
      <3> HIDE DEF left, n
      <3>4. /\ memory' \in [Holders -> Nat] /\ IsFiniteSet(HeldBytes')
            /\ n >= memory[h] /\ Cardinality(HeldBytes') = n - memory[h] + left
        BY <1>4, <3>2, <3>3, ZenonT(30)
      <3> QED
        BY <1>2, <1>3, <3>2, <3>3, <3>4
    <2> QED
      BY <2>1, <2>2
  <1>6. LimitTypeOK'
    BY <1>1, <1>5 DEF LimitInductive, LimiterInductive, LimitTypeOK, limiterVars
  <1>7. ResourceFacts'
    BY <1>1, <1>5 DEF LimitInductive, ResourceFacts, ResourcesAccounted
  <1> QED
    BY <1>1, <1>6, <1>7, SameLimiter DEF LimitInductive

\* StartGoroutine and EndGoroutine.
LEMMA GoroutinePreserves ==
  ASSUME LimitInductive, NEW h \in Holders, StartGoroutine(h) \/ EndGoroutine(h)
  PROVE  LimitInductive'
  <1> DEFINE n == Cardinality(working)
  <1>1. UNCHANGED limiterVars /\ UNCHANGED <<currentMemory, memory, strayBytes>>
    BY DEF StartGoroutine, EndGoroutine, memoryVars
  <1>2. /\ working \subseteq Holders /\ goroutineCount \in 0 .. MaxGoroutines
        /\ MaxGoroutines \in Nat /\ strayEnds \in 0 .. MaxStray /\ MaxStray \in Nat
        /\ IsFiniteSet(working)
        /\ goroutineCount <= n /\ n <= goroutineCount + strayEnds
    BY LimitAssumption
    DEF LimitInductive, LimiterInductive, LimitTypeOK, ResourceFacts, ResourcesAccounted
  <1>3. n \in Nat
    BY <1>2, FS_CardinalityType
  <1>4. /\ working' \subseteq Holders /\ goroutineCount' \in 0 .. MaxGoroutines
        /\ strayEnds' \in 0 .. MaxStray /\ IsFiniteSet(working')
        /\ goroutineCount' <= Cardinality(working')
        /\ Cardinality(working') <= goroutineCount' + strayEnds'
    <2>1. CASE StartGoroutine(h)
      <3>1. IsFiniteSet(working') /\ Cardinality(working') = n + 1
        BY <1>2, <2>1, FS_AddElement DEF StartGoroutine
      <3> HIDE DEF n
      <3> QED
        BY <1>2, <1>3, <2>1, <3>1 DEF StartGoroutine
    <2>2. CASE EndGoroutine(h)
      <3>1. /\ IsFiniteSet(working') /\ Cardinality(working') \in Nat
            /\ Cardinality(working') = IF h \in working THEN n - 1 ELSE n
        BY <1>2, <2>2, FS_RemoveElement, FS_CardinalityType DEF EndGoroutine
      <3>2. goroutineCount' = IF goroutineCount >= 1 THEN goroutineCount - 1 ELSE 0
        <4>1. goroutineCount \in Nat /\ 1 \in Nat
          BY <1>2
        <4> QED
          BY <2>2, <4>1, Clamp, Zenon DEF EndGoroutine
      <3>3. /\ strayEnds' = IF h \in working THEN strayEnds ELSE strayEnds + 1
            /\ strayEnds' <= MaxStray /\ working' \subseteq Holders
        BY <1>2, <2>2 DEF EndGoroutine
      <3> HIDE DEF n
      <3> QED
        BY <1>2, <1>3, <3>1, <3>2, <3>3
    <2> QED
      BY <2>1, <2>2
  <1>5. LimitTypeOK'
    BY <1>1, <1>4 DEF LimitInductive, LimiterInductive, LimitTypeOK, limiterVars
  <1>6. ResourceFacts'
    BY <1>1, <1>4 DEF LimitInductive, ResourceFacts, ResourcesAccounted, HeldBytes
  <1> QED
    BY <1>1, <1>5, <1>6, SameLimiter DEF LimitInductive

\* No bucket, no request and nothing held at first; every budget is full.
LEMMA InitLimit == LimitInit => LimitInductive
  <1> SUFFICES ASSUME LimitInit PROVE LimitInductive
    OBVIOUS
  <1>1. LimitTypeOK /\ RequestFacts
    BY LimitAssumption DEF LimitInit, LimitTypeOK, RequestFacts
  <1>2. BudgetFacts
    <2>1. Cardinality(Requests) \in Nat /\ Burst \in Nat /\ Allowance \in Int
      BY LimitAssumption, FS_CardinalityType DEF LimitInit, Allowance
    <2>2. Allowance >= 0
      BY <2>1, AllowanceGrows DEF LimitInit, Allowance
    <2>3. \A c \in Clients : /\ Stale(c) = {} /\ Potential(c) = Burst /\ budget[c] = Burst
      BY DEF LimitInit, Stale, Potential
    <2>4. Cardinality({}) = 0
      BY FS_EmptySet
    <2>5. \A c \in Clients :
             budget[c] + Allowance >= Potential(c) + Cardinality(Stale(c))
      <3> SUFFICES ASSUME NEW c \in Clients
                   PROVE  budget[c] + Allowance >= Potential(c) + Cardinality(Stale(c))
        OBVIOUS
      <3>1. Cardinality(Stale(c)) = 0
        BY <2>3, <2>4
      <3>2. budget[c] = Burst /\ Potential(c) = Burst
        BY <2>3
      <3> QED
        BY <2>1, <2>2, <3>1, <3>2
    <2> QED
      BY <2>1, <2>3, <2>5 DEF BudgetFacts
  <1>3. ResourceFacts
    <2>1. HeldBytes = {} /\ working = {}
      <3>1. \A h \in Holders : ({h} \X (1 .. memory[h])) = {}
        BY DEF LimitInit
      <3> QED
        BY <3>1 DEF LimitInit, HeldBytes
    <2> QED
      BY <2>1, FS_EmptySet DEF LimitInit, ResourceFacts, ResourcesAccounted
  <1> QED
    BY <1>1, <1>2, <1>3 DEF LimitInductive, LimiterInductive

\* The invariant holds in every reachable state.
LEMMA LimitInductiveHolds == LimitSpec => []LimitInductive
  <1>1. LimitInductive /\ [LimitNext]_limitVars => LimitInductive'
    <2> SUFFICES ASSUME LimitInductive, [LimitNext]_limitVars PROVE LimitInductive'
      OBVIOUS
    <2>1. ASSUME NEW r \in Requests, RequestNext(r) PROVE LimitInductive'
      <3>1. LimiterInductive'
        BY <2>1, ArrivePreserves, GetLimiterPreserves, AdmitPreserves, RefusePreserves
        DEF RequestNext, LimitInductive
      <3>2. UNCHANGED resourceVars
        BY <2>1 DEF RequestNext, Arrive, GetLimiter, Admit, Refuse, Leave
      <3> QED
        BY <3>1, <3>2, SameResources DEF LimitInductive
    <2>2. CASE Refill \/ CleanupOldLimiters
      <3>1. LimiterInductive'
        BY <2>2, RefillPreserves, CleanupPreserves DEF LimitInductive
      <3>2. UNCHANGED resourceVars
        BY <2>2 DEF Refill, CleanupOldLimiters
      <3> QED
        BY <3>1, <3>2, SameResources DEF LimitInductive
    <2>3. ASSUME NEW h \in Holders, HolderNext(h) PROVE LimitInductive'
      BY <2>3, MemoryPreserves, GoroutinePreserves DEF HolderNext
    <2>4. CASE UNCHANGED limitVars
      <3>1. UNCHANGED limiterVars /\ UNCHANGED resourceVars
        BY <2>4 DEF limitVars
      <3>2. LimitTypeOK'
        BY <3>1
        DEF LimitInductive, LimiterInductive, LimitTypeOK, limiterVars, resourceVars,
            memoryVars, goroutineVars
      <3> QED
        BY <3>1, <3>2, SameLimiter, SameResources DEF LimitInductive
    <2> QED
      BY <2>1, <2>2, <2>3, <2>4 DEF LimitNext, LimiterNext, ResourceNext
  <1> QED
    BY <1>1, InitLimit, PTL DEF LimitSpec

-----------------------------------------------------------------------------
\* Every reachable state of the limiters is well typed: no bucket overflows or goes
\* below zero, and no resource is granted beyond its limit.
THEOREM LimitTypeCorrect == LimitSpec => []LimitTypeOK
  BY LimitInductiveHolds, PTL DEF LimitInductive, LimiterInductive

\* Allow and Middleware admit no more requests of a client than one bucket
\* gives, but for what each clean-up of the table costs.
THEOREM AdmissionsAreBounded == LimitSpec => []AdmissionsBounded
  <1>1. LimitInductive => AdmissionsBounded
    <2> SUFFICES ASSUME LimitInductive, NEW c \in Clients
                 PROVE  budget[c] >= -Allowance
      BY DEF AdmissionsBounded, Allowance
    <2>1. /\ Potential(c) \in Nat /\ budget[c] \in Int
          /\ Allowance \in Nat /\ Cardinality(Stale(c)) \in Nat
          /\ budget[c] + Allowance >= Potential(c) + Cardinality(Stale(c))
      BY ClientFacts DEF LimitInductive
    <2> QED
      BY <2>1
  <1> QED
    BY <1>1, LimitInductiveHolds, PTL

\* Whatever its callers release, ResourceLimiter counts nothing that nobody holds, and
\* misses no more of what is held than was released without being held.
THEOREM ResourcesAreAccounted == LimitSpec => []ResourcesAccounted
  BY LimitInductiveHolds, PTL DEF LimitInductive, ResourceFacts

=============================================================================
