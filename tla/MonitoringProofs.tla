-------------------------- MODULE MonitoringProofs --------------------------
(***************************************************************************)
(* The health checks, the servers' stop and the metrics, for all           *)
(* components, recorders, error types and numbers of calls.                *)
(***************************************************************************)
EXTENDS Health, MetricsServer, Metrics, FiniteSetTheorems, SequenceTheorems, TLAPS

-----------------------------------------------------------------------------
(* The loop of GetHealth *)

\* The statuses a loop goes through: from healthy on, one turn after the other.
IsLoop(f, components, order, n) ==
    /\ f \in [0 .. n -> Statuses]
    /\ f[0] = "healthy"
    /\ \A i \in 1 .. n : f[i] = Worse(f[i - 1], components[order[i]])

\* If a set of natural numbers is not empty it has a least element.
LEMMA LeastExists ==
  ASSUME NEW S, S \subseteq Nat, S # {}
  PROVE  \E m \in S : \A i \in S : m <= i
  <1> DEFINE R == {ss \in Nat \X Nat : ss[1] < ss[2]}
  <1>1. IsWellFoundedOn(R, Nat)
    BY NatLessThanWellFounded DEF OpToRel
  <1>2. PICK m \in S : \A i \in S : ~(<<i, m>> \in R)
    BY <1>1, WFMin, Zenon
  <1>3. ASSUME NEW i \in S
        PROVE  m <= i
    <2>1. m \in Nat /\ i \in Nat /\ <<i, m>> \in Nat \X Nat
      OBVIOUS
    <2>2. i < m => <<i, m>> \in R
      BY <2>1
    <2> QED
      BY <1>2, <2>1, <2>2
  <1> QED
    BY <1>3

\* The loop can go on for any number of turns.
LEMMA LoopExists ==
  ASSUME NEW components, NEW order, NEW n \in Nat
  PROVE  \E f : IsLoop(f, components, order, n)
  <1> DEFINE Bad == {m \in Nat : ~\E f : IsLoop(f, components, order, m)}
  <1> SUFFICES ASSUME Bad # {} PROVE FALSE
    OBVIOUS
  <1>1. PICK m \in Bad : \A i \in Bad : m <= i
    BY LeastExists, Zenon
  <1>2. CASE m = 0
    <2>1. IsLoop([i \in 0 .. 0 |-> "healthy"], components, order, 0)
      BY DEF IsLoop, Statuses
    <2> QED
      BY <1>2, <2>1
  <1>3. CASE m # 0
    <2>1. m \in Nat /\ m - 1 \in Nat /\ m - 1 \notin Bad
      BY <1>1, <1>3
    <2>2. PICK f : IsLoop(f, components, order, m - 1)
      BY <2>1
    <2> DEFINE g == [i \in 0 .. m |-> IF i < m THEN f[i]
                                      ELSE Worse(f[m - 1], components[order[m]])]
    <2>3. f \in [0 .. (m - 1) -> Statuses] /\ f[m - 1] \in Statuses
      BY <2>1, <2>2 DEF IsLoop
    <2>4. Worse(f[m - 1], components[order[m]]) \in Statuses
      BY <2>3 DEF Worse, Statuses
    <2>5. g \in [0 .. m -> Statuses]
      BY <2>1, <2>3, <2>4
    <2>6. g[0] = "healthy"
      BY <1>3, <2>1, <2>2 DEF IsLoop
    <2>7. ASSUME NEW i \in 1 .. m
          PROVE  g[i] = Worse(g[i - 1], components[order[i]])
      <3>1. CASE i = m
        BY <2>1, <3>1
      <3>2. CASE i < m
        <4>1. i \in 1 .. (m - 1) /\ g[i] = f[i] /\ g[i - 1] = f[i - 1]
          BY <2>1, <3>2
        <4> QED
          BY <2>2, <4>1 DEF IsLoop
      <3> QED
        BY <2>1, <3>1, <3>2
    <2> HIDE DEF g
    <2>8. IsLoop(g, components, order, m)
      BY <2>5, <2>6, <2>7 DEF IsLoop
    <2> QED
      BY <2>8
  <1> QED
    BY <1>2, <1>3

\* GetHealth returns the status after the last turn of such a loop.
LEMMA GetHealthIsLoop ==
  ASSUME NEW components, NEW order \in Seq(Components)
  PROVE  \E f : /\ IsLoop(f, components, order, Len(order))
                /\ GetHealth(components, order) = f[Len(order)]
  <1> DEFINE n == Len(order)
             Turn(f) == [i \in 0 .. n |-> IF i = 0 THEN "healthy"
                                         ELSE Worse(f[i - 1], components[order[i]])]
             overall == CHOOSE f : f = Turn(f)
  <1>1. n \in Nat
    OBVIOUS
  <1>2. PICK f : IsLoop(f, components, order, n)
    BY <1>1, LoopExists, Zenon
  <1>3. f = Turn(f)
    BY <1>1, <1>2 DEF IsLoop
  <1>4. overall = Turn(overall)
    BY <1>3, Zenon
  <1>5. GetHealth(components, order) = overall[n]
    BY DEF GetHealth
  <1> HIDE DEF overall
  <1>6. /\ overall[0] = "healthy"
        /\ \A i \in 1 .. n : overall[i] = Worse(overall[i - 1], components[order[i]])
    <2>1. \A i \in 0 .. n : Turn(overall)[i] = IF i = 0 THEN "healthy"
                                 ELSE Worse(overall[i - 1], components[order[i]])
      OBVIOUS
    <2> HIDE DEF Turn
    <2>2. \A i \in 0 .. n : overall[i] = IF i = 0 THEN "healthy"
                                 ELSE Worse(overall[i - 1], components[order[i]])
      BY <1>4, <2>1
    <2> QED
      BY <1>1, <2>2
  <1>7. \A i \in 0 .. n : overall[i] = f[i]
    <2> DEFINE Bad == {i \in 0 .. n : overall[i] # f[i]}
    <2> SUFFICES ASSUME Bad # {} PROVE FALSE
      OBVIOUS
    <2>1. Bad \subseteq Nat
      BY <1>1
    <2>2. PICK m \in Bad : \A i \in Bad : m <= i
      BY <2>1, LeastExists, Zenon
    <2>3. m \in 1 .. n /\ m - 1 \in 0 .. n /\ m - 1 \notin Bad
      BY <1>1, <1>2, <1>6, <2>2 DEF IsLoop
    <2>4. overall[m] = f[m]
      BY <1>2, <1>6, <2>3 DEF IsLoop
    <2> QED
      BY <2>4
  <1>8. n \in 0 .. n
    BY <1>1
  <1> QED
    BY <1>2, <1>5, <1>7, <1>8

\* A turn never makes the status better.
LEMMA TurnsGetWorse ==
  ASSUME NEW components, NEW order, NEW n \in Nat, NEW f,
         IsLoop(f, components, order, n), NEW k \in 1 .. n
  PROVE  /\ components[order[k]] = "unhealthy" => \A i \in k .. n : f[i] = "unhealthy"
         /\ components[order[k]] = "degraded" => \A i \in k .. n : f[i] # "healthy"
  <1>1. /\ components[order[k]] = "unhealthy" => f[k] = "unhealthy"
        /\ components[order[k]] = "degraded" => f[k] # "healthy"
    <2>1. f[k] = Worse(f[k - 1], components[order[k]]) /\ f[k - 1] \in Statuses
      BY DEF IsLoop
    <2> QED
      BY <2>1 DEF Worse, Statuses
  <1>2. ASSUME NEW i \in (k + 1) .. n
        PROVE  /\ f[i - 1] = "unhealthy" => f[i] = "unhealthy"
               /\ f[i - 1] # "healthy" => f[i] # "healthy"
    <2>1. f[i] = Worse(f[i - 1], components[order[i]]) /\ f[i - 1] \in Statuses
      BY DEF IsLoop
    <2> QED
      BY <2>1 DEF Worse, Statuses
  <1>3. ASSUME components[order[k]] = "unhealthy"
        PROVE  \A i \in k .. n : f[i] = "unhealthy"
    <2> DEFINE Bad == {i \in k .. n : f[i] # "unhealthy"}
    <2> SUFFICES ASSUME Bad # {} PROVE FALSE
      OBVIOUS
    <2>1. Bad \subseteq Nat
      OBVIOUS
    <2>2. PICK m \in Bad : \A i \in Bad : m <= i
      BY <2>1, LeastExists, Zenon
    <2>3. m \in (k + 1) .. n /\ m - 1 \in k .. n /\ m - 1 \notin Bad
      BY <1>1, <1>3, <2>2
    <2> QED
      BY <1>2, <2>3
  <1>4. ASSUME components[order[k]] = "degraded"
        PROVE  \A i \in k .. n : f[i] # "healthy"
    <2> DEFINE Bad == {i \in k .. n : f[i] = "healthy"}
    <2> SUFFICES ASSUME Bad # {} PROVE FALSE
      OBVIOUS
    <2>1. Bad \subseteq Nat
      OBVIOUS
    <2>2. PICK m \in Bad : \A i \in Bad : m <= i
      BY <2>1, LeastExists, Zenon
    <2>3. m \in (k + 1) .. n /\ m - 1 \in k .. n /\ m - 1 \notin Bad
      BY <1>1, <1>4, <2>2
    <2> QED
      BY <1>2, <2>3
  <1> QED
    BY <1>3, <1>4

\* A status that is not healthy has been found at some component.
LEMMA WorstWasFound ==
  ASSUME NEW components, NEW order, NEW n \in Nat, NEW f,
         IsLoop(f, components, order, n), NEW j \in 0 .. n
  PROVE  /\ f[j] = "unhealthy" => \E k \in 1 .. n : components[order[k]] = "unhealthy"
         /\ f[j] # "healthy" =>
               \E k \in 1 .. n : components[order[k]] \in {"unhealthy", "degraded"}
  <1>1. ASSUME NEW bad, bad \in {{"unhealthy"}, {"unhealthy", "degraded"}}, f[j] \in bad
        PROVE  \E k \in 1 .. n : components[order[k]] \in bad
    <2> DEFINE Found == {i \in 0 .. n : f[i] \in bad}
    <2>1. Found \subseteq Nat /\ Found # {}
      BY <1>1
    <2>2. PICK m \in Found : \A i \in Found : m <= i
      BY <2>1, LeastExists, Zenon
    <2>3. m \in 1 .. n /\ m - 1 \in 0 .. n /\ m - 1 \notin Found
      BY <1>1, <2>2 DEF IsLoop
    <2>4. /\ f[m] = Worse(f[m - 1], components[order[m]])
          /\ f[m] \in bad /\ f[m - 1] \notin bad
      BY <2>2, <2>3 DEF IsLoop
    <2>5. components[order[m]] \in bad
      BY <1>1, <2>4 DEF Worse
    <2> QED
      BY <2>3, <2>5
  <1>2. f[j] \in Statuses
    BY DEF IsLoop
  <1> QED
    BY <1>1, <1>2, Zenon DEF Statuses

\* GetHealth returns the worst status there is, in whatever order the loop meets
\* the components.
LEMMA HealthIsWorst ==
  ASSUME NEW components,
         NEW order \in Bijection(1 .. Cardinality(Components), Components)
  PROVE  LET status == GetHealth(components, order)
             found == {components[c] : c \in Components}
         IN  /\ status \in Statuses
             /\ status = "unhealthy" <=> "unhealthy" \in found
             /\ status = "healthy" <=> found \cap {"unhealthy", "degraded"} = {}
  <1> DEFINE n == Cardinality(Components)
             status == GetHealth(components, order)
             found == {components[c] : c \in Components}
  <1>1. n \in Nat /\ order \in [1 .. n -> Components]
    BY ComponentsAssumption, FS_CardinalityType DEF Bijection, Injection
  <1>2. ASSUME NEW c \in Components
        PROVE  \E i \in 1 .. n : order[i] = c
    BY DEF Bijection, Surjection
  <1>3. order \in Seq(Components) /\ Len(order) = n
    BY <1>1
  <1>4. PICK f : IsLoop(f, components, order, n) /\ status = f[n]
    BY <1>3, GetHealthIsLoop
  <1> HIDE DEF status, n, found
  <1>5. status \in Statuses
    BY <1>1, <1>4 DEF IsLoop
  <1>6. n \in 0 .. n /\ \A k \in 1 .. n : n \in k .. n
    BY <1>1
  <1>7. \A k \in 1 .. n : /\ components[order[k]] = "unhealthy" => status = "unhealthy"
                          /\ components[order[k]] = "degraded" => status # "healthy"
    BY <1>1, <1>4, <1>6, TurnsGetWorse
  <1>8. /\ f[n] = "unhealthy" => \E k \in 1 .. n : components[order[k]] = "unhealthy"
        /\ f[n] # "healthy" =>
              \E k \in 1 .. n : components[order[k]] \in {"unhealthy", "degraded"}
    <2> SUFFICES ASSUME NEW q, NEW g, IsLoop(g, components, q, n)
                 PROVE  /\ g[n] = "unhealthy" =>
                              \E k \in 1 .. n : components[q[k]] = "unhealthy"
                        /\ g[n] # "healthy" =>
                              \E k \in 1 .. n :
                                 components[q[k]] \in {"unhealthy", "degraded"}
      BY <1>4
    <2> QED
      BY <1>1, <1>6, WorstWasFound
  <1>9. ASSUME NEW c \in Components
        PROVE  /\ components[c] = "unhealthy" => status = "unhealthy"
               /\ components[c] = "degraded" => status # "healthy"
    <2>1. PICK k \in 1 .. n : order[k] = c
      BY <1>2
    <2> QED
      BY <1>7, <2>1
  <1>10. /\ status = "unhealthy" => \E c \in Components : components[c] = "unhealthy"
         /\ status # "healthy" =>
               \E c \in Components : components[c] \in {"unhealthy", "degraded"}
    BY <1>1, <1>4, <1>8
  <1>11. status = "unhealthy" <=> "unhealthy" \in found
    BY <1>9, <1>10 DEF found
  <1>12. status = "healthy" <=> found \cap {"unhealthy", "degraded"} = {}
    BY <1>9, <1>10 DEF found
  <1> QED
    BY <1>5, <1>11, <1>12 DEF status, found

-----------------------------------------------------------------------------
(* The checkers *)

Checker == [Components -> Statuses \cup {"none"}]

\* The holders keep checkers that exist; unless one has been replaced there is only
\* one; and the mark of the shutdown stays in the manager's.
CheckerFacts ==
    /\ checkers \in Seq(Checker)
    /\ global \in 0 .. Len(checkers)
    /\ lookup \in [Holders -> {"test", "make", "return", "done"}]
    /\ held \in [Holders -> 0 .. Len(checkers)]
    /\ \A h \in Holders : /\ lookup[h] = "return" => global # 0
                          /\ lookup[h] = "done" => held[h] # 0
    /\ overwritten \/ Len(checkers) <= 1
    /\ global = 0 => Len(checkers) = 0
    /\ marked => /\ lookup["manager"] = "done"
                 /\ checkers[held["manager"]]["shutdown"] = "degraded"

\* An answer comes from a server that keeps a checker.
AnswerFacts ==
    /\ AnswersAreWorst
    /\ answer # NoAnswer => answer.by \in Holders /\ lookup[answer.by] = "done"

HealthInductive == CheckerFacts /\ AnswerFacts

\* No checker has been made at first.
LEMMA InitHealth == HealthInit => HealthInductive
  <1> SUFFICES ASSUME HealthInit PROVE HealthInductive
    OBVIOUS
  <1>1. /\ checkers = <<>> /\ global = 0 /\ answer = NoAnswer /\ ~marked
        /\ lookup = [h \in Holders |-> "test"] /\ held = [h \in Holders |-> 0]
    BY DEF HealthInit
  <1>2. checkers \in Seq(Checker) /\ Len(checkers) = 0
    BY <1>1
  <1> QED
    BY <1>1, <1>2 DEF HealthInductive, CheckerFacts, AnswerFacts, AnswersAreWorst

\* A new checker leaves the ones there are alone, and replaces one only if there is
\* one.
LEMMA NewChecker ==
  ASSUME CheckerFacts, NewHealthChecker
  PROVE  /\ checkers' \in Seq(Checker) /\ Len(checkers') = Len(checkers) + 1
         /\ Len(checkers) \in Nat /\ global' \in 1 .. Len(checkers')
         /\ overwritten' \/ Len(checkers') <= 1
         /\ \A i \in 1 .. Len(checkers) : checkers'[i] = checkers[i]
  <1> DEFINE new == [c \in Components |-> "none"]
  <1>1. checkers \in Seq(Checker) /\ Len(checkers) \in Nat /\ new \in Checker
    BY DEF CheckerFacts, Checker
  <1>2. checkers' = Append(checkers, new) /\ global' = Len(checkers) + 1
    BY DEF NewHealthChecker
  <1> HIDE DEF new
  <1>3. /\ checkers' \in Seq(Checker) /\ Len(checkers') = Len(checkers) + 1
        /\ \A i \in 1 .. Len(checkers) : checkers'[i] = checkers[i]
    BY <1>1, <1>2
  <1>4. overwritten' \/ Len(checkers') <= 1
    <2>1. overwritten' = (overwritten \/ global # 0)
      BY DEF NewHealthChecker
    <2>2. overwritten' \/ global = 0
      BY <2>1, Zenon
    <2>3. global = 0 => Len(checkers) = 0
      BY DEF CheckerFacts
    <2> QED
      BY <1>1, <1>3, <2>2, <2>3
  <1> QED
    BY <1>1, <1>2, <1>3, <1>4

\* InitHealthChecker and the steps of GetHealthChecker.
LEMMA LookupPreserves ==
  ASSUME HealthInductive,
         \/ InitHealthChecker
         \/ \E h \in Holders : LookupTest(h) \/ LookupMake(h) \/ LookupReturn(h)
  PROVE  HealthInductive'
  <1>1. CheckerFacts
    BY DEF HealthInductive
  <1>2. AnswerFacts'
    <2>1. answer' = NoAnswer
      BY DEF InitHealthChecker, LookupTest, LookupMake, LookupReturn
    <2> QED
      BY <2>1 DEF AnswerFacts, AnswersAreWorst
  <1>3. "manager" \in Holders
    BY DEF Holders
  <1>4. ASSUME NEW looks, looks \in {lookup, lookup'}, NewHealthChecker,
               UNCHANGED <<held, marked>>, lookup' = looks,
               looks \in [Holders -> {"test", "make", "return", "done"}],
               \A h \in Holders : looks[h] = "done" <=> lookup[h] = "done"
        PROVE  CheckerFacts'
    <2>1. \A i \in 0 .. Len(checkers) : i \in 0 .. Len(checkers')
      BY <1>1, <1>4, NewChecker
    <2>2. held' \in [Holders -> 0 .. Len(checkers')]
      BY <1>1, <1>4, <2>1 DEF CheckerFacts
    <2>3. global' # 0 /\ global' \in 0 .. Len(checkers')
      BY <1>1, <1>4, NewChecker
    <2>4. marked' => /\ lookup'["manager"] = "done"
                     /\ checkers'[held'["manager"]]["shutdown"] = "degraded"
      <3> SUFFICES ASSUME marked
                   PROVE  /\ lookup'["manager"] = "done"
                          /\ checkers'[held["manager"]]["shutdown"] = "degraded"
        BY <1>4
      <3>1. held["manager"] \in 1 .. Len(checkers)
        BY <1>1, <1>3 DEF CheckerFacts
      <3> QED
        BY <1>1, <1>3, <1>4, <3>1, NewChecker DEF CheckerFacts
    <2> QED
      BY <1>1, <1>4, <2>2, <2>3, <2>4, NewChecker DEF CheckerFacts
  <1>5. CASE InitHealthChecker
    <2>1. CheckerFacts'
      BY <1>1, <1>4, <1>5 DEF InitHealthChecker, CheckerFacts
    <2> QED
      BY <1>2, <2>1 DEF HealthInductive
  <1>6. ASSUME NEW h \in Holders, LookupMake(h)
        PROVE  HealthInductive'
    <2>1. CheckerFacts'
      BY <1>1, <1>4, <1>6 DEF LookupMake, CheckerFacts
    <2> QED
      BY <1>2, <2>1 DEF HealthInductive
  <1>7. ASSUME NEW h \in Holders, LookupTest(h)
        PROVE  HealthInductive'
    <2>1. CheckerFacts'
      BY <1>1, <1>3, <1>7 DEF LookupTest, CheckerFacts
    <2> QED
      BY <1>2, <2>1 DEF HealthInductive
  <1>8. ASSUME NEW h \in Holders, LookupReturn(h)
        PROVE  HealthInductive'
    <2>1. CheckerFacts'
      BY <1>1, <1>3, <1>8 DEF LookupReturn, CheckerFacts
    <2> QED
      BY <1>2, <2>1 DEF HealthInductive
  <1> QED
    BY <1>5, <1>6, <1>7, <1>8

\* A report changes one component in one checker.
LEMMA ReportPreserves ==
  ASSUME HealthInductive,
         \/ MarkShutdown
         \/ \E c \in Components \ {"shutdown"}, s \in Statuses : Report(c, s)
  PROVE  HealthInductive'
  <1>1. AnswerFacts'
    <2>1. answer' = NoAnswer
      BY DEF MarkShutdown, Report
    <2> QED
      BY <2>1 DEF AnswerFacts, AnswersAreWorst
  <1>2. /\ CheckerFacts /\ Len(checkers) \in Nat
        /\ "manager" \in Holders /\ "reporter" \in Holders
    BY DEF HealthInductive, CheckerFacts, Holders
  <1>3. ASSUME NEW h \in Holders, NEW c \in Components, NEW s \in Statuses,
               lookup[h] = "done", RegisterComponent(h, c, s)
        PROVE  /\ checkers' \in Seq(Checker) /\ Len(checkers') = Len(checkers)
               /\ held[h] \in 1 .. Len(checkers)
               /\ \A i \in 1 .. Len(checkers) : \A d \in Components :
                     checkers'[i][d] = IF i = held[h] /\ d = c THEN s ELSE checkers[i][d]
    <2>1. held[h] \in 1 .. Len(checkers) /\ checkers \in Seq(Checker)
      BY <1>2, <1>3 DEF CheckerFacts
    <2> DEFINE k == held[h]
               new == [checkers[k] EXCEPT ![c] = s]
    <2>2. checkers[k] \in Checker
      BY <1>2, <2>1
    <2>3. /\ new \in Checker
          /\ \A d \in Components : new[d] = IF d = c THEN s ELSE checkers[k][d]
      BY <2>2 DEF Checker
    <2>4. checkers' = [checkers EXCEPT ![k] = new]
      BY <1>3 DEF RegisterComponent
    <2> HIDE DEF new, k
    <2>5. k \in 1 .. Len(checkers)
      BY <2>1 DEF k
    <2>6. checkers' \in Seq(Checker) /\ Len(checkers') = Len(checkers)
      BY <1>2, <2>1, <2>3, <2>4, <2>5
    <2>7. \A i \in 1 .. Len(checkers) : checkers'[i] = IF i = k THEN new ELSE checkers[i]
      BY <1>2, <2>1, <2>4, <2>5
    <2> QED
      BY <2>1, <2>3, <2>6, <2>7 DEF k
  <1>4. CASE MarkShutdown
    <2>1. /\ lookup["manager"] = "done" /\ marked'
          /\ RegisterComponent("manager", "shutdown", "degraded")
          /\ UNCHANGED <<global, lookup, held, overwritten>>
      BY <1>4 DEF MarkShutdown
    <2>2. "degraded" \in Statuses /\ "shutdown" \in Components
      BY ComponentsAssumption DEF Statuses
    <2>3. CheckerFacts'
      BY <1>2, <1>3, <2>1, <2>2 DEF CheckerFacts
    <2> QED
      BY <1>1, <2>3 DEF HealthInductive
  <1>5. ASSUME NEW c \in Components \ {"shutdown"}, NEW s \in Statuses, Report(c, s)
        PROVE  HealthInductive'
    <2>1. /\ lookup["reporter"] = "done" /\ RegisterComponent("reporter", c, s)
          /\ UNCHANGED <<global, lookup, held, marked, overwritten>>
      BY <1>5 DEF Report
    <2>2. /\ checkers' \in Seq(Checker) /\ Len(checkers') = Len(checkers)
          /\ \A i \in 1 .. Len(checkers) :
                checkers'[i]["shutdown"] = checkers[i]["shutdown"]
      BY <1>2, <1>3, <2>1, ComponentsAssumption
    <2>3. marked => held["manager"] \in 1 .. Len(checkers)
      BY <1>2 DEF CheckerFacts
    <2>4. CheckerFacts'
      BY <1>2, <2>1, <2>2, <2>3 DEF CheckerFacts
    <2> QED
      BY <1>1, <2>4 DEF HealthInductive
  <1> QED
    BY <1>4, <1>5

\* A request is answered by the worst component of the checker it reads.
LEMMA RequestPreserves ==
  ASSUME HealthInductive, NEW by \in DOMAIN Paths, NEW path \in Paths[by],
         Request(by, path)
  PROVE  HealthInductive'
  <1>1. PICK order \in Bijection(1 .. Cardinality(Components), Components) :
           LET status == GetHealth(checkers[held[by]], order)
           IN  answer' = [by |-> by, path |-> path,
                          says |-> CASE path = "/health" -> HTTPHandler(status)
                                     [] path = "/ready" -> ReadinessHandler(status)
                                     [] path = "/live" -> 200
                                     [] path = "/status" -> status]
    BY Zenon DEF Request
  <1> DEFINE status == GetHealth(checkers[held[by]], order)
             found == {checkers[held[by]][c] : c \in Components}
  <1>2. /\ UNCHANGED <<checkers, global, lookup, held, marked, overwritten>>
        /\ lookup[by] = "done"
    BY DEF Request
  <1>3. by \in Holders
    BY DEF Paths, Holders
  <1>4. CheckerFacts'
    BY <1>2 DEF HealthInductive, CheckerFacts
  <1>5. /\ status \in Statuses
        /\ status = "unhealthy" <=> "unhealthy" \in found
        /\ status = "healthy" <=> found \cap {"unhealthy", "degraded"} = {}
    BY HealthIsWorst, Zenon
  <1> HIDE DEF status
  <1>6. /\ answer'.by = by /\ answer'.path = path
        /\ path = "/health" => answer'.says = HTTPHandler(status)
        /\ path = "/ready" => answer'.says = ReadinessHandler(status)
        /\ path = "/status" => answer'.says = status
    BY <1>1 DEF status
  <1>7. Reported' = found
    BY <1>2, <1>6 DEF Reported
  <1> HIDE DEF found
  <1>8. AnswersAreWorst'
    BY <1>5, <1>6, <1>7 DEF AnswersAreWorst, HTTPHandler, ReadinessHandler, Statuses
  <1> QED
    BY <1>2, <1>3, <1>4, <1>6, <1>8 DEF HealthInductive, AnswerFacts

\* Every step of the health checks.
LEMMA HealthPreserves ==
  ASSUME HealthInductive, HealthNext
  PROVE  HealthInductive'
  BY LookupPreserves, ReportPreserves, RequestPreserves DEF HealthNext

\* A step that changes nothing of them.
LEMMA SameHealth ==
  ASSUME HealthInductive, UNCHANGED healthVars
  PROVE  HealthInductive'
  <1>1. CheckerFacts'
    BY DEF healthVars, HealthInductive, CheckerFacts
  <1>2. Reported' = Reported /\ answer' = answer /\ lookup' = lookup
    BY DEF healthVars, Reported
  <1>3. AnswerFacts'
    BY <1>2 DEF HealthInductive, AnswerFacts, AnswersAreWorst
  <1> QED
    BY <1>1, <1>3 DEF HealthInductive

\* Whatever has been marked is still not ready.
LEMMA MarkedIsNotReady ==
  ASSUME HealthInductive
  PROVE  NotReadyInShutdown
  <1> SUFFICES ASSUME marked, ~overwritten, answer # NoAnswer
               PROVE  /\ answer.path = "/ready" => answer.says = 503
                      /\ answer.path = "/status" => answer.says # "healthy"
    BY DEF NotReadyInShutdown
  <1>1. CheckerFacts /\ AnswerFacts /\ "manager" \in Holders
    BY DEF HealthInductive, Holders
  <1>2. held[answer.by] = held["manager"]
    BY <1>1 DEF CheckerFacts, AnswerFacts
  <1>3. "degraded" \in Reported
    BY <1>1, <1>2, ComponentsAssumption DEF Reported, CheckerFacts
  <1> QED
    BY <1>1, <1>3 DEF AnswerFacts, AnswersAreWorst

-----------------------------------------------------------------------------
(* The servers *)

Ended == {s \in Servers : stopper[s] = "ended"}

\* A server whose Shutdown has been called does not serve, and one whose result is
\* nil has no request in progress.
DownFacts ==
    /\ enabled \subseteq Servers /\ active \subseteq enabled
    /\ server \in [Servers -> {"new", "starting", "serving", "failed", "closed"}]
    /\ \A s \in Servers : server[s] # "new" => s \in enabled
    /\ stopper \in [Servers -> {"none", "ready", "drain", "send", "ended"}]
    /\ result \in [Servers -> {"none", "nil", "error"}]
    /\ \A s \in Servers :
          /\ InShutdown(s) => server[s] # "serving" /\ result[s] # "none"
          /\ stopper[s] \in {"send", "ended"} /\ result[s] = "nil" => s \notin active

\* The results that have been sent: received or still in the channel.
ResultFacts ==
    /\ stop \in {"no", "wait", "ok", "error"}
    /\ errChan \in Seq({"nil", "error"}) /\ received \in Nat
    /\ received + Len(errChan) = Cardinality(Ended)
    /\ stop = "no" => \A s \in Servers : stopper[s] = "none"
    /\ stop = "ok" => received = 3
    /\ \A s \in Ended : result[s] = "error" =>
          stop = "error" \/ \E i \in 1 .. Len(errChan) : errChan[i] = "error"

ServerInductive == DownFacts /\ ResultFacts

\* There are three servers, so at most three goroutines end.
LEMMA ThreeServers ==
  /\ IsFiniteSet(Servers) /\ Cardinality(Servers) = 3
  /\ IsFiniteSet(Ended) /\ Cardinality(Ended) \in 0 .. 3
  /\ Cardinality(Ended) = 3 => Ended = Servers
  <1>1. IsFiniteSet({"metrics"}) /\ Cardinality({"metrics"}) = 1
    BY FS_Singleton, Zenon
  <1>2. /\ IsFiniteSet({"metrics"} \cup {"health"})
        /\ Cardinality({"metrics"} \cup {"health"}) = 2
    BY <1>1, FS_AddElement
  <1>3. Servers = ({"metrics"} \cup {"health"}) \cup {"profiling"}
    BY DEF Servers
  <1>4. IsFiniteSet(Servers) /\ Cardinality(Servers) = 3
    BY <1>2, <1>3, FS_AddElement
  <1>5. Ended \in SUBSET Servers
    BY DEF Ended
  <1> QED
    BY <1>4, <1>5, FS_Subset, FS_CardinalityType

\* Nothing runs at first.
LEMMA InitServer == ServerInit => ServerInductive
  <1> SUFFICES ASSUME ServerInit PROVE ServerInductive
    OBVIOUS
  <1>1. DownFacts
    BY DEF ServerInit, DownFacts, InShutdown
  <1>2. Ended = {} /\ errChan = <<>> /\ received = 0 /\ stop = "no"
    BY DEF ServerInit, Ended
  <1>3. Cardinality(Ended) = 0 /\ errChan \in Seq({"nil", "error"}) /\ Len(errChan) = 0
    BY <1>2, FS_EmptySet
  <1>4. ResultFacts
    BY <1>2, <1>3 DEF ResultFacts, ServerInit
  <1> QED
    BY <1>1, <1>4 DEF ServerInductive

\* Start, the listeners and their requests.
LEMMA ServingPreserves ==
  ASSUME ServerInductive,
         Start \/ \E s \in Servers : ListenAndServe(s) \/ Accept(s) \/ Respond(s)
  PROVE  ServerInductive'
  <1>1. UNCHANGED <<enabled, stop, stopper, result, errChan, received>>
    BY DEF Start, ListenAndServe, Accept, Respond
  <1>2. ResultFacts'
    BY <1>1 DEF ServerInductive, ResultFacts, Ended
  <1>3. DownFacts
    BY DEF ServerInductive
  <1>4. CASE Start
    BY <1>1, <1>2, <1>3, <1>4 DEF Start, ServerInductive, DownFacts, InShutdown
  <1>5. ASSUME NEW s \in Servers, ListenAndServe(s)
        PROVE  ServerInductive'
    <2>1. PICK next \in {"closed", "serving", "failed"} :
             /\ server' = [server EXCEPT ![s] = next]
             /\ InShutdown(s) => next = "closed"
      BY <1>5, Zenon DEF ListenAndServe
    <2>2. server[s] = "starting" /\ active' = active
      BY <1>5 DEF ListenAndServe
    <2>3. DownFacts'
      BY <1>1, <1>3, <2>1, <2>2 DEF DownFacts, InShutdown
    <2> QED
      BY <1>2, <2>3 DEF ServerInductive
  <1>6. ASSUME NEW s \in Servers, Accept(s) \/ Respond(s)
        PROVE  ServerInductive'
    <2>1. DownFacts'
      BY <1>1, <1>3, <1>6 DEF DownFacts, InShutdown, Accept, Respond
    <2> QED
      BY <1>2, <2>1 DEF ServerInductive
  <1> QED
    BY <1>4, <1>5, <1>6

\* Stop makes its goroutines, and they shut the servers down.
LEMMA StopPreserves ==
  ASSUME ServerInductive,
         \/ Stop \/ CtxDone
         \/ \E s \in Servers : StopperBegin(s) \/ StopperDrained(s) \/ StopperTimeout(s)
  PROVE  ServerInductive'
  <1>1. DownFacts /\ ResultFacts
    BY DEF ServerInductive
  <1>2. UNCHANGED <<enabled, active, errChan, received>>
    BY DEF Stop, CtxDone, StopperBegin, StopperDrained, StopperTimeout
  <1>3. CASE Stop
    <2>1. /\ stop = "no" /\ stop' = "wait" /\ stopper' = [s \in Servers |-> "ready"]
          /\ UNCHANGED <<server, result>>
      BY <1>3 DEF Stop
    <2>2. DownFacts'
      BY <1>1, <1>2, <2>1 DEF DownFacts, InShutdown
    <2>3. Ended' = Ended
      BY <1>1, <2>1 DEF Ended, ResultFacts
    <2>4. ResultFacts'
      BY <1>1, <1>2, <2>1, <2>3 DEF ResultFacts
    <2> QED
      BY <2>2, <2>4 DEF ServerInductive
  <1>4. CASE CtxDone
    <2>1. UNCHANGED <<server, stop, stopper, result>>
      BY <1>4 DEF CtxDone
    <2>2. DownFacts'
      BY <1>1, <1>2, <2>1 DEF DownFacts, InShutdown
    <2>3. ResultFacts'
      BY <1>1, <1>2, <2>1 DEF ResultFacts, Ended
    <2> QED
      BY <2>2, <2>3 DEF ServerInductive
  <1>5. ASSUME NEW s \in Servers, StopperBegin(s) \/ StopperDrained(s) \/ StopperTimeout(s)
        PROVE  ServerInductive'
    <2>1. PICK next \in {"drain", "send"}, res \in {"nil", "error"} :
             /\ stopper' = [stopper EXCEPT ![s] = next]
             /\ result' = [result EXCEPT ![s] = res]
             /\ next = "send" /\ res = "nil" => s \notin active
             /\ stopper[s] \in {"ready", "drain"}
      BY <1>1, <1>5 DEF StopperBegin, StopperDrained, StopperTimeout, DownFacts, InShutdown
    <2>2. /\ stop' = stop
          /\ \A q \in Servers : server'[q] = server[q] \/ (q = s /\ server'[q] = "closed")
          /\ server'[s] # "serving"
          /\ server' \in [Servers -> {"new", "starting", "serving", "failed", "closed"}]
          /\ \A q \in Servers : server'[q] # "new" => q \in enabled
      BY <1>1, <1>5
      DEF StopperBegin, StopperDrained, StopperTimeout, DownFacts, InShutdown
    <2>3. DownFacts'
      BY <1>1, <1>2, <2>1, <2>2, Zenon DEF DownFacts, InShutdown
    <2>4. Ended' = Ended /\ \A q \in Ended : result'[q] = result[q]
      BY <1>1, <2>1 DEF Ended, DownFacts
    <2>5. stop # "no"
      BY <1>1, <2>1, SMTT(30) DEF ResultFacts
    <2>6. ResultFacts'
      BY <1>1, <1>2, <2>2, <2>4, <2>5, Zenon DEF ResultFacts
    <2> QED
      BY <2>3, <2>6 DEF ServerInductive
  <1> QED
    BY <1>3, <1>4, <1>5

\* A goroutine ends when its result is in the channel.
LEMMA SendPreserves ==
  ASSUME ServerInductive, NEW s \in Servers, StopperSend(s)
  PROVE  ServerInductive'
  <1>1. DownFacts /\ ResultFacts
    BY DEF ServerInductive
  <1>2. /\ stopper[s] = "send" /\ errChan' = Append(errChan, result[s])
        /\ stopper' = [stopper EXCEPT ![s] = "ended"]
        /\ UNCHANGED <<enabled, server, active, stop, result, received>>
    BY DEF StopperSend
  <1>3. DownFacts'
    BY <1>1, <1>2 DEF DownFacts, InShutdown
  <1>4. result[s] \in {"nil", "error"} /\ errChan \in Seq({"nil", "error"})
    BY <1>1, <1>2 DEF DownFacts, ResultFacts, InShutdown
  <1>5. /\ errChan' \in Seq({"nil", "error"}) /\ Len(errChan) \in Nat
        /\ Len(errChan') = Len(errChan) + 1
        /\ \A i \in 1 .. Len(errChan) : errChan'[i] = errChan[i]
        /\ errChan'[Len(errChan) + 1] = result[s]
    BY <1>2, <1>4
  <1>6. Ended' = Ended \cup {s} /\ s \notin Ended
    BY <1>1, <1>2 DEF Ended, DownFacts
  <1>7. Cardinality(Ended') = Cardinality(Ended) + 1 /\ Cardinality(Ended) \in Nat
    <2>1. IsFiniteSet(Ended) /\ Cardinality(Ended) \in Nat
      BY ThreeServers
    <2>2. Cardinality(Ended \cup {s}) = Cardinality(Ended) + 1
      BY <1>6, <2>1, FS_AddElement
    <2> QED
      BY <1>6, <2>1, <2>2
  <1>8. ASSUME NEW q \in Ended', result'[q] = "error", stop' # "error"
        PROVE  \E i \in 1 .. Len(errChan') : errChan'[i] = "error"
    <2>1. CASE q = s
      BY <1>2, <1>5, <1>8, <2>1
    <2>2. CASE q \in Ended
      BY <1>1, <1>2, <1>5, <1>8, <2>2 DEF ResultFacts
    <2> QED
      BY <1>6, <2>1, <2>2
  <1>9. ResultFacts'
    BY <1>1, <1>2, <1>5, <1>7, <1>8 DEF ResultFacts
  <1> QED
    BY <1>3, <1>9 DEF ServerInductive

\* Stop takes a result out of the channel.
LEMMA ReceivePreserves ==
  ASSUME ServerInductive, StopReceive
  PROVE  ServerInductive'
  <1>1. DownFacts /\ ResultFacts
    BY DEF ServerInductive
  <1>2. /\ stop = "wait" /\ errChan # <<>> /\ errChan' = Tail(errChan)
        /\ received' = received + 1
        /\ stop' = IF Head(errChan) = "error" THEN "error"
                   ELSE IF received' = 3 THEN "ok" ELSE "wait"
        /\ UNCHANGED <<enabled, server, active, stopper, result>>
    BY DEF StopReceive
  <1>3. DownFacts' /\ Ended' = Ended
    BY <1>1, <1>2 DEF DownFacts, InShutdown, Ended
  <1>4. errChan \in Seq({"nil", "error"}) /\ Len(errChan) \in Nat
    BY <1>1 DEF ResultFacts
  <1>5. /\ Len(errChan) > 0 /\ errChan' \in Seq({"nil", "error"})
        /\ Len(errChan') = Len(errChan) - 1
        /\ Head(errChan) = errChan[1]
        /\ \A i \in 2 .. Len(errChan) : i - 1 \in 1 .. Len(errChan')
                                        /\ errChan'[i - 1] = errChan[i]
    BY <1>2, <1>4
  <1>6. ASSUME NEW q \in Ended', result'[q] = "error", stop' # "error"
        PROVE  \E i \in 1 .. Len(errChan') : errChan'[i] = "error"
    <2>1. PICK i \in 1 .. Len(errChan) : errChan[i] = "error"
      BY <1>1, <1>2, <1>3, <1>6 DEF ResultFacts
    <2>2. i \in 2 .. Len(errChan)
      BY <1>2, <1>4, <1>5, <1>6, <2>1
    <2> QED
      BY <1>5, <2>1, <2>2
  <1>7. ResultFacts'
    BY <1>1, <1>2, <1>3, <1>4, <1>5, <1>6 DEF ResultFacts
  <1> QED
    BY <1>3, <1>7 DEF ServerInductive

\* Every step of the servers.
LEMMA ServerPreserves ==
  ASSUME ServerInductive, ServerNext
  PROVE  ServerInductive'
  BY ServingPreserves, StopPreserves, SendPreserves, ReceivePreserves
  DEF ServerNext, StopperNext

\* A step that changes nothing of them.
LEMMA SameServers ==
  ASSUME ServerInductive, UNCHANGED serverVars
  PROVE  ServerInductive'
  <1>1. DownFacts'
    BY DEF serverVars, ServerInductive, DownFacts, InShutdown
  <1>2. ResultFacts'
    BY DEF serverVars, ServerInductive, ResultFacts, Ended
  <1> QED
    BY <1>1, <1>2 DEF ServerInductive

\* Three results without an error are those of three servers that are down.
LEMMA StoppedDown ==
  ASSUME ServerInductive
  PROVE  /\ StoppedIsDown
         /\ Len(errChan) <= 3 /\ received \in 0 .. 3
  <1>1. /\ received \in Nat /\ Len(errChan) \in Nat
        /\ received + Len(errChan) \in 0 .. 3
        /\ received = 3 => Len(errChan) = 0 /\ Ended = Servers
    BY ThreeServers DEF ServerInductive, ResultFacts
  <1>2. ASSUME stop = "ok"
        PROVE  /\ active = {}
               /\ \A s \in Servers : server[s] # "serving" /\ (s \in enabled => InShutdown(s))
    <2>1. Ended = Servers /\ \A s \in Servers : result[s] # "error"
      BY <1>1, <1>2 DEF ServerInductive, ResultFacts
    <2>2. \A s \in Servers : stopper[s] = "ended" /\ InShutdown(s)
      BY <2>1 DEF Ended, InShutdown
    <2>3. \A s \in Servers : server[s] # "serving" /\ s \notin active
      BY <2>1, <2>2 DEF ServerInductive, DownFacts
    <2> QED
      BY <2>2, <2>3 DEF ServerInductive, DownFacts
  <1> QED
    BY <1>1, <1>2 DEF StoppedIsDown

-----------------------------------------------------------------------------
(* The metrics *)

ErrorKinds == {"BackupsFailed", "RestoresFailed", "NetworkErrors", "StorageErrors",
               "CryptoErrors"}

\* What is left of a call that has yet to count in the duration, in the chunks, in the
\* total of errors, and in a kind of error whose total it has counted already.
OwesDuration == {<<"BackupDuration">>}
OwesChunk == {<<"DeduplicatedChunks">>, <<"BlocksStored">>}
OwesTotal == {<<"TotalErrors">>}
OwesKind == {<<"NetworkErrors">>, <<"StorageErrors">>, <<"CryptoErrors">>}

\* All that can be left of a call.
Rests ==
    {<<>>, RecordBackupCreated, RecordBackupFailed, RecordRestoreCompleted,
     RecordRestoreFailed, RecordChunkFetched, RecordGarbageCollection,
     <<"RestoreDuration">>, <<"ChunkFetchDuration">>,
     <<"ChunksStored", "DeduplicatedChunks">>, <<"ChunksStored", "BlocksStored">>,
     <<"ChunkRequestsSent">>, <<"ChunkRequestsReceived">>,
     <<"ChunkRequestsSent", "ChunkRequestsFailed", "NetworkErrors", "TotalErrors">>,
     <<"ChunkRequestsReceived", "ChunkRequestsFailed", "NetworkErrors", "TotalErrors">>,
     <<"ChunkRequestsFailed", "NetworkErrors", "TotalErrors">>,
     <<"NetworkErrors", "TotalErrors">>, <<"TotalErrors", "NetworkErrors">>,
     <<"TotalErrors", "StorageErrors">>, <<"TotalErrors", "CryptoErrors">>}
    \cup OwesDuration \cup OwesChunk \cup OwesTotal \cup OwesKind

\* An element put before a short sequence.
LEMMA PutBefore ==
  ASSUME NEW a, NEW b, NEW c, NEW d
  PROVE  /\ <<a>> \o <<>> = <<a>>
         /\ <<a>> \o <<b>> = <<a, b>>
         /\ <<a>> \o <<b, c, d>> = <<a, b, c, d>>
  <1> DEFINE S == {a, b, c, d}
  <1>1. /\ <<a>> \in Seq(S) /\ <<b>> \in Seq(S) /\ <<b, c, d>> \in Seq(S)
        /\ <<a, b>> \in Seq(S) /\ <<a, b, c, d>> \in Seq(S)
    OBVIOUS
  <1> HIDE DEF S
  <1>2. <<a>> \o <<b>> = <<a, b>>
    <2>1. /\ <<a>> \o <<b>> \in Seq(S) /\ Len(<<a>> \o <<b>>) = 2
          /\ (<<a>> \o <<b>>)[1] = a /\ (<<a>> \o <<b>>)[2] = b
      BY <1>1, ConcatProperties
    <2>2. \A i \in 1 .. Len(<<a>> \o <<b>>) : (<<a>> \o <<b>>)[i] = <<a, b>>[i]
      BY <2>1
    <2> QED
      BY <1>1, <2>1, <2>2, SeqEqual, Zenon
  <1>3. <<a>> \o <<b, c, d>> = <<a, b, c, d>>
    <2> DEFINE q == <<a>> \o <<b, c, d>>
    <2>1. /\ q \in Seq(S) /\ Len(q) = 4 /\ q[1] = a /\ q[2] = b /\ q[3] = c /\ q[4] = d
      BY <1>1, ConcatProperties
    <2> HIDE DEF q
    <2>2. \A i \in 1 .. Len(q) : q[i] = <<a, b, c, d>>[i]
      BY <2>1
    <2>3. q = <<a, b, c, d>>
      BY <1>1, <2>1, <2>2, SeqEqual
    <2> QED
      BY <2>3 DEF q
  <1> QED
    BY <1>2, <1>3

\* Head and tail of a short sequence.
LEMMA TakeFirst ==
  ASSUME NEW a, NEW b, NEW c, NEW d
  PROVE  /\ Head(<<a>>) = a /\ Tail(<<a>>) = <<>>
         /\ Head(<<a, b>>) = a /\ Tail(<<a, b>>) = <<b>>
         /\ Head(<<a, b, c>>) = a /\ Tail(<<a, b, c>>) = <<b, c>>
         /\ Head(<<a, b, c, d>>) = a /\ Tail(<<a, b, c, d>>) = <<b, c, d>>
  OBVIOUS

\* A call that is just made is one of these and owes nothing yet but what it may
\* count late.
LEMMA RecordsAreRests ==
  ASSUME NEW record \in Records
  PROVE  /\ record \in Rests
         /\ record \notin OwesDuration \cup OwesChunk \cup OwesKind
  <1>1. \A t \in ErrorTypes : RecordError(t) \in {<<"TotalErrors">>,
             <<"TotalErrors", "NetworkErrors">>, <<"TotalErrors", "StorageErrors">>,
             <<"TotalErrors", "CryptoErrors">>}
    <2> SUFFICES ASSUME NEW t \in ErrorTypes
                 PROVE  RecordError(t) \in {<<"TotalErrors">>,
                          <<"TotalErrors", "NetworkErrors">>,
                          <<"TotalErrors", "StorageErrors">>,
                          <<"TotalErrors", "CryptoErrors">>}
      OBVIOUS
    <2>1. CASE t \notin DOMAIN ErrorCounter
      BY <2>1 DEF RecordError
    <2>2. CASE t \in DOMAIN ErrorCounter
      <3>1. t = "network" \/ t = "storage" \/ t = "crypto"
        BY <2>2 DEF ErrorCounter
      <3>2. ErrorCounter[t] \in {"NetworkErrors", "StorageErrors", "CryptoErrors"}
        BY <3>1 DEF ErrorCounter
      <3>3. RecordError(t) = <<"TotalErrors">> \o <<ErrorCounter[t]>>
        BY <2>2 DEF RecordError
      <3>4. RecordError(t) = <<"TotalErrors", ErrorCounter[t]>>
        BY <3>3, PutBefore, Zenon
      <3> QED
        BY <3>2, <3>4
    <2> QED
      BY <2>1, <2>2
  <1>2. \A s, f \in BOOLEAN : RecordChunkRequest(s, f) \in
            {<<"ChunkRequestsSent">>, <<"ChunkRequestsReceived">>,
             <<"ChunkRequestsSent", "ChunkRequestsFailed", "NetworkErrors", "TotalErrors">>,
             <<"ChunkRequestsReceived", "ChunkRequestsFailed", "NetworkErrors",
               "TotalErrors">>}
    <2>1. \A c : /\ <<c>> \o <<>> = <<c>>
                 /\ <<c>> \o <<"ChunkRequestsFailed", "NetworkErrors", "TotalErrors">>
                      = <<c, "ChunkRequestsFailed", "NetworkErrors", "TotalErrors">>
      BY PutBefore, Zenon
    <2> QED
      BY <2>1, Zenon DEF RecordChunkRequest
  <1>3. \A d \in BOOLEAN : RecordChunkStored(d) \in
            {<<"ChunksStored", "DeduplicatedChunks">>, <<"ChunksStored", "BlocksStored">>}
    BY DEF RecordChunkStored
  <1> QED
    BY <1>1, <1>2, <1>3
    DEF Records, Rests, OwesDuration, OwesChunk, OwesTotal, OwesKind, RecordBackupCreated,
        RecordBackupFailed, RecordRestoreCompleted, RecordRestoreFailed,
        RecordChunkFetched, RecordGarbageCollection

\* What one addition does: which counter it is, and what the call owes before and
\* after it.
LEMMA AdditionFacts ==
  ASSUME NEW q \in Rests, q # <<>>
  PROVE  /\ Head(q) \in Counters /\ Tail(q) \in Rests
         /\ Head(q) = "BackupsCreated" <=> Tail(q) \in OwesDuration
         /\ Head(q) = "BackupDuration" <=> q \in OwesDuration
         /\ Head(q) = "ChunksStored" <=> Tail(q) \in OwesChunk
         /\ Head(q) \in {"DeduplicatedChunks", "BlocksStored"} <=> q \in OwesChunk
         /\ q \in OwesTotal => Head(q) = "TotalErrors"
         /\ q \in OwesKind => Head(q) \in ErrorKinds
         /\ Head(q) \in ErrorKinds /\ q \notin OwesKind => Tail(q) \in OwesTotal
         /\ Tail(q) \in OwesTotal => Head(q) \in ErrorKinds
         /\ Tail(q) \in OwesKind => Head(q) = "TotalErrors" /\ q \notin OwesTotal
  <1> DEFINE
        Ones == {"BackupDuration", "DeduplicatedChunks", "BlocksStored", "TotalErrors",
                 "NetworkErrors", "StorageErrors", "CryptoErrors", "ChunkRequestsSent",
                 "ChunkRequestsReceived", "RestoreDuration", "ChunkFetchDuration",
                 "GarbageCollectionRuns"}
        Twos == {<<"BackupsCreated", "BackupDuration">>, <<"BackupsFailed", "TotalErrors">>,
                 <<"RestoresCompleted", "RestoreDuration">>,
                 <<"ChunksFetched", "ChunkFetchDuration">>,
                 <<"RestoresFailed", "TotalErrors">>,
                 <<"ChunksStored", "DeduplicatedChunks">>,
                 <<"ChunksStored", "BlocksStored">>, <<"NetworkErrors", "TotalErrors">>,
                 <<"TotalErrors", "NetworkErrors">>, <<"TotalErrors", "StorageErrors">>,
                 <<"TotalErrors", "CryptoErrors">>}
        rest == <<"ChunkRequestsFailed", "NetworkErrors", "TotalErrors">>
  <1>1. \/ \E a \in Ones : q = <<a>>
        \/ q \in Twos
        \/ q = rest
        \/ \E a \in {"ChunkRequestsSent", "ChunkRequestsReceived"} :
              q = <<a, "ChunkRequestsFailed", "NetworkErrors", "TotalErrors">>
    BY DEF Rests, OwesDuration, OwesChunk, OwesTotal, OwesKind, RecordBackupCreated,
           RecordBackupFailed, RecordRestoreCompleted, RecordRestoreFailed,
           RecordChunkFetched, RecordGarbageCollection
  <1>2. ASSUME NEW a \in Ones, q = <<a>>
        PROVE  /\ Head(q) = a /\ Tail(q) = <<>> /\ a \in Counters /\ <<>> \in Rests
               /\ q \in OwesDuration <=> a = "BackupDuration"
               /\ q \in OwesChunk <=> a \in {"DeduplicatedChunks", "BlocksStored"}
               /\ q \in OwesTotal <=> a = "TotalErrors"
               /\ q \in OwesKind <=> a \in ErrorKinds
               /\ a \notin {"BackupsCreated", "ChunksStored"}
               /\ Tail(q) \notin OwesDuration \cup OwesChunk \cup OwesTotal \cup OwesKind
    <2>1. Head(q) = a /\ Tail(q) = <<>>
      BY <1>2, TakeFirst
    <2>2. a \in Counters /\ a \notin {"BackupsCreated", "ChunksStored"}
      BY <1>2 DEF Counters
    <2>3. /\ q \in OwesDuration <=> a = "BackupDuration"
          /\ q \in OwesChunk <=> a \in {"DeduplicatedChunks", "BlocksStored"}
          /\ q \in OwesTotal <=> a = "TotalErrors"
          /\ q \in OwesKind <=> a \in ErrorKinds
      BY <1>2 DEF OwesDuration, OwesChunk, OwesTotal, OwesKind, ErrorKinds
    <2>4. <<>> \in Rests
          /\ <<>> \notin OwesDuration \cup OwesChunk \cup OwesTotal \cup OwesKind
      BY DEF Rests, OwesDuration, OwesChunk, OwesTotal, OwesKind
    <2> QED
      BY <2>1, <2>2, <2>3, <2>4, Zenon
  <1>3. ASSUME NEW a, NEW b, <<a, b>> \in Twos, q = <<a, b>>
        PROVE  /\ Head(q) = a /\ Tail(q) = <<b>> /\ a \in Counters /\ <<b>> \in Rests
               /\ q \notin OwesDuration \cup OwesChunk \cup OwesTotal \cup OwesKind
               /\ a = "BackupsCreated" <=> <<b>> \in OwesDuration
               /\ a = "ChunksStored" <=> <<b>> \in OwesChunk
               /\ a \in ErrorKinds <=> <<b>> \in OwesTotal
               /\ a = "TotalErrors" <=> <<b>> \in OwesKind
               /\ a \notin {"BackupDuration", "DeduplicatedChunks", "BlocksStored"}
    <2>1. Head(q) = a /\ Tail(q) = <<b>>
      BY <1>3, TakeFirst
    <2>2. q \notin OwesDuration \cup OwesChunk \cup OwesTotal \cup OwesKind
      BY <1>3 DEF OwesDuration, OwesChunk, OwesTotal, OwesKind
    <2>3. /\ a = "BackupsCreated" <=> b = "BackupDuration"
          /\ a = "ChunksStored" <=> b \in {"DeduplicatedChunks", "BlocksStored"}
          /\ a \in ErrorKinds <=> b = "TotalErrors"
          /\ a = "TotalErrors" <=> b \in {"NetworkErrors", "StorageErrors", "CryptoErrors"}
          /\ a \in Counters
          /\ a \notin {"BackupDuration", "DeduplicatedChunks", "BlocksStored"}
          /\ b \in Ones
      BY <1>3 DEF ErrorKinds, Counters
    <2>4. /\ <<b>> \in OwesDuration <=> b = "BackupDuration"
          /\ <<b>> \in OwesChunk <=> b \in {"DeduplicatedChunks", "BlocksStored"}
          /\ <<b>> \in OwesTotal <=> b = "TotalErrors"
          /\ <<b>> \in OwesKind <=> b \in {"NetworkErrors", "StorageErrors", "CryptoErrors"}
      BY DEF OwesDuration, OwesChunk, OwesTotal, OwesKind
    <2>5. <<b>> \in Rests
      BY <2>3 DEF Rests, OwesDuration, OwesChunk, OwesTotal, OwesKind,
                  RecordGarbageCollection
    <2> QED
      BY <2>1, <2>2, <2>3, <2>4, <2>5
  <1>4. ASSUME \/ q = rest
               \/ \E a \in {"ChunkRequestsSent", "ChunkRequestsReceived"} :
                     q = <<a, "ChunkRequestsFailed", "NetworkErrors", "TotalErrors">>
        PROVE  /\ Head(q) \in {"ChunkRequestsSent", "ChunkRequestsReceived",
                               "ChunkRequestsFailed"}
               /\ Tail(q) \in Rests
               /\ Tail(q) \notin OwesDuration \cup OwesChunk \cup OwesTotal \cup OwesKind
               /\ q \notin OwesDuration \cup OwesChunk \cup OwesTotal \cup OwesKind
    <2>1. /\ Head(q) \in {"ChunkRequestsSent", "ChunkRequestsReceived",
                          "ChunkRequestsFailed"}
          /\ Tail(q) = rest \/ Tail(q) = <<"NetworkErrors", "TotalErrors">>
      <3>1. /\ Head(rest) = "ChunkRequestsFailed"
            /\ Tail(rest) = <<"NetworkErrors", "TotalErrors">>
        BY TakeFirst
      <3>2. \A a : LET long == <<a, "ChunkRequestsFailed", "NetworkErrors", "TotalErrors">>
                   IN  Head(long) = a /\ Tail(long) = rest
        BY TakeFirst
      <3> QED
        BY <1>4, <3>1, <3>2, Zenon
    <2>2. rest \in Rests /\ <<"NetworkErrors", "TotalErrors">> \in Rests
      BY DEF Rests
    <2>3. /\ q \notin OwesDuration \cup OwesChunk \cup OwesTotal \cup OwesKind
          /\ Tail(q) \notin OwesDuration \cup OwesChunk \cup OwesTotal \cup OwesKind
      BY <1>4, <2>1, SMTT(30) DEF OwesDuration, OwesChunk, OwesTotal, OwesKind
    <2> QED
      BY <2>1, <2>2, <2>3, Zenon
  <1>5. CASE \E a \in Ones : q = <<a>>
    BY <1>2, <1>5 DEF ErrorKinds
  <1>6. CASE q \in Twos
    <2>1. PICK a, b : <<a, b>> \in Twos /\ q = <<a, b>>
      BY <1>6
    <2> HIDE DEF Twos
    <2> QED
      BY <1>3, <2>1
  <1>7. CASE ~(\E a \in Ones : q = <<a>>) /\ q \notin Twos
    BY <1>1, <1>4, <1>7 DEF ErrorKinds, Counters
  <1> QED
    BY <1>5, <1>6, <1>7

Owing(S) == {r \in Recorders : todo[r] \in S}

\* The counters differ by what the calls under way still owe.
CounterFacts ==
    /\ metrics \in [Counters -> Nat]
    /\ todo \in [Recorders -> Rests]
    /\ metrics["BackupsCreated"]
         = metrics["BackupDuration"] + Cardinality(Owing(OwesDuration))
    /\ metrics["ChunksStored"]
         = metrics["DeduplicatedChunks"] + metrics["BlocksStored"]
             + Cardinality(Owing(OwesChunk))
    /\ metrics["BackupsFailed"] + metrics["RestoresFailed"] + metrics["NetworkErrors"]
         + metrics["StorageErrors"] + metrics["CryptoErrors"]
         + Cardinality(Owing(OwesKind))
         <= metrics["TotalErrors"] + Cardinality(Owing(OwesTotal))

\* The i-th value of the page: as it was loaded, or as it would be now.
Seen(i) == IF i <= Len(page) THEN page[i] ELSE metrics[PageOrder[i]]

\* A page adds up already while it is made, whatever is still to be loaded.
PageFacts ==
    LET slack == Cardinality(Recorders)
    IN  /\ page \in Seq(Nat) /\ Len(page) <= 11
        /\ \A i \in 1 .. 11 : Seen(i) <= metrics[PageOrder[i]]
        /\ Seen(1) <= Seen(11) + slack
        /\ Seen(2) + Seen(3) <= Seen(7) + slack
        /\ Seen(4) <= Seen(5) + Seen(6) + slack

MetricInductive == CounterFacts /\ PageFacts

\* No more recorders owe something than there are.
LEMMA SomeRecorders ==
  ASSUME NEW S \in SUBSET Recorders
  PROVE  /\ IsFiniteSet(S) /\ Cardinality(S) \in Nat
         /\ Cardinality(Recorders) \in Nat
         /\ Cardinality(S) <= Cardinality(Recorders)
  BY RecordersFinite, FS_Subset, FS_CardinalityType

\* One recorder goes on: it alone may begin or cease to owe something.
LEMMA OwingStep ==
  ASSUME todo \in [Recorders -> Rests], NEW r \in Recorders, NEW q \in Rests,
         todo' = [todo EXCEPT ![r] = q], NEW S
  PROVE  /\ Cardinality(Owing(S)) \in Nat
         /\ Cardinality(Owing(S)') =
              IF q \in S
              THEN IF todo[r] \in S THEN Cardinality(Owing(S))
                   ELSE Cardinality(Owing(S)) + 1
              ELSE IF todo[r] \in S THEN Cardinality(Owing(S)) - 1
                   ELSE Cardinality(Owing(S))
  <1> DEFINE before == Owing(S)
  <1>1. before' = IF q \in S THEN before \cup {r} ELSE before \ {r}
    BY DEF Owing
  <1>2. r \in before <=> todo[r] \in S
    BY DEF Owing
  <1>3. IsFiniteSet(before) /\ Cardinality(before) \in Nat
    BY SomeRecorders DEF before, Owing
  <1> HIDE DEF before
  <1>4. Cardinality(before \cup {r}) =
           IF r \in before THEN Cardinality(before) ELSE Cardinality(before) + 1
    BY <1>3, FS_AddElement, Zenon
  <1>5. Cardinality(before \ {r}) =
           IF r \in before THEN Cardinality(before) - 1 ELSE Cardinality(before)
    BY <1>3, FS_RemoveElement, Zenon
  <1>6. Cardinality(before') =
           IF q \in S
           THEN IF todo[r] \in S THEN Cardinality(before) ELSE Cardinality(before) + 1
           ELSE IF todo[r] \in S THEN Cardinality(before) - 1 ELSE Cardinality(before)
    BY <1>1, <1>2, <1>4, <1>5
  <1> QED
    BY <1>3, <1>6 DEF before

\* The names of the counters, and where the page shows them.
LEMMA CounterNames ==
  /\ \A i \in 1 .. 11 : PageOrder[i] \in Counters
  /\ ErrorKinds \subseteq Counters
  /\ {"BackupsCreated", "BackupDuration", "ChunksStored", "DeduplicatedChunks",
      "BlocksStored", "TotalErrors"} \subseteq Counters
  /\ Len(PageOrder) = 11
  /\ PageOrder[1] = "BackupsCreated" /\ PageOrder[11] = "BackupDuration"
  /\ PageOrder[2] = "BackupsFailed" /\ PageOrder[3] = "RestoresFailed"
  /\ PageOrder[7] = "TotalErrors" /\ PageOrder[4] = "ChunksStored"
  /\ PageOrder[5] = "DeduplicatedChunks" /\ PageOrder[6] = "BlocksStored"
  /\ PageOrder[8] = "NetworkErrors" /\ PageOrder[9] = "StorageErrors"
  /\ PageOrder[10] = "CryptoErrors"
  <1>1. /\ Len(PageOrder) = 11
        /\ PageOrder[1] = "BackupsCreated" /\ PageOrder[11] = "BackupDuration"
        /\ PageOrder[2] = "BackupsFailed" /\ PageOrder[3] = "RestoresFailed"
        /\ PageOrder[7] = "TotalErrors" /\ PageOrder[4] = "ChunksStored"
        /\ PageOrder[5] = "DeduplicatedChunks" /\ PageOrder[6] = "BlocksStored"
        /\ PageOrder[8] = "NetworkErrors" /\ PageOrder[9] = "StorageErrors"
        /\ PageOrder[10] = "CryptoErrors"
    BY DEF PageOrder
  <1>2. \A i \in 1 .. 11 : i = 1 \/ i = 2 \/ i = 3 \/ i = 4 \/ i = 5 \/ i = 6 \/ i = 7
                          \/ i = 8 \/ i = 9 \/ i = 10 \/ i = 11
    OBVIOUS
  <1>3. /\ ErrorKinds \subseteq Counters
        /\ {"BackupsCreated", "BackupDuration", "ChunksStored", "DeduplicatedChunks",
            "BlocksStored", "TotalErrors"} \subseteq Counters
    BY DEF ErrorKinds, Counters
  <1>4. \A i \in 1 .. 11 : PageOrder[i] \in Counters
    BY <1>1, <1>2 DEF Counters
  <1> QED
    BY <1>1, <1>3, <1>4

\* Counters that differ by what some recorders owe add up, but for one call of each
\* recorder.
LEMMA CountersAddUp ==
  ASSUME NEW m \in [Counters -> Nat], NEW D \in SUBSET Recorders,
         NEW C \in SUBSET Recorders, NEW K \in SUBSET Recorders,
         NEW T \in SUBSET Recorders,
         m["BackupsCreated"] = m["BackupDuration"] + Cardinality(D),
         m["ChunksStored"] = m["DeduplicatedChunks"] + m["BlocksStored"] + Cardinality(C),
         m["BackupsFailed"] + m["RestoresFailed"] + m["NetworkErrors"]
           + m["StorageErrors"] + m["CryptoErrors"] + Cardinality(K)
           <= m["TotalErrors"] + Cardinality(T)
  PROVE  /\ m["BackupsCreated"] <= m["BackupDuration"] + Cardinality(Recorders)
         /\ m["BackupsFailed"] + m["RestoresFailed"]
              <= m["TotalErrors"] + Cardinality(Recorders)
         /\ m["ChunksStored"]
              <= m["DeduplicatedChunks"] + m["BlocksStored"] + Cardinality(Recorders)
         /\ m["BackupsFailed"] + m["RestoresFailed"] + m["NetworkErrors"]
              + m["StorageErrors"] + m["CryptoErrors"]
              <= m["TotalErrors"] + Cardinality(Recorders)
  <1>1. \A c \in Counters : m[c] \in Nat
    OBVIOUS
  <1>2. /\ m["BackupsCreated"] \in Nat /\ m["BackupDuration"] \in Nat
        /\ m["ChunksStored"] \in Nat /\ m["DeduplicatedChunks"] \in Nat
        /\ m["BlocksStored"] \in Nat
    BY <1>1, CounterNames
  <1>3. /\ m["BackupsFailed"] \in Nat /\ m["RestoresFailed"] \in Nat
        /\ m["NetworkErrors"] \in Nat /\ m["StorageErrors"] \in Nat
        /\ m["CryptoErrors"] \in Nat /\ m["TotalErrors"] \in Nat
    BY <1>1, CounterNames DEF ErrorKinds
  <1>4. \A S \in {D, C, K, T} : /\ Cardinality(S) \in Nat
                                /\ Cardinality(S) <= Cardinality(Recorders)
    BY SomeRecorders
  <1>5. Cardinality(Recorders) \in Nat
    BY SomeRecorders
  <1> QED
    BY <1>2, <1>3, <1>4, <1>5

\* All counters are zero at first.
LEMMA InitMetrics == MetricInit => MetricInductive
  <1> SUFFICES ASSUME MetricInit PROVE MetricInductive
    OBVIOUS
  <1>1. /\ metrics = [c \in Counters |-> 0] /\ todo = [r \in Recorders |-> <<>>]
        /\ page = <<>>
    BY DEF MetricInit
  <1>2. /\ <<>> \in Rests
        /\ <<>> \notin OwesDuration \cup OwesChunk \cup OwesKind \cup OwesTotal
    BY DEF Rests, OwesDuration, OwesChunk, OwesTotal, OwesKind
  <1>3. /\ Owing(OwesDuration) = {} /\ Owing(OwesChunk) = {} /\ Owing(OwesKind) = {}
        /\ Owing(OwesTotal) = {}
    BY <1>1, <1>2 DEF Owing
  <1>4. \A c \in Counters : metrics[c] = 0
    BY <1>1
  <1>5. Cardinality({}) = 0 /\ Cardinality(Recorders) \in Nat
    BY FS_EmptySet, RecordersFinite, FS_CardinalityType
  <1>6. CounterFacts
    <2>1. metrics \in [Counters -> Nat] /\ todo \in [Recorders -> Rests]
      BY <1>1, <1>2
    <2>2. metrics["BackupsCreated"] = 0 /\ metrics["BackupDuration"] = 0
          /\ metrics["ChunksStored"] = 0 /\ metrics["DeduplicatedChunks"] = 0
          /\ metrics["BlocksStored"] = 0 /\ metrics["TotalErrors"] = 0
      BY <1>4, CounterNames
    <2>3. metrics["BackupsFailed"] = 0 /\ metrics["RestoresFailed"] = 0
          /\ metrics["NetworkErrors"] = 0 /\ metrics["StorageErrors"] = 0
          /\ metrics["CryptoErrors"] = 0
      BY <1>4, CounterNames DEF ErrorKinds
    <2> QED
      BY <1>3, <1>5, <2>1, <2>2, <2>3 DEF CounterFacts
  <1>7. PageFacts
    <2>1. page \in Seq(Nat) /\ Len(page) = 0
      BY <1>1
    <2>2. \A i \in 1 .. 11 : Seen(i) = 0 /\ metrics[PageOrder[i]] = 0
      BY <1>4, <2>1, CounterNames, SMTT(30) DEF Seen
    <2> QED
      BY <1>5, <2>1, <2>2 DEF PageFacts
  <1> QED
    BY <1>6, <1>7 DEF MetricInductive

\* A call that is made owes nothing but, at most, an error that is counted in the
\* total only.
LEMMA CallPreserves ==
  ASSUME CounterFacts, NEW r \in Recorders, Call(r)
  PROVE  CounterFacts'
  <1>1. PICK record \in Records : todo' = [todo EXCEPT ![r] = record]
    BY Zenon DEF Call
  <1>2. todo[r] = <<>> /\ metrics' = metrics /\ todo \in [Recorders -> Rests]
    BY DEF Call, CounterFacts
  <1>3. /\ record \in Rests /\ record \notin OwesDuration \cup OwesChunk \cup OwesKind
    BY RecordsAreRests
  <1>4. <<>> \notin OwesDuration \cup OwesChunk \cup OwesKind \cup OwesTotal
    BY DEF OwesDuration, OwesChunk, OwesKind, OwesTotal
  <1>5. /\ Cardinality(Owing(OwesDuration)') = Cardinality(Owing(OwesDuration))
        /\ Cardinality(Owing(OwesChunk)') = Cardinality(Owing(OwesChunk))
        /\ Cardinality(Owing(OwesKind)') = Cardinality(Owing(OwesKind))
        /\ Cardinality(Owing(OwesTotal)') \in Nat /\ Cardinality(Owing(OwesTotal)) \in Nat
        /\ Cardinality(Owing(OwesTotal)') >= Cardinality(Owing(OwesTotal))
    <2>1. \A S : /\ Cardinality(Owing(S)) \in Nat
                 /\ Cardinality(Owing(S)') =
                      IF record \in S
                      THEN IF todo[r] \in S THEN Cardinality(Owing(S))
                           ELSE Cardinality(Owing(S)) + 1
                      ELSE IF todo[r] \in S THEN Cardinality(Owing(S)) - 1
                           ELSE Cardinality(Owing(S))
      BY <1>1, <1>2, <1>3, OwingStep, Zenon
    <2> QED
      BY <1>2, <1>3, <1>4, <2>1
  <1>6. todo' \in [Recorders -> Rests]
    BY <1>1, <1>2, <1>3
  <1>7. metrics["BackupsFailed"] + metrics["RestoresFailed"] + metrics["NetworkErrors"]
           + metrics["StorageErrors"] + metrics["CryptoErrors"]
           + Cardinality(Owing(OwesKind)) <= metrics["TotalErrors"]
                                               + Cardinality(Owing(OwesTotal)')
    <2>1. /\ \A c \in ErrorKinds : metrics[c] \in Nat
          /\ metrics["TotalErrors"] \in Nat
      BY CounterNames DEF CounterFacts
    <2>2. /\ metrics["BackupsFailed"] \in Nat /\ metrics["RestoresFailed"] \in Nat
          /\ metrics["NetworkErrors"] \in Nat /\ metrics["StorageErrors"] \in Nat
          /\ metrics["CryptoErrors"] \in Nat
      BY <2>1 DEF ErrorKinds
    <2>3. Cardinality(Owing(OwesKind)) \in Nat
      BY SomeRecorders DEF Owing
    <2> QED
      BY <1>5, <2>1, <2>2, <2>3 DEF CounterFacts
  <1> QED
    BY <1>2, <1>5, <1>6, <1>7, Zenon DEF CounterFacts

\* An addition changes one counter and what its call owes with it.
LEMMA AddPreserves ==
  ASSUME CounterFacts, NEW r \in Recorders, Add(r)
  PROVE  /\ CounterFacts'
         /\ \A c \in Counters : metrics[c] \in Nat /\ metrics'[c] >= metrics[c]
  <1> DEFINE q == todo[r]
             h == Head(q)
             t == Tail(q)
  <1>1. q \in Rests /\ q # <<>> /\ todo \in [Recorders -> Rests]
    BY DEF Add, CounterFacts
  <1>2. todo' = [todo EXCEPT ![r] = t] /\ metrics' = [metrics EXCEPT ![h] = @ + 1]
    BY DEF Add
  <1>3. /\ h \in Counters /\ t \in Rests
        /\ h = "BackupsCreated" <=> t \in OwesDuration
        /\ h = "BackupDuration" <=> q \in OwesDuration
        /\ h = "ChunksStored" <=> t \in OwesChunk
        /\ h \in {"DeduplicatedChunks", "BlocksStored"} <=> q \in OwesChunk
        /\ q \in OwesTotal => h = "TotalErrors"
        /\ q \in OwesKind => h \in ErrorKinds
        /\ h \in ErrorKinds /\ q \notin OwesKind => t \in OwesTotal
        /\ t \in OwesTotal => h \in ErrorKinds
        /\ t \in OwesKind => h = "TotalErrors" /\ q \notin OwesTotal
    BY <1>1, AdditionFacts
  <1> HIDE DEF h, t
  <1>4. /\ metrics' \in [Counters -> Nat]
        /\ \A c \in Counters : /\ metrics[c] \in Nat
                               /\ metrics'[c] = IF c = h THEN metrics[c] + 1 ELSE metrics[c]
    BY <1>2, <1>3 DEF CounterFacts
  <1>5. \A S : /\ Cardinality(Owing(S)) \in Nat
               /\ Cardinality(Owing(S)') =
                    IF t \in S
                    THEN IF q \in S THEN Cardinality(Owing(S))
                         ELSE Cardinality(Owing(S)) + 1
                    ELSE IF q \in S THEN Cardinality(Owing(S)) - 1
                         ELSE Cardinality(Owing(S))
    BY <1>1, <1>2, <1>3, OwingStep, Zenon
  <1> HIDE DEF q
  <1>6. metrics'["BackupsCreated"]
           = metrics'["BackupDuration"] + Cardinality(Owing(OwesDuration)')
    <2>1. "BackupsCreated" \in Counters /\ "BackupDuration" \in Counters
      BY CounterNames
    <2>2. metrics["BackupsCreated"]
             = metrics["BackupDuration"] + Cardinality(Owing(OwesDuration))
      BY DEF CounterFacts
    <2> QED
      BY <1>3, <1>4, <1>5, <2>1, <2>2
  <1>7. metrics'["ChunksStored"]
           = metrics'["DeduplicatedChunks"] + metrics'["BlocksStored"]
               + Cardinality(Owing(OwesChunk)')
    <2>1. /\ "ChunksStored" \in Counters /\ "DeduplicatedChunks" \in Counters
          /\ "BlocksStored" \in Counters
      BY CounterNames
    <2>2. metrics["ChunksStored"] = metrics["DeduplicatedChunks"] + metrics["BlocksStored"]
                                      + Cardinality(Owing(OwesChunk))
      BY DEF CounterFacts
    <2> QED
      BY <1>3, <1>4, <1>5, <2>1, <2>2
  <1>8. metrics'["BackupsFailed"] + metrics'["RestoresFailed"]
           + metrics'["NetworkErrors"] + metrics'["StorageErrors"]
           + metrics'["CryptoErrors"] + Cardinality(Owing(OwesKind)')
           <= metrics'["TotalErrors"] + Cardinality(Owing(OwesTotal)')
    <2> DEFINE Kinds(m) == m["BackupsFailed"] + m["RestoresFailed"] + m["NetworkErrors"]
                             + m["StorageErrors"] + m["CryptoErrors"]
    <2>1. /\ "BackupsFailed" \in Counters /\ "RestoresFailed" \in Counters
          /\ "NetworkErrors" \in Counters /\ "StorageErrors" \in Counters
          /\ "CryptoErrors" \in Counters /\ "TotalErrors" \in Counters
      BY CounterNames DEF ErrorKinds
    <2>2. /\ Kinds(metrics) \in Nat
          /\ Kinds(metrics') = IF h \in ErrorKinds THEN Kinds(metrics) + 1
                               ELSE Kinds(metrics)
      BY <1>4, <2>1 DEF ErrorKinds
    <2>3. Kinds(metrics) + Cardinality(Owing(OwesKind))
             <= metrics["TotalErrors"] + Cardinality(Owing(OwesTotal))
      BY DEF CounterFacts
    <2>4. /\ metrics["TotalErrors"] \in Nat
          /\ metrics'["TotalErrors"] = IF h = "TotalErrors" THEN metrics["TotalErrors"] + 1
                                       ELSE metrics["TotalErrors"]
      BY <1>4, <2>1
    <2> HIDE DEF Kinds
    <2>5. Kinds(metrics') + Cardinality(Owing(OwesKind)')
             <= metrics'["TotalErrors"] + Cardinality(Owing(OwesTotal)')
      <3>1. h # "TotalErrors" \/ h \notin ErrorKinds
        BY DEF ErrorKinds
      <3>2. CASE h \in ErrorKinds
        BY <1>3, <1>5, <2>2, <2>3, <2>4, <3>1, <3>2, SMTT(30)
      <3>3. CASE h = "TotalErrors"
        BY <1>3, <1>5, <2>2, <2>3, <2>4, <3>1, <3>3, SMTT(30)
      <3>4. CASE h \notin ErrorKinds /\ h # "TotalErrors"
        BY <1>3, <1>5, <2>2, <2>3, <2>4, <3>4
      <3> QED
        BY <3>2, <3>3, <3>4
    <2> QED
      BY <2>5 DEF Kinds
  <1>9. todo' \in [Recorders -> Rests]
    BY <1>1, <1>2, <1>3
  <1>10. \A c \in Counters : metrics[c] \in Nat /\ metrics'[c] >= metrics[c]
    BY <1>4, SMTT(30)
  <1> QED
    BY <1>4, <1>6, <1>7, <1>8, <1>9, <1>10, SMTT(30) DEF CounterFacts

\* A page that adds up still does when counters have grown.
LEMMA PageKept ==
  ASSUME CounterFacts', PageFacts, page' = page,
         \A c \in Counters : metrics[c] \in Nat /\ metrics'[c] >= metrics[c]
  PROVE  PageFacts'
  <1> DEFINE slack == Cardinality(Recorders)
  <1>1. /\ page \in Seq(Nat) /\ Len(page) <= 11 /\ Len(page) \in Nat /\ slack \in Nat
        /\ \A i \in 1 .. 11 : Seen(i) <= metrics[PageOrder[i]]
    BY RecordersFinite, FS_CardinalityType DEF PageFacts
  <1>2. \A c \in Counters :
           metrics[c] \in Nat /\ metrics'[c] \in Nat /\ metrics'[c] >= metrics[c]
    BY DEF CounterFacts
  <1>3. ASSUME NEW i \in 1 .. 11
        PROVE  /\ Seen(i) \in Nat /\ Seen(i)' \in Nat /\ Seen(i) <= Seen(i)'
               /\ i <= Len(page) => Seen(i)' = Seen(i)
               /\ i > Len(page) => Seen(i)' = metrics'[PageOrder[i]]
               /\ Seen(i)' <= metrics'[PageOrder[i]]
    <2>1. /\ PageOrder[i] \in Counters /\ metrics[PageOrder[i]] \in Nat
          /\ metrics'[PageOrder[i]] \in Nat
          /\ metrics'[PageOrder[i]] >= metrics[PageOrder[i]]
      BY <1>2, CounterNames
    <2>2. Seen(i)' = IF i <= Len(page) THEN page[i] ELSE metrics'[PageOrder[i]]
      BY DEF Seen
    <2>3. /\ Seen(i) = IF i <= Len(page) THEN page[i] ELSE metrics[PageOrder[i]]
          /\ Seen(i) <= metrics[PageOrder[i]]
      BY <1>1, Zenon DEF Seen
    <2>4. page \in Seq(Nat) /\ Len(page) \in Nat
      BY <1>1, Zenon
    <2>5. CASE i <= Len(page)
      <3>1. Seen(i)' = page[i] /\ Seen(i) = page[i] /\ page[i] \in Nat
        BY <2>2, <2>3, <2>4, <2>5
      <3> QED
        BY <2>1, <2>3, <2>4, <2>5, <3>1, SMTT(30)
    <2>6. CASE ~(i <= Len(page))
      <3>1. Seen(i)' = metrics'[PageOrder[i]] /\ Seen(i) = metrics[PageOrder[i]]
        BY <2>2, <2>3, <2>6, ZenonT(30)
      <3> QED
        BY <2>1, <2>4, <2>6, <3>1
    <2> QED
      BY <2>5, <2>6, Zenon
  <1>4. /\ metrics'["BackupsCreated"] <= metrics'["BackupDuration"] + slack
        /\ metrics'["BackupsFailed"] + metrics'["RestoresFailed"]
             <= metrics'["TotalErrors"] + slack
        /\ metrics'["ChunksStored"]
             <= metrics'["DeduplicatedChunks"] + metrics'["BlocksStored"] + slack
    <2>1. /\ Owing(OwesDuration)' \in SUBSET Recorders
          /\ Owing(OwesChunk)' \in SUBSET Recorders
          /\ Owing(OwesKind)' \in SUBSET Recorders
          /\ Owing(OwesTotal)' \in SUBSET Recorders
      BY DEF Owing
    <2> QED
      BY <2>1, CountersAddUp DEF CounterFacts
  <1>5. /\ Seen(1) <= Seen(11) + slack
        /\ Seen(2) + Seen(3) <= Seen(7) + slack
        /\ Seen(4) <= Seen(5) + Seen(6) + slack
    BY DEF PageFacts
  <1> HIDE DEF slack
  <1>6. \A i \in 1 .. 11 : Seen(i) \in Nat /\ Seen(i)' \in Nat /\ Seen(i) <= Seen(i)'
    BY <1>3, Zenon
  <1>7. Seen(1)' <= Seen(11)' + slack
    <2>1. /\ Seen(1) \in Nat /\ Seen(1)' \in Nat /\ Seen(11) \in Nat /\ Seen(11)' \in Nat
          /\ Seen(11) <= Seen(11)'
      BY <1>6
    <2>2. CASE 1 <= Len(page)
      <3>1. Seen(1)' = Seen(1)
        BY <1>3, <2>2
      <3> QED
        BY <1>1, <1>5, <2>1, <3>1, SMTT(30)
    <2>3. CASE 1 > Len(page)
      <3>1. PageOrder[1] = "BackupsCreated" /\ PageOrder[11] = "BackupDuration"
        BY CounterNames, Zenon
      <3>2. 1 > Len(page) /\ 11 > Len(page) /\ 1 \in 1 .. 11 /\ 11 \in 1 .. 11
        BY <1>1, <2>3
      <3>3. /\ Seen(1)' = metrics'["BackupsCreated"]
            /\ Seen(11)' = metrics'["BackupDuration"]
        BY <1>3, <3>1, <3>2, Zenon
      <3> QED
        BY <1>4, <3>3, Zenon
    <2> QED
      BY <1>1, <2>2, <2>3
  <1>8. Seen(2)' + Seen(3)' <= Seen(7)' + slack
    <2>1. /\ Seen(2) \in Nat /\ Seen(2)' \in Nat /\ Seen(3) \in Nat /\ Seen(3)' \in Nat
          /\ Seen(7) \in Nat /\ Seen(7)' \in Nat /\ Seen(7) <= Seen(7)'
      BY <1>6
    <2>2. CASE 3 <= Len(page)
      <3>1. Seen(2)' = Seen(2)
        BY <1>1, <1>3, <2>2
      <3>2. Seen(3)' = Seen(3)
        BY <1>1, <1>3, <2>2
      <3> QED
        BY <1>1, <1>5, <2>1, <3>1, <3>2, SMTT(30)
    <2>3. CASE 3 > Len(page)
      <3>1. Seen(2)' <= metrics'["BackupsFailed"]
        BY <1>3, CounterNames
      <3>2. Seen(3)' = metrics'["RestoresFailed"]
        BY <1>1, <1>3, <2>3, CounterNames
      <3>3. Seen(7)' = metrics'["TotalErrors"]
        BY <1>1, <1>3, <2>3, CounterNames
      <3>4. /\ metrics'["BackupsFailed"] \in Nat /\ metrics'["RestoresFailed"] \in Nat
            /\ metrics'["TotalErrors"] \in Nat
        BY <1>2, CounterNames DEF ErrorKinds
      <3>5. metrics'["BackupsFailed"] + Seen(3)' <= Seen(7)' + slack
        BY <1>4, <3>2, <3>3
      <3> QED
        BY <1>1, <2>1, <3>1, <3>4, <3>5, SMTT(30)
    <2> QED
      BY <1>1, <2>2, <2>3
  <1>9. Seen(4)' <= Seen(5)' + Seen(6)' + slack
    <2>1. /\ Seen(4) \in Nat /\ Seen(4)' \in Nat /\ Seen(5) \in Nat /\ Seen(5)' \in Nat
          /\ Seen(6) \in Nat /\ Seen(6)' \in Nat
          /\ Seen(5) <= Seen(5)' /\ Seen(6) <= Seen(6)'
      BY <1>6
    <2>2. CASE 4 <= Len(page)
      <3>1. Seen(4)' = Seen(4)
        BY <1>1, <1>3, <2>2
      <3> QED
        BY <1>1, <1>5, <2>1, <3>1, SMTT(30)
    <2>3. CASE 4 > Len(page)
      <3>1. Seen(4)' = metrics'["ChunksStored"]
        BY <1>1, <1>3, <2>3, CounterNames
      <3>2. Seen(5)' = metrics'["DeduplicatedChunks"]
        BY <1>1, <1>3, <2>3, CounterNames
      <3>3. Seen(6)' = metrics'["BlocksStored"]
        BY <1>1, <1>3, <2>3, CounterNames
      <3> QED
        BY <1>4, <3>1, <3>2, <3>3, SMTT(30)
    <2> QED
      BY <1>1, <2>2, <2>3
  <1> QED
    BY <1>1, <1>3, <1>7, <1>8, <1>9, SMTT(30) DEF PageFacts, slack

\* Loading a value changes no value that is seen.
LEMMA LoadKeepsSeen ==
  ASSUME MetricInductive, Load
  PROVE  /\ page' \in Seq(Nat) /\ Len(page') <= 11
         /\ \A i \in 1 .. 11 : Seen(i)' = Seen(i)
  <1> DEFINE n == Len(page)
             v == metrics[PageOrder[n + 1]]
  <1>1. page \in Seq(Nat) /\ n \in Nat /\ n < 11 /\ page' = Append(page, v)
        /\ metrics' = metrics
    BY CounterNames DEF MetricInductive, PageFacts, Load
  <1> HIDE DEF n
  <1>2. v \in Nat
    <2>1. n + 1 \in 1 .. 11
      BY <1>1
    <2>2. PageOrder[n + 1] \in Counters
      BY <2>1, CounterNames
    <2> QED
      BY <2>2 DEF MetricInductive, CounterFacts
  <1> HIDE DEF v
  <1>3. /\ page' \in Seq(Nat) /\ Len(page') = n + 1
        /\ \A i \in 1 .. n : page'[i] = page[i]
        /\ page'[n + 1] = v
    BY <1>1, <1>2, AppendProperties DEF n
  <1>4. ASSUME NEW i \in 1 .. 11
        PROVE  Seen(i)' = Seen(i)
    <2>1. CASE i <= n
      BY <1>1, <1>3, <2>1 DEF Seen, n
    <2>2. CASE i = n + 1
      BY <1>1, <1>3, <2>2 DEF Seen, v, n
    <2>3. CASE i > n + 1
      BY <1>1, <1>3, <2>3 DEF Seen, n
    <2> QED
      BY <1>1, <2>1, <2>2, <2>3
  <1> QED
    BY <1>1, <1>3, <1>4

\* Every step of the recorders and of the page.
LEMMA MetricPreserves ==
  ASSUME MetricInductive, MetricNext
  PROVE  MetricInductive'
  <1>1. CounterFacts /\ PageFacts
    BY DEF MetricInductive
  <1>2. ASSUME NEW r \in Recorders, Call(r) \/ Add(r)
        PROVE  MetricInductive'
    <2>1. CounterFacts'
      BY <1>1, <1>2, CallPreserves, AddPreserves
    <2>2. \A c \in Counters : metrics[c] \in Nat /\ metrics'[c] >= metrics[c]
      <3>1. CASE Call(r)
        BY <1>1, <3>1 DEF Call, CounterFacts
      <3>2. CASE Add(r)
        BY <1>1, <3>2, AddPreserves
      <3> QED
        BY <1>2, <3>1, <3>2
    <2>3. page' = page
      BY <1>2 DEF Call, Add
    <2> QED
      BY <1>1, <2>1, <2>2, <2>3, PageKept DEF MetricInductive
  <1>3. CASE Load
    <2>1. CounterFacts' /\ metrics' = metrics
      BY <1>1, <1>3, SMTT(30) DEF Load, CounterFacts, Owing
    <2>2. PageFacts'
      BY <1>1, <1>3, <2>1, LoadKeepsSeen DEF PageFacts
    <2> QED
      BY <2>1, <2>2 DEF MetricInductive
  <1>4. CASE Send
    <2>1. CounterFacts' /\ page' = <<>> /\ metrics' = metrics
      BY <1>1, <1>4, SMTT(30) DEF Send, CounterFacts, Owing
    <2>2. page' \in Seq(Nat) /\ Len(page') = 0
      BY <2>1
    <2>3. ASSUME NEW i \in 1 .. 11
          PROVE  Seen(i)' = metrics[PageOrder[i]] /\ metrics[PageOrder[i]] \in Nat
      <3>1. Seen(i)' = metrics[PageOrder[i]]
        BY <2>1, <2>2 DEF Seen
      <3>2. PageOrder[i] \in Counters
        BY CounterNames
      <3> QED
        BY <1>1, <3>1, <3>2 DEF CounterFacts
    <2>4. /\ Seen(1)' = metrics["BackupsCreated"] /\ Seen(2)' = metrics["BackupsFailed"]
          /\ Seen(3)' = metrics["RestoresFailed"] /\ Seen(4)' = metrics["ChunksStored"]
          /\ Seen(5)' = metrics["DeduplicatedChunks"] /\ Seen(6)' = metrics["BlocksStored"]
          /\ Seen(7)' = metrics["TotalErrors"] /\ Seen(11)' = metrics["BackupDuration"]
      BY <2>3, CounterNames, SMTT(30)
    <2>5. /\ metrics["BackupsCreated"] <= metrics["BackupDuration"] + Cardinality(Recorders)
          /\ metrics["BackupsFailed"] + metrics["RestoresFailed"]
               <= metrics["TotalErrors"] + Cardinality(Recorders)
          /\ metrics["ChunksStored"]
               <= metrics["DeduplicatedChunks"] + metrics["BlocksStored"]
                    + Cardinality(Recorders)
      <3>1. /\ Owing(OwesDuration) \in SUBSET Recorders
            /\ Owing(OwesChunk) \in SUBSET Recorders
            /\ Owing(OwesKind) \in SUBSET Recorders
            /\ Owing(OwesTotal) \in SUBSET Recorders
        BY DEF Owing
      <3> QED
        BY <1>1, <3>1, CountersAddUp DEF CounterFacts
    <2>6. PageFacts'
      <3>1. ASSUME NEW i \in 1 .. 11
            PROVE  Seen(i)' <= metrics'[PageOrder[i]]
        <4>1. Seen(i)' = metrics[PageOrder[i]] /\ metrics[PageOrder[i]] \in Nat
          BY <2>3
        <4> QED
          BY <2>1, <4>1
      <3>2. Seen(1)' <= Seen(11)' + Cardinality(Recorders)
        BY <2>4, <2>5
      <3>3. Seen(2)' + Seen(3)' <= Seen(7)' + Cardinality(Recorders)
        BY <2>4, <2>5
      <3>4. Seen(4)' <= Seen(5)' + Seen(6)' + Cardinality(Recorders)
        BY <2>4, <2>5, SMTT(30)
      <3> QED
        BY <2>2, <3>1, <3>2, <3>3, <3>4, SMTT(30) DEF PageFacts
    <2> QED
      BY <2>1, <2>6 DEF MetricInductive
  <1> QED
    BY <1>2, <1>3, <1>4 DEF MetricNext

\* A step that changes nothing of them.
LEMMA SameMetrics ==
  ASSUME MetricInductive, UNCHANGED metricVars
  PROVE  MetricInductive'
  <1>1. CounterFacts'
    BY DEF metricVars, MetricInductive, CounterFacts, Owing
  <1>2. (\A i \in 1 .. 11 : Seen(i)' = Seen(i)) /\ metrics' = metrics /\ page' = page
    BY DEF metricVars, Seen
  <1>3. PageFacts'
    BY <1>2 DEF MetricInductive, PageFacts
  <1> QED
    BY <1>1, <1>3 DEF MetricInductive

-----------------------------------------------------------------------------
(* Theorems *)

\* The facts about the checkers hold in every reachable state.
LEMMA HealthInductiveHolds == HealthSpec => []HealthInductive
  <1>1. HealthInductive /\ [HealthNext]_healthVars => HealthInductive'
    BY HealthPreserves, SameHealth
  <1> QED
    BY <1>1, InitHealth, PTL DEF HealthSpec

\* The facts about the servers hold in every reachable state.
LEMMA ServerInductiveHolds == ServerSpec => []ServerInductive
  <1>1. ServerInductive /\ [ServerNext]_serverVars => ServerInductive'
    BY ServerPreserves, SameServers
  <1> QED
    BY <1>1, InitServer, PTL DEF ServerSpec

\* The facts about counters and pages hold in every reachable state.
LEMMA MetricInductiveHolds == MetricSpec => []MetricInductive
  <1>1. MetricInductive /\ [MetricNext]_metricVars => MetricInductive'
    BY MetricPreserves, SameMetrics
  <1> QED
    BY <1>1, InitMetrics, PTL DEF MetricSpec

\* Every reachable state of the checkers is well typed: nobody is given a nil checker.
THEOREM HealthTypeCorrect == HealthSpec => []HealthTypeOK
  <1>1. HealthInductive => HealthTypeOK
    BY DEF HealthInductive, CheckerFacts, Checker, HealthTypeOK
  <1> QED
    BY <1>1, HealthInductiveHolds, PTL

\* Every reachable state of the servers is well typed: the channel of Stop holds all
\* results.
THEOREM ServerTypeCorrect == ServerSpec => []ServerTypeOK
  <1>1. ServerInductive => ServerTypeOK
    <2> SUFFICES ASSUME ServerInductive PROVE ServerTypeOK
      OBVIOUS
    <2>1. Len(errChan) <= 3 /\ received \in 0 .. 3
      BY StoppedDown
    <2> QED
      BY <2>1 DEF ServerInductive, DownFacts, ResultFacts, ServerTypeOK
  <1> QED
    BY <1>1, ServerInductiveHolds, PTL

\* The endpoints answer for the worst component of any set of components, in
\* whatever order GetHealth meets them.
THEOREM AnswersWorst == HealthSpec => []AnswersAreWorst
  <1>1. HealthInductive => AnswersAreWorst
    BY DEF HealthInductive, AnswerFacts
  <1> QED
    BY <1>1, HealthInductiveHolds, PTL

\* A process that has caught a signal is not ready, and not healthy for the API.
THEOREM NotReadyWhenMarked == HealthSpec => []NotReadyInShutdown
  <1>1. HealthInductive => NotReadyInShutdown
    BY MarkedIsNotReady
  <1> QED
    BY <1>1, HealthInductiveHolds, PTL

\* When Stop has returned nil no server serves or will serve a request.
THEOREM StopMeansDown == ServerSpec => []StoppedIsDown
  <1>1. ServerInductive => StoppedIsDown
    BY StoppedDown, Zenon
  <1> QED
    BY <1>1, ServerInductiveHolds, PTL

\* A page of metrics adds up, but for one call of each goroutine that records.
THEOREM PagesAddUp == MetricSpec => []PageAddsUp
  <1>1. MetricInductive => PageAddsUp
    <2> SUFFICES ASSUME MetricInductive, Len(page) = Len(PageOrder)
                 PROVE  LET slack == Cardinality(Recorders)
                        IN  /\ Shows("BackupsCreated") <= Shows("BackupDuration") + slack
                            /\ Shows("BackupsFailed") + Shows("RestoresFailed")
                                 <= Shows("TotalErrors") + slack
                            /\ Shows("ChunksStored")
                                 <= Shows("DeduplicatedChunks") + Shows("BlocksStored")
                                      + slack
                            /\ Shows("BackupsFailed") + Shows("RestoresFailed")
                                 + Shows("NetworkErrors") + Shows("StorageErrors")
                                 + Shows("CryptoErrors")
                                 <= metrics["TotalErrors"] + slack
      BY DEF PageAddsUp
    <2>1. ASSUME NEW k \in 1 .. 11
          PROVE  Shows(PageOrder[k]) = Seen(k)
      <3>1. \A i \in 1 .. 11 : PageOrder[i] = PageOrder[k] => i = k
        <4>1. \A i \in 1 .. 11 : i = 1 \/ i = 2 \/ i = 3 \/ i = 4 \/ i = 5 \/ i = 6
                                 \/ i = 7 \/ i = 8 \/ i = 9 \/ i = 10 \/ i = 11
          OBVIOUS
        <4> QED
          BY <4>1, CounterNames
      <3>2. (CHOOSE i \in 1 .. Len(PageOrder) : PageOrder[i] = PageOrder[k]) = k
        BY <3>1, CounterNames
      <3> QED
        BY <3>2, CounterNames DEF Shows, Seen
    <2>2. /\ Shows("BackupsCreated") = Seen(1) /\ Shows("BackupsFailed") = Seen(2)
          /\ Shows("RestoresFailed") = Seen(3) /\ Shows("ChunksStored") = Seen(4)
          /\ Shows("DeduplicatedChunks") = Seen(5) /\ Shows("BlocksStored") = Seen(6)
          /\ Shows("TotalErrors") = Seen(7) /\ Shows("BackupDuration") = Seen(11)
          /\ Shows("NetworkErrors") = Seen(8) /\ Shows("StorageErrors") = Seen(9)
          /\ Shows("CryptoErrors") = Seen(10)
      BY <2>1, CounterNames, SMTT(30)
    <2>3. /\ Seen(2) <= metrics["BackupsFailed"] /\ Seen(3) <= metrics["RestoresFailed"]
          /\ Seen(8) <= metrics["NetworkErrors"] /\ Seen(9) <= metrics["StorageErrors"]
          /\ Seen(10) <= metrics["CryptoErrors"]
      BY CounterNames DEF MetricInductive, PageFacts
    <2>4. \A i \in 1 .. 11 : Seen(i) \in Nat
      <3> SUFFICES ASSUME NEW i \in 1 .. 11 PROVE Seen(i) \in Nat
        BY Zenon
      <3>1. page \in Seq(Nat) /\ i \in 1 .. Len(page)
        BY CounterNames DEF MetricInductive, PageFacts
      <3> QED
        BY <3>1 DEF Seen
    <2>5. metrics["BackupsFailed"] + metrics["RestoresFailed"] + metrics["NetworkErrors"]
            + metrics["StorageErrors"] + metrics["CryptoErrors"]
            <= metrics["TotalErrors"] + Cardinality(Recorders)
      <3>1. /\ Owing(OwesDuration) \in SUBSET Recorders
            /\ Owing(OwesChunk) \in SUBSET Recorders
            /\ Owing(OwesKind) \in SUBSET Recorders
            /\ Owing(OwesTotal) \in SUBSET Recorders
        BY DEF Owing
      <3> QED
        BY <3>1, CountersAddUp, Zenon DEF MetricInductive, CounterFacts
    <2>6. /\ metrics["BackupsFailed"] \in Nat /\ metrics["RestoresFailed"] \in Nat
          /\ metrics["NetworkErrors"] \in Nat /\ metrics["StorageErrors"] \in Nat
          /\ metrics["CryptoErrors"] \in Nat /\ metrics["TotalErrors"] \in Nat
      BY CounterNames DEF MetricInductive, CounterFacts, ErrorKinds
    <2>7. Seen(2) + Seen(3) + Seen(8) + Seen(9) + Seen(10)
            <= metrics["TotalErrors"] + Cardinality(Recorders)
      <3> DEFINE a == Seen(2)
                 b == Seen(3)
                 c == Seen(8)
                 d == Seen(9)
                 e == Seen(10)
                 bound == metrics["TotalErrors"] + Cardinality(Recorders)
                 f == metrics["BackupsFailed"]
                 g == metrics["RestoresFailed"]
                 h == metrics["NetworkErrors"]
                 k == metrics["StorageErrors"]
                 l == metrics["CryptoErrors"]
      <3>1. a \in Nat /\ b \in Nat /\ c \in Nat /\ d \in Nat /\ e \in Nat
        BY <2>4
      <3>2. bound \in Nat
        BY <2>6, RecordersFinite, FS_CardinalityType
      <3>3. f \in Nat /\ g \in Nat /\ h \in Nat /\ k \in Nat /\ l \in Nat
        BY <2>6, Zenon
      <3>4. a <= f /\ b <= g /\ c <= h /\ d <= k /\ e <= l /\ f + g + h + k + l <= bound
        BY <2>3, <2>5, Zenon
      <3> HIDE DEF a, b, c, d, e, bound, f, g, h, k, l
      <3>5. a + b + c + d + e <= bound
        BY <3>1, <3>2, <3>3, <3>4, SMTT(30)
      <3> QED
        BY <3>5, Zenon DEF a, b, c, d, e, bound
    <2> QED
      BY <2>2, <2>7 DEF MetricInductive, PageFacts
  <1> QED
    BY <1>1, MetricInductiveHolds, PTL

\* When nobody is recording, the errors by kind do not exceed the total.
THEOREM ErrorTotals == MetricSpec => []ErrorsAddUp
  <1>1. MetricInductive => ErrorsAddUp
    <2> SUFFICES ASSUME MetricInductive, \A r \in Recorders : todo[r] = <<>>
                 PROVE  metrics["BackupsFailed"] + metrics["RestoresFailed"]
                          + metrics["NetworkErrors"] + metrics["StorageErrors"]
                          + metrics["CryptoErrors"] <= metrics["TotalErrors"]
      BY DEF ErrorsAddUp
    <2>1. Owing(OwesKind) = {} /\ Owing(OwesTotal) = {}
      BY DEF Owing, OwesKind, OwesTotal
    <2>2. Cardinality({}) = 0
      BY FS_EmptySet
    <2>3. /\ CounterFacts /\ \A c \in ErrorKinds : metrics[c] \in Nat
          /\ metrics["TotalErrors"] \in Nat
      BY CounterNames, Zenon DEF MetricInductive, CounterFacts
    <2>4. /\ metrics["BackupsFailed"] \in Nat /\ metrics["RestoresFailed"] \in Nat
          /\ metrics["NetworkErrors"] \in Nat /\ metrics["StorageErrors"] \in Nat
          /\ metrics["CryptoErrors"] \in Nat
      BY <2>3 DEF ErrorKinds
    <2>5. metrics["BackupsFailed"] + metrics["RestoresFailed"] + metrics["NetworkErrors"]
            + metrics["StorageErrors"] + metrics["CryptoErrors"]
            + Cardinality(Owing(OwesKind))
            <= metrics["TotalErrors"] + Cardinality(Owing(OwesTotal))
      BY <2>3, Zenon DEF CounterFacts
    <2>6. /\ Cardinality(Owing(OwesKind)) = 0 /\ Cardinality(Owing(OwesTotal)) = 0
          /\ metrics["TotalErrors"] \in Nat
      BY <2>1, <2>2, <2>3, Zenon
    <2> QED
      BY <2>4, <2>5, <2>6, SMTT(30)
  <1> QED
    BY <1>1, MetricInductiveHolds, PTL
=============================================================================
