--------------------------- MODULE ShutdownProofs ---------------------------
(***************************************************************************)
(* Safety of the shutdown manager, for any number of hooks and any         *)
(* priorities.                                                             *)
(***************************************************************************)
EXTENDS Shutdown, SequenceTheorems, WellFoundedInduction, TLAPS

\* A hook is somewhere in a list of registrations.
RegisteredIn(reg, h) == \E k \in 1 .. Len(reg) : reg[k] = h

\* Ahead, as a function of the priorities and the registrations.
AheadIn(pri, reg, g, h) ==
    \/ pri[g] < pri[h]
    \/ /\ pri[g] = pri[h]
       /\ \E k, l \in 1 .. Len(reg) : k < l /\ reg[k] = g /\ reg[l] = h

\* A list of registered hooks in the promised order.
InOrder(pri, reg, q) ==
    /\ \A i \in 1 .. Len(q) : RegisteredIn(reg, q[i])
    /\ \A i, j \in 1 .. Len(q) : i < j => AheadIn(pri, reg, q[i], q[j])

\* A hook is registered once, and RegisterHook keeps the list in order; so is the
\* copy that Shutdown works on.
OrderFacts ==
    /\ \A k, l \in 1 .. Len(registered) : registered[k] = registered[l] => k = l
    /\ InOrder(priority, registered, hooks)
    /\ InOrder(priority, registered, plan)

\* Where the loop is in its list: which turns are over, which goroutines have been
\* made and which of them have read the loop variable.
LoopFacts ==
    /\ phase = "open" => turn = 0 /\ Len(plan) = 0
    /\ waiting => turn > 0
    /\ phase = "done" \/ listener = "returned" => turn = Len(plan) /\ ~waiting
    /\ listener = "returned" => phase \in {"done", "crashed"}
    /\ \A i \in Turns :
          /\ outcome[i] = "none" <=> i > turn \/ (i = turn /\ waiting)
          /\ goroutine[i] = "none" <=> i > turn
          /\ calls[i] = 0 <=> goroutine[i] \in {"none", "ready"}
          /\ calls[i] # 0 => i <= calls[i] /\ calls[i] <= turn

ShutdownInductive == ShutdownTypeOK /\ OrderFacts /\ LoopFacts /\ OutcomeIsOwn

-----------------------------------------------------------------------------
(* Insertion *)

\* A set of positive numbers that is not empty has a least element.
LEMMA MinExists ==
  ASSUME NEW S, S \subseteq Nat, S # {}
  PROVE  Min(S) \in S /\ \A i \in S : Min(S) <= i
  <1> DEFINE R == {ss \in Nat \X Nat : ss[1] < ss[2]}
  <1>1. IsWellFoundedOn(R, Nat)
    BY NatLessThanWellFounded DEF OpToRel
  <1>2. PICK x \in S : \A y \in S : ~(<<y, x>> \in R)
    BY <1>1, WFMin, Zenon
  <1>3. ASSUME NEW y \in S
        PROVE  x <= y
    <2>1. x \in Nat /\ y \in Nat /\ <<y, x>> \in Nat \X Nat
      OBVIOUS
    <2>2. y < x => <<y, x>> \in R
      BY <2>1
    <2> QED
      BY <1>2, <2>1, <2>2
  <1> QED
    BY <1>3, Zenon DEF Min

\* InsertAt puts one element in front of the k-th and moves the rest up.
LEMMA InsertAtProperties ==
  ASSUME NEW S, NEW q \in Seq(S), NEW k \in 1 .. Len(q), NEW e \in S
  PROVE  /\ InsertAt(q, k, e) \in Seq(S)
         /\ Len(InsertAt(q, k, e)) = Len(q) + 1
         /\ \A i \in 1 .. Len(q) + 1 :
               InsertAt(q, k, e)[i] = IF i < k THEN q[i]
                                      ELSE IF i = k THEN e ELSE q[i - 1]
  <1> DEFINE front == SubSeq(q, 1, k - 1)
             back == SubSeq(q, k, Len(q))
             upto == front \o <<e>>
             whole == upto \o back
  <1>1. Len(q) \in Nat /\ k \in Int /\ \A i \in 1 .. Len(q) : q[i] \in S
    BY LenProperties
  <1>2. /\ front \in Seq(S) /\ Len(front) = k - 1
        /\ \A i \in 1 .. k - 1 : front[i] = q[i]
    BY <1>1, SubSeqProperties
  <1>3. /\ back \in Seq(S) /\ Len(back) = Len(q) - k + 1
        /\ \A i \in 1 .. Len(q) - k + 1 : back[i] = q[k + i - 1]
    BY <1>1, SubSeqProperties
  <1>4. <<e>> \in Seq(S) /\ Len(<<e>>) = 1 /\ <<e>>[1] = e
    OBVIOUS
  <1> HIDE DEF front, back
  <1>5. /\ upto \in Seq(S) /\ Len(upto) = k
        /\ \A i \in 1 .. k : upto[i] = IF i <= k - 1 THEN q[i] ELSE e
    BY <1>2, <1>4, ConcatProperties
  <1> HIDE DEF upto
  <1>6. /\ whole \in Seq(S)
        /\ Len(whole) = Len(upto) + Len(back)
        /\ \A i \in 1 .. Len(upto) + Len(back) :
              whole[i] = IF i <= Len(upto) THEN upto[i] ELSE back[i - Len(upto)]
    BY <1>3, <1>5, ConcatProperties, Zenon
  <1>7. InsertAt(q, k, e) = whole
    BY DEF InsertAt, front, back, upto
  <1> HIDE DEF whole
  <1>8. Len(upto) + Len(back) = Len(q) + 1
    BY <1>1, <1>3, <1>5
  <1>9. ASSUME NEW i \in 1 .. Len(q) + 1
        PROVE  whole[i] = IF i < k THEN q[i] ELSE IF i = k THEN e ELSE q[i - 1]
    <2>1. whole[i] = IF i <= k THEN upto[i] ELSE back[i - k]
      BY <1>5, <1>6, <1>8
    <2>2. CASE i <= k
      BY <1>1, <1>5, <2>1, <2>2
    <2>3. CASE i > k
      <3>1. i - k \in 1 .. Len(q) - k + 1 /\ k + (i - k) - 1 = i - 1
        BY <1>1, <2>3
      <3> QED
        BY <1>1, <1>3, <2>1, <2>3, <3>1
    <2> QED
      BY <1>1, <2>2, <2>3
  <1> QED
    BY <1>6, <1>7, <1>8, <1>9

-----------------------------------------------------------------------------
(* RegisterHook *)

\* Priorities are integers, registered or not.
LEMMA PriorityIsInt ==
  ASSUME ShutdownTypeOK
  PROVE  \A g \in Hooks : priority[g] \in Int
  <1>1. \A x \in Priorities \cup {0} : x \in Int
    BY PrioritiesAreInts
  <1>2. priority \in [Hooks -> Priorities \cup {0}]
    BY DEF ShutdownTypeOK
  <1> QED
    BY <1>1, <1>2

\* A new registration comes after all others.
LEMMA NewRegistration ==
  ASSUME ShutdownTypeOK, NEW h \in Hooks, NEW p \in Priorities, RegisterHook(h, p)
  PROVE  /\ registered' \in Seq(Hooks)
         /\ Len(registered) \in Nat /\ Len(registered') = Len(registered) + 1
         /\ \A k \in 1 .. Len(registered) : registered'[k] = registered[k]
         /\ registered'[Len(registered) + 1] = h
         /\ ~RegisteredIn(registered, h) /\ RegisteredIn(registered', h)
         /\ \A g : RegisteredIn(registered, g) =>
               RegisteredIn(registered', g) /\ g \in Hooks /\ g # h
         /\ priority' \in [Hooks -> Priorities \cup {0}]
         /\ priority'[h] = p
         /\ \A g \in Hooks : g # h => priority'[g] = priority[g]
  <1>1. /\ registered \in Seq(Hooks) /\ registered' = Append(registered, h)
        /\ h \notin ToSet(registered)
        /\ priority' = [priority EXCEPT ![h] = p]
    BY DEF RegisterHook, ShutdownTypeOK
  <1>2. /\ registered' \in Seq(Hooks)
        /\ Len(registered) \in Nat /\ Len(registered') = Len(registered) + 1
        /\ \A k \in 1 .. Len(registered) : registered'[k] = registered[k]
        /\ registered'[Len(registered) + 1] = h
    BY <1>1, AppendProperties, LenProperties
  <1>3. \A k \in 1 .. Len(registered) : registered[k] # h /\ registered[k] \in Hooks
    BY <1>1, LenProperties DEF ToSet
  <1>4. /\ ~RegisteredIn(registered, h) /\ RegisteredIn(registered', h)
        /\ \A g : RegisteredIn(registered, g) =>
              RegisteredIn(registered', g) /\ g \in Hooks /\ g # h
    BY <1>2, <1>3 DEF RegisteredIn
  <1>5. /\ priority' \in [Hooks -> Priorities \cup {0}]
        /\ priority'[h] = p
        /\ \A g \in Hooks : g # h => priority'[g] = priority[g]
    BY <1>1 DEF ShutdownTypeOK
  <1> QED
    BY <1>2, <1>4, <1>5

\* It leaves the order of the hooks that are there as it is, and comes after those
\* of no greater priority.
LEMMA AheadOfNew ==
  ASSUME ShutdownTypeOK, NEW h \in Hooks, NEW p \in Priorities, RegisterHook(h, p),
         NEW g, RegisteredIn(registered, g)
  PROVE  /\ \A f : RegisteredIn(registered, f) /\ AheadIn(priority, registered, f, g)
                  => AheadIn(priority', registered', f, g)
         /\ priority[g] <= p => AheadIn(priority', registered', g, h)
         /\ p < priority[g] => AheadIn(priority', registered', h, g)
  <1> USE NewRegistration
  <1>1. ASSUME NEW f, RegisteredIn(registered, f), AheadIn(priority, registered, f, g)
        PROVE  AheadIn(priority', registered', f, g)
    BY <1>1 DEF AheadIn
  <1>2. ASSUME priority[g] <= p
        PROVE  AheadIn(priority', registered', g, h)
    <2>1. PICK k \in 1 .. Len(registered) : registered[k] = g
      BY DEF RegisteredIn
    <2>2. /\ k \in 1 .. Len(registered') /\ Len(registered) + 1 \in 1 .. Len(registered')
          /\ k < Len(registered) + 1
          /\ registered'[k] = g /\ registered'[Len(registered) + 1] = h
      BY <2>1
    <2>3. priority'[g] = priority[g] /\ priority'[h] = p
      OBVIOUS
    <2>4. priority[g] \in Int /\ p \in Int
      BY PriorityIsInt, PrioritiesAreInts
    <2> QED
      BY <1>2, <2>2, <2>3, <2>4 DEF AheadIn
  <1>3. ASSUME p < priority[g]
        PROVE  AheadIn(priority', registered', h, g)
    BY <1>3 DEF AheadIn
  <1> QED
    BY <1>1, <1>2, <1>3

\* Where RegisterHook puts the hook: behind those of no greater priority and before
\* all others.
LEMMA InsertionPoint ==
  ASSUME ShutdownTypeOK, InOrder(priority, registered, hooks),
         NEW h \in Hooks, NEW p \in Priorities, RegisterHook(h, p)
  PROVE  /\ hooks' \in Seq(Hooks) /\ Len(hooks') = Len(hooks) + 1
         /\ \E k \in 1 .. Len(hooks) + 1 :
               /\ \A i \in 1 .. Len(hooks) + 1 :
                     hooks'[i] = IF i < k THEN hooks[i]
                                 ELSE IF i = k THEN h ELSE hooks[i - 1]
               /\ \A i \in 1 .. Len(hooks) : i < k => priority[hooks[i]] <= p
               /\ \A i \in 1 .. Len(hooks) : k <= i => p < priority[hooks[i]]
  <1> DEFINE later == {i \in 1 .. Len(hooks) : p < priority[hooks[i]]}
  <1>1. hooks' = IF later = {} THEN Append(hooks, h) ELSE InsertAt(hooks, Min(later), h)
    BY DEF RegisterHook
  <1>2. /\ hooks \in Seq(Hooks) /\ Len(hooks) \in Nat
        /\ p \in Int /\ \A i \in 1 .. Len(hooks) : priority[hooks[i]] \in Int
    <2>1. hooks \in Seq(Hooks) /\ \A g \in Hooks : priority[g] \in Int
      BY PriorityIsInt DEF ShutdownTypeOK
    <2>2. Len(hooks) \in Nat /\ \A i \in 1 .. Len(hooks) : hooks[i] \in Hooks
      BY <2>1
    <2> QED
      BY <2>1, <2>2, PrioritiesAreInts
  <1>3. CASE later = {}
    <2>1. hooks' = Append(hooks, h)
      BY <1>1, <1>3
    <2>2. \A i \in 1 .. Len(hooks) : priority[hooks[i]] <= p
      BY <1>2, <1>3
    <2>3. /\ hooks' \in Seq(Hooks) /\ Len(hooks') = Len(hooks) + 1
          /\ \A i \in 1 .. Len(hooks) : hooks'[i] = hooks[i]
          /\ hooks'[Len(hooks) + 1] = h
      BY <1>2, <2>1, AppendProperties
    <2> DEFINE k == Len(hooks) + 1
    <2>4. /\ k \in 1 .. Len(hooks) + 1
          /\ \A i \in 1 .. Len(hooks) : i < k
      BY <1>2
    <2>5. ASSUME NEW i \in 1 .. Len(hooks) + 1
          PROVE  hooks'[i] = IF i < k THEN hooks[i]
                             ELSE IF i = k THEN h ELSE hooks[i - 1]
      <3>1. i \in 1 .. Len(hooks) \/ i = k
        BY <1>2
      <3> QED
        BY <1>2, <2>3, <3>1
    <2>6. \A i \in 1 .. Len(hooks) : ~(k <= i)
      BY <1>2
    <2> QED
      BY <2>2, <2>3, <2>4, <2>5, <2>6, SMTT(30)
  <1>4. CASE later # {}
    <2> DEFINE k == Min(later)
    <2>1. k \in later /\ \A i \in later : k <= i
      <3>1. later \subseteq Nat
        BY <1>2
      <3> HIDE DEF later
      <3> QED
        BY <1>4, <3>1, MinExists, Zenon
    <2>2. hooks' = InsertAt(hooks, k, h)
      BY <1>1, <1>4
    <2> HIDE DEF k
    <2>3. k \in 1 .. Len(hooks) /\ k \in 1 .. Len(hooks) + 1
      BY <1>2, <2>1
    <2>4. /\ hooks' \in Seq(Hooks) /\ Len(hooks') = Len(hooks) + 1
          /\ \A i \in 1 .. Len(hooks) + 1 :
                hooks'[i] = IF i < k THEN hooks[i]
                            ELSE IF i = k THEN h ELSE hooks[i - 1]
      BY <1>2, <2>2, <2>3, InsertAtProperties, SMTT(30)
    <2>5. \A i \in 1 .. Len(hooks) : i < k => priority[hooks[i]] <= p
      BY <1>2, <2>1
    <2>6. \A i \in 1 .. Len(hooks) : k <= i => p < priority[hooks[i]]
      BY <1>2, <2>1, SMTT(30) DEF InOrder, AheadIn
    <2> QED
      BY <2>3, <2>4, <2>5, <2>6, Zenon
  <1> QED
    BY <1>3, <1>4

\* RegisterHook keeps both lists in order.
LEMMA RegisterOrder ==
  ASSUME ShutdownTypeOK, OrderFacts, NEW h \in Hooks, NEW p \in Priorities,
         RegisterHook(h, p)
  PROVE  OrderFacts'
  <1> USE DEF OrderFacts
  <1>1. \A k, l \in 1 .. Len(registered') : registered'[k] = registered'[l] => k = l
    BY NewRegistration DEF RegisteredIn
  <1>2. \A i \in 1 .. Len(hooks) : RegisteredIn(registered, hooks[i])
    BY DEF InOrder
  <1>3. InOrder(priority', registered', plan')
    <2>1. plan' = plan /\ \A i \in 1 .. Len(plan) : RegisteredIn(registered, plan[i])
      BY DEF RegisterHook, InOrder
    <2>2. \A i \in 1 .. Len(plan) : RegisteredIn(registered', plan[i])
      BY <2>1, NewRegistration
    <2>3. \A i, j \in 1 .. Len(plan) :
             i < j => AheadIn(priority', registered', plan[i], plan[j])
      BY <2>1, AheadOfNew DEF InOrder
    <2> QED
      BY <2>1, <2>2, <2>3 DEF InOrder
  <1>4. InOrder(priority', registered', hooks')
    <2>1. Len(hooks') = Len(hooks) + 1 /\ Len(hooks) \in Nat
      BY InsertionPoint DEF ShutdownTypeOK
    <2>2. PICK k \in 1 .. Len(hooks) + 1 :
               /\ \A i \in 1 .. Len(hooks) + 1 :
                     hooks'[i] = IF i < k THEN hooks[i]
                                 ELSE IF i = k THEN h ELSE hooks[i - 1]
               /\ \A i \in 1 .. Len(hooks) : i < k => priority[hooks[i]] <= p
               /\ \A i \in 1 .. Len(hooks) : k <= i => p < priority[hooks[i]]
      BY InsertionPoint
    \* The old position of what is at position i now.
    <2> DEFINE old(i) == IF i < k THEN i ELSE i - 1
    <2>3. \A i \in 1 .. Len(hooks) + 1 : i # k =>
             old(i) \in 1 .. Len(hooks) /\ hooks'[i] = hooks[old(i)]
      BY <2>1, <2>2
    <2>4. hooks'[k] = h
      BY <2>2
    <2>5. \A i \in 1 .. Len(hooks) + 1 : RegisteredIn(registered', hooks'[i])
      BY <1>2, <2>3, <2>4, NewRegistration, SMTT(30)
    <2>6. ASSUME NEW i \in 1 .. Len(hooks) + 1, NEW j \in 1 .. Len(hooks) + 1, i < j
          PROVE  AheadIn(priority', registered', hooks'[i], hooks'[j])
      <3>1. CASE i # k /\ j # k
        <4>1. old(i) < old(j)
          BY <2>1, <2>6, <3>1
        <4>2. AheadIn(priority, registered, hooks[old(i)], hooks[old(j)])
          BY <2>3, <3>1, <4>1, Zenon DEF InOrder
        <4> QED
          BY <1>2, <2>3, <3>1, <4>2, AheadOfNew, Zenon
      <3>2. CASE j = k
        BY <1>2, <2>1, <2>2, <2>6, <3>2, AheadOfNew, SMTT(30)
      <3>3. CASE i = k
        <4>1. j - 1 \in 1 .. Len(hooks) /\ k <= j - 1 /\ hooks'[j] = hooks[j - 1]
          BY <2>1, <2>2, <2>6, <3>3
        <4> QED
          BY <1>2, <2>2, <2>4, <3>3, <4>1, AheadOfNew, SMTT(30)
      <3> QED
        BY <3>1, <3>2, <3>3
    <2> QED
      BY <2>1, <2>5, <2>6 DEF InOrder
  <1> QED
    BY <1>1, <1>3, <1>4, SMTT(30)

-----------------------------------------------------------------------------
(* The inductive invariant *)

\* Nothing is registered and Shutdown has not been called at first.
LEMMA InitShutdown == ShutdownInit => ShutdownInductive
  <1> SUFFICES ASSUME ShutdownInit PROVE ShutdownInductive
    OBVIOUS
  <1>1. Len(plan) = 0 /\ Len(hooks) = 0 /\ Len(registered) = 0 /\ Turns = {}
    BY DEF ShutdownInit, Turns
  <1>2. waiting \in BOOLEAN /\ direct \in BOOLEAN
    BY Zenon DEF ShutdownInit
  <1>3. /\ outcome \in [Turns -> {"none", "ok", "error", "timeout"}]
        /\ goroutine \in [Turns -> {"none", "ready", "running", "ok", "error"}]
        /\ calls \in [Turns -> 0 .. Len(plan)]
    BY <1>1 DEF ShutdownInit
  <1>4. ShutdownTypeOK
    BY <1>1, <1>2, <1>3 DEF ShutdownInit, ShutdownTypeOK
  <1>5. OrderFacts /\ LoopFacts /\ OutcomeIsOwn
    BY <1>1 DEF ShutdownInit, OrderFacts, InOrder, LoopFacts, OutcomeIsOwn
  <1> QED
    BY <1>4, <1>5 DEF ShutdownInductive

\* RegisterHook does not touch the loop.
LEMMA RegisterPreserves ==
  ASSUME ShutdownInductive, NEW h \in Hooks, NEW p \in Priorities, RegisterHook(h, p)
  PROVE  ShutdownInductive'
  <1> USE DEF ShutdownInductive
  <1>1. UNCHANGED <<phase, plan, turn, waiting, outcome, goroutine, calls, listener, direct>>
    BY DEF RegisterHook, callVars
  <1>2. hooks' \in Seq(Hooks)
    BY InsertionPoint DEF OrderFacts
  <1>3. ShutdownTypeOK'
    BY <1>1, <1>2, NewRegistration DEF ShutdownTypeOK, Turns
  <1>4. LoopFacts' /\ OutcomeIsOwn'
    BY <1>1, SMTT(30) DEF LoopFacts, OutcomeIsOwn, Turns
  <1> QED
    BY <1>3, <1>4, RegisterOrder

\* Nothing but RegisterHook and ShutdownBegin touches the lists.
LEMMA SameOrder ==
  ASSUME OrderFacts, UNCHANGED <<hooks, priority, registered, plan>>
  PROVE  OrderFacts'
  BY DEF OrderFacts, InOrder, AheadIn

\* A call of Shutdown, and what ListenAndWait does around it.
LEMMA CallPreserves ==
  ASSUME ShutdownInductive, Signal \/ ShutdownBegin \/ ShutdownAgain \/ ListenReturn
  PROVE  ShutdownInductive'
  <1> USE DEF ShutdownInductive
  <1>1. CASE Signal \/ ListenReturn
    <2>1. UNCHANGED <<hooks, priority, registered, phase, plan, turn, waiting, outcome,
                      goroutine, calls, direct>>
      BY <1>1 DEF Signal, ListenReturn
    <2>2. \/ listener' = "marked"
          \/ listener' = "returned" /\ phase = "done"
      BY <1>1 DEF Signal, ListenReturn
    <2>3. ShutdownTypeOK'
      BY <2>1, <2>2 DEF ShutdownTypeOK, Turns
    <2>4. LoopFacts' /\ OutcomeIsOwn'
      BY <2>1, <2>2 DEF LoopFacts, OutcomeIsOwn, Turns
    <2> QED
      BY <2>1, <2>3, <2>4, SameOrder
  <1>2. /\ Caller => direct' \in BOOLEAN
        /\ Caller => /\ listener' \in {"listening", "marked", "waiting", "returned"}
                     /\ listener' = "returned" => listener = "returned"
    <2>1. Caller => direct' \in BOOLEAN
      BY Zenon DEF Caller, ShutdownTypeOK
    <2> QED
      BY <2>1 DEF Caller, ShutdownTypeOK
  <1>3. CASE ShutdownAgain
    <2>1. /\ UNCHANGED <<hooks, priority, registered, plan, turn, waiting, outcome,
                         goroutine, calls>>
          /\ phase \in {"run", "done"} /\ phase' = "crashed" /\ Caller
      BY <1>3 DEF ShutdownAgain
    <2>2. ShutdownTypeOK'
      BY <1>2, <2>1 DEF ShutdownTypeOK, Turns
    <2>3. LoopFacts' /\ OutcomeIsOwn'
      BY <1>2, <2>1 DEF LoopFacts, OutcomeIsOwn, Turns
    <2> QED
      BY <2>1, <2>2, <2>3, SameOrder
  <1>4. CASE ShutdownBegin
    <2>1. /\ phase = "open" /\ phase' = "run" /\ Caller /\ plan' = hooks
          /\ outcome' = [i \in 1 .. Len(hooks) |-> "none"]
          /\ goroutine' = [i \in 1 .. Len(hooks) |-> "none"]
          /\ calls' = [i \in 1 .. Len(hooks) |-> 0]
          /\ UNCHANGED <<hooks, priority, registered, turn, waiting>>
      BY <1>4 DEF ShutdownBegin
    <2>2. /\ turn = 0 /\ ~waiting /\ listener # "returned" /\ Turns' = 1 .. Len(hooks)
          /\ Len(hooks) \in Nat
      BY <2>1 DEF LoopFacts, Turns, ShutdownTypeOK
    <2>3. ShutdownTypeOK'
      BY <1>2, <2>1, <2>2 DEF ShutdownTypeOK
    <2>4. LoopFacts' /\ OutcomeIsOwn'
      BY <1>2, <2>1, <2>2, SMTT(30) DEF LoopFacts, OutcomeIsOwn
    <2>5. OrderFacts'
      BY <2>1 DEF OrderFacts, InOrder, AheadIn
    <2> QED
      BY <2>3, <2>4, <2>5
  <1> QED
    BY <1>1, <1>3, <1>4

\* A goroutine that starts reads the loop variable, which is at its own turn or a
\* later one.
LEMMA GoroutinePreserves ==
  ASSUME ShutdownInductive, NEW i \in Turns, HookStart(i) \/ HookReturn(i)
  PROVE  ShutdownInductive'
  <1> USE DEF ShutdownInductive
  <1>1. UNCHANGED <<hooks, priority, registered, phase, plan, turn, waiting, outcome,
                    listener, direct>>
    BY DEF HookStart, HookReturn, callVars
  <1>2. Turns' = Turns /\ i \in Nat \ {0} /\ turn \in Nat /\ Len(plan) \in Nat
    BY <1>1 DEF Turns, ShutdownTypeOK
  <1>3. CASE HookStart(i)
    <2>1. /\ goroutine[i] = "ready" /\ goroutine' = [goroutine EXCEPT ![i] = "running"]
          /\ calls' = [calls EXCEPT ![i] = turn]
      BY <1>3 DEF HookStart
    <2>2. i <= turn /\ calls[i] = 0
      BY <1>2, <2>1 DEF LoopFacts
    <2>3. ShutdownTypeOK'
      BY <1>1, <1>2, <2>1 DEF ShutdownTypeOK
    <2>4. LoopFacts' /\ OutcomeIsOwn'
      BY <1>1, <1>2, <2>1, <2>2 DEF LoopFacts, OutcomeIsOwn, ShutdownTypeOK
    <2> QED
      BY <1>1, <2>3, <2>4, SameOrder, SMTT(30)
  <1>4. CASE HookReturn(i)
    <2>1. PICK result \in {"ok", "error"} :
             /\ goroutine[i] = "running" /\ goroutine' = [goroutine EXCEPT ![i] = result]
             /\ calls' = calls
      BY <1>4, Zenon DEF HookReturn
    <2>2. ShutdownTypeOK'
      BY <1>1, <1>2, <2>1 DEF ShutdownTypeOK
    <2>3. LoopFacts' /\ OutcomeIsOwn'
      BY <1>1, <1>2, <2>1 DEF LoopFacts, OutcomeIsOwn, ShutdownTypeOK
    <2> QED
      BY <1>1, <2>2, <2>3, SameOrder
  <1> QED
    BY <1>3, <1>4

\* The turns of the loop, one after the other.
LEMMA LoopPreserves ==
  ASSUME ShutdownInductive, LoopNext
  PROVE  ShutdownInductive'
  <1> USE DEF ShutdownInductive
  <1>1. UNCHANGED <<hooks, priority, registered, plan, calls, listener, direct>>
        /\ phase = "run"
    BY DEF LoopNext, NextTurn, TurnDone, TurnTimeout, ShutdownEnd, callVars
  <1>2. Turns' = Turns /\ turn \in Nat /\ Len(plan) \in Nat /\ turn <= Len(plan)
    BY <1>1 DEF Turns, ShutdownTypeOK
  <1>3. CASE NextTurn
    <2>1. /\ ~waiting /\ turn < Len(plan) /\ turn' = turn + 1 /\ waiting' = TRUE
          /\ goroutine' = [goroutine EXCEPT ![turn + 1] = "ready"]
          /\ UNCHANGED <<phase, outcome>>
      BY <1>3 DEF NextTurn
    <2>2. turn + 1 \in Turns /\ goroutine[turn + 1] = "none" /\ calls[turn + 1] = 0
      BY <1>2, <2>1 DEF Turns, LoopFacts
    <2>3. waiting' \in BOOLEAN
      BY <2>1, Zenon
    <2>4. /\ goroutine \in [Turns -> {"none", "ready", "running", "ok", "error"}]
          /\ calls \in [Turns -> 0 .. Len(plan)]
          /\ \A i \in Turns : i \in Nat
      BY DEF ShutdownTypeOK, Turns
    <2>5. ShutdownTypeOK'
      <3>1. goroutine' \in [Turns -> {"none", "ready", "running", "ok", "error"}]
        BY <2>1, <2>4, Zenon
      <3>2. turn' \in 0 .. Len(plan)
        BY <1>2, <2>1
      <3> QED
        BY <1>1, <1>2, <2>1, <2>3, <3>1, <3>2, SMTT(30) DEF ShutdownTypeOK
    <2>6. \A i \in Turns : i \in Nat /\ calls[i] \in Nat
             /\ goroutine'[i] = IF i = turn + 1 THEN "ready" ELSE goroutine[i]
      BY <1>2, <2>1, <2>4
    <2>7. LoopFacts'
      BY <1>1, <1>2, <2>1, <2>2, <2>6, SMTT(30) DEF LoopFacts
    <2>8. OutcomeIsOwn'
      BY <1>1, <1>2, <2>1, <2>2, <2>6, SMTT(30) DEF OutcomeIsOwn
    <2> QED
      BY <1>1, <2>5, <2>7, <2>8, SameOrder, SMTT(30)
  <1>4. CASE TurnDone \/ TurnTimeout
    <2>1. PICK result \in {"ok", "error", "timeout"} :
             /\ outcome' = [outcome EXCEPT ![turn] = result]
             /\ result # "timeout" => goroutine[turn] = result
      BY <1>4 DEF TurnDone, TurnTimeout
    <2>2. waiting /\ waiting' = FALSE /\ UNCHANGED <<phase, turn, goroutine>>
      BY <1>4 DEF TurnDone, TurnTimeout
    <2>3. turn \in Turns
      BY <1>2, <2>2 DEF Turns, LoopFacts
    <2>4. result # "timeout" => calls[turn] = turn
      BY <1>2, <2>1, <2>3, SMTT(30) DEF LoopFacts, ShutdownTypeOK
    <2>5. waiting' \in BOOLEAN
      BY <2>2, Zenon
    <2>6. ShutdownTypeOK'
      BY <1>1, <1>2, <2>1, <2>2, <2>5, Zenon DEF ShutdownTypeOK
    <2>7. LoopFacts' /\ OutcomeIsOwn'
      BY <1>1, <1>2, <2>1, <2>2, <2>3, <2>4, SMTT(30)
      DEF LoopFacts, OutcomeIsOwn, ShutdownTypeOK, Turns
    <2> QED
      BY <1>1, <2>6, <2>7, SameOrder, SMTT(30)
  <1>5. CASE ShutdownEnd
    <2>1. /\ phase' = "done" /\ ~waiting /\ turn = Len(plan)
          /\ UNCHANGED <<turn, waiting, outcome, goroutine>>
      BY <1>5 DEF ShutdownEnd
    <2>2. ShutdownTypeOK'
      BY <1>1, <1>2, <2>1 DEF ShutdownTypeOK
    <2>3. LoopFacts' /\ OutcomeIsOwn'
      BY <1>1, <1>2, <2>1 DEF LoopFacts, OutcomeIsOwn
    <2> QED
      BY <1>1, <2>2, <2>3, SameOrder
  <1> QED
    BY <1>3, <1>4, <1>5 DEF LoopNext

\* The invariant holds in every reachable state.
LEMMA ShutdownInductiveHolds == ShutdownSpec => []ShutdownInductive
  <1>1. ShutdownInductive /\ [ShutdownNext]_shutdownVars => ShutdownInductive'
    <2> SUFFICES ASSUME ShutdownInductive, [ShutdownNext]_shutdownVars
                 PROVE  ShutdownInductive'
      OBVIOUS
    <2>1. CASE ShutdownNext
      BY <2>1, RegisterPreserves, CallPreserves, GoroutinePreserves, LoopPreserves, SMTT(30)
      DEF ShutdownNext, GoroutineNext
    <2>2. CASE UNCHANGED shutdownVars
      <3>1. OrderFacts'
        BY <2>2, SameOrder DEF shutdownVars, ShutdownInductive
      <3>2. ShutdownTypeOK' /\ LoopFacts' /\ OutcomeIsOwn'
        BY <2>2
        DEF shutdownVars, callVars, ShutdownInductive, ShutdownTypeOK, LoopFacts,
            OutcomeIsOwn, Turns
      <3> QED
        BY <3>1, <3>2 DEF ShutdownInductive
    <2> QED
      BY <2>1, <2>2
  <1> QED
    BY <1>1, InitShutdown, PTL DEF ShutdownSpec

-----------------------------------------------------------------------------
\* Every reachable state of the shutdown manager is well typed.
THEOREM ShutdownTypeCorrect == ShutdownSpec => []ShutdownTypeOK
  BY ShutdownInductiveHolds, PTL DEF ShutdownInductive

\* A turn logged as completed or failed is one whose own hook returned.
THEOREM OutcomesAreOwn == ShutdownSpec => []OutcomeIsOwn
  BY ShutdownInductiveHolds, PTL DEF ShutdownInductive

\* ListenAndWait returns only when every hook has had its turn to the end.
THEOREM ReturnsWhenOver == ShutdownSpec => []ReturnedIsOver
  <1>1. ShutdownInductive => ReturnedIsOver
    <2> SUFFICES ASSUME ShutdownInductive, listener = "returned", NEW i \in Turns
                 PROVE  /\ outcome[i] # "none"
                        /\ goroutine[i] \in {"ready", "running"} => outcome[i] = "timeout"
      BY DEF ReturnedIsOver
    <2>1. i \in Int /\ turn \in Int /\ i <= turn /\ ~waiting
      BY DEF ShutdownInductive, LoopFacts, Turns, ShutdownTypeOK
    <2> QED
      BY <2>1 DEF ShutdownInductive, LoopFacts, OutcomeIsOwn, ShutdownTypeOK
  <1> QED
    BY <1>1, ShutdownInductiveHolds, PTL

\* Shutdown calls no hook before the turns of all hooks ahead of it are over: by
\* priority, and by registration among hooks of one priority, whatever goroutine
\* calls it.
THEOREM PrioritiesKept == ShutdownSpec => []PriorityOrderKept
  <1>1. ShutdownInductive => PriorityOrderKept
    <2> SUFFICES ASSUME ShutdownInductive, NEW i \in Turns, calls[i] # 0, NEW k \in Turns,
                        Ahead(plan[k], plan[calls[i]])
                 PROVE  outcome[k] # "none"
      BY DEF PriorityOrderKept
    <2> DEFINE j == calls[i]
    <2>1. /\ j \in Turns /\ k \in Int /\ j \in Int /\ turn \in Int /\ j <= turn
          /\ plan[k] \in Hooks /\ plan[j] \in Hooks
      BY SMTT(30) DEF ShutdownInductive, LoopFacts, Turns, ShutdownTypeOK
    <2> HIDE DEF j
    <2>2. ~(j <= k)
      <3> SUFFICES ASSUME j <= k PROVE FALSE
        OBVIOUS
      <3>1. Ahead(plan[k], plan[j])
        BY DEF j
      <3>2. \/ plan[j] = plan[k]
            \/ AheadIn(priority, registered, plan[j], plan[k])
        BY <2>1 DEF ShutdownInductive, OrderFacts, InOrder, Turns
      <3>3. priority[plan[k]] \in Int /\ priority[plan[j]] \in Int
        BY <2>1, PriorityIsInt DEF ShutdownInductive
      <3>4. \A a, b \in 1 .. Len(registered) : registered[a] = registered[b] => a = b
        BY DEF ShutdownInductive, OrderFacts
      <3> QED
        BY <3>1, <3>2, <3>3, <3>4 DEF Ahead, AheadIn
    <2> QED
      BY <2>1, <2>2 DEF ShutdownInductive, LoopFacts
  <1> QED
    BY <1>1, ShutdownInductiveHolds, PTL

=============================================================================
