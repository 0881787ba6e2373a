------------------------------ MODULE QueueProofs ------------------------------
(***************************************************************************)
(* The threads of chapter 6 and the nodes they link, and the queues with   *)
(* mutexes, for any threads with any calls.                                *)
(***************************************************************************)
EXTENDS Threadsafe, FiniteSetTheorems, TLAPS

\* What a thread is doing: the call it makes is the first of those to come.
Threading ==
    /\ DOMAIN th = Thread
    /\ \A t \in Thread :
        /\ {"pc", "todo", "got"} \subseteq DOMAIN th[t]
        /\ th[t].todo \in Seq(Operations)
        /\ th[t].pc = "done" <=> th[t].todo = <<>>
        /\ th[t].pc \in Operations => th[t].pc = Head(th[t].todo)

------------------------------------------------------------------------------
(* Steps of a thread *)

\* A thread goes on in its call, or it returns from it.
Changes(t, shared, own) ==
    /\ DOMAIN th' = Thread /\ th'[t] = own
    /\ \A u \in Thread : u # t => th'[u] = th[u]
    /\ mem' = Threads!Over(shared, mem)
GoesOn(t, shared, own) == Changes(t, shared, Threads!Over(own, th[t]))
Ends(t, shared, got) == Changes(t, shared, Threads!Returned(t, got))

\* A step of each of the containers is one of these.
LEMMA StepsAre ==
  ASSUME DOMAIN th = Thread, NEW t \in Thread, NEW place, NEW shared, NEW own
  PROVE  /\ Table!Step(t, place, shared, own) => th[t].pc = place /\ GoesOn(t, shared, own)
         /\ List!Step(t, place, shared, own) => th[t].pc = place /\ GoesOn(t, shared, own)
         /\ Queues!Step(t, place, shared, own) => th[t].pc = place /\ GoesOn(t, shared, own)
  <1>1. /\ Table!Over(own, th[t]) = Threads!Over(own, th[t])
        /\ List!Over(own, th[t]) = Threads!Over(own, th[t])
        /\ Queues!Over(own, th[t]) = Threads!Over(own, th[t])
    BY DEF Table!Over, List!Over, Queues!Over, Threads!Over
  <1>2. /\ Table!Over(shared, mem) = Threads!Over(shared, mem)
        /\ List!Over(shared, mem) = Threads!Over(shared, mem)
        /\ Queues!Over(shared, mem) = Threads!Over(shared, mem)
    BY DEF Table!Over, List!Over, Queues!Over, Threads!Over
  <1> QED
    BY <1>1, <1>2 DEF Table!Step, Table!At, List!Step, List!At, Queues!Step, Queues!At,
       GoesOn, Changes

LEMMA ReturnsAre ==
  ASSUME DOMAIN th = Thread, NEW t \in Thread, NEW place, NEW shared, NEW got
  PROVE  /\ Table!ReturnGot(t, place, shared, got) => th[t].pc = place /\ Ends(t, shared, got)
         /\ List!ReturnGot(t, place, shared, got) => th[t].pc = place /\ Ends(t, shared, got)
         /\ Queues!ReturnGot(t, place, shared, got) => th[t].pc = place /\ Ends(t, shared, got)
  <1>1. /\ Table!Returned(t, got) = Threads!Returned(t, got)
        /\ List!Returned(t, got) = Threads!Returned(t, got)
        /\ Queues!Returned(t, got) = Threads!Returned(t, got)
    BY DEF Table!Returned, List!Returned, Queues!Returned, Threads!Returned,
       Table!Started, List!Started, Queues!Started, Threads!Started
  <1>2. /\ Table!Over(shared, mem) = Threads!Over(shared, mem)
        /\ List!Over(shared, mem) = Threads!Over(shared, mem)
        /\ Queues!Over(shared, mem) = Threads!Over(shared, mem)
    BY DEF Table!Over, List!Over, Queues!Over, Threads!Over
  <1> QED
    BY <1>1, <1>2 DEF Table!ReturnGot, Table!At, List!ReturnGot, List!At, Queues!ReturnGot,
       Queues!At, Ends, Changes

\* A record over another.
LEMMA OverIs ==
  ASSUME NEW f, NEW g
  PROVE  /\ DOMAIN Threads!Over(f, g) = DOMAIN f \cup DOMAIN g
         /\ \A x \in DOMAIN f : Threads!Over(f, g)[x] = f[x]
         /\ \A x \in DOMAIN g : x \notin DOMAIN f => Threads!Over(f, g)[x] = g[x]
  BY DEF Threads!Over

\* Where a thread is that goes on: its calls are still the same.
LEMMA GoesOnIs ==
  ASSUME Threading, NEW t \in Thread, NEW shared, NEW own, GoesOn(t, shared, own),
         "todo" \notin DOMAIN own, th[t].pc # "done",
         "pc" \in DOMAIN own => own.pc \notin Operations \cup {"done"}
  PROVE  /\ Threading'
         /\ \A x \in DOMAIN own : x \in DOMAIN th'[t] /\ th'[t][x] = own[x]
         /\ \A x \in DOMAIN th[t] : x \notin DOMAIN own => x \in DOMAIN th'[t] /\ th'[t][x] = th[t][x]
         /\ th'[t].todo = th[t].todo /\ th[t].todo # <<>>
  <1>1. /\ \A x \in DOMAIN own : x \in DOMAIN th'[t] /\ th'[t][x] = own[x]
        /\ \A x \in DOMAIN th[t] : x \notin DOMAIN own => x \in DOMAIN th'[t] /\ th'[t][x] = th[t][x]
    <2>1. th'[t] = Threads!Over(own, th[t])
      BY DEF GoesOn, Changes
    <2>2. /\ DOMAIN Threads!Over(own, th[t]) = DOMAIN own \cup DOMAIN th[t]
          /\ \A x \in DOMAIN own : Threads!Over(own, th[t])[x] = own[x]
          /\ \A x \in DOMAIN th[t] : x \notin DOMAIN own => Threads!Over(own, th[t])[x] = th[t][x]
      BY OverIs
    <2> QED
      BY ONLY <2>1, <2>2
  <1>2. th'[t].todo = th[t].todo /\ th[t].todo # <<>>
    BY <1>1 DEF Threading
  <1>3. {"pc", "todo", "got"} \subseteq DOMAIN th'[t]
    BY <1>1 DEF Threading
  <1>4. th'[t].pc = IF "pc" \in DOMAIN own THEN own.pc ELSE th[t].pc
    BY <1>1 DEF Threading
  <1>5. Threading'
    BY <1>2, <1>3, <1>4 DEF Threading, GoesOn, Changes
  <1> QED
    BY <1>1, <1>2, <1>5

\* Where a thread is whose call returns: at the next one.
LEMMA EndsIs ==
  ASSUME Threading, NEW t \in Thread, NEW shared, NEW got, Ends(t, shared, got),
         th[t].pc # "done"
  PROVE  /\ Threading' /\ th'[t].pc \in Operations \cup {"done"}
         /\ th'[t].todo = Tail(th[t].todo) /\ th[t].todo # <<>> /\ th'[t].got = got
  <1> DEFINE rest == Tail(th[t].todo)
  <1>1. th[t].todo # <<>> /\ rest \in Seq(Operations)
    BY DEF Threading
  <1> HIDE DEF rest
  <1>2. Head(Append(rest, "done")) = IF rest = <<>> THEN "done" ELSE Head(rest)
    BY <1>1
  <1>3. rest # <<>> => Head(rest) \in Operations
    BY <1>1
  <1>4. /\ th'[t].pc = Head(Append(rest, "done")) /\ th'[t].todo = rest /\ th'[t].got = got
        /\ {"pc", "todo", "got"} \subseteq DOMAIN th'[t]
    BY DEF Ends, Changes, Threads!Returned, Threads!Started, rest
  <1>5. "done" \notin Operations
    BY DEF Operations
  <1>6. Threading'
    BY <1>1, <1>2, <1>3, <1>4, <1>5 DEF Threading, Ends, Changes
  <1> QED
    BY <1>1, <1>2, <1>3, <1>4, <1>6 DEF rest

\* At first every thread is at its first call.
LEMMA InitThreading == ThreadsafeAssumption /\ Init => Threading
  <1> SUFFICES ASSUME ThreadsafeAssumption, Init PROVE Threading
    OBVIOUS
  <1>1. calls \in [Thread -> Seq(Operations)]
    BY DEF Init, ThreadsafeAssumption
  <1>2. ASSUME NEW s \in Seq(Operations)
        PROVE  LET r == Threads!Started(s)
               IN  /\ {"pc", "todo", "got"} \subseteq DOMAIN r
                   /\ r.todo = s
                   /\ r.pc = "done" <=> s = <<>>
                   /\ r.pc \in Operations => r.pc = Head(s)
    <2>1. Head(Append(s, "done")) = IF s = <<>> THEN "done" ELSE Head(s)
      OBVIOUS
    <2>2. s # <<>> => Head(s) \in Operations
      OBVIOUS
    <2>3. "done" \notin Operations
      BY DEF Operations
    <2> QED
      BY <2>1, <2>2, <2>3 DEF Threads!Started
  <1>3. th = [t \in Thread |-> Threads!Started(calls[t])]
    BY DEF Init
  <1> QED
    BY <1>1, <1>2, <1>3 DEF Threading

\* What a step leaves in the container.
LEMMA MemIs ==
  ASSUME NEW shared, mem' = Threads!Over(shared, mem)
  PROVE  /\ DOMAIN mem' = DOMAIN shared \cup DOMAIN mem
         /\ \A x \in DOMAIN shared : mem'[x] = shared[x]
         /\ \A x \in DOMAIN mem : x \notin DOMAIN shared => mem'[x] = mem[x]
  <1>1. /\ DOMAIN Threads!Over(shared, mem) = DOMAIN shared \cup DOMAIN mem
        /\ \A x \in DOMAIN shared : Threads!Over(shared, mem)[x] = shared[x]
        /\ \A x \in DOMAIN mem : x \notin DOMAIN shared => Threads!Over(shared, mem)[x] = mem[x]
    BY OverIs
  <1> QED
    BY <1>1

------------------------------------------------------------------------------
(* Nodes in memory, linked to each other *)

\* c is the list of nodes from n on, up to and without end.
After(c, i, end) == IF i <= Len(c) THEN c[i] ELSE end
Linked(c, node, n, end) ==
    /\ c \in Seq(DOMAIN node)
    /\ \A i, j \in 1..Len(c) : c[i] = c[j] => i = j
    /\ \A i \in 1..Len(c) : c[i] # end
    /\ n = After(c, 1, end)
    /\ \A i \in 1..Len(c) : node[c[i]].next = After(c, i + 1, end)

\* Induction over the natural numbers, stated of a set.
LEMMA SetInduction ==
  ASSUME NEW S \in SUBSET Nat, 0 \in S, \A n \in S : n + 1 \in S
  PROVE  S = Nat
  <1>1. SUFFICES ASSUME NEW n \in Nat, n \notin S PROVE FALSE
    OBVIOUS
  <1> DEFINE K == {k \in 0..n : k \notin S}
             down == [k \in K |-> k - 1]
  <1>2. IsFiniteSet(K)
    <2>1. IsFiniteSet(0..n) /\ K \in SUBSET (0..n)
      BY FS_Interval
    <2> QED
      BY <2>1, FS_Subset
  <1>3. \A k \in K : k - 1 \in K
    OBVIOUS
  <1>4. down \in Injection(K, K)
    BY <1>3 DEF Injection, IsInjective
  <1>5. down \in Surjection(K, K)
    BY <1>2, <1>4, FS_Injection
  <1>6. n \in K
    BY <1>1
  <1>7. PICK k \in K : down[k] = n
    <2> HIDE DEF K, down
    <2> QED
      BY <1>6, <1>5 DEF Surjection
  <1> QED
    BY <1>7

\* The number of elements is the same in every module.
LEMMA CardinalityIs ==
  ASSUME NEW S
  PROVE  /\ Threads!Cardinality(S) = Cardinality(S)
         /\ Queues!Cardinality(S) = Cardinality(S)
         /\ List!Cardinality(S) = Cardinality(S)
  BY DEF Threads!Cardinality, Queues!Cardinality, List!Cardinality, Cardinality

\* An address that is free.
LEMMA FreshIs ==
  ASSUME NEW node, IsFiniteSet(DOMAIN node)
  PROVE  /\ Threads!Fresh(node) \in Nat /\ Threads!Fresh(node) \notin DOMAIN node
         /\ Queues!Fresh(node) = Threads!Fresh(node) /\ List!Fresh(node) = Threads!Fresh(node)
  <1> DEFINE D == DOMAIN node
             N == Cardinality(D)
  <1>1. N \in Nat
    BY FS_CardinalityType
  <1>2. \E n \in 0..N : n \notin D
    <2> SUFFICES ASSUME 0..N \subseteq D PROVE FALSE
      OBVIOUS
    <2>1. Cardinality(0..N) = N + 1
      BY <1>1, FS_Interval
    <2>2. Cardinality(0..N) <= N
      <3> HIDE DEF D
      <3>1. IsFiniteSet(D)
        BY DEF D
      <3> QED
        BY <3>1, FS_Subset
    <2> QED
      BY <1>1, <2>1, <2>2
  <1>3. Threads!Fresh(node) = CHOOSE n \in 0..N : n \notin D
    BY CardinalityIs DEF Threads!Fresh
  <1>4. Queues!Fresh(node) = CHOOSE n \in 0..N : n \notin D
    BY CardinalityIs DEF Queues!Fresh
  <1>5. List!Fresh(node) = CHOOSE n \in 0..N : n \notin D
    BY CardinalityIs DEF List!Fresh
  <1> HIDE DEF N, D
  <1>6. (CHOOSE n \in 0..N : n \notin D) \in 0..N /\ (CHOOSE n \in 0..N : n \notin D) \notin D
    BY <1>2
  <1> QED
    BY <1>1, <1>3, <1>4, <1>5, <1>6 DEF D

\* A list of distinct nodes is no longer than there are nodes.
LEMMA LinkedShort ==
  ASSUME NEW c, NEW node, NEW n, NEW end, Linked(c, node, n, end), IsFiniteSet(DOMAIN node)
  PROVE  Len(c) \in Nat /\ Len(c) <= Cardinality(DOMAIN node)
  <1> DEFINE S == 1..Len(c)
  <1>1. Len(c) \in Nat /\ c \in [S -> DOMAIN node] /\ \A i, j \in S : c[i] = c[j] => i = j
    BY DEF Linked
  <1>2. c \in Injection(S, DOMAIN node)
    <2> HIDE DEF S
    <2> QED
      BY <1>1 DEF Injection, IsInjective
  <1>3. Cardinality(S) = Len(c)
    <2>1. \A m \in Nat : Cardinality(1..m) = m
      BY FS_Interval
    <2> QED
      BY <1>1, <2>1
  <1>4. Cardinality(S) <= Cardinality(DOMAIN node)
    <2> HIDE DEF S
    <2> QED
      BY <1>2, FS_Injection
  <1> QED
    BY <1>1, <1>3, <1>4

\* The first k nodes of a list, or all of a shorter one.
FirstOf(c, k) == SubSeq(c, 1, IF k <= Len(c) THEN k ELSE Len(c))
FollowingIn(s, node, n) == IF s = <<>> THEN n ELSE node[s[Len(s)]].next
Longer(s, node, n, end) ==
    IF FollowingIn(s, node, n) = end THEN s ELSE Append(s, FollowingIn(s, node, n))

\* One more node of the list is what follows its first ones.
LEMMA LongerIs ==
  ASSUME NEW c, NEW node, NEW n, NEW end, Linked(c, node, n, end), NEW k \in Nat
  PROVE  Longer(FirstOf(c, k), node, n, end) = FirstOf(c, k + 1)
  <1> DEFINE s == FirstOf(c, k)
  <1>1. /\ c \in Seq(DOMAIN node) /\ n = After(c, 1, end)
        /\ \A i \in 1..Len(c) : node[c[i]].next = After(c, i + 1, end)
        /\ \A i \in 1..Len(c) : c[i] # end
    BY DEF Linked
  <1>2. CASE k < Len(c)
    <2>1. s = SubSeq(c, 1, k) /\ s \in Seq(DOMAIN node) /\ Len(s) = k /\ (k > 0 => s[k] = c[k])
      BY <1>1, <1>2 DEF FirstOf
    <2>0. FirstOf(c, k + 1) = SubSeq(c, 1, k + 1)
      BY <1>1, <1>2 DEF FirstOf
    <2> HIDE DEF s
    <2>2. s = <<>> <=> k = 0
      <3>1. s \in Seq(DOMAIN node) /\ Len(s) = k
        BY <2>1
      <3>2. s = <<>> <=> Len(s) = 0
        BY <3>1
      <3> QED
        BY <3>1, <3>2
    <2>3. FollowingIn(s, node, n) = c[k + 1]
      <3>1. CASE k = 0
        BY <3>1, <1>1, <1>2, <2>2 DEF After, FollowingIn
      <3>2. CASE k # 0
        <4>1. k \in 1..Len(c) /\ After(c, k + 1, end) = c[k + 1]
          BY <3>2, <1>1, <1>2 DEF After
        <4>2. node[c[k]].next = c[k + 1]
          BY <4>1, <1>1
        <4>3. s[Len(s)] = c[k]
          BY <3>2, <2>1
        <4> QED
          BY <3>2, <4>2, <4>3, <2>2 DEF FollowingIn
      <3> QED
        BY <3>1, <3>2
    <2>4. c[k + 1] # end
      BY <1>1, <1>2
    <2>5. Append(s, c[k + 1]) = SubSeq(c, 1, k + 1)
      BY <1>1, <1>2, <2>1
    <2>6. Longer(s, node, n, end) = Append(s, c[k + 1])
      BY <2>3, <2>4 DEF Longer
    <2> QED
      BY <2>6, <2>5, <2>0 DEF s
  <1>3. CASE k >= Len(c)
    <2>1. s = c
      BY <1>1, <1>3 DEF FirstOf
    <2>2. c = <<>> <=> Len(c) = 0
      BY <1>1
    <2>3. FollowingIn(s, node, n) = end
      BY <1>1, <2>1, <2>2 DEF After, FollowingIn
    <2>4. FirstOf(c, k + 1) = c
      BY <1>1, <1>3 DEF FirstOf
    <2> HIDE DEF s
    <2> QED
      BY <2>1, <2>3, <2>4 DEF Longer, s
  <1> QED
    BY <1>1, <1>2, <1>3

\* The list is what Chain computes: the equation of its recursive function has a
\* solution, the list's first nodes, and no other.
LEMMA ChainIs ==
  ASSUME NEW c, NEW node, NEW n, NEW end, Linked(c, node, n, end), IsFiniteSet(DOMAIN node)
  PROVE  /\ Threads!Chain(node, n, end) = c
         /\ Queues!Chain(node, n, end) = c
         /\ List!Chain(node, n, end) = c
  <1> DEFINE K == Cardinality(DOMAIN node)
             F(f) == [k \in 0..K |->
                        IF k = 0 THEN <<>>
                        ELSE IF FollowingIn(f[k - 1], node, n) = end THEN f[k - 1]
                             ELSE Append(f[k - 1], FollowingIn(f[k - 1], node, n))]
             first == CHOOSE f : f = F(f)
             g == [k \in 0..K |-> FirstOf(c, k)]
  <1>1. K \in Nat /\ Len(c) \in Nat /\ Len(c) <= K /\ c \in Seq(DOMAIN node)
    BY LinkedShort, FS_CardinalityType DEF Linked
  <1>2. FirstOf(c, 0) = <<>> /\ FirstOf(c, K) = c
    BY <1>1 DEF FirstOf
  <1>3. ASSUME NEW k \in Nat PROVE Longer(FirstOf(c, k), node, n, end) = FirstOf(c, k + 1)
    BY LongerIs
  <1>0. \A f : F(f) = [k \in 0..K |-> IF k = 0 THEN <<>> ELSE Longer(f[k - 1], node, n, end)]
    BY DEF Longer
  <1>7. /\ Threads!Chain(node, n, end) = first[K]
        /\ Queues!Chain(node, n, end) = first[K]
        /\ List!Chain(node, n, end) = first[K]
    <2>1. /\ Threads!Cardinality(DOMAIN node) = K
          /\ Queues!Cardinality(DOMAIN node) = K
          /\ List!Cardinality(DOMAIN node) = K
      BY CardinalityIs
    <2> HIDE DEF K
    <2>2. Threads!Chain(node, n, end) = first[K]
      BY Zenon, <2>1 DEF Threads!Chain, FollowingIn
    <2>3. Queues!Chain(node, n, end) = first[K]
      BY Zenon, <2>1 DEF Queues!Chain, FollowingIn
    <2>4. List!Chain(node, n, end) = first[K]
      BY Zenon, <2>1 DEF List!Chain, FollowingIn
    <2> QED
      BY <2>2, <2>3, <2>4
  <1>4. g = F(g)
    <2>1. \A k \in 0..K : g[k] = IF k = 0 THEN <<>> ELSE Longer(g[k - 1], node, n, end)
      <3> TAKE k \in 0..K
      <3>1. CASE k = 0
        BY <3>1, <1>2
      <3>2. CASE k # 0
        <4>1. k - 1 \in 0..K /\ k - 1 \in Nat /\ g[k - 1] = FirstOf(c, k - 1) /\ g[k] = FirstOf(c, (k - 1) + 1)
          BY <3>2, <1>1
        <4>2. Longer(FirstOf(c, k - 1), node, n, end) = FirstOf(c, (k - 1) + 1)
          BY <4>1, <1>3
        <4> QED
          BY <3>2, <4>1, <4>2
      <3> QED
        BY <3>1, <3>2
    <2>2. F(g) = [k \in 0..K |-> IF k = 0 THEN <<>> ELSE Longer(g[k - 1], node, n, end)]
      BY <1>0
    <2> HIDE DEF F
    <2> QED
      BY <2>1, <2>2
  <1>5. first = F(first)
    <2> HIDE DEF F, g
    <2> QED
      BY <1>4
  <1>6. \A k \in Nat : k <= K => first[k] = FirstOf(c, k)
    <2> DEFINE S == {k \in Nat : k <= K => first[k] = FirstOf(c, k)}
    <2>0. F(first) = [k \in 0..K |-> IF k = 0 THEN <<>> ELSE Longer(first[k - 1], node, n, end)]
      BY <1>0
    <2> HIDE DEF first, F
    <2>1. \A k \in 0..K : first[k] = IF k = 0 THEN <<>> ELSE Longer(first[k - 1], node, n, end)
      BY <1>5, <2>0
    <2>2. 0 \in S
      BY <2>1, <1>1, <1>2
    <2>3. ASSUME NEW k \in S PROVE k + 1 \in S
      <3>1. SUFFICES ASSUME k + 1 <= K PROVE first[k + 1] = FirstOf(c, k + 1)
        OBVIOUS
      <3>2. k \in Nat /\ first[k] = FirstOf(c, k)
        BY <3>1, <1>1
      <3>3. k + 1 \in 0..K /\ k + 1 # 0 /\ (k + 1) - 1 = k
        BY <3>1, <3>2, <1>1
      <3>4. first[k + 1] = Longer(first[k], node, n, end)
        BY <3>3, <2>1
      <3> QED
        BY <3>2, <3>4, <1>3
    <2>4. S = Nat
      <3> HIDE DEF S
      <3>1. S \in SUBSET Nat
        BY DEF S
      <3> QED
        BY <3>1, <2>2, <2>3, SetInduction
    <2> QED
      BY <2>4
  <1> HIDE DEF first
  <1> QED
    BY <1>1, <1>2, <1>6, <1>7

\* The values in the nodes of a list are what the queue holds, now and after a step.
ValuesOf(c, node) == [i \in 1..Len(c) |-> node[c[i]].data]

LEMMA ItemsAre ==
  ASSUME NEW c, IsFiniteSet(DOMAIN mem.node)
  PROVE  /\ Linked(c, mem.node, mem.head, mem.tail) =>
               /\ Queues!FineItems = ValuesOf(c, mem.node)
               /\ Queues!DummyItems = ValuesOf(c, mem.node)
         /\ Linked(c, mem.node, mem.head, Null) => Queues!ListItems = ValuesOf(c, mem.node)
  <1>1. ASSUME NEW end, Linked(c, mem.node, mem.head, end)
        PROVE  Queues!Chain(mem.node, mem.head, end) = c /\ DOMAIN c = 1..Len(c)
    <2>1. Queues!Chain(mem.node, mem.head, end) = c
      BY <1>1, ChainIs
    <2> QED
      BY <1>1, <2>1 DEF Linked
  <1>2. ASSUME Linked(c, mem.node, mem.head, mem.tail)
        PROVE  Queues!FineItems = ValuesOf(c, mem.node) /\ Queues!DummyItems = ValuesOf(c, mem.node)
    <2>1. Queues!Chain(mem.node, mem.head, mem.tail) = c /\ DOMAIN c = 1..Len(c)
      BY <1>1, <1>2
    <2> QED
      BY <2>1 DEF Queues!FineItems, Queues!DummyItems, Queues!ValuesTo, ValuesOf
  <1>3. ASSUME Linked(c, mem.node, mem.head, Null)
        PROVE  Queues!ListItems = ValuesOf(c, mem.node)
    <2>1. Queues!Chain(mem.node, mem.head, Null) = c /\ DOMAIN c = 1..Len(c)
      BY <1>1, <1>3
    <2> QED
      BY <2>1 DEF Queues!ListItems, Queues!ValuesTo, ValuesOf
  <1> QED
    BY <1>2, <1>3

LEMMA ItemsThen ==
  ASSUME NEW c, IsFiniteSet(DOMAIN mem'.node)
  PROVE  /\ Linked(c, mem'.node, mem'.head, mem'.tail) =>
               /\ Queues!FineItems' = ValuesOf(c, mem'.node)
               /\ Queues!DummyItems' = ValuesOf(c, mem'.node)
         /\ Linked(c, mem'.node, mem'.head, Null) => Queues!ListItems' = ValuesOf(c, mem'.node)
  <1>1. ASSUME NEW node, NEW n, NEW end, node = mem'.node, n = mem'.head,
               Linked(c, node, n, end)
        PROVE  Queues!Chain(node, n, end) = c /\ DOMAIN c = 1..Len(c)
    <2>1. Queues!Chain(node, n, end) = c
      BY <1>1, ChainIs
    <2> QED
      BY <1>1, <2>1 DEF Linked
  <1>2. ASSUME Linked(c, mem'.node, mem'.head, mem'.tail)
        PROVE  Queues!FineItems' = ValuesOf(c, mem'.node) /\ Queues!DummyItems' = ValuesOf(c, mem'.node)
    <2>1. Queues!Chain(mem'.node, mem'.head, mem'.tail) = c /\ DOMAIN c = 1..Len(c)
      BY <1>1, <1>2
    <2> QED
      BY <2>1 DEF Queues!FineItems, Queues!DummyItems, Queues!ValuesTo, ValuesOf
  <1>3. ASSUME Linked(c, mem'.node, mem'.head, Null)
        PROVE  Queues!ListItems' = ValuesOf(c, mem'.node)
    <2>1. Queues!Chain(mem'.node, mem'.head, Null) = c /\ DOMAIN c = 1..Len(c)
      BY <1>1, <1>3
    <2> QED
      BY <2>1 DEF Queues!ListItems, Queues!ValuesTo, ValuesOf
  <1> QED
    BY <1>2, <1>3

\* They stay with the list, grow with it, and go with its first node.
LEMMA ValuesStay ==
  ASSUME NEW c, NEW node, NEW node2, \A i \in 1..Len(c) : node2[c[i]].data = node[c[i]].data
  PROVE  ValuesOf(c, node2) = ValuesOf(c, node)
  BY DEF ValuesOf

LEMMA ValuesMore ==
  ASSUME NEW c, NEW d, NEW node, NEW node2, NEW v, Len(c) \in Nat, Len(d) = Len(c) + 1,
         \A i \in 1..Len(c) : d[i] = c[i] /\ node2[c[i]].data = node[c[i]].data,
         node2[d[Len(c) + 1]].data = v
  PROVE  ValuesOf(d, node2) = Append(ValuesOf(c, node), v)
  <1>1. PICK n \in Nat : n = Len(c)
    OBVIOUS
  <1>2. PICK S : S = {node[c[i]].data : i \in 1..n} \cup {v}
    OBVIOUS
  <1>3. PICK s \in Seq(S) : s = ValuesOf(c, node) /\ Len(s) = n /\ \A i \in 1..n : s[i] = node[c[i]].data
    <2>1. PICK q : q = [i \in 1..n |-> node[c[i]].data]
      OBVIOUS
    <2>2. q = ValuesOf(c, node)
      BY <1>1, <2>1 DEF ValuesOf
    <2>3. q \in [1..n -> S]
      BY <1>2, <2>1
    <2>4. q \in Seq(S) /\ Len(q) = n
      BY <2>3
    <2> QED
      BY <2>1, <2>2, <2>4
  <1>4. PICK r : r = Append(s, v)
    OBVIOUS
  <1>5. r = [i \in 1..(n + 1) |-> r[i]] /\ r[n + 1] = v /\ \A i \in 1..n : r[i] = s[i]
    <2>1. v \in S
      BY <1>2
    <2>2. r \in Seq(S) /\ Len(r) = n + 1 /\ r[n + 1] = v /\ \A i \in 1..n : r[i] = s[i]
      BY <1>3, <1>4, <2>1
    <2>3. r = [i \in 1..Len(r) |-> r[i]]
      BY <2>2
    <2> QED
      BY <2>2, <2>3
  <1>6. \A i \in 1..(n + 1) : r[i] = node2[d[i]].data
    <2>1. \A i \in 1..n : r[i] = node2[d[i]].data
      <3> TAKE i \in 1..n
      <3>1. i \in 1..Len(c)
        BY <1>1
      <3>2. d[i] = c[i] /\ node2[c[i]].data = node[c[i]].data
        BY <3>1
      <3> QED
        BY <3>2, <1>3, <1>5
    <2>2. r[n + 1] = node2[d[n + 1]].data
      BY <1>1, <1>5
    <2>3. \A i \in 1..(n + 1) : i \in 1..n \/ i = n + 1
      OBVIOUS
    <2> QED
      BY ONLY <2>1, <2>2, <2>3
  <1> QED
    BY <1>1, <1>3, <1>4, <1>5, <1>6 DEF ValuesOf

Shorter(c, d, node, node2) ==
    /\ Len(c) \in Nat /\ Len(c) > 0 /\ Len(d) = Len(c) - 1
    /\ \A i \in 1..Len(d) : d[i] = c[i + 1] /\ node2[d[i]].data = node[d[i]].data

LEMMA ValuesRest ==
  ASSUME NEW c, NEW d, NEW node, NEW node2, Shorter(c, d, node, node2)
  PROVE  /\ ValuesOf(c, node) # <<>> /\ ValuesOf(d, node2) = Tail(ValuesOf(c, node))
         /\ Head(ValuesOf(c, node)) = node[c[1]].data
  <1>1. PICK n \in Nat : n = Len(c) /\ n > 0 /\ Len(d) = n - 1
    BY DEF Shorter
  <1>2. PICK S : S = {node[c[i]].data : i \in 1..n}
    OBVIOUS
  <1>3. PICK s \in Seq(S) : s = ValuesOf(c, node) /\ Len(s) = n /\ \A i \in 1..n : s[i] = node[c[i]].data
    <2>1. PICK q : q = [i \in 1..n |-> node[c[i]].data]
      OBVIOUS
    <2>2. q = ValuesOf(c, node)
      BY <1>1, <2>1 DEF ValuesOf
    <2>3. q \in [1..n -> S]
      BY <1>2, <2>1
    <2>4. q \in Seq(S) /\ Len(q) = n
      BY <2>3
    <2> QED
      BY <2>1, <2>2, <2>4
  <1>4. s # <<>> /\ Head(s) = node[c[1]].data
    BY <1>1, <1>3
  <1>5. PICK r : r = Tail(s)
    OBVIOUS
  <1>6. r = [i \in 1..(n - 1) |-> r[i]] /\ \A i \in 1..(n - 1) : r[i] = s[i + 1]
    <2>1. r \in Seq(S) /\ Len(r) = n - 1 /\ \A i \in 1..(n - 1) : r[i] = s[i + 1]
      BY <1>3, <1>4, <1>5
    <2>2. r = [i \in 1..Len(r) |-> r[i]]
      BY <2>1
    <2> QED
      BY <2>1, <2>2
  <1>7. \A i \in 1..(n - 1) : r[i] = node2[d[i]].data
    <2> TAKE i \in 1..(n - 1)
    <2>1. i + 1 \in 1..n /\ i \in 1..Len(d)
      BY <1>1
    <2>2. d[i] = c[i + 1] /\ node2[d[i]].data = node[d[i]].data
      BY <2>1 DEF Shorter
    <2> QED
      BY <2>1, <2>2, <1>3, <1>6
  <1> QED
    BY <1>1, <1>3, <1>4, <1>5, <1>6, <1>7 DEF ValuesOf

\* There are none when the list is empty.
LEMMA ValuesEmpty ==
  ASSUME NEW c, NEW node, NEW n, NEW end, Linked(c, node, n, end)
  PROVE  ValuesOf(c, node) = <<>> <=> n = end
  <1>1. /\ n = After(c, 1, end) /\ Len(c) \in Nat
        /\ \A i \in 1..Len(c) : c[i] # end
    BY DEF Linked
  <1>2. n = end <=> Len(c) = 0
    BY <1>1 DEF After
  <1>3. DOMAIN ValuesOf(c, node) = 1..Len(c)
    BY DEF ValuesOf
  <1>4. Len(c) = 0 => ValuesOf(c, node) = <<>>
    BY DEF ValuesOf
  <1>5. Len(c) # 0 => ValuesOf(c, node) # <<>>
    <2>1. DOMAIN <<>> = {}
      OBVIOUS
    <2>2. Len(c) # 0 => 1 \in 1..Len(c)
      BY <1>1
    <2> QED
      BY <1>3, <2>1, <2>2
  <1> QED
    BY <1>2, <1>4, <1>5

\* A list in memory that changes elsewhere.
LEMMA LinkedStays ==
  ASSUME NEW c, NEW node, NEW n, NEW end, Linked(c, node, n, end), NEW node2,
         \A i \in 1..Len(c) : c[i] \in DOMAIN node2 /\ node2[c[i]].next = node[c[i]].next
  PROVE  Linked(c, node2, n, end)
  <1>1. c \in Seq(DOMAIN node)
    BY DEF Linked
  <1>2. c \in Seq(DOMAIN node2)
    <2>1. c = [i \in 1..Len(c) |-> c[i]] /\ Len(c) \in Nat
      BY <1>1
    <2> QED
      BY <2>1
  <1> QED
    BY <1>2 DEF Linked

\* The list without its first node, if it has one.
LEMMA LinkedRest ==
  ASSUME NEW c, NEW node, NEW n, NEW end, Linked(c, node, n, end), n # end
  PROVE  /\ c # <<>> /\ Head(c) = n /\ c[1] = n /\ n \in DOMAIN node /\ Len(c) \in Nat /\ Len(c) > 0
         /\ Linked(Tail(c), node, node[n].next, end)
         /\ \A i \in 1..Len(Tail(c)) : Tail(c)[i] = c[i + 1] /\ i + 1 \in 1..Len(c) /\ Tail(c)[i] # n
         /\ Len(Tail(c)) = Len(c) - 1 /\ Tail(c) \in Seq(DOMAIN node)
  <1>1. c \in Seq(DOMAIN node) /\ n = After(c, 1, end)
    BY DEF Linked
  <1>2. PICK l \in Nat : l = Len(c)
    BY <1>1
  <1>3. l > 0 /\ n = c[1]
    BY <1>1, <1>2 DEF After
  <1>4. c # <<>> /\ Head(c) = n /\ n \in DOMAIN node
    BY <1>1, <1>2, <1>3
  <1>5. /\ Tail(c) \in Seq(DOMAIN node) /\ Len(Tail(c)) = l - 1
        /\ \A i \in 1..(l - 1) : Tail(c)[i] = c[i + 1]
    BY <1>1, <1>2, <1>4
  <1>6. \A i \in 1..(l - 1) : i + 1 \in 1..l /\ c[i + 1] # n /\ c[i + 1] # end
    BY <1>2, <1>3 DEF Linked
  <1>7. \A i, j \in 1..(l - 1) : Tail(c)[i] = Tail(c)[j] => i = j
    <2> TAKE i, j \in 1..(l - 1)
    <2>1. i + 1 \in 1..l /\ j + 1 \in 1..l /\ (c[i + 1] = c[j + 1] => i + 1 = j + 1)
      BY <1>2, <1>3 DEF Linked
    <2> QED
      BY <1>5, <2>1
  <1>8. ASSUME NEW i \in 1..(l - 1)
        PROVE  node[Tail(c)[i]].next = After(Tail(c), i + 1, end)
    <2>1. i + 1 \in 1..l /\ node[c[i + 1]].next = After(c, (i + 1) + 1, end)
      BY <1>2, <1>3 DEF Linked
    <2>2. Tail(c)[i] = c[i + 1]
      BY <1>5
    <2>3. After(Tail(c), i + 1, end) = After(c, (i + 1) + 1, end)
      <3>1. CASE i + 1 <= l - 1
        <4>1. i + 1 \in 1..(l - 1) /\ (i + 1) + 1 <= l
          BY <3>1, <1>3
        <4> QED
          BY <3>1, <4>1, <1>2, <1>5 DEF After
      <3>2. CASE ~(i + 1 <= l - 1)
        BY <3>2, <1>2, <1>5 DEF After
      <3> QED
        BY <3>1, <3>2
    <2> QED
      BY <2>1, <2>2, <2>3
  <1>9. node[n].next = After(Tail(c), 1, end)
    <2>1. 1 \in 1..l /\ node[c[1]].next = After(c, 1 + 1, end)
      BY <1>2, <1>3 DEF Linked
    <2>2. After(c, 1 + 1, end) = After(Tail(c), 1, end)
      <3>1. CASE l = 1
        BY <3>1, <1>2, <1>5 DEF After
      <3>2. CASE l # 1
        <4>1. 1 \in 1..(l - 1)
          BY <3>2, <1>3
        <4> QED
          BY <3>2, <4>1, <1>2, <1>3, <1>5 DEF After
      <3> QED
        BY <3>1, <3>2
    <2> QED
      BY <1>3, <2>1, <2>2
  <1>10. Linked(Tail(c), node, node[n].next, end)
    BY <1>5, <1>6, <1>7, <1>8, <1>9 DEF Linked
  <1> QED
    BY <1>2, <1>3, <1>4, <1>5, <1>6, <1>10

\* The list that goes on to another end.
LEMMA LinkedMore ==
  ASSUME NEW c, NEW node, NEW n, NEW end, Linked(c, node, n, end), NEW new,
         end \in DOMAIN node, node[end].next = new, new # end, \A i \in 1..Len(c) : c[i] # new
  PROVE  /\ Linked(Append(c, end), node, n, new)
         /\ Len(c) \in Nat /\ Len(Append(c, end)) = Len(c) + 1 /\ Append(c, end)[Len(c) + 1] = end
         /\ \A i \in 1..Len(c) : Append(c, end)[i] = c[i]
         /\ Append(c, end) \in Seq(DOMAIN node)
  <1>1. c \in Seq(DOMAIN node) /\ n = After(c, 1, end)
    BY DEF Linked
  <1>2. PICK l \in Nat : l = Len(c)
    BY <1>1
  <1> DEFINE d == Append(c, end)
  <1>3. /\ d \in Seq(DOMAIN node) /\ Len(d) = l + 1 /\ d[l + 1] = end
        /\ \A i \in 1..l : d[i] = c[i]
    BY <1>1, <1>2
  <1> HIDE DEF d
  <1>4. \A i, j \in 1..(l + 1) : d[i] = d[j] => i = j
    <2> SUFFICES ASSUME NEW i \in 1..(l + 1), NEW j \in 1..(l + 1), d[i] = d[j] PROVE i = j
      OBVIOUS
    <2>1. CASE i \in 1..l /\ j \in 1..l
      BY <2>1, <1>2, <1>3 DEF Linked
    <2>2. CASE i = l + 1 /\ j \in 1..l
      BY <2>2, <1>2, <1>3 DEF Linked
    <2>3. CASE j = l + 1 /\ i \in 1..l
      BY <2>3, <1>2, <1>3 DEF Linked
    <2> QED
      BY <2>1, <2>2, <2>3
  <1>5. \A i \in 1..(l + 1) : d[i] # new
    BY <1>2, <1>3
  <1>6. n = After(d, 1, new)
    BY <1>1, <1>2, <1>3 DEF After
  <1>7. ASSUME NEW i \in 1..(l + 1) PROVE node[d[i]].next = After(d, i + 1, new)
    <2>1. CASE i = l + 1
      BY <2>1, <1>3 DEF After
    <2>2. CASE i = l
      <3>1. node[c[l]].next = After(c, l + 1, end) /\ i \in 1..l
        BY <2>2, <1>2 DEF Linked
      <3>2. node[c[l]].next = end
        BY <3>1, <1>2 DEF After
      <3> QED
        BY <2>2, <3>1, <3>2, <1>3 DEF After
    <2>3. CASE i < l
      <3>1. i \in 1..l /\ i + 1 \in 1..l /\ node[c[i]].next = After(c, i + 1, end)
        BY <2>3, <1>2 DEF Linked
      <3> QED
        BY <2>3, <3>1, <1>2, <1>3 DEF After
    <2> QED
      BY <2>1, <2>2, <2>3
  <1>8. Linked(d, node, n, new)
    BY <1>3, <1>4, <1>5, <1>6, <1>7 DEF Linked
  <1> QED
    BY <1>2, <1>3, <1>8 DEF d

------------------------------------------------------------------------------
(* Calls of a queue *)

\* What is pushed, and what a call may return.
Data == (Thread \X Nat) \cup {Null}
Answers == Data \cup {Queues!NotEmpty}
Nodes == [data : Data, next : Nat \cup {Null}]

\* The calls to come are the last of those a thread was to make.
Remaining(t) ==
    /\ Len(th[t].todo) <= Len(calls[t])
    /\ \A i \in 1..Len(th[t].todo) :
          th[t].todo[i] = calls[t][Len(calls[t]) - Len(th[t].todo) + i]

Calling ==
    /\ Threading /\ calls \in [Thread -> Seq(Operations)]
    /\ \A t \in Thread : th[t].got \in Seq(Answers) /\ Remaining(t)

\* What has been pushed is in K.
Keeps(K) ==
    \A t \in Thread :
        /\ Pushed(t) \subseteq K
        /\ th[t].pc \in {"pushed", "notify"} => Queues!Item(t) \in K

Returned == UNION {ToSet(th[t].got) : t \in Thread}

\* A step of thread t that makes new of the values old is a push, a pop, a look or
\* nothing to those who see the values and what the calls return.
Does(t, old, new) ==
    /\ \A u \in Thread : u # t => th'[u].got = th[u].got
    /\ \/ new = old /\ th'[t].got = th[t].got
       \/ new = Append(old, Queues!Item(t)) /\ th[t].todo # <<>> /\ th'[t].got = th[t].got
       \/ old # <<>> /\ new = Tail(old) /\ th'[t].got = Append(th[t].got, Head(old))
       \/ /\ new = old
          /\ th'[t].got = Append(th[t].got, IF old = <<>> THEN Null ELSE Queues!NotEmpty)

\* A thread that is woken, and no other change.
Woken(u) == th[u].pc = "asleep" /\ th'[u] = [th[u] EXCEPT !.pc = "woken"]

\* notify_one by a thread that then returns.
LEMMA NotifyIs ==
  ASSUME Threading, NEW t \in Thread, NEW got, th[t].pc \in {"pushed", "notify"},
         Queues!notify_one(t, Queues!Returned(t, got))
  PROVE  /\ Threading' /\ th'[t].pc \in Operations \cup {"done"}
         /\ th'[t].todo = Tail(th[t].todo) /\ th[t].todo # <<>> /\ th'[t].got = got
         /\ \A u \in Thread : u # t => th'[u] = th[u] \/ Woken(u)
         /\ (\E u \in Thread : th[u].pc = "asleep") =>
               \E w \in Thread : w # t /\ Woken(w) /\ \A u \in Thread : u \notin {t, w} => th'[u] = th[u]
         /\ (\A u \in Thread : th[u].pc # "asleep") => \A u \in Thread : u # t => th'[u] = th[u]
  <1> DEFINE own == Threads!Returned(t, got)
             rest == Tail(th[t].todo)
  <1>0. Queues!Returned(t, got) = own
    BY DEF Queues!Returned, Threads!Returned, Queues!Started, Threads!Started
  <1>1. th[t].todo # <<>> /\ rest \in Seq(Operations)
    BY DEF Threading
  <1>2. /\ own.pc = Head(Append(rest, "done")) /\ own.todo = rest /\ own.got = got
        /\ {"pc", "todo", "got"} \subseteq DOMAIN own
    BY DEF Threads!Returned, Threads!Started
  <1> HIDE DEF rest, own
  <1>3. Head(Append(rest, "done")) = IF rest = <<>> THEN "done" ELSE Head(rest)
    BY <1>1
  <1>4. rest # <<>> => Head(rest) \in Operations
    BY <1>1
  <1>5. "done" \notin Operations /\ "woken" \notin Operations
    BY DEF Operations
  <1>6. CASE Queues!Asleep = {}
    <2>1. th' = [th EXCEPT ![t] = own]
      BY <1>0, <1>6 DEF Queues!notify_one
    <2>2. DOMAIN th' = Thread /\ th'[t] = own /\ \A u \in Thread : u # t => th'[u] = th[u]
      BY <2>1 DEF Threading
    <2>3. \A u \in Thread : th[u].pc # "asleep"
      BY <1>6 DEF Queues!Asleep, Queues!At
    <2>4. Threading'
      BY <1>1, <1>2, <1>3, <1>4, <1>5, <2>2 DEF Threading
    <2> QED
      BY <1>1, <1>2, <1>3, <1>4, <2>2, <2>3, <2>4 DEF rest
  <1>7. CASE Queues!Asleep # {}
    <2>1. PICK w \in Queues!Asleep : th' = [th EXCEPT ![w].pc = "woken", ![t] = own]
      BY <1>0, <1>7 DEF Queues!notify_one
    <2>2. w \in Thread /\ th[w].pc = "asleep" /\ w # t
      BY <2>1 DEF Queues!Asleep, Queues!At
    <2>3. /\ DOMAIN th' = Thread /\ th'[t] = own /\ th'[w] = [th[w] EXCEPT !.pc = "woken"]
          /\ \A u \in Thread : u \notin {t, w} => th'[u] = th[u]
      BY <2>1, <2>2 DEF Threading
    <2>4. Woken(w)
      BY <2>2, <2>3 DEF Woken
    <2>5. /\ DOMAIN th'[w] = DOMAIN th[w] /\ th'[w].pc = "woken" /\ th'[w].todo = th[w].todo
          /\ {"pc", "todo", "got"} \subseteq DOMAIN th[w] /\ th[w].todo \in Seq(Operations)
          /\ th[w].todo # <<>>
      BY <2>2, <2>3 DEF Threading
    <2>6. Threading'
      <3>1. ASSUME NEW u \in Thread
            PROVE  /\ {"pc", "todo", "got"} \subseteq DOMAIN th'[u]
                   /\ th'[u].todo \in Seq(Operations)
                   /\ th'[u].pc = "done" <=> th'[u].todo = <<>>
                   /\ th'[u].pc \in Operations => th'[u].pc = Head(th'[u].todo)
        <4>1. CASE u = t
          BY <4>1, <1>1, <1>2, <1>3, <1>4, <1>5, <2>3
        <4>2. CASE u = w
          BY <4>2, <2>5, <1>5
        <4>3. CASE u \notin {t, w}
          BY <4>3, <2>3 DEF Threading
        <4> QED
          BY <4>1, <4>2, <4>3
      <3> QED
        BY <2>3, <3>1 DEF Threading
    <2> QED
      BY <1>1, <1>2, <1>3, <1>4, <2>2, <2>3, <2>4, <2>6 DEF rest
  <1> QED
    BY <1>6, <1>7

\* A thread goes on, or its call returns, or it wakes another and returns.
LEMMA CallingGoesOn ==
  ASSUME Calling, calls' = calls, NEW t \in Thread, NEW shared, NEW own, GoesOn(t, shared, own),
         "todo" \notin DOMAIN own, th[t].pc # "done",
         "pc" \in DOMAIN own => own.pc \notin Operations \cup {"done"},
         "got" \in DOMAIN own => own.got \in Seq(Answers)
  PROVE  /\ Calling' /\ \A u \in Thread : th'[u].todo = th[u].todo
         /\ \A x \in DOMAIN own : x \in DOMAIN th'[t] /\ th'[t][x] = own[x]
         /\ \A x \in DOMAIN th[t] : x \notin DOMAIN own => x \in DOMAIN th'[t] /\ th'[t][x] = th[t][x]
         /\ th[t].todo # <<>>
  <1>1. /\ Threading'
        /\ \A x \in DOMAIN own : x \in DOMAIN th'[t] /\ th'[t][x] = own[x]
        /\ \A x \in DOMAIN th[t] : x \notin DOMAIN own => x \in DOMAIN th'[t] /\ th'[t][x] = th[t][x]
        /\ th'[t].todo = th[t].todo /\ th[t].todo # <<>>
    BY GoesOnIs DEF Calling
  <1>2. \A u \in Thread : u # t => th'[u] = th[u]
    BY DEF GoesOn, Changes
  <1>3. \A u \in Thread : th'[u].todo = th[u].todo
    BY <1>1, <1>2
  <1>4. th'[t].got \in Seq(Answers)
    BY <1>1 DEF Calling, Threading
  <1>5. \A u \in Thread : Remaining(u)'
    BY <1>3 DEF Remaining, Calling
  <1>6. \A u \in Thread : th'[u].got \in Seq(Answers)
    BY <1>2, <1>4 DEF Calling
  <1> QED
    BY <1>1, <1>3, <1>5, <1>6 DEF Calling

\* The calls of a thread whose call has returned.
LEMMA RemainingNext ==
  ASSUME Calling, calls' = calls, NEW t \in Thread, th[t].todo # <<>>,
         th'[t].todo = Tail(th[t].todo)
  PROVE  /\ Remaining(t)'
         /\ Pushed(t)' \subseteq Pushed(t) \cup (IF Head(th[t].todo) = "push" THEN {Queues!Item(t)} ELSE {})
  <1>1. PICK s \in Seq(Operations) : s = th[t].todo
    BY DEF Calling, Threading
  <1>2. PICK all \in Seq(Operations) : all = calls[t]
    BY DEF Calling
  <1>3. PICK n \in Nat, N \in Nat : n = Len(s) /\ N = Len(all)
    BY <1>1, <1>2
  <1>4. n > 0 /\ n <= N /\ Len(Tail(s)) = n - 1
        /\ (\A i \in 1..(n - 1) : Tail(s)[i] = s[i + 1]) /\ Head(s) = s[1]
    <2>1. Remaining(t)
      BY DEF Calling
    <2>2. n <= N
      BY <1>1, <1>2, <1>3, <2>1 DEF Remaining
    <2>3. s # <<>>
      BY <1>1
    <2> QED
      BY <1>3, <2>2, <2>3
  <1>5. \A i \in 1..n : s[i] = all[N - n + i]
    <2>1. Remaining(t)
      BY DEF Calling
    <2> QED
      BY <1>1, <1>2, <1>3, <2>1 DEF Remaining
  <1>6. Remaining(t)'
    <2>1. \A i \in 1..(n - 1) : Tail(s)[i] = all[N - (n - 1) + i]
      <3> TAKE i \in 1..(n - 1)
      <3>1. i + 1 \in 1..n /\ N - n + (i + 1) = N - (n - 1) + i
        BY <1>4
      <3>2. s[i + 1] = all[N - n + (i + 1)]
        BY <3>1, <1>5
      <3>3. Tail(s)[i] = s[i + 1]
        BY <1>4
      <3> QED
        BY <3>1, <3>2, <3>3
    <2>2. th'[t].todo = Tail(s) /\ calls'[t] = all
      BY <1>1, <1>2
    <2>3. Len(th'[t].todo) = n - 1 /\ Len(calls'[t]) = N /\ n - 1 <= N
      <3>1. Len(th'[t].todo) = n - 1
        BY <1>4, <2>2
      <3>2. Len(calls'[t]) = N
        BY <1>3, <2>2
      <3>3. n - 1 <= N
        BY <1>4
      <3> QED
        BY <3>1, <3>2, <3>3
    <2>4. \A i \in 1..Len(th'[t].todo) :
             th'[t].todo[i] = calls'[t][Len(calls'[t]) - Len(th'[t].todo) + i]
      BY <2>1, <2>2, <2>3
    <2> QED
      BY <2>3, <2>4 DEF Remaining
  <1>7. ASSUME NEW v \in Pushed(t)', v \notin Pushed(t)
        PROVE  Head(th[t].todo) = "push" /\ v = Queues!Item(t)
    <2>1. PICK k \in ((n - 1) + 1)..N : all[N + 1 - k] = "push" /\ v = <<t, k>>
      <3>1. v \in {<<t, k>> : k \in {k \in ((n - 1) + 1)..N : all[N + 1 - k] = "push"}}
        BY <1>1, <1>2, <1>3, <1>4, <1>7 DEF Pushed
      <3> QED
        BY <3>1
    <2>2. k \notin (n + 1)..N
      BY <1>1, <1>2, <1>3, <1>7, <2>1 DEF Pushed
    <2>3. k = n
      BY <1>4, <2>1, <2>2
    <2>4. all[N + 1 - n] = s[1]
      BY <1>4, <1>5
    <2> QED
      BY <1>1, <1>3, <1>4, <2>1, <2>3, <2>4 DEF Queues!Item
  <1> QED
    BY <1>6, <1>7

\* What the threads do that a step only wakes or leaves alone.
LEMMA OthersRemain ==
  ASSUME Calling, calls' = calls, NEW u \in Thread, th'[u] = th[u] \/ Woken(u)
  PROVE  /\ th'[u].todo = th[u].todo /\ th'[u].got = th[u].got /\ Remaining(u)'
         /\ Pushed(u)' = Pushed(u) /\ Queues!Item(u)' = Queues!Item(u)
  <1>1. th'[u].todo = th[u].todo /\ th'[u].got = th[u].got
    BY DEF Woken, Calling, Threading
  <1> QED
    BY <1>1 DEF Remaining, Pushed, Queues!Item, Calling

\* A call returns.
LEMMA CallingEnds ==
  ASSUME Calling, calls' = calls, NEW t \in Thread, NEW got \in Seq(Answers),
         Threading', th'[t].todo = Tail(th[t].todo), th[t].todo # <<>>, th'[t].got = got,
         \A u \in Thread : u # t => th'[u] = th[u] \/ Woken(u)
  PROVE  Calling'
  <1>1. Remaining(t)'
    BY RemainingNext
  <1>2. \A u \in Thread : Remaining(u)' /\ th'[u].got \in Seq(Answers)
    BY <1>1, OthersRemain DEF Calling
  <1> QED
    BY <1>2 DEF Calling

\* What has been pushed is kept while a thread goes on,
LEMMA KeepsGoesOn ==
  ASSUME Calling, calls' = calls, NEW t \in Thread, NEW K, NEW L, Keeps(K), K \subseteq L,
         \A u \in Thread : u # t => th'[u] = th[u] \/ Woken(u),
         th'[t].todo = th[t].todo, th'[t].pc \in {"pushed", "notify"} => Queues!Item(t) \in L
  PROVE  Keeps(L)'
  <1>1. Pushed(t)' = Pushed(t) /\ Queues!Item(t)' = Queues!Item(t)
    BY DEF Pushed, Queues!Item, Calling
  <1>2. \A u \in Thread : u # t => Pushed(u)' = Pushed(u) /\ Queues!Item(u)' = Queues!Item(u)
    BY OthersRemain
  <1>3. \A u \in Thread : u # t => (th'[u].pc \in {"pushed", "notify"} => th[u].pc = th'[u].pc)
    BY DEF Woken, Calling, Threading
  <1> QED
    BY <1>1, <1>2, <1>3 DEF Keeps

\* and when its call returns.
LEMMA KeepsEnds ==
  ASSUME Calling, calls' = calls, NEW t \in Thread, NEW K, NEW L, Keeps(K), K \subseteq L,
         \A u \in Thread : u # t => th'[u] = th[u] \/ Woken(u),
         th[t].todo # <<>>, th'[t].todo = Tail(th[t].todo), th'[t].pc \in Operations \cup {"done"},
         Head(th[t].todo) = "push" => Queues!Item(t) \in L
  PROVE  Keeps(L)'
  <1>1. Pushed(t)' \subseteq L
    BY RemainingNext DEF Keeps
  <1>2. th'[t].pc \notin {"pushed", "notify"}
    BY DEF Operations
  <1>3. ASSUME NEW u \in Thread, u # t
        PROVE  Pushed(u)' \subseteq L /\ (th'[u].pc \in {"pushed", "notify"} => Queues!Item(u)' \in L)
    <2>1. Pushed(u)' = Pushed(u) /\ Queues!Item(u)' = Queues!Item(u)
      BY <1>3, OthersRemain
    <2>2. th'[u].pc \in {"pushed", "notify"} => th[u].pc = th'[u].pc
      BY <1>3 DEF Woken, Calling, Threading
    <2> QED
      BY <2>1, <2>2 DEF Keeps
  <1> QED
    BY <1>1, <1>2, <1>3 DEF Keeps


\* and when it does either.
Follows(t) ==
    \/ th'[t].todo = th[t].todo /\ th'[t].pc \notin {"pushed", "notify"}
    \/ /\ th[t].todo # <<>> /\ th'[t].todo = Tail(th[t].todo)
       /\ th'[t].pc \in Operations \cup {"done"}
       /\ Head(th[t].todo) = "push" => th[t].pc \in {"pushed", "notify"}

LEMMA KeepsOn ==
  ASSUME Calling, calls' = calls, NEW t \in Thread, NEW K, NEW L, Keeps(K), K \subseteq L,
         \A u \in Thread : u # t => th'[u] = th[u] \/ Woken(u), Follows(t)
  PROVE  Keeps(L)'
  <1>1. ASSUME th'[t].todo = th[t].todo, th'[t].pc \notin {"pushed", "notify"}
        PROVE  Keeps(L)'
    BY <1>1, KeepsGoesOn
  <1>2. ASSUME th[t].todo # <<>>, th'[t].todo = Tail(th[t].todo),
               th'[t].pc \in Operations \cup {"done"},
               Head(th[t].todo) = "push" => th[t].pc \in {"pushed", "notify"}
        PROVE  Keeps(L)'
    <2>1. Head(th[t].todo) = "push" => Queues!Item(t) \in L
      BY <1>2 DEF Keeps
    <2> QED
      BY <1>2, <2>1, KeepsEnds
  <1> QED
    BY <1>1, <1>2 DEF Follows

\* The members of a sequence with one more, and of one without its first.
LEMMA AppendIs ==
  ASSUME NEW S, NEW s \in Seq(S), NEW a \in S
  PROVE  /\ Append(s, a) \in Seq(S) /\ Len(s) \in Nat /\ Len(Append(s, a)) = Len(s) + 1
         /\ ToSet(Append(s, a)) = ToSet(s) \cup {a}
  <1>1. PICK n \in Nat : n = Len(s)
    OBVIOUS
  <1>2. PICK r : r = Append(s, a)
    OBVIOUS
  <1>3. r \in Seq(S) /\ Len(r) = n + 1 /\ r[n + 1] = a /\ \A i \in 1..n : r[i] = s[i]
    BY <1>1, <1>2
  <1>4. ToSet(s) = {s[i] : i \in 1..n} /\ ToSet(r) = {r[i] : i \in 1..(n + 1)}
    <2>1. DOMAIN s = 1..n /\ DOMAIN r = 1..(n + 1)
      BY <1>1, <1>3
    <2> QED
      BY <2>1 DEF ToSet
  <1>5. \A i \in 1..(n + 1) : i \in 1..n \/ i = n + 1
    BY <1>1
  <1>6. n + 1 \in 1..(n + 1) /\ 1..n \subseteq 1..(n + 1)
    BY <1>1
  <1>7. ToSet(r) \subseteq ToSet(s) \cup {a}
    BY <1>3, <1>4, <1>5
  <1>8. ToSet(s) \cup {a} \subseteq ToSet(r)
    BY <1>3, <1>4, <1>6
  <1> QED
    BY <1>1, <1>2, <1>3, <1>7, <1>8

LEMMA TailIs ==
  ASSUME NEW S, NEW s \in Seq(S), s # <<>>
  PROVE  /\ Tail(s) \in Seq(S) /\ Len(s) \in Nat /\ Len(Tail(s)) = Len(s) - 1 /\ Head(s) \in S
         /\ ToSet(s) \subseteq ToSet(Tail(s)) \cup {Head(s)}
  <1>1. PICK n \in Nat : n = Len(s)
    OBVIOUS
  <1>2. PICK r : r = Tail(s)
    OBVIOUS
  <1>3. n > 0 /\ r \in Seq(S) /\ Len(r) = n - 1 /\ Head(s) = s[1] /\ \A i \in 1..(n - 1) : r[i] = s[i + 1]
    BY <1>1, <1>2
  <1>4. ToSet(s) = {s[i] : i \in 1..n} /\ ToSet(r) = {r[i] : i \in 1..(n - 1)}
    <2>1. DOMAIN s = 1..n /\ DOMAIN r = 1..(n - 1)
      BY <1>1, <1>3
    <2> QED
      BY <2>1 DEF ToSet
  <1>5. ASSUME NEW i \in 1..n PROVE s[i] = Head(s) \/ s[i] \in ToSet(r)
    <2>1. CASE i = 1
      BY <2>1, <1>3
    <2>2. CASE i # 1
      <3>1. i - 1 \in 1..(n - 1) /\ (i - 1) + 1 = i
        BY <2>2
      <3>2. r[i - 1] = s[i]
        BY <3>1, <1>3
      <3> QED
        BY <3>1, <3>2, <1>4
    <2> QED
      BY <2>1, <2>2
  <1>6. ToSet(s) \subseteq ToSet(r) \cup {Head(s)}
    BY <1>4, <1>5
  <1>7. Head(s) \in S
    BY <1>1, <1>3
  <1> QED
    BY <1>1, <1>2, <1>3, <1>6, <1>7

\* What has been returned stays so.
LEMMA ReturnedMore ==
  ASSUME Calling, calls' = calls, NEW t \in Thread, NEW a \in Answers,
         \A u \in Thread : u # t => th'[u] = th[u] \/ Woken(u),
         th'[t].got \in {th[t].got, Append(th[t].got, a)}
  PROVE  Returned \subseteq Returned' /\ (th'[t].got = Append(th[t].got, a) => a \in Returned')
  <1>1. PICK s \in Seq(Answers) : s = th[t].got
    BY DEF Calling
  <1>2. ToSet(s) \subseteq ToSet(Append(s, a)) /\ a \in ToSet(Append(s, a))
    BY AppendIs
  <1>3. ToSet(th[t].got) \subseteq ToSet(th'[t].got)
    BY <1>1, <1>2
  <1>4. \A u \in Thread : ToSet(th[u].got) \subseteq ToSet(th'[u].got)
    BY <1>3, OthersRemain
  <1>5. Returned \subseteq Returned'
    BY <1>4 DEF Returned
  <1>6. th'[t].got = Append(th[t].got, a) => a \in Returned'
    BY <1>1, <1>2 DEF Returned
  <1> QED
    BY <1>5, <1>6

------------------------------------------------------------------------------
(* The queue with a mutex at each end *)

\* The node that only thread t knows: the dummy to come, or the old head.
FinePrivate(t) ==
    IF th[t].pc \in {"data", "next", "tail"} THEN {th[t].new_tail}
    ELSE IF th[t].pc = "free" THEN {th[t].old_head}
    ELSE {}

\* Who pushes has the mutex of the tail, who pops that of the head; the first node is
\* not the last while it is taken.
FineSafe(t) ==
    /\ th[t].pc \in Operations \cup {"done", "data", "next", "tail", "pushed", "compare",
                                     "value", "move", "free", "sleep", "asleep", "woken"}
    /\ th[t].pc \in {"data", "next", "tail"} => "new_tail" \in DOMAIN th[t] /\ mem.tail_mutex = t
    /\ th[t].pc \in {"next", "tail"} => mem.node[mem.tail].data = Queues!Item(t)
    /\ th[t].pc = "tail" => mem.node[mem.tail].next = th[t].new_tail
    /\ th[t].pc \in {"data", "next", "tail", "pushed"} => Head(th[t].todo) = "push"
    /\ th[t].pc \in {"compare", "value", "move", "sleep"} => mem.head_mutex = t
    /\ th[t].pc \in {"value", "move"} => mem.head # mem.tail
    /\ th[t].pc = "move" => "value" \in DOMAIN th[t] /\ th[t].value = mem.node[mem.head].data
    /\ th[t].pc = "free" => "old_head" \in DOMAIN th[t]
    /\ th[t].pc \in {"compare", "value", "move", "free", "sleep", "asleep", "woken"} =>
          Head(th[t].todo) # "push"

FineMemory ==
    /\ {"node", "head", "tail", "head_mutex", "tail_mutex"} \subseteq DOMAIN mem
    /\ IsFiniteSet(DOMAIN mem.node) /\ DOMAIN mem.node \subseteq Nat
    /\ \A n \in DOMAIN mem.node : mem.node[n] \in Nodes

\* c are the nodes of the queue, up to the dummy: no thread's own node is among
\* them, and they hold what has been pushed and not returned.
DataOf(c) == {mem.node[c[i]].data : i \in 1..Len(c)}
NodesOf(c) == {c[i] : i \in 1..Len(c)}
FineList(c) ==
    /\ Linked(c, mem.node, mem.head, mem.tail) /\ mem.tail \in DOMAIN mem.node
    /\ \A t \in Thread :
        /\ FinePrivate(t) \subseteq DOMAIN mem.node \ (NodesOf(c) \cup {mem.tail})
        /\ \A u \in Thread : u # t => FinePrivate(t) \cap FinePrivate(u) = {}
    /\ Keeps(DataOf(c) \cup Returned)

FineInv == Calling /\ FineMemory /\ (\A t \in Thread : FineSafe(t)) /\ \E c : FineList(c)

\* What a step is to the atomic queue.
FineActs(t) == Does(t, Queues!FineItems, Queues!FineItems')

\* A step that leaves the list as it is.
LEMMA FineStays ==
  ASSUME NEW c, FineList(c), Calling, calls' = calls, NEW t \in Thread,
         \A u \in Thread : u # t => th'[u] = th[u] \/ Woken(u),
         mem'.head = mem.head, mem'.tail = mem.tail, mem.tail \in DOMAIN mem'.node,
         \A n \in NodesOf(c) : n \in DOMAIN mem'.node /\ mem'.node[n] = mem.node[n],
         \A u \in Thread : u # t => FinePrivate(u) \subseteq DOMAIN mem'.node,
         FinePrivate(t)' \subseteq DOMAIN mem'.node \ (NodesOf(c) \cup {mem.tail}),
         \A u \in Thread : u # t => FinePrivate(t)' \cap FinePrivate(u) = {},
         Follows(t), Returned \subseteq Returned'
  PROVE  FineList(c)'
  <1>1. NodesOf(c)' = NodesOf(c)
    BY DEF NodesOf
  <1>2. DataOf(c)' = DataOf(c)
    BY DEF DataOf, NodesOf
  <1>3. Linked(c, mem'.node, mem'.head, mem'.tail)
    <2>1. Linked(c, mem.node, mem.head, mem.tail)
      BY DEF FineList
    <2>2. \A i \in 1..Len(c) : c[i] \in DOMAIN mem'.node /\ mem'.node[c[i]].next = mem.node[c[i]].next
      BY DEF NodesOf
    <2>3. Linked(c, mem'.node, mem.head, mem.tail)
      BY ONLY <2>1, <2>2, LinkedStays
    <2> QED
      BY <2>3
  <1>4. ASSUME NEW u \in Thread, u # t PROVE FinePrivate(u)' = FinePrivate(u)
    BY <1>4 DEF FinePrivate, Woken, Calling, Threading
  <1>5. ASSUME NEW u \in Thread
        PROVE  /\ FinePrivate(u)' \subseteq DOMAIN mem'.node \ (NodesOf(c) \cup {mem.tail})
               /\ \A v \in Thread : v # u => FinePrivate(u)' \cap FinePrivate(v)' = {}
    BY <1>4 DEF FineList
  <1>6. Keeps(DataOf(c) \cup Returned)'
    <2>1. PICK K : K = DataOf(c) \cup Returned
      OBVIOUS
    <2>2. PICK L : L = (DataOf(c) \cup Returned)'
      OBVIOUS
    <2>3. Keeps(K) /\ K \subseteq L
      BY <1>2, <2>1, <2>2 DEF FineList
    <2>4. Keeps(L)'
      BY <2>3, KeepsOn
    <2> QED
      BY <2>2, <2>4 DEF Keeps
  <1> QED
    BY <1>1, <1>3, <1>5, <1>6 DEF FineList

\* The values are the same when the list is.
LEMMA FineSame ==
  ASSUME FineMemory, IsFiniteSet(DOMAIN mem'.node), NEW c, FineList(c),
         mem'.head = mem.head, mem'.tail = mem.tail,
         \A n \in NodesOf(c) : n \in DOMAIN mem'.node /\ mem'.node[n] = mem.node[n]
  PROVE  Queues!FineItems' = Queues!FineItems
  <1>1. Linked(c, mem.node, mem.head, mem.tail)
    BY DEF FineList
  <1>2. \A i \in 1..Len(c) : c[i] \in DOMAIN mem'.node /\ mem'.node[c[i]] = mem.node[c[i]]
    BY DEF NodesOf
  <1>3. Linked(c, mem'.node, mem'.head, mem'.tail)
    <2>1. Linked(c, mem'.node, mem.head, mem.tail)
      BY <1>1, <1>2, LinkedStays
    <2> QED
      BY <2>1
  <1>4. Queues!FineItems = ValuesOf(c, mem.node)
    <2>1. IsFiniteSet(DOMAIN mem.node)
      BY DEF FineMemory
    <2> QED
      BY ONLY <1>1, <2>1, ItemsAre
  <1>5. Queues!FineItems' = ValuesOf(c, mem'.node)
    BY ONLY <1>3, IsFiniteSet(DOMAIN mem'.node), ItemsThen
  <1>6. ValuesOf(c, mem'.node) = ValuesOf(c, mem.node)
    BY <1>2, ValuesStay
  <1> QED
    BY <1>4, <1>5, <1>6

LEMMA FineIdle ==
  ASSUME FineMemory, IsFiniteSet(DOMAIN mem'.node), NEW c, FineList(c), NEW t \in Thread,
         mem'.head = mem.head, mem'.tail = mem.tail,
         \A n \in NodesOf(c) : n \in DOMAIN mem'.node /\ mem'.node[n] = mem.node[n],
         \A u \in Thread : th'[u].got = th[u].got
  PROVE  FineActs(t)
  <1>1. Queues!FineItems' = Queues!FineItems
    BY FineSame
  <1> QED
    BY <1>1 DEF FineActs, Does

\* The other threads find what their mutexes protect as it was.
LEMMA FineOthers ==
  ASSUME Calling, NEW u \in Thread, FineSafe(u), th'[u] = th[u] \/ Woken(u),
         th[u].pc \in {"data", "next", "tail"} =>
            /\ mem.tail_mutex = u => mem'.tail_mutex = u
            /\ mem.tail_mutex = u => mem'.tail = mem.tail /\ mem'.node[mem.tail] = mem.node[mem.tail],
         th[u].pc \in {"compare", "value", "move", "sleep"} =>
            /\ mem.head_mutex = u => mem'.head_mutex = u
            /\ mem.head_mutex = u /\ mem.head # mem.tail =>
                  /\ mem'.head = mem.head /\ mem'.head # mem'.tail
                  /\ mem'.node[mem.head].data = mem.node[mem.head].data
  PROVE  FineSafe(u)'
  <1>1. CASE th'[u] = th[u]
    BY <1>1 DEF FineSafe, Queues!Item
  <1>2. CASE Woken(u)
    <2>1. /\ th[u].pc = "asleep" /\ th'[u].pc = "woken" /\ th'[u].todo = th[u].todo
          /\ DOMAIN th'[u] = DOMAIN th[u]
      BY <1>2 DEF Woken, Calling, Threading
    <2>2. Head(th[u].todo) # "push"
      BY <2>1 DEF FineSafe
    <2>3. "woken" \notin Operations
      BY DEF Operations
    <2> QED
      BY <2>1, <2>2, <2>3 DEF FineSafe
  <1> QED
    BY <1>1, <1>2

\* The record a step writes; the other fields stay.
LEMMA FineFields ==
  ASSUME FineMemory, NEW shared, mem' = Threads!Over(shared, mem),
         DOMAIN shared \subseteq {"node", "head", "tail", "head_mutex", "tail_mutex"}
  PROVE  /\ {"node", "head", "tail", "head_mutex", "tail_mutex"} \subseteq DOMAIN mem'
         /\ mem'.node = IF "node" \in DOMAIN shared THEN shared.node ELSE mem.node
         /\ mem'.head = IF "head" \in DOMAIN shared THEN shared.head ELSE mem.head
         /\ mem'.tail = IF "tail" \in DOMAIN shared THEN shared.tail ELSE mem.tail
         /\ mem'.head_mutex = IF "head_mutex" \in DOMAIN shared THEN shared.head_mutex ELSE mem.head_mutex
         /\ mem'.tail_mutex = IF "tail_mutex" \in DOMAIN shared THEN shared.tail_mutex ELSE mem.tail_mutex
  <1>1. /\ DOMAIN mem' = DOMAIN shared \cup DOMAIN mem
        /\ \A x \in DOMAIN shared : mem'[x] = shared[x]
        /\ \A x \in DOMAIN mem : x \notin DOMAIN shared => mem'[x] = mem[x]
    BY MemIs
  <1> QED
    BY <1>1 DEF FineMemory

\* The mutex of the tail is taken and the new dummy made.
LEMMA PushLockSafe ==
  ASSUME ThreadsafeAssumption, FineInv, calls' = calls, NEW t \in Thread, Queues!PushLock(t)
  PROVE  FineInv' /\ FineActs(t)
  <1> DEFINE n == Queues!New
             shared == [tail_mutex |-> t, node |-> Queues!Added(mem.node, n, Queues!Blank)]
             own == [pc |-> "data", new_tail |-> n]
  <1>1. th[t].pc = "push" /\ GoesOn(t, shared, own) /\ mem.tail_mutex = Null
    BY StepsAre DEF Queues!PushLock, FineInv, Calling, Threading
  <1>2. n \in Nat /\ n \notin DOMAIN mem.node
    <2>1. IsFiniteSet(DOMAIN mem.node)
      BY DEF FineInv, FineMemory
    <2>2. Threads!Fresh(mem.node) \in Nat /\ Threads!Fresh(mem.node) \notin DOMAIN mem.node
          /\ Queues!Fresh(mem.node) = Threads!Fresh(mem.node)
      BY <2>1, FreshIs
    <2> QED
      BY <2>2 DEF Queues!New
  <1>3. DOMAIN own = {"pc", "new_tail"} /\ own.pc = "data" /\ own.new_tail = n
    OBVIOUS
  <1>4. /\ DOMAIN shared = {"tail_mutex", "node"} /\ shared.tail_mutex = t
        /\ shared.node = Queues!Added(mem.node, n, Queues!Blank)
    OBVIOUS
  <1> HIDE DEF own, shared, n
  <1>5. /\ Calling' /\ th'[t].todo = th[t].todo /\ th'[t].pc = "data" /\ th'[t].new_tail = n
        /\ "new_tail" \in DOMAIN th'[t] /\ th'[t].got = th[t].got
    <2>1. "push" \in Operations /\ "data" \notin Operations
      BY DEF Operations
    <2>2. /\ Calling' /\ \A u \in Thread : th'[u].todo = th[u].todo
          /\ \A x \in DOMAIN own : x \in DOMAIN th'[t] /\ th'[t][x] = own[x]
          /\ \A x \in DOMAIN th[t] : x \notin DOMAIN own => x \in DOMAIN th'[t] /\ th'[t][x] = th[t][x]
      BY <1>1, <1>3, <2>1, CallingGoesOn DEF FineInv
    <2>3. "got" \in DOMAIN th[t]
      BY DEF FineInv, Calling, Threading
    <2> QED
      BY <1>3, <2>2, <2>3
  <1>6. \A u \in Thread : u # t => th'[u] = th[u]
    BY <1>1 DEF GoesOn, Changes
  <1>7. /\ {"node", "head", "tail", "head_mutex", "tail_mutex"} \subseteq DOMAIN mem'
        /\ mem'.node = Queues!Added(mem.node, n, Queues!Blank)
        /\ mem'.head = mem.head /\ mem'.tail = mem.tail
        /\ mem'.head_mutex = mem.head_mutex /\ mem'.tail_mutex = t
    <2>1. FineMemory /\ mem' = Threads!Over(shared, mem)
      BY <1>1 DEF FineInv, GoesOn, Changes
    <2> QED
      BY <1>4, <2>1, FineFields
  <1>8. /\ DOMAIN mem'.node = DOMAIN mem.node \cup {n} /\ mem'.node[n] = Queues!Blank
        /\ \A k \in DOMAIN mem.node : mem'.node[k] = mem.node[k]
    BY <1>2, <1>7 DEF Queues!Added
  <1>9. FineMemory'
    <2>1. Queues!Blank \in Nodes
      BY DEF Queues!Blank, Nodes, Data
    <2>2. IsFiniteSet(DOMAIN mem'.node)
      BY <1>8, FS_AddElement DEF FineInv, FineMemory
    <2> QED
      BY <1>2, <1>7, <1>8, <2>1, <2>2 DEF FineInv, FineMemory
  <1>10. PICK c : FineList(c)
    BY DEF FineInv
  <1>11. mem.tail \in DOMAIN mem.node /\ mem.head \in DOMAIN mem.node /\ NodesOf(c) \subseteq DOMAIN mem.node
    <2>1. Linked(c, mem.node, mem.head, mem.tail) /\ mem.tail \in DOMAIN mem.node
      BY <1>10 DEF FineList
    <2>2. c \in Seq(DOMAIN mem.node) /\ mem.head = After(c, 1, mem.tail)
      BY <2>1 DEF Linked
    <2> QED
      BY <2>1, <2>2 DEF After, NodesOf
  <1>12. \A u \in Thread : u # t => FineSafe(u)'
    BY <1>1, <1>6, <1>7, <1>8, <1>11, FineOthers DEF FineInv, ThreadsafeAssumption, FineSafe
  <1>13. FineSafe(t)'
    <2>1. Head(th[t].todo) = "push"
      BY <1>1 DEF FineInv, Calling, Threading, Operations
    <2> QED
      BY <1>5, <1>7, <2>1 DEF FineSafe, Operations
  <1>14. FineList(c)'
    <2>1. FinePrivate(t)' = {n}
      BY <1>5 DEF FinePrivate
    <2>2. \A u \in Thread : FinePrivate(u) \subseteq DOMAIN mem.node
      BY <1>10 DEF FineList
    <2>3. Follows(t) /\ Returned \subseteq Returned'
      <3>1. Follows(t)
        BY <1>5 DEF Follows
      <3>2. \A u \in Thread : th'[u].got = th[u].got
        BY <1>5, <1>6
      <3> QED
        BY <3>1, <3>2 DEF Returned
    <2>4. FinePrivate(t)' \subseteq DOMAIN mem'.node \ (NodesOf(c) \cup {mem.tail})
      BY <1>2, <1>8, <1>11, <2>1
    <2>5. \A u \in Thread : u # t => FinePrivate(t)' \cap FinePrivate(u) = {}
      BY <1>2, <2>1, <2>2
    <2>6. \A u \in Thread : u # t => FinePrivate(u) \subseteq DOMAIN mem'.node
      BY <1>8, <2>2
    <2>7. mem.tail \in DOMAIN mem'.node
          /\ \A k \in NodesOf(c) : k \in DOMAIN mem'.node /\ mem'.node[k] = mem.node[k]
      BY <1>8, <1>11
    <2> QED
      BY <1>6, <1>7, <1>10, <2>3, <2>4, <2>5, <2>6, <2>7, FineStays DEF FineInv
  <1>15. FineActs(t)
    <2>1. \A u \in Thread : th'[u].got = th[u].got
      BY <1>5, <1>6
    <2>2. FineMemory /\ IsFiniteSet(DOMAIN mem'.node)
      BY <1>9 DEF FineInv, FineMemory
    <2>3. \A k \in NodesOf(c) : k \in DOMAIN mem'.node /\ mem'.node[k] = mem.node[k]
      BY <1>8, <1>11
    <2> QED
      BY ONLY <1>7, <1>10, <2>1, <2>2, <2>3, t \in Thread, FineIdle
  <1> QED
    BY <1>5, <1>9, <1>12, <1>13, <1>14, <1>15 DEF FineInv

\* A thread that goes on in its call of the queue.
LEMMA FineGoesOn ==
  ASSUME FineInv, calls' = calls, NEW t \in Thread, NEW shared, NEW own, GoesOn(t, shared, own),
         th[t].pc # "done", "todo" \notin DOMAIN own, "pc" \in DOMAIN own,
         own.pc \notin Operations \cup {"done", "pushed", "notify"},
         "got" \notin DOMAIN own,
         DOMAIN shared \subseteq {"node", "head", "tail", "head_mutex", "tail_mutex"}
  PROVE  /\ Calling' /\ th'[t].todo = th[t].todo /\ th[t].todo # <<>>
         /\ \A x \in DOMAIN own : x \in DOMAIN th'[t] /\ th'[t][x] = own[x]
         /\ \A x \in DOMAIN th[t] : x \notin DOMAIN own => x \in DOMAIN th'[t] /\ th'[t][x] = th[t][x]
         /\ \A u \in Thread : u # t => th'[u] = th[u]
         /\ Follows(t) /\ Returned' = Returned /\ mem' = Threads!Over(shared, mem)
         /\ th'[t].got = th[t].got
  <1>1. /\ Calling' /\ (\A u \in Thread : th'[u].todo = th[u].todo) /\ th[t].todo # <<>>
        /\ \A x \in DOMAIN own : x \in DOMAIN th'[t] /\ th'[t][x] = own[x]
        /\ \A x \in DOMAIN th[t] : x \notin DOMAIN own => x \in DOMAIN th'[t] /\ th'[t][x] = th[t][x]
    BY CallingGoesOn DEF FineInv
  <1>2. \A u \in Thread : u # t => th'[u] = th[u]
    BY DEF GoesOn, Changes
  <1>3. Follows(t)
    BY <1>1 DEF Follows
  <1>4. \A u \in Thread : th'[u].got = th[u].got
    BY <1>1, <1>2 DEF FineInv, Calling, Threading
  <1>5. mem' = Threads!Over(shared, mem)
    BY DEF GoesOn, Changes
  <1> QED
    BY <1>1, <1>2, <1>3, <1>4, <1>5 DEF Returned

\* A call of the queue that returns.
LEMMA FineEnds ==
  ASSUME FineInv, calls' = calls, NEW t \in Thread, NEW shared, NEW a \in Answers, NEW got,
         got = th[t].got \/ got = Append(th[t].got, a),
         Ends(t, shared, got), th[t].pc # "done", Head(th[t].todo) # "push"
  PROVE  /\ Calling' /\ th'[t].pc \in Operations \cup {"done"} /\ FineSafe(t)' /\ FinePrivate(t)' = {}
         /\ \A u \in Thread : u # t => th'[u] = th[u]
         /\ Follows(t) /\ Returned \subseteq Returned' /\ mem' = Threads!Over(shared, mem)
         /\ th'[t].got = got
  <1>1. /\ Threading' /\ th'[t].pc \in Operations \cup {"done"}
        /\ th'[t].todo = Tail(th[t].todo) /\ th[t].todo # <<>> /\ th'[t].got = got
    BY EndsIs DEF FineInv, Calling
  <1>2. (\A u \in Thread : u # t => th'[u] = th[u]) /\ mem' = Threads!Over(shared, mem)
    BY DEF Ends, Changes
  <1>3. got \in Seq(Answers)
    <2>1. PICK s \in Seq(Answers) : s = th[t].got
      BY DEF FineInv, Calling
    <2>2. Append(s, a) \in Seq(Answers)
      OBVIOUS
    <2> QED
      BY <2>1, <2>2
  <1>4. Calling'
    BY <1>1, <1>2, <1>3, CallingEnds DEF FineInv
  <1>5. Returned \subseteq Returned'
    BY <1>1, <1>2, ReturnedMore DEF FineInv
  <1>6. Follows(t)
    BY <1>1 DEF Follows
  <1>7. FineSafe(t)' /\ FinePrivate(t)' = {}
    BY <1>1 DEF FineSafe, FinePrivate, Operations
  <1> QED
    BY <1>1, <1>2, <1>4, <1>5, <1>6, <1>7

\* The nodes of the queue are in memory.
LEMMA FineNodes ==
  ASSUME NEW c, FineList(c)
  PROVE  /\ mem.tail \in DOMAIN mem.node /\ mem.head \in DOMAIN mem.node
         /\ NodesOf(c) \subseteq DOMAIN mem.node /\ mem.tail \notin NodesOf(c)
         /\ mem.head # mem.tail => mem.head \in NodesOf(c)
         /\ \A u \in Thread : FinePrivate(u) \subseteq DOMAIN mem.node \ (NodesOf(c) \cup {mem.tail})
  <1>1. Linked(c, mem.node, mem.head, mem.tail) /\ mem.tail \in DOMAIN mem.node
    BY DEF FineList
  <1>2. /\ c \in Seq(DOMAIN mem.node) /\ mem.head = After(c, 1, mem.tail)
        /\ \A i \in 1..Len(c) : c[i] # mem.tail
    BY <1>1 DEF Linked
  <1> QED
    BY <1>1, <1>2 DEF After, NodesOf, FineList

\* A step that takes or gives up the mutex of the head, or neither.
LEMMA FineQuiet ==
  ASSUME ThreadsafeAssumption, FineInv, Calling', calls' = calls, NEW t \in Thread,
         \A u \in Thread : u # t => th'[u] = th[u] \/ Woken(u),
         Follows(t), Returned \subseteq Returned',
         {"node", "head", "tail", "head_mutex", "tail_mutex"} \subseteq DOMAIN mem',
         mem'.node = mem.node, mem'.head = mem.head, mem'.tail = mem.tail,
         mem'.tail_mutex = mem.tail_mutex,
         mem'.head_mutex = mem.head_mutex \/ mem.head_mutex \in {t, Null},
         FinePrivate(t)' \subseteq FinePrivate(t), FineSafe(t)'
  PROVE  FineInv' /\ Queues!FineItems' = Queues!FineItems
  <1>1. PICK c : FineList(c)
    BY DEF FineInv
  <1>2. /\ mem.tail \in DOMAIN mem.node /\ NodesOf(c) \subseteq DOMAIN mem.node
        /\ \A u \in Thread : FinePrivate(u) \subseteq DOMAIN mem.node \ (NodesOf(c) \cup {mem.tail})
    BY <1>1, FineNodes
  <1>3. FineMemory'
    BY DEF FineMemory, FineInv
  <1>4. ASSUME NEW u \in Thread, u # t PROVE FineSafe(u)'
    <2>1. mem.head_mutex = u => mem'.head_mutex = u
      BY <1>4 DEF ThreadsafeAssumption
    <2> QED
      BY <1>4, <2>1, FineOthers DEF FineInv
  <1>5. FineList(c)'
    <2>1. \A u \in Thread : u # t => FinePrivate(t) \cap FinePrivate(u) = {}
      BY <1>1 DEF FineList
    <2>2. \A u \in Thread : u # t => FinePrivate(t)' \cap FinePrivate(u) = {}
      BY <2>1
    <2>3. FinePrivate(t)' \subseteq DOMAIN mem'.node \ (NodesOf(c) \cup {mem.tail})
      BY <1>2
    <2> QED
      BY <1>1, <1>2, <2>2, <2>3, FineStays DEF FineInv
  <1>6. Queues!FineItems' = Queues!FineItems
    <2>1. FineMemory /\ IsFiniteSet(DOMAIN mem'.node)
      BY <1>3 DEF FineInv, FineMemory
    <2>2. \A k \in NodesOf(c) : k \in DOMAIN mem'.node /\ mem'.node[k] = mem.node[k]
      BY <1>2
    <2>3. mem'.head = mem.head /\ mem'.tail = mem.tail
      OBVIOUS
    <2> QED
      BY ONLY <1>1, <2>1, <2>2, <2>3, FineSame
  <1> QED
    BY <1>3, <1>4, <1>5, <1>6 DEF FineInv

\* The mutex of the head is taken, by a call or after a wakeup.
LEMMA HeadLockSafe ==
  ASSUME ThreadsafeAssumption, FineInv, calls' = calls, NEW t \in Thread,
         NEW call \in {"try_pop", "wait_and_pop", "empty", "woken"}, Queues!HeadLock(t, call)
  PROVE  FineInv' /\ FineActs(t)
  <1> DEFINE shared == [head_mutex |-> t]
             own == [pc |-> "compare"]
  <1>1. th[t].pc = call /\ GoesOn(t, shared, own) /\ mem.head_mutex = Null
    BY StepsAre DEF Queues!HeadLock, FineInv, Calling, Threading
  <1>2. DOMAIN own = {"pc"} /\ own.pc = "compare" /\ DOMAIN shared = {"head_mutex"} /\ shared.head_mutex = t
    OBVIOUS
  <1> HIDE DEF own, shared
  <1>3. "compare" \notin Operations
    BY DEF Operations
  <1>4. /\ Calling' /\ th'[t].todo = th[t].todo /\ th'[t].pc = "compare"
        /\ \A u \in Thread : u # t => th'[u] = th[u]
        /\ Follows(t) /\ Returned' = Returned /\ mem' = Threads!Over(shared, mem)
        /\ th'[t].got = th[t].got
    BY <1>1, <1>2, <1>3, FineGoesOn
  <1>5. /\ {"node", "head", "tail", "head_mutex", "tail_mutex"} \subseteq DOMAIN mem'
        /\ mem'.node = mem.node /\ mem'.head = mem.head /\ mem'.tail = mem.tail
        /\ mem'.head_mutex = t /\ mem'.tail_mutex = mem.tail_mutex
    BY <1>2, <1>4, FineFields DEF FineInv
  <1>6. FineSafe(t)' /\ FinePrivate(t)' = {}
    <2>1. Head(th[t].todo) # "push"
      <3>1. CASE call = "woken"
        BY <1>1, <3>1 DEF FineInv, FineSafe
      <3>2. CASE call # "woken"
        <4>1. call \in Operations /\ call # "push"
          BY <3>2 DEF Operations
        <4> QED
          BY <1>1, <4>1 DEF FineInv, Calling, Threading
      <3> QED
        BY <3>1, <3>2
    <2> QED
      BY <1>4, <1>5, <2>1 DEF FineSafe, FinePrivate
  <1>7. FineInv' /\ Queues!FineItems' = Queues!FineItems
    BY <1>1, <1>4, <1>5, <1>6, FineQuiet
  <1> QED
    BY <1>4, <1>7 DEF FineActs, Does

\* A step that changes nothing but where the thread is and what it remembers.
LEMMA FineThinks ==
  ASSUME ThreadsafeAssumption, FineInv, calls' = calls, NEW t \in Thread, NEW shared, NEW own,
         GoesOn(t, shared, own), shared \in {Queues!Same, [head_mutex |-> Null]},
         shared = [head_mutex |-> Null] => mem.head_mutex = t,
         th[t].pc \in {"compare", "value", "sleep", "asleep"},
         DOMAIN own \subseteq {"pc", "value"}, "pc" \in DOMAIN own,
         own.pc \in {"value", "move", "sleep", "asleep", "woken"},
         own.pc \in {"value", "move", "sleep"} => mem.head_mutex = t /\ shared = Queues!Same,
         own.pc \in {"value", "move"} => mem.head # mem.tail,
         own.pc = "move" => "value" \in DOMAIN own /\ own.value = mem.node[mem.head].data
  PROVE  FineInv' /\ FineActs(t)
  <1>1. DOMAIN shared \subseteq {"head_mutex"} /\ ("head_mutex" \in DOMAIN shared => mem.head_mutex = t)
    BY DEF Queues!Same
  <1>2. own.pc \notin Operations \cup {"done", "pushed", "notify"}
    BY DEF Operations
  <1>3. /\ Calling' /\ th'[t].todo = th[t].todo /\ th'[t].pc = own.pc
        /\ \A x \in DOMAIN own : x \in DOMAIN th'[t] /\ th'[t][x] = own[x]
        /\ \A u \in Thread : u # t => th'[u] = th[u]
        /\ Follows(t) /\ Returned' = Returned /\ mem' = Threads!Over(shared, mem)
        /\ th'[t].got = th[t].got
    BY <1>1, <1>2, FineGoesOn
  <1>4. /\ {"node", "head", "tail", "head_mutex", "tail_mutex"} \subseteq DOMAIN mem'
        /\ mem'.node = mem.node /\ mem'.head = mem.head /\ mem'.tail = mem.tail
        /\ mem'.head_mutex = mem.head_mutex \/ mem.head_mutex = t
        /\ mem'.tail_mutex = mem.tail_mutex
        /\ shared = Queues!Same => mem'.head_mutex = mem.head_mutex
    <2>1. DOMAIN Queues!Same = {}
      BY DEF Queues!Same
    <2> QED
      BY <1>1, <1>3, <2>1, FineFields DEF FineInv
  <1>5. FineSafe(t)' /\ FinePrivate(t)' = {}
    <2>1. Head(th[t].todo) # "push"
      BY DEF FineInv, FineSafe
    <2>2. own.pc \in {"value", "move", "sleep"} => mem'.head_mutex = t
      BY <1>4
    <2>3. own.pc = "move" => "value" \in DOMAIN th'[t] /\ th'[t].value = mem'.node[mem'.head].data
      BY <1>3, <1>4
    <2> QED
      BY <1>3, <1>4, <2>1, <2>2, <2>3 DEF FineSafe, FinePrivate
  <1>6. FineInv' /\ Queues!FineItems' = Queues!FineItems
    BY <1>3, <1>4, <1>5, FineQuiet
  <1> QED
    BY <1>3, <1>6 DEF FineActs, Does

LEMMA CompareSafe ==
  ASSUME ThreadsafeAssumption, FineInv, calls' = calls, NEW t \in Thread, Queues!Compare(t)
  PROVE  FineInv' /\ FineActs(t)
  <1>1. th[t].pc = "compare" /\ mem.head_mutex = t /\ Head(th[t].todo) # "push" /\ DOMAIN th = Thread
    BY DEF Queues!Compare, Queues!At, FineInv, FineSafe, Calling, Threading
  <1>0. Queues!FineItems = <<>> <=> mem.head = mem.tail
    <2>1. PICK c : FineList(c)
      BY DEF FineInv
    <2>2. Linked(c, mem.node, mem.head, mem.tail) /\ IsFiniteSet(DOMAIN mem.node)
      BY <2>1 DEF FineList, FineInv, FineMemory
    <2>3. Queues!FineItems = ValuesOf(c, mem.node)
      BY ONLY <2>2, ItemsAre
    <2>4. ValuesOf(c, mem.node) = <<>> <=> mem.head = mem.tail
      BY ONLY <2>2, ValuesEmpty
    <2> QED
      BY <2>3, <2>4
  <1>2. ASSUME mem.head # mem.tail, Queues!Step(t, "compare", Queues!Same, [pc |-> "value"])
        PROVE  FineInv' /\ FineActs(t)
    <2> DEFINE own == [pc |-> "value"]
    <2>1. GoesOn(t, Queues!Same, own)
      BY <1>1, <1>2, StepsAre
    <2>2. DOMAIN own = {"pc"} /\ own.pc = "value"
      OBVIOUS
    <2> HIDE DEF own
    <2> QED
      BY <1>1, <1>2, <2>1, <2>2, FineThinks
  <1>3. ASSUME Queues!Step(t, "compare", Queues!Same, [pc |-> "sleep"])
        PROVE  FineInv' /\ FineActs(t)
    <2> DEFINE own == [pc |-> "sleep"]
    <2>1. GoesOn(t, Queues!Same, own)
      BY <1>1, <1>3, StepsAre
    <2>2. DOMAIN own = {"pc"} /\ own.pc = "sleep"
      OBVIOUS
    <2> HIDE DEF own
    <2> QED
      BY <1>1, <2>1, <2>2, FineThinks
  <1>4. ASSUME NEW a \in {Null, Queues!NotEmpty},
               a = IF mem.head = mem.tail THEN Null ELSE Queues!NotEmpty,
               Queues!Answer(t, "compare", [head_mutex |-> Null], a)
        PROVE  FineInv' /\ FineActs(t)
    <2>1. PICK shared : shared = [head_mutex |-> Null]
      OBVIOUS
    <2>2. PICK got : got = Append(th[t].got, a)
      OBVIOUS
    <2>3. a \in Answers /\ DOMAIN shared = {"head_mutex"} /\ shared.head_mutex = Null
      BY <2>1 DEF Answers, Data
    <2>4. th[t].pc # "done" /\ Head(th[t].todo) # "push" /\ Ends(t, shared, got)
      BY <1>1, <1>4, <2>1, <2>2, ReturnsAre DEF Queues!Answer, Queues!With
    <2>5. /\ Calling' /\ FineSafe(t)' /\ FinePrivate(t)' = {}
          /\ \A u \in Thread : u # t => th'[u] = th[u]
          /\ Follows(t) /\ Returned \subseteq Returned' /\ mem' = Threads!Over(shared, mem)
          /\ th'[t].got = got
      <3>1. got = th[t].got \/ got = Append(th[t].got, a)
        BY <2>2
      <3>2. a \in Answers /\ th[t].pc # "done" /\ Head(th[t].todo) # "push" /\ Ends(t, shared, got)
        BY <2>3, <2>4
      <3>3. /\ Calling' /\ th'[t].pc \in Operations \cup {"done"} /\ FineSafe(t)' /\ FinePrivate(t)' = {}
            /\ \A u \in Thread : u # t => th'[u] = th[u]
            /\ Follows(t) /\ Returned \subseteq Returned' /\ mem' = Threads!Over(shared, mem)
            /\ th'[t].got = got
        BY ONLY <3>1, <3>2, FineInv, calls' = calls, t \in Thread, FineEnds
      <3> QED
        BY <3>3
    <2>6. /\ {"node", "head", "tail", "head_mutex", "tail_mutex"} \subseteq DOMAIN mem'
          /\ mem'.node = mem.node /\ mem'.head = mem.head /\ mem'.tail = mem.tail
          /\ mem'.tail_mutex = mem.tail_mutex
      BY <2>3, <2>5, FineFields DEF FineInv
    <2>7. FineInv' /\ Queues!FineItems' = Queues!FineItems
      BY <1>1, <2>5, <2>6, FineQuiet
    <2> QED
      BY <1>0, <1>4, <2>2, <2>5, <2>7 DEF FineActs, Does
  <1>5. PICK a \in {Null, Queues!NotEmpty} : a = IF mem.head = mem.tail THEN Null ELSE Queues!NotEmpty
    OBVIOUS
  <1>6. \/ mem.head # mem.tail /\ Queues!Step(t, "compare", Queues!Same, [pc |-> "value"])
        \/ Queues!Step(t, "compare", Queues!Same, [pc |-> "sleep"])
        \/ Queues!Answer(t, "compare", [head_mutex |-> Null], a)
    <2>1. CASE mem.head # mem.tail /\ Head(th[t].todo) # "empty"
      BY <2>1, <1>5 DEF Queues!Compare
    <2>2. CASE ~(mem.head # mem.tail /\ Head(th[t].todo) # "empty")
      BY <2>2, <1>5 DEF Queues!Compare
    <2> QED
      BY <2>1, <2>2
  <1> QED
    BY <1>2, <1>3, <1>4, <1>5, <1>6

LEMMA ValueSafe ==
  ASSUME ThreadsafeAssumption, FineInv, calls' = calls, NEW t \in Thread, Queues!Value(t)
  PROVE  FineInv' /\ FineActs(t)
  <1> DEFINE own == [pc |-> "move", value |-> mem.node[mem.head].data]
  <1>1. th[t].pc = "value" /\ GoesOn(t, Queues!Same, own)
    BY StepsAre DEF Queues!Value, FineInv, Calling, Threading
  <1>2. mem.head_mutex = t /\ mem.head # mem.tail
    BY <1>1 DEF FineInv, FineSafe
  <1>3. DOMAIN own = {"pc", "value"} /\ own.pc = "move" /\ own.value = mem.node[mem.head].data
    OBVIOUS
  <1> HIDE DEF own
  <1> QED
    BY <1>1, <1>2, <1>3, FineThinks

LEMMA SleepSafe ==
  ASSUME ThreadsafeAssumption, FineInv, calls' = calls, NEW t \in Thread,
         Queues!Sleep(t) \/ Queues!SpuriousWakeup(t)
  PROVE  FineInv' /\ FineActs(t)
  <1>1. ASSUME Queues!Sleep(t) PROVE FineInv' /\ FineActs(t)
    <2> DEFINE own == [pc |-> "asleep"]
    <2>1. th[t].pc = "sleep" /\ GoesOn(t, [head_mutex |-> Null], own)
      BY <1>1, StepsAre DEF Queues!Sleep, FineInv, Calling, Threading
    <2>2. mem.head_mutex = t
      BY <2>1 DEF FineInv, FineSafe
    <2>3. DOMAIN own = {"pc"} /\ own.pc = "asleep"
      OBVIOUS
    <2> HIDE DEF own
    <2> QED
      BY <2>1, <2>2, <2>3, FineThinks
  <1>2. ASSUME Queues!SpuriousWakeup(t) PROVE FineInv' /\ FineActs(t)
    <2> DEFINE own == [pc |-> "woken"]
    <2>1. th[t].pc = "asleep" /\ GoesOn(t, Queues!Same, own)
      BY <1>2, StepsAre DEF Queues!SpuriousWakeup, FineInv, Calling, Threading
    <2>2. DOMAIN own = {"pc"} /\ own.pc = "woken" /\ Queues!Same # [head_mutex |-> Null]
      <3>1. DOMAIN Queues!Same = {} /\ DOMAIN [head_mutex |-> Null] = {"head_mutex"}
        BY DEF Queues!Same
      <3> QED
        BY <3>1
    <2> HIDE DEF own
    <2> QED
      BY <2>1, <2>2, FineThinks
  <1> QED
    BY <1>1, <1>2

\* notify_one, when the push is done.
LEMMA PushNotifiesSafe ==
  ASSUME ThreadsafeAssumption, FineInv, calls' = calls, NEW t \in Thread, Queues!PushNotifies(t)
  PROVE  FineInv' /\ FineActs(t)
  <1>1. th[t].pc = "pushed" /\ mem' = mem /\ Queues!notify_one(t, Queues!Returned(t, th[t].got))
    BY DEF Queues!PushNotifies, Queues!At
  <1>2. PICK got : got = th[t].got
    OBVIOUS
  <1>3. /\ Threading' /\ th'[t].pc \in Operations \cup {"done"}
        /\ th'[t].todo = Tail(th[t].todo) /\ th[t].todo # <<>> /\ th'[t].got = got
        /\ \A u \in Thread : u # t => th'[u] = th[u] \/ Woken(u)
    BY <1>1, <1>2, NotifyIs DEF FineInv, Calling
  <1>4. got \in Seq(Answers)
    BY <1>2 DEF FineInv, Calling
  <1>5. Calling'
    BY <1>3, <1>4, CallingEnds DEF FineInv
  <1>6. Returned \subseteq Returned'
    <2>1. Null \in Answers /\ th'[t].got \in {th[t].got, Append(th[t].got, Null)}
      BY <1>2, <1>3 DEF Answers, Data
    <2> QED
      BY <1>3, <2>1, ReturnedMore DEF FineInv
  <1>7. Follows(t)
    BY <1>1, <1>3 DEF Follows
  <1>8. FineSafe(t)' /\ FinePrivate(t)' = {}
    BY <1>3 DEF FineSafe, FinePrivate, Operations
  <1>9. {"node", "head", "tail", "head_mutex", "tail_mutex"} \subseteq DOMAIN mem'
    BY <1>1 DEF FineInv, FineMemory
  <1>10. FineInv' /\ Queues!FineItems' = Queues!FineItems
    BY <1>1, <1>3, <1>5, <1>6, <1>7, <1>8, <1>9, FineQuiet
  <1>11. \A u \in Thread : th'[u].got = th[u].got
    BY <1>2, <1>3, OthersRemain DEF FineInv
  <1> QED
    BY <1>10, <1>11 DEF FineActs, Does

\* A push writes the dummy, which nobody else looks into.
LEMMA FineWrites ==
  ASSUME ThreadsafeAssumption, FineInv, calls' = calls, NEW t \in Thread, NEW shared, NEW own,
         NEW dummy \in Nodes, GoesOn(t, shared, own), th[t].pc \in {"data", "next"},
         DOMAIN shared = {"node"}, shared.node = [mem.node EXCEPT ![mem.tail] = dummy],
         DOMAIN own = {"pc"}, own.pc \in {"next", "tail"}, dummy.data = Queues!Item(t),
         own.pc = "tail" => dummy.next = th[t].new_tail
  PROVE  FineInv' /\ FineActs(t)
  <1>1. /\ Calling' /\ th'[t].todo = th[t].todo /\ th'[t].pc = own.pc
        /\ \A x \in DOMAIN th[t] : x # "pc" => x \in DOMAIN th'[t] /\ th'[t][x] = th[t][x]
        /\ \A u \in Thread : u # t => th'[u] = th[u]
        /\ Follows(t) /\ Returned' = Returned /\ mem' = Threads!Over(shared, mem)
        /\ th'[t].got = th[t].got
    <2>1. own.pc \notin Operations \cup {"done", "pushed", "notify"}
      BY DEF Operations
    <2> QED
      BY <2>1, FineGoesOn
  <1>2. /\ {"node", "head", "tail", "head_mutex", "tail_mutex"} \subseteq DOMAIN mem'
        /\ mem'.node = [mem.node EXCEPT ![mem.tail] = dummy]
        /\ mem'.head = mem.head /\ mem'.tail = mem.tail
        /\ mem'.head_mutex = mem.head_mutex /\ mem'.tail_mutex = mem.tail_mutex
    BY <1>1, FineFields DEF FineInv
  <1>3. PICK c : FineList(c)
    BY DEF FineInv
  <1>4. /\ mem.tail \in DOMAIN mem.node /\ NodesOf(c) \subseteq DOMAIN mem.node /\ mem.tail \notin NodesOf(c)
        /\ mem.head # mem.tail => mem.head \in NodesOf(c)
        /\ \A u \in Thread : FinePrivate(u) \subseteq DOMAIN mem.node \ (NodesOf(c) \cup {mem.tail})
    BY <1>3, FineNodes
  <1>5. /\ DOMAIN mem'.node = DOMAIN mem.node /\ mem'.node[mem.tail] = dummy
        /\ \A n \in DOMAIN mem.node : n # mem.tail => mem'.node[n] = mem.node[n]
    BY <1>2, <1>4
  <1>6. mem.tail_mutex = t /\ "new_tail" \in DOMAIN th[t] /\ Head(th[t].todo) = "push"
    BY DEF FineInv, FineSafe
  <1>7. th'[t].new_tail = th[t].new_tail /\ "new_tail" \in DOMAIN th'[t]
    BY <1>1, <1>6
  <1>8. FineMemory'
    <2>1. \A n \in DOMAIN mem'.node : mem'.node[n] \in Nodes
      BY <1>5 DEF FineInv, FineMemory
    <2> QED
      BY <1>2, <1>5, <2>1 DEF FineInv, FineMemory
  <1>9. FineSafe(t)'
    <2>1. Queues!Item(t)' = Queues!Item(t)
      BY <1>1 DEF Queues!Item
    <2> QED
      BY <1>1, <1>2, <1>5, <1>6, <1>7, <2>1 DEF FineSafe, Operations
  <1>10. ASSUME NEW u \in Thread, u # t PROVE FineSafe(u)'
    <2>1. th'[u] = th[u] /\ mem.tail_mutex # u
      BY <1>1, <1>6, <1>10
    <2>2. mem.head # mem.tail => mem'.node[mem.head].data = mem.node[mem.head].data
      BY <1>4, <1>5
    <2>3. Calling /\ FineSafe(u)
      BY DEF FineInv
    <2> QED
      BY <1>2, <2>1, <2>2, <2>3, FineOthers
  <1>11. FineList(c)'
    <2>1. FinePrivate(t)' = FinePrivate(t)
      BY <1>1, <1>7 DEF FinePrivate
    <2>2. \A u \in Thread : u # t => FinePrivate(t) \cap FinePrivate(u) = {}
      BY <1>3 DEF FineList
    <2>3. \A u \in Thread : u # t => FinePrivate(t)' \cap FinePrivate(u) = {}
      BY <2>1, <2>2
    <2>4. \A n \in NodesOf(c) : n \in DOMAIN mem'.node /\ mem'.node[n] = mem.node[n]
      BY <1>4, <1>5
    <2>5. FinePrivate(t)' \subseteq DOMAIN mem'.node \ (NodesOf(c) \cup {mem.tail})
      BY <1>4, <1>5, <2>1
    <2>6. \A u \in Thread : u # t => FinePrivate(u) \subseteq DOMAIN mem'.node
      BY <1>4, <1>5
    <2> QED
      BY <1>1, <1>2, <1>3, <1>4, <1>5, <2>3, <2>4, <2>5, <2>6, FineStays DEF FineInv
  <1>12. FineActs(t)
    <2>1. \A u \in Thread : th'[u].got = th[u].got
      BY <1>1
    <2>2. FineMemory /\ IsFiniteSet(DOMAIN mem'.node)
      BY <1>8 DEF FineInv, FineMemory
    <2>3. \A n \in NodesOf(c) : n \in DOMAIN mem'.node /\ mem'.node[n] = mem.node[n]
      BY <1>4, <1>5
    <2> QED
      BY ONLY <1>2, <1>3, <2>1, <2>2, <2>3, t \in Thread, FineIdle
  <1> QED
    BY <1>1, <1>8, <1>9, <1>10, <1>11, <1>12 DEF FineInv

LEMMA PushDataSafe ==
  ASSUME ThreadsafeAssumption, FineInv, calls' = calls, NEW t \in Thread, Queues!PushData(t)
  PROVE  FineInv' /\ FineActs(t)
  <1>1. PICK shared : shared = [node |-> [mem.node EXCEPT ![mem.tail].data = Queues!Item(t)]]
    OBVIOUS
  <1>2. PICK own : own = [pc |-> "next"]
    OBVIOUS
  <1>3. th[t].pc = "data" /\ GoesOn(t, shared, own)
    BY <1>1, <1>2, StepsAre DEF Queues!PushData, FineInv, Calling, Threading
  <1>4. mem.node[mem.tail] \in Nodes
    BY FineNodes DEF FineInv, FineMemory
  <1>5. PICK dummy : dummy = [mem.node[mem.tail] EXCEPT !.data = Queues!Item(t)]
    OBVIOUS
  <1>6. Queues!Item(t) \in Data
    <2>1. th[t].todo \in Seq(Operations)
      BY DEF FineInv, Calling, Threading
    <2> QED
      BY <2>1 DEF Queues!Item, Data
  <1>7. dummy \in Nodes /\ dummy.data = Queues!Item(t)
    BY <1>4, <1>5, <1>6 DEF Nodes
  <1>8. DOMAIN shared = {"node"} /\ shared.node = [mem.node EXCEPT ![mem.tail] = dummy]
    BY <1>1, <1>5
  <1>9. DOMAIN own = {"pc"} /\ own.pc = "next"
    BY <1>2
  <1> QED
    BY <1>3, <1>7, <1>8, <1>9, FineWrites

LEMMA PushNextSafe ==
  ASSUME ThreadsafeAssumption, FineInv, calls' = calls, NEW t \in Thread, Queues!PushNext(t)
  PROVE  FineInv' /\ FineActs(t)
  <1>1. PICK shared : shared = [node |-> [mem.node EXCEPT ![mem.tail].next = th[t].new_tail]]
    OBVIOUS
  <1>2. PICK own : own = [pc |-> "tail"]
    OBVIOUS
  <1>3. th[t].pc = "next" /\ GoesOn(t, shared, own)
    BY <1>1, <1>2, StepsAre DEF Queues!PushNext, FineInv, Calling, Threading
  <1>4. mem.node[mem.tail] \in Nodes
    BY FineNodes DEF FineInv, FineMemory
  <1>5. PICK dummy : dummy = [mem.node[mem.tail] EXCEPT !.next = th[t].new_tail]
    OBVIOUS
  <1>6. th[t].new_tail \in Nat /\ mem.node[mem.tail].data = Queues!Item(t)
    <2>1. th[t].new_tail \in DOMAIN mem.node
      BY <1>3 DEF FineInv, FineList, FinePrivate
    <2> QED
      BY <1>3, <2>1 DEF FineInv, FineMemory, FineSafe
  <1>7. dummy \in Nodes /\ dummy.data = Queues!Item(t) /\ dummy.next = th[t].new_tail
    BY <1>4, <1>5, <1>6 DEF Nodes
  <1>8. DOMAIN shared = {"node"} /\ shared.node = [mem.node EXCEPT ![mem.tail] = dummy]
    BY <1>1, <1>5
  <1>9. DOMAIN own = {"pc"} /\ own.pc = "tail"
    BY <1>2
  <1> QED
    BY <1>3, <1>7, <1>8, <1>9, FineWrites

\* The queue has a new tail, and the old one is its last node.
LEMMA PushTailSafe ==
  ASSUME ThreadsafeAssumption, FineInv, calls' = calls, NEW t \in Thread, Queues!PushTail(t)
  PROVE  FineInv' /\ FineActs(t)
  <1>1. PICK shared : shared = [tail |-> th[t].new_tail, tail_mutex |-> Null]
    OBVIOUS
  <1>2. PICK own : own = [pc |-> "pushed"]
    OBVIOUS
  <1>3. th[t].pc = "tail" /\ GoesOn(t, shared, own)
    BY <1>1, <1>2, StepsAre DEF Queues!PushTail, FineInv, Calling, Threading
  <1>4. PICK n : n = th[t].new_tail
    OBVIOUS
  <1>5. PICK c : FineList(c)
    BY DEF FineInv
  <1>6. /\ mem.tail \in DOMAIN mem.node /\ NodesOf(c) \subseteq DOMAIN mem.node /\ mem.tail \notin NodesOf(c)
        /\ mem.head # mem.tail => mem.head \in NodesOf(c)
        /\ \A u \in Thread : FinePrivate(u) \subseteq DOMAIN mem.node \ (NodesOf(c) \cup {mem.tail})
    BY <1>5, FineNodes
  <1>7. /\ mem.tail_mutex = t /\ mem.node[mem.tail].data = Queues!Item(t)
        /\ mem.node[mem.tail].next = n /\ Head(th[t].todo) = "push"
    BY <1>3, <1>4 DEF FineInv, FineSafe
  <1>8. FinePrivate(t) = {n} /\ n \in DOMAIN mem.node \ (NodesOf(c) \cup {mem.tail})
    BY <1>3, <1>4, <1>6 DEF FinePrivate
  <1>9. /\ Calling' /\ th'[t].todo = th[t].todo /\ th'[t].pc = "pushed" /\ th'[t].got = th[t].got
        /\ \A u \in Thread : u # t => th'[u] = th[u]
        /\ mem' = Threads!Over(shared, mem) /\ th[t].todo # <<>>
    <2>1. own.pc \notin Operations \cup {"done"} /\ DOMAIN own = {"pc"} /\ own.pc = "pushed"
      BY <1>2 DEF Operations
    <2>2. /\ Calling' /\ \A u \in Thread : th'[u].todo = th[u].todo
          /\ \A x \in DOMAIN own : x \in DOMAIN th'[t] /\ th'[t][x] = own[x]
          /\ \A x \in DOMAIN th[t] : x \notin DOMAIN own => x \in DOMAIN th'[t] /\ th'[t][x] = th[t][x]
          /\ th[t].todo # <<>>
      BY <1>3, <2>1, CallingGoesOn DEF FineInv
    <2>3. "got" \in DOMAIN th[t]
      BY DEF FineInv, Calling, Threading
    <2> QED
      BY <1>3, <2>1, <2>2, <2>3 DEF GoesOn, Changes
  <1>10. /\ {"node", "head", "tail", "head_mutex", "tail_mutex"} \subseteq DOMAIN mem'
         /\ mem'.node = mem.node /\ mem'.head = mem.head /\ mem'.tail = n
         /\ mem'.head_mutex = mem.head_mutex /\ mem'.tail_mutex = Null
    <2>1. DOMAIN shared = {"tail", "tail_mutex"} /\ shared.tail = n /\ shared.tail_mutex = Null
      BY <1>1, <1>4
    <2> QED
      BY <1>9, <2>1, FineFields DEF FineInv
  <1>11. FineMemory'
    BY <1>10 DEF FineInv, FineMemory
  <1>12. FineSafe(t)'
    BY <1>7, <1>9, <1>10 DEF FineSafe, Operations
  <1>13. ASSUME NEW u \in Thread, u # t PROVE FineSafe(u)'
    <2>1. th'[u] = th[u] /\ mem.tail_mutex # u /\ Calling /\ FineSafe(u)
      BY <1>7, <1>9, <1>13 DEF FineInv
    <2>2. mem.head # mem.tail => mem'.head # mem'.tail
      BY <1>6, <1>8, <1>10
    <2> QED
      BY <1>10, <2>1, <2>2, FineOthers
  <1>14. PICK d : d = Append(c, mem.tail)
    OBVIOUS
  <1>15. /\ Linked(d, mem.node, mem.head, n) /\ Len(c) \in Nat /\ Len(d) = Len(c) + 1
         /\ d[Len(c) + 1] = mem.tail /\ \A i \in 1..Len(c) : d[i] = c[i]
    <2>1. Linked(c, mem.node, mem.head, mem.tail)
      BY <1>5 DEF FineList
    <2>2. \A i \in 1..Len(c) : c[i] # n
      BY <1>8 DEF NodesOf
    <2> QED
      BY <1>6, <1>7, <1>8, <1>14, <2>1, <2>2, LinkedMore
  <1>16. NodesOf(d)' = NodesOf(c) \cup {mem.tail}
    <2>1. \A i \in 1..(Len(c) + 1) : i \in 1..Len(c) \/ i = Len(c) + 1
      BY <1>15
    <2>2. Len(c) + 1 \in 1..(Len(c) + 1) /\ 1..Len(c) \subseteq 1..(Len(c) + 1)
      BY <1>15
    <2> QED
      BY <1>15, <2>1, <2>2 DEF NodesOf
  <1>17. DataOf(c) \subseteq DataOf(d)' /\ Queues!Item(t) \in DataOf(d)'
    BY <1>7, <1>10, <1>15 DEF DataOf
  <1>18. Keeps(DataOf(d) \cup Returned)'
    <2>1. PICK K : K = DataOf(c) \cup Returned
      OBVIOUS
    <2>2. PICK L : L = (DataOf(d) \cup Returned)'
      OBVIOUS
    <2>3. \A u \in Thread : th'[u].got = th[u].got
      BY <1>9
    <2>4. Keeps(K) /\ K \subseteq L /\ Queues!Item(t) \in L
      BY <1>5, <1>17, <2>1, <2>2, <2>3 DEF FineList, Returned
    <2>5. Keeps(L)'
      BY <1>9, <2>4, KeepsGoesOn DEF FineInv
    <2> QED
      BY <2>2, <2>5 DEF Keeps
  <1>19. FineList(d)'
    <2>1. FinePrivate(t)' = {}
      BY <1>9 DEF FinePrivate
    <2>2. \A u \in Thread : u # t => FinePrivate(u)' = FinePrivate(u)
      BY <1>9 DEF FinePrivate
    <2>3. \A u, v \in Thread : u # v => FinePrivate(u) \cap FinePrivate(v) = {}
      BY <1>5 DEF FineList
    <2>4. ASSUME NEW u \in Thread
          PROVE  /\ FinePrivate(u)' \subseteq DOMAIN mem'.node \ (NodesOf(d)' \cup {mem'.tail})
                 /\ \A v \in Thread : v # u => FinePrivate(u)' \cap FinePrivate(v)' = {}
      <3>1. CASE u = t
        BY <3>1, <2>1
      <3>2. CASE u # t
        <4>1. FinePrivate(u) \cap {n} = {} /\ FinePrivate(u)' = FinePrivate(u)
          BY <3>2, <1>8, <2>2, <2>3
        <4>2. FinePrivate(u)' \subseteq DOMAIN mem'.node \ (NodesOf(d)' \cup {mem'.tail})
          BY <4>1, <1>6, <1>10, <1>16
        <4> QED
          BY <4>1, <4>2, <2>1, <2>2, <2>3
      <3> QED
        BY <3>1, <3>2
    <2>5. Linked(d, mem'.node, mem'.head, mem'.tail) /\ mem'.tail \in DOMAIN mem'.node
      BY <1>8, <1>10, <1>15
    <2> QED
      BY <1>18, <2>4, <2>5 DEF FineList
  <1>20. FineActs(t)
    <2>1. Queues!FineItems = ValuesOf(c, mem.node)
      <3>1. Linked(c, mem.node, mem.head, mem.tail) /\ IsFiniteSet(DOMAIN mem.node)
        BY <1>5 DEF FineInv, FineMemory, FineList
      <3> QED
        BY ONLY <3>1, ItemsAre
    <2>2. Queues!FineItems' = ValuesOf(d, mem'.node)
      <3>1. Linked(d, mem'.node, mem'.head, mem'.tail) /\ IsFiniteSet(DOMAIN mem'.node)
        BY <1>10, <1>11, <1>15 DEF FineMemory
      <3> QED
        BY ONLY <3>1, ItemsThen
    <2>3. ValuesOf(d, mem'.node) = Append(ValuesOf(c, mem.node), Queues!Item(t))
      <3>1. PICK node, node2, v : node = mem.node /\ node2 = mem'.node /\ v = Queues!Item(t)
        OBVIOUS
      <3>2. Len(c) \in Nat
        BY <1>7, <1>10, <1>15
      <3>3. Len(d) = Len(c) + 1
        BY <1>7, <1>10, <1>15
      <3>4. \A i \in 1..Len(c) : d[i] = c[i] /\ node2[c[i]].data = node[c[i]].data
        BY <3>1, <1>7, <1>10, <1>15
      <3>5. node2[d[Len(c) + 1]].data = v
        BY <3>1, <1>7, <1>10, <1>15
      <3>6. ValuesOf(d, node2) = Append(ValuesOf(c, node), v)
        BY ONLY <3>2, <3>3, <3>4, <3>5, ValuesMore
      <3> QED
        BY <3>1, <3>6
    <2> QED
      BY <1>9, <2>1, <2>2, <2>3 DEF FineActs, Does
  <1> QED
    BY <1>9, <1>11, <1>12, <1>13, <1>19, <1>20 DEF FineInv

\* The first node is taken out, and what it held is returned.
LEMMA PopHeadSafe ==
  ASSUME ThreadsafeAssumption, FineInv, calls' = calls, NEW t \in Thread, Queues!pop_head(t)
  PROVE  FineInv' /\ FineActs(t)
  <1>1. PICK shared : shared = [head |-> mem.node[mem.head].next, head_mutex |-> Null]
    OBVIOUS
  <1>2. PICK v : v = th[t].value
    OBVIOUS
  <1>3. PICK got : got = Append(th[t].got, v)
    OBVIOUS
  <1>4. PICK own : own = [pc |-> "free", old_head |-> mem.head, got |-> got]
    OBVIOUS
  <1>5. th[t].pc = "move" /\ GoesOn(t, shared, own)
    BY <1>1, <1>2, <1>3, <1>4, StepsAre DEF Queues!pop_head, Queues!With, FineInv, Calling, Threading
  <1>6. PICK c : FineList(c)
    BY DEF FineInv
  <1>7. /\ mem.tail \in DOMAIN mem.node /\ NodesOf(c) \subseteq DOMAIN mem.node /\ mem.tail \notin NodesOf(c)
        /\ mem.head # mem.tail => mem.head \in NodesOf(c)
        /\ \A u \in Thread : FinePrivate(u) \subseteq DOMAIN mem.node \ (NodesOf(c) \cup {mem.tail})
    BY <1>6, FineNodes
  <1>8. /\ mem.head_mutex = t /\ mem.head # mem.tail /\ v = mem.node[mem.head].data
        /\ Head(th[t].todo) # "push"
    BY <1>2, <1>5 DEF FineInv, FineSafe
  <1>9. v \in Answers
    BY <1>7, <1>8 DEF FineInv, FineMemory, Nodes, Answers
  <1>10. got \in Seq(Answers)
    <2>1. PICK s \in Seq(Answers) : s = th[t].got
      BY DEF FineInv, Calling
    <2>2. Append(s, v) \in Seq(Answers)
      BY <1>9
    <2> QED
      BY <1>3, <2>1, <2>2
  <1>11. /\ Calling' /\ th'[t].todo = th[t].todo /\ th'[t].pc = "free" /\ th'[t].got = got
         /\ th'[t].old_head = mem.head /\ "old_head" \in DOMAIN th'[t]
         /\ \A u \in Thread : u # t => th'[u] = th[u]
         /\ mem' = Threads!Over(shared, mem)
    <2>1. /\ own.pc \notin Operations \cup {"done"} /\ DOMAIN own = {"pc", "old_head", "got"}
          /\ own.pc = "free" /\ own.old_head = mem.head /\ own.got = got
      BY <1>4 DEF Operations
    <2>2. /\ Calling' /\ \A u \in Thread : th'[u].todo = th[u].todo
          /\ \A x \in DOMAIN own : x \in DOMAIN th'[t] /\ th'[t][x] = own[x]
      BY <1>5, <1>10, <2>1, CallingGoesOn DEF FineInv
    <2> QED
      BY <1>5, <2>1, <2>2 DEF GoesOn, Changes
  <1>12. PICK next : next = mem.node[mem.head].next
    OBVIOUS
  <1>13. /\ {"node", "head", "tail", "head_mutex", "tail_mutex"} \subseteq DOMAIN mem'
         /\ mem'.node = mem.node /\ mem'.head = next /\ mem'.tail = mem.tail
         /\ mem'.head_mutex = Null /\ mem'.tail_mutex = mem.tail_mutex
    <2>1. DOMAIN shared = {"head", "head_mutex"} /\ shared.head = next /\ shared.head_mutex = Null
      BY <1>1, <1>12
    <2> QED
      BY <1>11, <2>1, FineFields DEF FineInv
  <1>14. FineMemory'
    BY <1>13 DEF FineInv, FineMemory
  <1>15. FineSafe(t)'
    BY <1>8, <1>11 DEF FineSafe, Operations
  <1>16. ASSUME NEW u \in Thread, u # t PROVE FineSafe(u)'
    <2>1. th'[u] = th[u] /\ mem.head_mutex # u /\ Calling /\ FineSafe(u)
      BY <1>8, <1>11, <1>16 DEF FineInv
    <2> QED
      BY <1>13, <2>1, FineOthers
  <1>17. PICK d : d = Tail(c)
    OBVIOUS
  <1>18. /\ Linked(d, mem.node, next, mem.tail) /\ c[1] = mem.head /\ Len(c) \in Nat /\ Len(c) > 0
         /\ Len(d) = Len(c) - 1
         /\ \A i \in 1..Len(d) : d[i] = c[i + 1] /\ i + 1 \in 1..Len(c) /\ d[i] # mem.head
    <2>1. Linked(c, mem.node, mem.head, mem.tail)
      BY <1>6 DEF FineList
    <2> QED
      BY <1>8, <1>12, <1>17, <2>1, LinkedRest
  <1>19. NodesOf(d)' \subseteq NodesOf(c) \ {mem.head}
    <2>1. \A i \in 1..Len(d) : d[i] \in NodesOf(c) /\ d[i] # mem.head
      BY <1>18 DEF NodesOf
    <2>2. NodesOf(d)' = {d[i] : i \in 1..Len(d)}
      BY DEF NodesOf
    <2> QED
      BY <2>1, <2>2
  <1>20. DataOf(c) \subseteq DataOf(d)' \cup {v}
    <2>1. ASSUME NEW i \in 1..Len(c) PROVE mem.node[c[i]].data \in DataOf(d)' \cup {v}
      <3>1. CASE i = 1
        BY <3>1, <1>8, <1>18
      <3>2. CASE i # 1
        <4>1. i - 1 \in 1..Len(d) /\ (i - 1) + 1 = i
          BY <3>2, <1>18
        <4>2. d[i - 1] = c[i]
          BY <4>1, <1>18
        <4> QED
          BY <4>1, <4>2, <1>13 DEF DataOf
      <3> QED
        BY <3>1, <3>2
    <2> QED
      BY <2>1 DEF DataOf
  <1>21. Keeps(DataOf(d) \cup Returned)'
    <2>1. PICK K : K = DataOf(c) \cup Returned
      OBVIOUS
    <2>2. PICK L : L = (DataOf(d) \cup Returned)'
      OBVIOUS
    <2>3. Returned \subseteq Returned' /\ v \in Returned'
      BY <1>3, <1>9, <1>11, ReturnedMore DEF FineInv
    <2>4. Keeps(K) /\ K \subseteq L
      BY <1>6, <1>20, <2>1, <2>2, <2>3 DEF FineList
    <2>5. Keeps(L)'
      BY <1>11, <2>4, KeepsOn DEF FineInv, Follows
    <2> QED
      BY <2>2, <2>5 DEF Keeps
  <1>22. FineList(d)'
    <2>1. FinePrivate(t)' = {mem.head} /\ mem.head \in NodesOf(c)
      BY <1>7, <1>8, <1>11 DEF FinePrivate
    <2>2. \A u \in Thread : u # t => FinePrivate(u)' = FinePrivate(u)
      BY <1>11 DEF FinePrivate
    <2>3. \A u, v1 \in Thread : u # v1 => FinePrivate(u) \cap FinePrivate(v1) = {}
      BY <1>6 DEF FineList
    <2>4. ASSUME NEW u \in Thread
          PROVE  /\ FinePrivate(u)' \subseteq DOMAIN mem'.node \ (NodesOf(d)' \cup {mem'.tail})
                 /\ \A w \in Thread : w # u => FinePrivate(u)' \cap FinePrivate(w)' = {}
      <3>1. CASE u = t
        <4>1. FinePrivate(u)' \subseteq DOMAIN mem'.node \ (NodesOf(d)' \cup {mem'.tail})
          BY <3>1, <1>7, <1>8, <1>13, <1>19, <2>1
        <4>2. \A w \in Thread : w # u => mem.head \notin FinePrivate(w)'
          BY <3>1, <1>7, <2>1, <2>2
        <4> QED
          BY <3>1, <4>1, <4>2, <2>1
      <3>2. CASE u # t
        <4>1. FinePrivate(u)' = FinePrivate(u) /\ mem.head \notin FinePrivate(u)
          BY <3>2, <1>7, <2>1, <2>2
        <4>2. FinePrivate(u)' \subseteq DOMAIN mem'.node \ (NodesOf(d)' \cup {mem'.tail})
          BY <4>1, <1>7, <1>13, <1>19
        <4> QED
          BY <4>1, <4>2, <2>1, <2>2, <2>3
      <3> QED
        BY <3>1, <3>2
    <2>5. Linked(d, mem'.node, mem'.head, mem'.tail) /\ mem'.tail \in DOMAIN mem'.node
      BY <1>7, <1>13, <1>18
    <2> QED
      BY <1>21, <2>4, <2>5 DEF FineList
  <1>23. FineActs(t)
    <2>1. Queues!FineItems = ValuesOf(c, mem.node)
      <3>1. Linked(c, mem.node, mem.head, mem.tail) /\ IsFiniteSet(DOMAIN mem.node)
        BY <1>6 DEF FineInv, FineMemory, FineList
      <3> QED
        BY ONLY <3>1, ItemsAre
    <2>2. Queues!FineItems' = ValuesOf(d, mem'.node)
      <3>1. Linked(d, mem'.node, mem'.head, mem'.tail) /\ IsFiniteSet(DOMAIN mem'.node)
        BY <1>13, <1>14, <1>18 DEF FineMemory
      <3> QED
        BY ONLY <3>1, ItemsThen
    <2>3. /\ ValuesOf(c, mem.node) # <<>> /\ ValuesOf(d, mem'.node) = Tail(ValuesOf(c, mem.node))
          /\ Head(ValuesOf(c, mem.node)) = mem.node[c[1]].data
      <3>1. PICK node, node2 : node = mem.node /\ node2 = mem'.node
        OBVIOUS
      <3>2. Len(c) \in Nat
        BY <1>13, <1>18
      <3>3. Len(c) > 0
        BY <1>13, <1>18
      <3>4. Len(d) = Len(c) - 1
        BY <1>13, <1>18
      <3>5. \A i \in 1..Len(d) : d[i] = c[i + 1] /\ node2[d[i]].data = node[d[i]].data
        BY <3>1, <1>13, <1>18
      <3>6. Shorter(c, d, node, node2)
        BY ONLY <3>2, <3>3, <3>4, <3>5 DEF Shorter
      <3>7. /\ ValuesOf(c, node) # <<>> /\ ValuesOf(d, node2) = Tail(ValuesOf(c, node))
            /\ Head(ValuesOf(c, node)) = node[c[1]].data
        BY ONLY <3>6, ValuesRest
      <3> QED
        BY <3>1, <3>7
    <2>4. th'[t].got = Append(th[t].got, Head(Queues!FineItems))
      BY <1>3, <1>8, <1>11, <1>18, <2>1, <2>3
    <2> QED
      BY <1>11, <2>1, <2>2, <2>3, <2>4 DEF FineActs, Does
  <1> QED
    BY <1>11, <1>14, <1>15, <1>16, <1>22, <1>23 DEF FineInv

\* The old head goes, which nobody else knows.
LEMMA FreeHeadSafe ==
  ASSUME ThreadsafeAssumption, FineInv, calls' = calls, NEW t \in Thread, Queues!FreeHead(t)
  PROVE  FineInv' /\ FineActs(t)
  <1>1. PICK n : n = th[t].old_head
    OBVIOUS
  <1>2. PICK shared : shared = [node |-> Queues!Without(mem.node, n)]
    OBVIOUS
  <1>3. PICK got : got = th[t].got
    OBVIOUS
  <1>4. th[t].pc = "free" /\ Ends(t, shared, got)
    BY <1>1, <1>2, <1>3, ReturnsAre DEF Queues!FreeHead, Queues!Return, FineInv, Calling, Threading
  <1>5. PICK c : FineList(c)
    BY DEF FineInv
  <1>6. /\ mem.tail \in DOMAIN mem.node /\ NodesOf(c) \subseteq DOMAIN mem.node /\ mem.tail \notin NodesOf(c)
        /\ mem.head # mem.tail => mem.head \in NodesOf(c)
        /\ \A u \in Thread : FinePrivate(u) \subseteq DOMAIN mem.node \ (NodesOf(c) \cup {mem.tail})
    BY <1>5, FineNodes
  <1>7. FinePrivate(t) = {n} /\ n \notin NodesOf(c) /\ n # mem.tail /\ Head(th[t].todo) # "push"
    BY <1>1, <1>4, <1>6 DEF FinePrivate, FineInv, FineSafe
  <1>8. /\ Calling' /\ FineSafe(t)' /\ FinePrivate(t)' = {}
        /\ \A u \in Thread : u # t => th'[u] = th[u]
        /\ Follows(t) /\ Returned \subseteq Returned' /\ mem' = Threads!Over(shared, mem)
        /\ th'[t].got = got
    <2>1. PICK a \in Answers : a = Null
      BY DEF Answers, Data
    <2>2. got = th[t].got /\ th[t].pc # "done"
      BY <1>3, <1>4
    <2>3. Head(th[t].todo) # "push" /\ Ends(t, shared, got)
      BY <1>4, <1>7
    <2> QED
      BY <2>2, <2>3, FineEnds
  <1>9. /\ {"node", "head", "tail", "head_mutex", "tail_mutex"} \subseteq DOMAIN mem'
        /\ mem'.node = Queues!Without(mem.node, n)
        /\ mem'.head = mem.head /\ mem'.tail = mem.tail
        /\ mem'.head_mutex = mem.head_mutex /\ mem'.tail_mutex = mem.tail_mutex
    <2>1. DOMAIN shared = {"node"} /\ shared.node = Queues!Without(mem.node, n)
      BY <1>2
    <2> QED
      BY <1>8, <2>1, FineFields DEF FineInv
  <1>10. /\ DOMAIN mem'.node = DOMAIN mem.node \ {n}
         /\ \A k \in DOMAIN mem.node : k # n => mem'.node[k] = mem.node[k]
    BY <1>9 DEF Queues!Without
  <1>11. FineMemory'
    <2>1. IsFiniteSet(DOMAIN mem'.node)
      BY <1>10, FS_RemoveElement DEF FineInv, FineMemory
    <2> QED
      BY <1>9, <1>10, <2>1 DEF FineInv, FineMemory
  <1>12. ASSUME NEW u \in Thread, u # t PROVE FineSafe(u)'
    <2>1. th'[u] = th[u] /\ Calling /\ FineSafe(u)
      BY <1>8, <1>12 DEF FineInv
    <2>2. mem'.node[mem.tail] = mem.node[mem.tail]
      BY <1>6, <1>7, <1>10
    <2>3. mem.head # mem.tail => mem'.node[mem.head].data = mem.node[mem.head].data
      BY <1>6, <1>7, <1>10
    <2> QED
      BY <1>9, <2>1, <2>2, <2>3, FineOthers
  <1>13. FineList(c)'
    <2>1. \A u \in Thread : u # t => FinePrivate(t) \cap FinePrivate(u) = {}
      BY <1>5 DEF FineList
    <2>2. \A u \in Thread : u # t => FinePrivate(u) \subseteq DOMAIN mem'.node
      BY <1>6, <1>7, <1>10, <2>1
    <2>3. \A k \in NodesOf(c) : k \in DOMAIN mem'.node /\ mem'.node[k] = mem.node[k]
      BY <1>6, <1>7, <1>10
    <2>4. mem.tail \in DOMAIN mem'.node
      BY <1>6, <1>7, <1>10
    <2> QED
      BY <1>5, <1>8, <1>9, <2>2, <2>3, <2>4, FineStays DEF FineInv
  <1>14. FineActs(t)
    <2>1. \A u \in Thread : th'[u].got = th[u].got
      BY <1>3, <1>8
    <2>2. FineMemory /\ IsFiniteSet(DOMAIN mem'.node)
      BY <1>11 DEF FineInv, FineMemory
    <2>3. \A k \in NodesOf(c) : k \in DOMAIN mem'.node /\ mem'.node[k] = mem.node[k]
      BY <1>6, <1>7, <1>10
    <2> QED
      BY ONLY <1>5, <1>9, <2>1, <2>2, <2>3, t \in Thread, FineIdle
  <1> QED
    BY <1>8, <1>11, <1>12, <1>13, <1>14 DEF FineInv

LEMMA FineStepSafe ==
  ASSUME ThreadsafeAssumption, FineInv, calls' = calls, NEW t \in Thread, Queues!FineStep(t)
  PROVE  FineInv' /\ FineActs(t)
  BY PushLockSafe, PushDataSafe, PushNextSafe, PushTailSafe, PushNotifiesSafe, HeadLockSafe,
     CompareSafe, ValueSafe, PopHeadSafe, FreeHeadSafe, SleepSafe
     DEF Queues!FineStep, Queues!fine_push, Queues!fine_try_pop, Queues!WaitForData

\* At first there is only the dummy.
LEMMA FineFirst ==
  ASSUME ThreadsafeAssumption, Calling, mem = Queues!FineInit,
         \A t \in Thread : th[t].pc \in Operations \cup {"done"} /\ Pushed(t) = {}
  PROVE  FineInv
  <1>1. /\ mem.node = [n \in {0} |-> Queues!Blank] /\ mem.head = 0 /\ mem.tail = 0
        /\ {"node", "head", "tail", "head_mutex", "tail_mutex"} \subseteq DOMAIN mem
    BY DEF Queues!FineInit
  <1>2. FineMemory
    <2>1. IsFiniteSet({0})
      BY FS_Singleton
    <2> QED
      BY <1>1, <2>1 DEF FineMemory, Queues!Blank, Nodes, Data
  <1>3. \A t \in Thread : FineSafe(t) /\ FinePrivate(t) = {} /\ th[t].pc \notin {"pushed", "notify"}
    BY DEF FineSafe, FinePrivate, Operations
  <1>4. Linked(<<>>, mem.node, mem.head, mem.tail)
    BY <1>1 DEF Linked, After
  <1>5. Keeps(DataOf(<<>>) \cup Returned)
    BY <1>3 DEF Keeps
  <1>6. FineList(<<>>)
    BY <1>1, <1>3, <1>4, <1>5 DEF FineList
  <1> QED
    BY <1>2, <1>3, <1>6 DEF FineInv

\* The values of the queue are those in the list.
LEMMA FineItemsAre ==
  ASSUME FineInv, NEW c, FineList(c)
  PROVE  ToSet(Queues!FineItems) = DataOf(c)
  <1>1. /\ Linked(c, mem.node, mem.head, mem.tail) /\ IsFiniteSet(DOMAIN mem.node)
        /\ c \in Seq(DOMAIN mem.node)
    BY DEF FineInv, FineMemory, FineList, Linked
  <1>2. Queues!Chain(mem.node, mem.head, mem.tail) = c
    BY <1>1, ChainIs
  <1>3. Queues!FineItems = [i \in DOMAIN c |-> mem.node[c[i]].data]
    BY <1>2 DEF Queues!FineItems, Queues!ValuesTo
  <1>4. DOMAIN c = 1..Len(c)
    BY <1>1
  <1> QED
    BY <1>3, <1>4 DEF ToSet, DataOf

\* What NothingForgotten and NoUseAfterFree say of this queue.
LEMMA FineHolds ==
  ASSUME FineInv
  PROVE  /\ UNION {Pushed(t) : t \in Thread}
               \subseteq ToSet(Queues!FineItems) \cup UNION {ToSet(th[t].got) : t \in Thread}
         /\ \A t \in Thread : Queues!FineUses(t) \subseteq DOMAIN mem.node
         /\ {mem.head, mem.tail} \subseteq DOMAIN mem.node
  <1>1. PICK c : FineList(c)
    BY DEF FineInv
  <1>2. /\ mem.tail \in DOMAIN mem.node /\ mem.head \in DOMAIN mem.node
        /\ \A u \in Thread : FinePrivate(u) \subseteq DOMAIN mem.node
    BY <1>1, FineNodes
  <1>3. ToSet(Queues!FineItems) = DataOf(c)
    BY <1>1, FineItemsAre
  <1>4. Keeps(DataOf(c) \cup Returned)
    BY <1>1 DEF FineList
  <1>5. ASSUME NEW t \in Thread PROVE Queues!FineUses(t) \subseteq DOMAIN mem.node
    <2>1. CASE th[t].pc \in {"data", "next"}
      BY <1>2, <2>1 DEF Queues!FineUses
    <2>2. CASE th[t].pc \in {"value", "move"}
      BY <1>2, <2>2 DEF Queues!FineUses
    <2>3. CASE th[t].pc = "free"
      <3>1. FinePrivate(t) = {th[t].old_head} /\ Queues!FineUses(t) = {th[t].old_head}
        BY <2>3 DEF FinePrivate, Queues!FineUses
      <3> QED
        BY <1>2, <3>1
    <2>4. CASE th[t].pc \notin {"data", "next", "value", "move", "free"}
      BY <2>4 DEF Queues!FineUses
    <2> QED
      BY <2>1, <2>2, <2>3, <2>4
  <1> QED
    BY <1>2, <1>3, <1>4, <1>5 DEF Keeps, Returned

------------------------------------------------------------------------------
(* The queue with one mutex *)

CoarseSafe(t) ==
    /\ th[t].pc \in Operations \cup {"done", "locked", "notify", "asleep", "woken"}
    /\ th[t].pc \in {"locked", "notify"} => mem.mut = t
    /\ th[t].pc = "notify" => Head(th[t].todo) = "push"
    /\ th[t].pc \in {"asleep", "woken"} => Head(th[t].todo) = "wait_and_pop"

CoarseMemory == {"queue", "mut"} \subseteq DOMAIN mem /\ mem.queue \in Seq(Data)

\* Who will pop a value, or will wake someone to pop it.
Serving(t) ==
    \/ th[t].pc \in {"woken", "notify"}
    \/ th[t].pc = "locked" /\ Head(th[t].todo) = "wait_and_pop"
Servers == {t \in Thread : Serving(t)}

\* No wakeup is lost: while one sleeps, each value has a thread that sees to it.
CoarseInv ==
    /\ Calling /\ CoarseMemory /\ \A t \in Thread : CoarseSafe(t)
    /\ Keeps(ToSet(mem.queue) \cup Returned)
    /\ (\E t \in Thread : th[t].pc = "asleep") => Len(mem.queue) <= Cardinality(Servers)

\* What a step is to the atomic queue.
CoarseActs(t) == Does(t, mem.queue, mem'.queue)

\* A step that takes or gives up the mutex, or does neither, and keeps what has been pushed.
LEMMA CoarseDoes ==
  ASSUME ThreadsafeAssumption, CoarseInv, Calling', NEW t \in Thread,
         \A u \in Thread : u # t => th'[u] = th[u] \/ Woken(u),
         CoarseMemory', mem'.mut = mem.mut \/ mem.mut \in {t, Null}, CoarseSafe(t)',
         Keeps(ToSet(mem.queue) \cup Returned)',
         (\E u \in Thread : th'[u].pc = "asleep") => Len(mem'.queue) <= Cardinality(Servers')
  PROVE  CoarseInv'
  <1>1. ASSUME NEW u \in Thread, u # t PROVE CoarseSafe(u)'
    <2>1. mem.mut = u => mem'.mut = u
      BY <1>1 DEF ThreadsafeAssumption
    <2>2. CASE th'[u] = th[u]
      BY <2>1, <2>2 DEF CoarseInv, CoarseSafe
    <2>3. CASE Woken(u)
      BY <2>3 DEF CoarseInv, CoarseSafe, Woken, Calling, Threading, Operations
    <2> QED
      BY <1>1, <2>2, <2>3
  <1>2. \A u \in Thread : CoarseSafe(u)'
    BY <1>1
  <1> QED
    BY <1>2 DEF CoarseInv

\* The values in the queue and those returned, before and after.
LEMMA CoarseKeeps ==
  ASSUME CoarseInv, calls' = calls, NEW t \in Thread,
         \A u \in Thread : u # t => th'[u] = th[u] \/ Woken(u),
         Returned \subseteq Returned', ToSet(mem.queue) \subseteq ToSet(mem'.queue) \cup Returned',
         Follows(t) \/ (th'[t].todo = th[t].todo /\ Queues!Item(t) \in ToSet(mem'.queue))
  PROVE  Keeps(ToSet(mem.queue) \cup Returned)'
  <1>1. PICK K : K = ToSet(mem.queue) \cup Returned
    OBVIOUS
  <1>2. PICK L : L = (ToSet(mem.queue) \cup Returned)'
    OBVIOUS
  <1>3. Keeps(K) /\ K \subseteq L
    BY <1>1, <1>2 DEF CoarseInv
  <1>4. Keeps(L)'
    <2>1. CASE Follows(t)
      BY <1>3, <2>1, KeepsOn DEF CoarseInv
    <2>2. CASE th'[t].todo = th[t].todo /\ Queues!Item(t) \in ToSet(mem'.queue)
      BY <1>2, <1>3, <2>2, KeepsGoesOn DEF CoarseInv
    <2> QED
      BY <2>1, <2>2
  <1> QED
    BY <1>2, <1>4 DEF Keeps

\* A set has no fewer members than one it holds.
LEMMA ServersAre ==
  ASSUME ThreadsafeAssumption, NEW S \in SUBSET Thread, NEW R \in SUBSET S
  PROVE  IsFiniteSet(S) /\ IsFiniteSet(R) /\ Cardinality(S) \in Nat /\ Cardinality(R) \in Nat
         /\ Cardinality(R) <= Cardinality(S)
  <1>1. IsFiniteSet(S)
    BY FS_Subset DEF ThreadsafeAssumption
  <1>2. IsFiniteSet(R) /\ Cardinality(R) <= Cardinality(S)
    BY <1>1, FS_Subset
  <1> QED
    BY <1>1, <1>2, FS_CardinalityType

\* Nobody else stops serving.
LEMMA ServersStay ==
  ASSUME CoarseInv, NEW t \in Thread, \A u \in Thread : u # t => th'[u] = th[u] \/ Woken(u)
  PROVE  /\ Servers \ {t} \subseteq Servers'
         /\ (\E u \in Thread : th'[u].pc = "asleep") =>
               th'[t].pc = "asleep" \/ \E u \in Thread : th[u].pc = "asleep"
  <1>1. ASSUME NEW u \in Thread, u # t PROVE Serving(u) => Serving(u)'
    BY <1>1 DEF Serving, Woken, CoarseInv, Calling, Threading
  <1>2. \A u \in Thread : u # t => (th'[u].pc = "asleep" => th[u].pc = "asleep")
    BY DEF Woken, CoarseInv, Calling, Threading
  <1> QED
    BY <1>1, <1>2 DEF Servers

\* The fields a step writes, and where a thread is that goes on.
LEMMA CoarseFields ==
  ASSUME CoarseMemory, NEW shared, mem' = Threads!Over(shared, mem), DOMAIN shared \subseteq {"queue", "mut"}
  PROVE  /\ {"queue", "mut"} \subseteq DOMAIN mem'
         /\ mem'.queue = IF "queue" \in DOMAIN shared THEN shared.queue ELSE mem.queue
         /\ mem'.mut = IF "mut" \in DOMAIN shared THEN shared.mut ELSE mem.mut
  <1>1. /\ DOMAIN mem' = DOMAIN shared \cup DOMAIN mem
        /\ \A x \in DOMAIN shared : mem'[x] = shared[x]
        /\ \A x \in DOMAIN mem : x \notin DOMAIN shared => mem'[x] = mem[x]
    BY MemIs
  <1> QED
    BY <1>1 DEF CoarseMemory

LEMMA CoarseGoesOn ==
  ASSUME CoarseInv, calls' = calls, NEW t \in Thread, NEW shared, NEW own, GoesOn(t, shared, own),
         th[t].pc # "done", DOMAIN own = {"pc"}, own.pc \notin Operations \cup {"done"}
  PROVE  /\ Calling' /\ th'[t].todo = th[t].todo /\ th'[t].pc = own.pc
         /\ th'[t].got = th[t].got
         /\ \A u \in Thread : u # t => th'[u] = th[u]
         /\ Returned' = Returned /\ mem' = Threads!Over(shared, mem)
  <1>1. /\ Calling' /\ \A u \in Thread : th'[u].todo = th[u].todo
        /\ \A x \in DOMAIN own : x \in DOMAIN th'[t] /\ th'[t][x] = own[x]
        /\ \A x \in DOMAIN th[t] : x \notin DOMAIN own => x \in DOMAIN th'[t] /\ th'[t][x] = th[t][x]
    BY CallingGoesOn DEF CoarseInv
  <1>2. "got" \in DOMAIN th[t]
    BY DEF CoarseInv, Calling, Threading
  <1>3. (\A u \in Thread : u # t => th'[u] = th[u]) /\ mem' = Threads!Over(shared, mem)
    BY DEF GoesOn, Changes
  <1>4. \A u \in Thread : th'[u].got = th[u].got
    BY <1>1, <1>2, <1>3
  <1> QED
    BY <1>1, <1>3, <1>4 DEF Returned

\* The mutex is taken.
LEMMA LocksSafe ==
  ASSUME ThreadsafeAssumption, CoarseInv, calls' = calls, NEW t \in Thread,
         NEW call \in {"push", "try_pop", "wait_and_pop", "empty", "woken"}, Queues!Locks(t, call)
  PROVE  CoarseInv' /\ CoarseActs(t)
  <1>1. PICK shared : shared = [mut |-> t]
    OBVIOUS
  <1>2. PICK own : own = [pc |-> "locked"]
    OBVIOUS
  <1>3. th[t].pc = call /\ GoesOn(t, shared, own) /\ mem.mut = Null
    BY <1>1, <1>2, StepsAre DEF Queues!Locks, CoarseInv, Calling, Threading
  <1>4. /\ Calling' /\ th'[t].todo = th[t].todo /\ th'[t].pc = "locked" /\ Returned' = Returned
        /\ th'[t].got = th[t].got
        /\ \A u \in Thread : u # t => th'[u] = th[u]
        /\ mem' = Threads!Over(shared, mem)
    <2>1. own.pc \notin Operations \cup {"done"} /\ DOMAIN own = {"pc"} /\ own.pc = "locked"
      BY <1>2 DEF Operations
    <2> QED
      BY <1>3, <2>1, CoarseGoesOn
  <1>5. {"queue", "mut"} \subseteq DOMAIN mem' /\ mem'.queue = mem.queue /\ mem'.mut = t
    <2>1. DOMAIN shared = {"mut"} /\ shared.mut = t
      BY <1>1
    <2> QED
      BY <1>4, <2>1, CoarseFields DEF CoarseInv
  <1>6. CoarseMemory'
    BY <1>5 DEF CoarseInv, CoarseMemory
  <1>7. CoarseSafe(t)'
    BY <1>4, <1>5 DEF CoarseSafe, Operations
  <1>8. Keeps(ToSet(mem.queue) \cup Returned)'
    <2>1. Follows(t)
      BY <1>4 DEF Follows
    <2> QED
      BY <1>4, <1>5, <2>1, CoarseKeeps
  <1>9. (\E u \in Thread : th'[u].pc = "asleep") => Len(mem'.queue) <= Cardinality(Servers')
    <2>1. Servers \subseteq Servers'
      <3>1. Serving(t) => Serving(t)'
        BY <1>3, <1>4 DEF Serving, CoarseInv, CoarseSafe
      <3> QED
        BY <1>4, <3>1, ServersStay DEF Servers
    <2>2. Cardinality(Servers) \in Nat /\ Cardinality(Servers') \in Nat
          /\ Cardinality(Servers) <= Cardinality(Servers')
      <3>1. Servers' \in SUBSET Thread
        BY DEF Servers
      <3> QED
        BY <2>1, <3>1, ServersAre
    <2>3. (\E u \in Thread : th'[u].pc = "asleep") => \E u \in Thread : th[u].pc = "asleep"
      BY <1>4, ServersStay
    <2>4. Len(mem.queue) \in Nat
      BY DEF CoarseInv, CoarseMemory
    <2> QED
      BY <1>5, <2>2, <2>3, <2>4 DEF CoarseInv
  <1>10. CoarseInv'
    BY <1>3, <1>4, <1>5, <1>6, <1>7, <1>8, <1>9, CoarseDoes
  <1> QED
    BY <1>4, <1>5, <1>10 DEF CoarseActs, Does

\* A value comes to the queue, and the pusher is to notify.
LEMMA CoarsePushSafe ==
  ASSUME ThreadsafeAssumption, CoarseInv, calls' = calls, NEW t \in Thread, Queues!Calls(t, "push"),
         Queues!Step(t, "locked", [queue |-> Append(mem.queue, Queues!Item(t))], [pc |-> "notify"])
  PROVE  CoarseInv' /\ CoarseActs(t)
  <1>1. PICK q \in Seq(Data) : q = mem.queue
    BY DEF CoarseInv, CoarseMemory
  <1>2. PICK v \in Data : v = Queues!Item(t)
    <2>1. th[t].todo \in Seq(Operations)
      BY DEF CoarseInv, Calling, Threading
    <2>2. Queues!Item(t) \in Data
      BY <2>1 DEF Queues!Item, Data
    <2> QED
      BY <2>2
  <1>3. PICK shared : shared = [queue |-> Append(q, v)]
    OBVIOUS
  <1>4. PICK own : own = [pc |-> "notify"]
    OBVIOUS
  <1>5. th[t].pc = "locked" /\ GoesOn(t, shared, own) /\ Head(th[t].todo) = "push"
    BY <1>1, <1>2, <1>3, <1>4, StepsAre DEF Queues!Calls, CoarseInv, Calling, Threading
  <1>6. /\ Calling' /\ th'[t].todo = th[t].todo /\ th'[t].pc = "notify" /\ Returned' = Returned
        /\ th'[t].got = th[t].got
        /\ \A u \in Thread : u # t => th'[u] = th[u]
        /\ mem' = Threads!Over(shared, mem)
    <2>1. own.pc \notin Operations \cup {"done"} /\ DOMAIN own = {"pc"} /\ own.pc = "notify"
      BY <1>4 DEF Operations
    <2> QED
      BY <1>5, <2>1, CoarseGoesOn
  <1>7. {"queue", "mut"} \subseteq DOMAIN mem' /\ mem'.queue = Append(q, v) /\ mem'.mut = mem.mut
    <2>1. DOMAIN shared = {"queue"} /\ shared.queue = Append(q, v)
      BY <1>3
    <2> QED
      BY <1>6, <2>1, CoarseFields DEF CoarseInv
  <1>8. /\ Append(q, v) \in Seq(Data) /\ Len(Append(q, v)) = Len(q) + 1 /\ Len(q) \in Nat
        /\ ToSet(q) \subseteq ToSet(Append(q, v)) /\ v \in ToSet(Append(q, v))
    BY AppendIs
  <1>9. CoarseMemory'
    BY <1>7, <1>8 DEF CoarseMemory
  <1>10. CoarseSafe(t)'
    BY <1>5, <1>6, <1>7 DEF CoarseInv, CoarseSafe, Operations
  <1>11. Keeps(ToSet(mem.queue) \cup Returned)'
    <2>1. ToSet(mem.queue) \subseteq ToSet(mem'.queue) /\ Queues!Item(t) \in ToSet(mem'.queue)
      BY <1>1, <1>2, <1>7, <1>8
    <2> QED
      BY <1>6, <2>1, CoarseKeeps
  <1>12. (\E u \in Thread : th'[u].pc = "asleep") => Len(mem'.queue) <= Cardinality(Servers')
    <2>1. t \notin Servers /\ t \in Servers'
      BY <1>5, <1>6 DEF Servers, Serving
    <2>2. Servers \cup {t} \subseteq Servers' /\ Servers' \in SUBSET Thread /\ Servers \in SUBSET Thread
      BY <1>6, <2>1, ServersStay DEF Servers
    <2>3. Cardinality(Servers) + 1 <= Cardinality(Servers') /\ Cardinality(Servers) \in Nat
          /\ Cardinality(Servers') \in Nat
      <3>1. /\ IsFiniteSet(Servers) /\ Cardinality(Servers) \in Nat /\ Cardinality(Servers') \in Nat
            /\ Cardinality(Servers \cup {t}) \in Nat /\ Cardinality(Servers \cup {t}) <= Cardinality(Servers')
        BY <2>2, ServersAre
      <3>2. Cardinality(Servers \cup {t}) = Cardinality(Servers) + 1
        BY <2>1, <3>1, FS_AddElement
      <3> QED
        BY <3>1, <3>2
    <2>4. (\E u \in Thread : th'[u].pc = "asleep") => \E u \in Thread : th[u].pc = "asleep"
      BY <1>6, ServersStay
    <2> QED
      BY <1>1, <1>7, <1>8, <2>3, <2>4 DEF CoarseInv
  <1>13. CoarseInv'
    BY <1>6, <1>7, <1>9, <1>10, <1>11, <1>12, CoarseDoes
  <1>14. th[t].todo # <<>>
    BY <1>5 DEF CoarseInv, Calling, Threading
  <1>15. mem'.queue = Append(mem.queue, Queues!Item(t))
    BY <1>1, <1>2, <1>7
  <1> QED
    BY <1>6, <1>13, <1>14, <1>15 DEF CoarseActs, Does

\* One who sleeps is woken for the value, if anyone does.
LEMMA CoarseNotifySafe ==
  ASSUME ThreadsafeAssumption, CoarseInv, calls' = calls, NEW t \in Thread, Queues!At(t, "notify"),
         Queues!notify_one(t, Queues!Returned(t, th[t].got)), mem' = [mem EXCEPT !.mut = Null]
  PROVE  CoarseInv' /\ CoarseActs(t)
  <1>1. th[t].pc = "notify"
    BY DEF Queues!At
  <1>2. PICK got : got = th[t].got
    OBVIOUS
  <1>3. /\ Threading' /\ th'[t].pc \in Operations \cup {"done"}
        /\ th'[t].todo = Tail(th[t].todo) /\ th[t].todo # <<>> /\ th'[t].got = got
        /\ \A u \in Thread : u # t => th'[u] = th[u] \/ Woken(u)
        /\ (\E u \in Thread : th[u].pc = "asleep") =>
              \E w \in Thread : w # t /\ Woken(w) /\ \A u \in Thread : u \notin {t, w} => th'[u] = th[u]
    BY <1>1, <1>2, NotifyIs DEF CoarseInv, Calling
  <1>4. Calling'
    <2>1. got \in Seq(Answers)
      BY <1>2 DEF CoarseInv, Calling
    <2> QED
      BY <1>3, <2>1, CallingEnds DEF CoarseInv
  <1>5. Returned \subseteq Returned'
    <2>1. Null \in Answers /\ th'[t].got \in {th[t].got, Append(th[t].got, Null)}
      BY <1>2, <1>3 DEF Answers, Data
    <2> QED
      BY <1>3, <2>1, ReturnedMore DEF CoarseInv
  <1>6. {"queue", "mut"} \subseteq DOMAIN mem' /\ mem'.queue = mem.queue
    BY DEF CoarseInv, CoarseMemory
  <1>7. CoarseMemory' /\ mem.mut = t
    BY <1>1, <1>6 DEF CoarseInv, CoarseMemory, CoarseSafe
  <1>8. CoarseSafe(t)'
    BY <1>3 DEF CoarseSafe, Operations
  <1>9. Keeps(ToSet(mem.queue) \cup Returned)'
    <2>1. Follows(t)
      BY <1>1, <1>3 DEF Follows
    <2> QED
      BY <1>3, <1>5, <1>6, <2>1, CoarseKeeps
  <1>10. (\E u \in Thread : th'[u].pc = "asleep") => Len(mem'.queue) <= Cardinality(Servers')
    <2> SUFFICES ASSUME \E u \in Thread : th'[u].pc = "asleep"
                 PROVE  Len(mem.queue) <= Cardinality(Servers')
      BY <1>6
    <2>1. \E u \in Thread : th[u].pc = "asleep"
      <3>1. th'[t].pc # "asleep"
        BY <1>3 DEF Operations
      <3> QED
        BY <1>3, <3>1, ServersStay
    <2>2. PICK w \in Thread : w # t /\ Woken(w)
      BY <1>3, <2>1
    <2>3. w \notin Servers /\ w \in Servers' /\ t \in Servers
      BY <1>1, <2>2 DEF Servers, Serving, Woken, CoarseInv, Calling, Threading
    <2>4. PICK S \in SUBSET Thread : S = Servers
      BY DEF Servers
    <2>5. PICK R \in SUBSET Thread : R = Servers'
      BY DEF Servers
    <2>6. (S \ {t}) \cup {w} \subseteq R
      BY <1>3, <2>3, <2>4, <2>5, ServersStay
    <2>7. Cardinality(S) <= Cardinality(R) /\ Cardinality(S) \in Nat /\ Cardinality(R) \in Nat
      <3>1. IsFiniteSet(S) /\ IsFiniteSet(S \ {t}) /\ Cardinality(S) \in Nat
        BY ServersAre
      <3>2. Cardinality(S \ {t}) = Cardinality(S) - 1
        BY <3>1, <2>3, <2>4, FS_RemoveElement
      <3>3. Cardinality((S \ {t}) \cup {w}) = Cardinality(S \ {t}) + 1
        BY <3>1, <2>3, <2>4, FS_AddElement
      <3>4. Cardinality((S \ {t}) \cup {w}) <= Cardinality(R) /\ Cardinality(R) \in Nat
        BY <2>6, ServersAre
      <3> QED
        BY <3>1, <3>2, <3>3, <3>4
    <2>8. Len(mem.queue) \in Nat /\ Len(mem.queue) <= Cardinality(S)
      BY <2>1, <2>4 DEF CoarseInv, CoarseMemory
    <2> QED
      BY <2>5, <2>7, <2>8
  <1>11. CoarseInv'
    BY <1>3, <1>4, <1>7, <1>8, <1>9, <1>10, CoarseDoes
  <1>12. \A u \in Thread : u # t => th'[u].got = th[u].got
    BY <1>3, OthersRemain DEF CoarseInv
  <1> QED
    BY <1>2, <1>3, <1>6, <1>11, <1>12 DEF CoarseActs, Does

\* A call other than push returns, with the first value or without one.
LEMMA CoarseReturns ==
  ASSUME ThreadsafeAssumption, CoarseInv, calls' = calls, NEW t \in Thread, th[t].pc = "locked",
         Head(th[t].todo) # "push", NEW a \in Answers, NEW got, got = Append(th[t].got, a),
         NEW rest \in Seq(Data), NEW shared, Ends(t, shared, got),
         DOMAIN shared \subseteq {"queue", "mut"}, "mut" \in DOMAIN shared, shared.mut = Null,
         (IF "queue" \in DOMAIN shared THEN shared.queue ELSE mem.queue) = rest,
         ToSet(mem.queue) \subseteq ToSet(rest) \cup {a}, Len(rest) <= Len(mem.queue),
         Head(th[t].todo) = "wait_and_pop" => Len(rest) = Len(mem.queue) - 1
  PROVE  CoarseInv'
  <1>1. /\ Threading' /\ th'[t].pc \in Operations \cup {"done"}
        /\ th'[t].todo = Tail(th[t].todo) /\ th[t].todo # <<>> /\ th'[t].got = got
    <2>1. Threading /\ th[t].pc # "done"
      BY DEF CoarseInv, Calling
    <2> QED
      BY ONLY <2>1, t \in Thread, Ends(t, shared, got), EndsIs
  <1>2. (\A u \in Thread : u # t => th'[u] = th[u]) /\ mem' = Threads!Over(shared, mem)
    BY DEF Ends, Changes
  <1>3. {"queue", "mut"} \subseteq DOMAIN mem' /\ mem'.queue = rest /\ mem'.mut = Null
    BY <1>2, CoarseFields DEF CoarseInv
  <1>4. Calling'
    <2>1. th[t].got \in Seq(Answers)
      BY DEF CoarseInv, Calling
    <2>2. got \in Seq(Answers)
      BY <2>1
    <2> QED
      BY <1>1, <1>2, <2>2, CallingEnds DEF CoarseInv
  <1>5. Returned \subseteq Returned' /\ a \in Returned'
    BY <1>1, <1>2, ReturnedMore DEF CoarseInv
  <1>6. Keeps(ToSet(mem.queue) \cup Returned)'
    <2>1. Follows(t)
      BY <1>1 DEF Follows
    <2>2. ToSet(mem.queue) \subseteq ToSet(mem'.queue) \cup Returned'
      BY <1>3, <1>5
    <2> QED
      BY <1>2, <1>5, <2>1, <2>2, CoarseKeeps
  <1>7. CoarseMemory'
    BY <1>3 DEF CoarseMemory
  <1>8. CoarseSafe(t)' /\ mem.mut = t
    BY <1>1 DEF CoarseInv, CoarseSafe, Operations
  <1>9. (\E u \in Thread : th'[u].pc = "asleep") => Len(mem'.queue) <= Cardinality(Servers')
    <2> SUFFICES ASSUME \E u \in Thread : th'[u].pc = "asleep"
                 PROVE  Len(rest) <= Cardinality(Servers')
      BY <1>3
    <2>1. \E u \in Thread : th[u].pc = "asleep"
      <3>1. th'[t].pc # "asleep"
        BY <1>1 DEF Operations
      <3> QED
        BY <1>2, <3>1, ServersStay
    <2>2. PICK S \in SUBSET Thread : S = Servers
      BY DEF Servers
    <2>3. PICK R \in SUBSET Thread : R = Servers'
      BY DEF Servers
    <2>4. Len(mem.queue) <= Cardinality(S) /\ Len(mem.queue) \in Nat /\ Len(rest) \in Nat
      BY <2>1, <2>2 DEF CoarseInv, CoarseMemory
    <2>5. S \ {t} \subseteq R
      BY <1>2, <2>2, <2>3, ServersStay
    <2>6. IsFiniteSet(S) /\ Cardinality(S) \in Nat /\ Cardinality(R) \in Nat
      BY ServersAre
    <2>7. Cardinality(S \ {t}) <= Cardinality(R)
      BY <2>5, ServersAre
    <2>8. CASE Head(th[t].todo) = "wait_and_pop"
      <3>1. t \in S
        BY <2>2, <2>8 DEF Servers, Serving
      <3>2. Cardinality(S \ {t}) = Cardinality(S) - 1
        BY <2>6, <3>1, FS_RemoveElement
      <3> QED
        BY <2>3, <2>4, <2>6, <2>7, <2>8, <3>2
    <2>9. CASE Head(th[t].todo) # "wait_and_pop"
      <3>1. t \notin S
        BY <2>2, <2>9 DEF Servers, Serving
      <3>2. S \ {t} = S
        BY <3>1
      <3>3. Cardinality(S) <= Cardinality(R)
        BY <2>7, <3>2
      <3>4. Len(rest) <= Cardinality(R)
        BY <2>4, <2>6, <3>3
      <3> QED
        BY <2>3, <3>4
    <2> QED
      BY <2>8, <2>9
  <1> QED
    BY <1>2, <1>3, <1>4, <1>6, <1>7, <1>8, <1>9, CoarseDoes

LEMMA CoarseAnswered ==
  ASSUME CoarseInv, NEW t \in Thread, th[t].pc = "locked", NEW shared, NEW got, Ends(t, shared, got),
         DOMAIN shared \subseteq {"queue", "mut"}
  PROVE  /\ mem'.queue = (IF "queue" \in DOMAIN shared THEN shared.queue ELSE mem.queue)
         /\ th'[t].got = got /\ \A u \in Thread : u # t => th'[u].got = th[u].got
  <1>1. th'[t].got = got
    <2>1. Threading /\ th[t].pc # "done"
      BY DEF CoarseInv, Calling
    <2> QED
      BY ONLY <2>1, t \in Thread, Ends(t, shared, got), EndsIs
  <1>2. (\A u \in Thread : u # t => th'[u] = th[u]) /\ mem' = Threads!Over(shared, mem)
    BY DEF Ends, Changes
  <1> QED
    BY <1>1, <1>2, CoarseFields DEF CoarseInv

LEMMA TakeFrontSafe ==
  ASSUME ThreadsafeAssumption, CoarseInv, calls' = calls, NEW t \in Thread,
         Head(th[t].todo) # "push", Queues!TakeFront(t)
  PROVE  CoarseInv' /\ CoarseActs(t)
  <1>1. PICK q \in Seq(Data) : q = mem.queue
    BY DEF CoarseInv, CoarseMemory
  <1>2. PICK shared : shared = [queue |-> Tail(q), mut |-> Null]
    OBVIOUS
  <1>3. q # <<>>
    BY <1>1 DEF Queues!TakeFront
  <1>4. /\ Tail(q) \in Seq(Data) /\ Len(q) \in Nat /\ Len(Tail(q)) = Len(q) - 1 /\ Head(q) \in Data
        /\ ToSet(q) \subseteq ToSet(Tail(q)) \cup {Head(q)}
    BY <1>3, TailIs
  <1>5. PICK a \in Answers : a = Head(q)
    BY <1>4 DEF Answers
  <1>6. PICK got : got = Append(th[t].got, a)
    OBVIOUS
  <1>7. th[t].pc = "locked" /\ Ends(t, shared, got)
    BY <1>1, <1>2, <1>5, <1>6, ReturnsAre
       DEF Queues!TakeFront, Queues!Answer, Queues!With, CoarseInv, Calling, Threading
  <1>8. /\ DOMAIN shared = {"queue", "mut"} /\ shared.queue = Tail(q) /\ shared.mut = Null
    BY <1>2
  <1>9. PICK rest \in Seq(Data) : rest = Tail(q)
    BY <1>4
  <1>10. /\ (IF "queue" \in DOMAIN shared THEN shared.queue ELSE mem.queue) = rest
         /\ ToSet(mem.queue) \subseteq ToSet(rest) \cup {a} /\ Len(rest) = Len(mem.queue) - 1
         /\ Len(rest) <= Len(mem.queue)
    BY <1>1, <1>4, <1>5, <1>8, <1>9
  <1>11. CoarseInv'
    BY <1>6, <1>7, <1>8, <1>10, CoarseReturns
  <1>12. /\ mem'.queue = (IF "queue" \in DOMAIN shared THEN shared.queue ELSE mem.queue)
         /\ th'[t].got = got /\ \A u \in Thread : u # t => th'[u].got = th[u].got
    BY <1>7, <1>8, CoarseAnswered
  <1> QED
    BY <1>1, <1>3, <1>5, <1>6, <1>8, <1>11, <1>12 DEF CoarseActs, Does

\* empty returns, or try_pop without a value.
LEMMA CoarseAnswers ==
  ASSUME ThreadsafeAssumption, CoarseInv, calls' = calls, NEW t \in Thread,
         Head(th[t].todo) \notin {"push", "wait_and_pop"}, NEW a \in Answers,
         a = IF mem.queue = <<>> THEN Null ELSE Queues!NotEmpty,
         Queues!Answer(t, "locked", [mut |-> Null], a)
  PROVE  CoarseInv' /\ CoarseActs(t)
  <1>1. PICK q \in Seq(Data) : q = mem.queue
    BY DEF CoarseInv, CoarseMemory
  <1>2. PICK shared : shared = [mut |-> Null]
    OBVIOUS
  <1>3. PICK got : got = Append(th[t].got, a)
    OBVIOUS
  <1>4. th[t].pc = "locked" /\ Ends(t, shared, got)
    BY <1>2, <1>3, ReturnsAre DEF Queues!Answer, Queues!With, CoarseInv, Calling, Threading
  <1>5. DOMAIN shared = {"mut"} /\ shared.mut = Null
    BY <1>2
  <1>6. /\ (IF "queue" \in DOMAIN shared THEN shared.queue ELSE mem.queue) = q
        /\ ToSet(mem.queue) \subseteq ToSet(q) \cup {a} /\ Len(q) <= Len(mem.queue)
    BY <1>1, <1>5
  <1>7. CoarseInv'
    BY <1>3, <1>4, <1>5, <1>6, CoarseReturns
  <1>8. /\ mem'.queue = (IF "queue" \in DOMAIN shared THEN shared.queue ELSE mem.queue)
        /\ th'[t].got = got /\ \A u \in Thread : u # t => th'[u].got = th[u].got
    BY <1>4, <1>5, CoarseAnswered
  <1> QED
    BY <1>3, <1>5, <1>7, <1>8 DEF CoarseActs, Does

\* wait_and_pop sleeps while there is nothing, and may wake for no reason.
LEMMA CoarseWaitSafe ==
  ASSUME ThreadsafeAssumption, CoarseInv, calls' = calls, NEW t \in Thread,
         \/ /\ Queues!Calls(t, "wait_and_pop") /\ mem.queue = <<>>
            /\ Queues!Step(t, "locked", [mut |-> Null], [pc |-> "asleep"])
         \/ Queues!SpuriousWakeup(t)
  PROVE  CoarseInv' /\ CoarseActs(t)
  <1>1. PICK sleeps \in BOOLEAN : sleeps = (th[t].pc = "locked")
    OBVIOUS
  <1>2. PICK shared : shared = IF sleeps THEN [mut |-> Null] ELSE Queues!Same
    OBVIOUS
  <1>3. PICK own : own = [pc |-> IF sleeps THEN "asleep" ELSE "woken"]
    OBVIOUS
  <1>4. /\ GoesOn(t, shared, own) /\ th[t].pc = (IF sleeps THEN "locked" ELSE "asleep")
        /\ Head(th[t].todo) = "wait_and_pop" /\ (sleeps => mem.queue = <<>> /\ mem.mut = t)
    <2>1. DOMAIN th = Thread
      BY DEF CoarseInv, Calling, Threading
    <2>2. CASE /\ Queues!Calls(t, "wait_and_pop") /\ mem.queue = <<>>
               /\ Queues!Step(t, "locked", [mut |-> Null], [pc |-> "asleep"])
      <3>1. th[t].pc = "locked" /\ GoesOn(t, [mut |-> Null], [pc |-> "asleep"])
        BY <2>1, <2>2, StepsAre
      <3>2. sleeps /\ shared = [mut |-> Null] /\ own = [pc |-> "asleep"]
        BY <1>1, <1>2, <1>3, <3>1
      <3>3. mem.mut = t
        BY <3>1 DEF CoarseInv, CoarseSafe
      <3> QED
        BY <2>2, <3>1, <3>2, <3>3 DEF Queues!Calls
    <2>3. CASE Queues!SpuriousWakeup(t)
      <3>1. th[t].pc = "asleep" /\ GoesOn(t, Queues!Same, [pc |-> "woken"])
        BY <2>1, <2>3, StepsAre DEF Queues!SpuriousWakeup
      <3>2. ~sleeps /\ shared = Queues!Same /\ own = [pc |-> "woken"]
        BY <1>1, <1>2, <1>3, <3>1
      <3>3. Head(th[t].todo) = "wait_and_pop"
        BY <3>1 DEF CoarseInv, CoarseSafe
      <3> QED
        BY <3>1, <3>2, <3>3
    <2> QED
      BY <2>2, <2>3
  <1>5. /\ Calling' /\ th'[t].todo = th[t].todo /\ Returned' = Returned
        /\ th'[t].got = th[t].got
        /\ th'[t].pc = IF sleeps THEN "asleep" ELSE "woken"
        /\ \A u \in Thread : u # t => th'[u] = th[u]
        /\ mem' = Threads!Over(shared, mem)
    <2>1. /\ own.pc \notin Operations \cup {"done"} /\ DOMAIN own = {"pc"}
          /\ own.pc = (IF sleeps THEN "asleep" ELSE "woken") /\ th[t].pc # "done"
      BY <1>3, <1>4 DEF Operations
    <2> QED
      BY <1>4, <2>1, CoarseGoesOn
  <1>6. /\ {"queue", "mut"} \subseteq DOMAIN mem' /\ mem'.queue = mem.queue
        /\ mem'.mut = mem.mut \/ mem.mut = t
    <2>1. DOMAIN shared \subseteq {"mut"} /\ (~sleeps => DOMAIN shared = {})
      BY <1>2 DEF Queues!Same
    <2> QED
      BY <1>4, <1>5, <2>1, CoarseFields DEF CoarseInv
  <1>7. CoarseMemory' /\ CoarseSafe(t)'
    BY <1>4, <1>5, <1>6 DEF CoarseInv, CoarseMemory, CoarseSafe, Operations
  <1>8. Keeps(ToSet(mem.queue) \cup Returned)'
    <2>1. Follows(t)
      BY <1>5 DEF Follows
    <2> QED
      BY <1>5, <1>6, <2>1, CoarseKeeps
  <1>9. (\E u \in Thread : th'[u].pc = "asleep") => Len(mem'.queue) <= Cardinality(Servers')
    <2>1. PICK S \in SUBSET Thread : S = Servers
      BY DEF Servers
    <2>2. PICK R \in SUBSET Thread : R = Servers'
      BY DEF Servers
    <2>3. Cardinality(R) \in Nat
      BY ServersAre
    <2>4. CASE sleeps
      <3>1. Len(mem.queue) = 0
        BY <1>4, <2>4
      <3> QED
        BY <1>6, <2>2, <2>3, <3>1
    <2>5. CASE ~sleeps
      <3>1. t \in Servers'
        BY <1>5, <2>5 DEF Servers, Serving
      <3>2. S \subseteq R
        BY <1>5, <2>1, <2>2, <3>1, ServersStay
      <3>3. Cardinality(S) <= Cardinality(R) /\ Cardinality(S) \in Nat
        BY <3>2, ServersAre
      <3>4. Len(mem.queue) <= Cardinality(S) /\ Len(mem.queue) \in Nat
        BY <1>4, <2>1, <2>5 DEF CoarseInv, CoarseMemory
      <3> QED
        BY <1>6, <2>2, <2>3, <3>3, <3>4
    <2> QED
      BY <2>4, <2>5
  <1>10. CoarseInv'
    BY <1>5, <1>6, <1>7, <1>8, <1>9, CoarseDoes
  <1> QED
    BY <1>5, <1>6, <1>10 DEF CoarseActs, Does

LEMMA CoarseStepSafe ==
  ASSUME ThreadsafeAssumption, CoarseInv, calls' = calls, NEW t \in Thread, Queues!CoarseStep(t)
  PROVE  CoarseInv' /\ CoarseActs(t)
  <1>1. ASSUME Queues!coarse_push(t) PROVE CoarseInv' /\ CoarseActs(t)
    BY <1>1, LocksSafe, CoarsePushSafe, CoarseNotifySafe DEF Queues!coarse_push
  <1>2. ASSUME Queues!coarse_wait_and_pop(t) PROVE CoarseInv' /\ CoarseActs(t)
    BY <1>2, LocksSafe, TakeFrontSafe, CoarseWaitSafe DEF Queues!coarse_wait_and_pop, Queues!Calls
  <1>3. ASSUME Queues!coarse_try_pop(t) PROVE CoarseInv' /\ CoarseActs(t)
    <2>1. PICK a \in Answers : a = Null
      BY DEF Answers, Data
    <2> QED
      BY <1>3, <2>1, LocksSafe, TakeFrontSafe, CoarseAnswers DEF Queues!coarse_try_pop, Queues!Calls
  <1>4. ASSUME Queues!coarse_empty(t) PROVE CoarseInv' /\ CoarseActs(t)
    <2>1. PICK a \in Answers : a = IF mem.queue = <<>> THEN Null ELSE Queues!NotEmpty
      BY DEF Answers, Data
    <2> QED
      BY <1>4, <2>1, LocksSafe, CoarseAnswers DEF Queues!coarse_empty, Queues!Calls
  <1> QED
    BY <1>1, <1>2, <1>3, <1>4 DEF Queues!CoarseStep

LEMMA CoarseFirst ==
  ASSUME ThreadsafeAssumption, Calling, mem = Queues!CoarseInit,
         \A t \in Thread : th[t].pc \in Operations \cup {"done"} /\ Pushed(t) = {}
  PROVE  CoarseInv
  <1>1. CoarseMemory
    BY DEF CoarseMemory, Queues!CoarseInit
  <1>2. \A t \in Thread : CoarseSafe(t) /\ th[t].pc \notin {"pushed", "notify", "asleep"}
    BY DEF CoarseSafe, Operations
  <1>3. Keeps(ToSet(mem.queue) \cup Returned)
    BY <1>2 DEF Keeps
  <1> QED
    BY <1>1, <1>2, <1>3 DEF CoarseInv

LEMMA CoarseHolds ==
  ASSUME ThreadsafeAssumption, CoarseInv
  PROVE  /\ UNION {Pushed(t) : t \in Thread}
               \subseteq ToSet(mem.queue) \cup UNION {ToSet(th[t].got) : t \in Thread}
         /\ Threads!Asleep # {} =>
               Len(mem.queue) <= Cardinality({t \in Thread : th[t].pc \in {"woken", "locked", "notify"}})
  <1>1. UNION {Pushed(t) : t \in Thread} \subseteq ToSet(mem.queue) \cup Returned
    BY DEF CoarseInv, Keeps
  <1>2. ASSUME Threads!Asleep # {}
        PROVE  Len(mem.queue) <= Cardinality({t \in Thread : th[t].pc \in {"woken", "locked", "notify"}})
    <2>1. \E t \in Thread : th[t].pc = "asleep"
      BY <1>2 DEF Threads!Asleep, Threads!At
    <2>2. Len(mem.queue) <= Cardinality(Servers) /\ Len(mem.queue) \in Nat
      BY <2>1 DEF CoarseInv, CoarseMemory
    <2>3. PICK S \in SUBSET Thread : S = {t \in Thread : th[t].pc \in {"woken", "locked", "notify"}}
      OBVIOUS
    <2>4. Servers \subseteq S
      BY <2>3 DEF Servers, Serving
    <2>5. /\ Cardinality(Servers) <= Cardinality(S) /\ Cardinality(Servers) \in Nat
          /\ Cardinality(S) \in Nat
      BY <2>4, ServersAre
    <2> QED
      BY <2>2, <2>3, <2>5
  <1> QED
    BY <1>1, <1>2 DEF Returned

------------------------------------------------------------------------------
(* The queues for one thread *)

ListMemory ==
    /\ {"node", "head", "tail"} \subseteq DOMAIN mem
    /\ IsFiniteSet(DOMAIN mem.node) /\ DOMAIN mem.node \subseteq Nat
    /\ \A n \in DOMAIN mem.node : mem.node[n] \in Nodes

Between == \A t \in Thread : th[t].pc \in Operations \cup {"done"}

\* The tail of a list is its last node, if it has one.
ListList(c) ==
    /\ Linked(c, mem.node, mem.head, Null)
    /\ mem.tail = IF c = <<>> THEN Null ELSE c[Len(c)]
    /\ Keeps(DataOf(c) \cup Returned)

ListInv == Calling /\ ListMemory /\ Between /\ \E c : ListList(c)

DummyList(c) ==
    /\ Linked(c, mem.node, mem.head, mem.tail) /\ mem.tail \in DOMAIN mem.node
    /\ Keeps(DataOf(c) \cup Returned)

DummyInv == Calling /\ ListMemory /\ Between /\ \E c : DummyList(c)

\* A whole call in one step.
LEMMA OneReturns ==
  ASSUME Calling, Between, calls' = calls, NEW t \in Thread, NEW a \in Answers, NEW got,
         got = th[t].got \/ got = Append(th[t].got, a),
         th[t].pc # "done", NEW shared, Ends(t, shared, got)
  PROVE  /\ Calling' /\ Between' /\ mem' = Threads!Over(shared, mem)
         /\ th'[t].pc \in Operations \cup {"done"}
         /\ th'[t].todo = Tail(th[t].todo) /\ th[t].todo # <<>>
         /\ \A u \in Thread : u # t => th'[u] = th[u]
         /\ Returned \subseteq Returned' /\ (got = Append(th[t].got, a) => a \in Returned')
  <1>1. /\ Threading' /\ th'[t].pc \in Operations \cup {"done"}
        /\ th'[t].todo = Tail(th[t].todo) /\ th[t].todo # <<>> /\ th'[t].got = got
    <2>1. Threading
      BY DEF Calling
    <2> QED
      BY ONLY <2>1, t \in Thread, th[t].pc # "done", Ends(t, shared, got), EndsIs
  <1>2. (\A u \in Thread : u # t => th'[u] = th[u]) /\ mem' = Threads!Over(shared, mem)
    BY DEF Ends, Changes
  <1>3. Calling'
    <2>1. PICK s \in Seq(Answers) : s = th[t].got
      BY DEF Calling
    <2>2. Append(s, a) \in Seq(Answers) /\ (got = s \/ got = Append(s, a))
      BY <2>1, AppendIs
    <2>3. got \in Seq(Answers)
      BY <2>2
    <2> QED
      BY <1>1, <1>2, <2>3, CallingEnds
  <1>4. Returned \subseteq Returned' /\ (got = Append(th[t].got, a) => a \in Returned')
    <2>1. th'[t].got \in {th[t].got, Append(th[t].got, a)}
      BY <1>1
    <2> QED
      BY <1>1, <1>2, <2>1, ReturnedMore
  <1>5. Between'
    BY <1>1, <1>2 DEF Between
  <1> QED
    BY <1>1, <1>2, <1>3, <1>4, <1>5

\* What has been pushed is kept by a call in one step.
LEMMA OneKeeps ==
  ASSUME Calling, calls' = calls, NEW t \in Thread,
         \A u \in Thread : u # t => th'[u] = th[u],
         th'[t].pc \in Operations \cup {"done"},
         th'[t].todo = Tail(th[t].todo), th[t].todo # <<>>, Returned \subseteq Returned',
         NEW c, NEW d, Keeps(DataOf(c) \cup Returned), DataOf(c) \subseteq DataOf(d)' \cup Returned',
         Head(th[t].todo) = "push" => Queues!Item(t) \in DataOf(d)'
  PROVE  Keeps(DataOf(d) \cup Returned)'
  <1>1. PICK K : K = DataOf(c) \cup Returned
    OBVIOUS
  <1>2. PICK L : L = (DataOf(d) \cup Returned)'
    OBVIOUS
  <1>3. Keeps(K) /\ K \subseteq L /\ (Head(th[t].todo) = "push" => Queues!Item(t) \in L)
    BY <1>1, <1>2
  <1>4. Keeps(L)'
    BY <1>3, KeepsEnds
  <1> QED
    BY <1>2, <1>4 DEF Keeps

\* The fields a step writes.
LEMMA ListFields ==
  ASSUME ListMemory, NEW shared, mem' = Threads!Over(shared, mem),
         DOMAIN shared \subseteq {"node", "head", "tail"}
  PROVE  /\ {"node", "head", "tail"} \subseteq DOMAIN mem'
         /\ mem'.node = IF "node" \in DOMAIN shared THEN shared.node ELSE mem.node
         /\ mem'.head = IF "head" \in DOMAIN shared THEN shared.head ELSE mem.head
         /\ mem'.tail = IF "tail" \in DOMAIN shared THEN shared.tail ELSE mem.tail
  <1>1. /\ DOMAIN mem' = DOMAIN shared \cup DOMAIN mem
        /\ \A x \in DOMAIN shared : mem'[x] = shared[x]
        /\ \A x \in DOMAIN mem : x \notin DOMAIN shared => mem'[x] = mem[x]
    BY MemIs
  <1> QED
    BY <1>1 DEF ListMemory

\* What a step is to the atomic queue.
ListActs(t) == Does(t, Queues!ListItems, Queues!ListItems')
DummyActs(t) == Does(t, Queues!DummyItems, Queues!DummyItems')

LEMMA OneAnswered ==
  ASSUME Calling, NEW t \in Thread, th[t].pc # "done", NEW shared, NEW got, Ends(t, shared, got)
  PROVE  th'[t].got = got /\ \A u \in Thread : u # t => th'[u].got = th[u].got
  <1>1. th'[t].got = got
    <2>1. Threading
      BY DEF Calling
    <2> QED
      BY ONLY <2>1, t \in Thread, th[t].pc # "done", Ends(t, shared, got), EndsIs
  <1> QED
    BY <1>1 DEF Ends, Changes

\* The values when the first node is taken out and freed.
LEMMA PopsShorten ==
  ASSUME NEW c, NEW end, Linked(c, mem.node, mem.head, end), mem.head # end,
         mem'.node = Queues!Without(mem.node, mem.head)
  PROVE  Shorter(c, Tail(c), mem.node, mem'.node) /\ c[1] = mem.head
  <1>1. PICK d : d = Tail(c)
    OBVIOUS
  <1>2. PICK node, n : node = mem.node /\ n = mem.head
    OBVIOUS
  <1>3. /\ c[1] = n /\ Len(c) \in Nat /\ Len(c) > 0 /\ Len(d) = Len(c) - 1 /\ d \in Seq(DOMAIN node)
        /\ \A i \in 1..Len(d) : d[i] = c[i + 1] /\ d[i] # n
    <2>1. Linked(c, node, n, end) /\ n # end
      BY <1>2
    <2>2. /\ c[1] = n /\ Len(c) \in Nat /\ Len(c) > 0
          /\ \A i \in 1..Len(Tail(c)) : Tail(c)[i] = c[i + 1] /\ i + 1 \in 1..Len(c) /\ Tail(c)[i] # n
          /\ Len(Tail(c)) = Len(c) - 1 /\ Tail(c) \in Seq(DOMAIN node)
      BY ONLY <2>1, LinkedRest
    <2> QED
      BY <1>1, <2>2
  <1>4. \A k \in DOMAIN node : k # n => mem'.node[k] = node[k]
    BY <1>2 DEF Queues!Without
  <1>5. \A i \in 1..Len(d) : mem'.node[d[i]].data = node[d[i]].data
    <2>1. \A i \in 1..Len(d) : d[i] \in DOMAIN node
      BY <1>3
    <2> QED
      BY <1>3, <1>4, <2>1
  <1>6. Shorter(c, d, node, mem'.node)
    BY ONLY <1>3, <1>5 DEF Shorter
  <1> QED
    BY <1>1, <1>2, <1>3, <1>6

\* A call that finds nothing changes nothing but what has been returned.
LEMMA ListEmpty ==
  ASSUME ThreadsafeAssumption, ListInv \/ DummyInv, calls' = calls, NEW t \in Thread,
         Queues!Answer(t, "try_pop", Queues!Same, Null)
  PROVE  /\ ListInv => ListInv' /\ (mem.head = Null => ListActs(t))
         /\ DummyInv => DummyInv' /\ (mem.head = mem.tail => DummyActs(t))
  <1>1. PICK a \in Answers : a = Null
    BY DEF Answers, Data
  <1>2. PICK got : got = Append(th[t].got, a)
    OBVIOUS
  <1>3. Calling /\ ListMemory /\ Between /\ DOMAIN th = Thread
    BY DEF ListInv, DummyInv, Calling, Threading
  <1>4. th[t].pc = "try_pop" /\ Ends(t, Queues!Same, got)
    BY <1>1, <1>2, <1>3, ReturnsAre DEF Queues!Answer, Queues!With
  <1>5. th[t].pc # "done" /\ Head(th[t].todo) = "try_pop"
    BY <1>3, <1>4 DEF Calling, Threading, Operations
  <1>6. /\ Calling' /\ Between' /\ mem' = Threads!Over(Queues!Same, mem)
        /\ th'[t].pc \in Operations \cup {"done"}
        /\ th'[t].todo = Tail(th[t].todo) /\ th[t].todo # <<>>
        /\ \A u \in Thread : u # t => th'[u] = th[u]
        /\ Returned \subseteq Returned'
    <2>1. got = th[t].got \/ got = Append(th[t].got, a)
      BY <1>2
    <2> QED
      BY ONLY <1>3, calls' = calls, t \in Thread, a \in Answers, <2>1, <1>4, <1>5, OneReturns
  <1>7. /\ {"node", "head", "tail"} \subseteq DOMAIN mem'
        /\ mem'.node = mem.node /\ mem'.head = mem.head /\ mem'.tail = mem.tail
    <2>1. DOMAIN Queues!Same = {}
      BY DEF Queues!Same
    <2> QED
      BY <1>3, <1>6, <2>1, ListFields
  <1>8. ListMemory'
    BY <1>3, <1>7 DEF ListMemory
  <1>9. ASSUME NEW c, Keeps(DataOf(c) \cup Returned) PROVE Keeps(DataOf(c) \cup Returned)'
    <2>1. DataOf(c)' = DataOf(c)
      BY <1>7 DEF DataOf
    <2> QED
      BY <1>3, <1>5, <1>6, <1>9, <2>1, OneKeeps
  <1>10. ASSUME ListInv PROVE ListInv'
    BY <1>6, <1>7, <1>8, <1>9, <1>10 DEF ListInv, ListList
  <1>11. ASSUME DummyInv PROVE DummyInv'
    BY <1>6, <1>7, <1>8, <1>9, <1>11 DEF DummyInv, DummyList
  <1>12. th'[t].got = got /\ \A u \in Thread : u # t => th'[u].got = th[u].got
    BY <1>3, <1>4, <1>5, OneAnswered
  <1>13. ASSUME ListInv, mem.head = Null PROVE ListActs(t)
    <2>1. PICK c : ListList(c)
      BY <1>13 DEF ListInv
    <2>2. Linked(c, mem.node, mem.head, Null) /\ IsFiniteSet(DOMAIN mem.node)
      BY <1>3, <2>1 DEF ListList, ListMemory
    <2>3. Linked(c, mem'.node, mem'.head, Null) /\ IsFiniteSet(DOMAIN mem'.node)
      BY <1>7, <2>2
    <2>4. Queues!ListItems = ValuesOf(c, mem.node)
      BY ONLY <2>2, ItemsAre
    <2>5. Queues!ListItems' = ValuesOf(c, mem'.node)
      BY ONLY <2>3, ItemsThen
    <2>6. ValuesOf(c, mem.node) = <<>>
      BY ONLY <2>2, <1>13, ValuesEmpty
    <2>7. Queues!ListItems' = Queues!ListItems /\ Queues!ListItems = <<>>
      BY <1>7, <2>4, <2>5, <2>6
    <2> QED
      BY <1>1, <1>2, <1>12, <2>7 DEF ListActs, Does
  <1>14. ASSUME DummyInv, mem.head = mem.tail PROVE DummyActs(t)
    <2>1. PICK c : DummyList(c)
      BY <1>14 DEF DummyInv
    <2>2. Linked(c, mem.node, mem.head, mem.tail) /\ IsFiniteSet(DOMAIN mem.node)
      BY <1>3, <2>1 DEF DummyList, ListMemory
    <2>3. Linked(c, mem'.node, mem'.head, mem'.tail) /\ IsFiniteSet(DOMAIN mem'.node)
      BY <1>7, <2>2
    <2>4. Queues!DummyItems = ValuesOf(c, mem.node)
      BY ONLY <2>2, ItemsAre
    <2>5. Queues!DummyItems' = ValuesOf(c, mem'.node)
      BY ONLY <2>3, ItemsThen
    <2>6. ValuesOf(c, mem.node) = <<>>
      BY ONLY <2>2, <1>14, ValuesEmpty
    <2>7. Queues!DummyItems' = Queues!DummyItems /\ Queues!DummyItems = <<>>
      BY <1>7, <2>4, <2>5, <2>6
    <2> QED
      BY <1>1, <1>2, <1>12, <2>7 DEF DummyActs, Does
  <1> QED
    BY <1>10, <1>11, <1>13, <1>14

\* The first node is taken out and freed, and what it held is returned.
LEMMA ListPops ==
  ASSUME ThreadsafeAssumption, Calling, ListMemory, Between, calls' = calls, NEW t \in Thread,
         NEW c, NEW end, Linked(c, mem.node, mem.head, end), mem.head # end,
         end = Null \/ end \in DOMAIN mem.node, Keeps(DataOf(c) \cup Returned),
         NEW shared, DOMAIN shared \subseteq {"node", "head", "tail"}, {"node", "head"} \subseteq DOMAIN shared,
         shared.node = Queues!Without(mem.node, mem.head), shared.head = mem.node[mem.head].next,
         NEW got, got = Append(th[t].got, mem.node[mem.head].data),
         Ends(t, shared, got), th[t].pc = "try_pop"
  PROVE  /\ Calling' /\ Between' /\ ListMemory' /\ mem' = Threads!Over(shared, mem)
         /\ Linked(Tail(c), mem'.node, mem'.head, end) /\ Keeps(DataOf(Tail(c)) \cup Returned)'
         /\ c # <<>> /\ Len(c) \in Nat /\ Len(Tail(c)) = Len(c) - 1 /\ Tail(c) \in Seq(DOMAIN mem.node)
         /\ \A i \in 1..Len(Tail(c)) : Tail(c)[i] = c[i + 1]
         /\ DOMAIN mem'.node = DOMAIN mem.node \ {mem.head}
  <1>1. PICK d : d = Tail(c)
    OBVIOUS
  <1>2. PICK next : next = mem.node[mem.head].next
    OBVIOUS
  <1>3. /\ c # <<>> /\ c[1] = mem.head /\ mem.head \in DOMAIN mem.node /\ Len(c) \in Nat /\ Len(c) > 0
        /\ Linked(d, mem.node, next, end) /\ Len(d) = Len(c) - 1 /\ d \in Seq(DOMAIN mem.node)
        /\ \A i \in 1..Len(d) : d[i] = c[i + 1] /\ i + 1 \in 1..Len(c) /\ d[i] # mem.head
    BY <1>1, <1>2, LinkedRest
  <1>4. PICK a \in Answers : a = mem.node[mem.head].data
    BY <1>3 DEF ListMemory, Nodes, Answers
  <1>5. th[t].pc # "done" /\ Head(th[t].todo) = "try_pop"
    BY DEF Calling, Threading, Operations
  <1>6. /\ Calling' /\ Between' /\ mem' = Threads!Over(shared, mem)
        /\ th'[t].pc \in Operations \cup {"done"}
        /\ th'[t].todo = Tail(th[t].todo) /\ th[t].todo # <<>>
        /\ \A u \in Thread : u # t => th'[u] = th[u]
        /\ Returned \subseteq Returned' /\ a \in Returned'
    <2>1. got = Append(th[t].got, a)
      BY <1>4
    <2>2. got = th[t].got \/ got = Append(th[t].got, a)
      BY <2>1
    <2> QED
      BY ONLY Calling, Between, calls' = calls, t \in Thread, a \in Answers, <2>1, <2>2, <1>5,
              Ends(t, shared, got), OneReturns
  <1>7. /\ {"node", "head", "tail"} \subseteq DOMAIN mem'
        /\ mem'.node = Queues!Without(mem.node, mem.head) /\ mem'.head = next
    BY <1>2, <1>6, ListFields
  <1>8. /\ DOMAIN mem'.node = DOMAIN mem.node \ {mem.head}
        /\ \A k \in DOMAIN mem.node : k # mem.head => mem'.node[k] = mem.node[k]
    BY <1>7 DEF Queues!Without
  <1>9. ListMemory'
    <2>1. IsFiniteSet(DOMAIN mem'.node)
      BY <1>8, FS_RemoveElement DEF ListMemory
    <2> QED
      BY <1>7, <1>8, <2>1 DEF ListMemory
  <1>10. \A i \in 1..Len(d) : d[i] \in DOMAIN mem'.node /\ mem'.node[d[i]] = mem.node[d[i]]
    <2>1. \A i \in 1..Len(d) : d[i] \in DOMAIN mem.node
      BY <1>3
    <2> QED
      BY <1>3, <1>8, <2>1
  <1>11. Linked(d, mem'.node, mem'.head, end)
    <2>1. Linked(d, mem'.node, next, end)
      BY <1>3, <1>10, LinkedStays
    <2> QED
      BY <1>7, <2>1
  <1>12. Keeps(DataOf(d) \cup Returned)'
    <2>1. ASSUME NEW i \in 1..Len(c) PROVE mem.node[c[i]].data \in DataOf(d)' \cup {a}
      <3>1. CASE i = 1
        BY <3>1, <1>3, <1>4
      <3>2. CASE i # 1
        <4>1. i - 1 \in 1..Len(d) /\ (i - 1) + 1 = i
          BY <3>2, <1>3
        <4>2. d[i - 1] = c[i] /\ mem'.node[d[i - 1]] = mem.node[d[i - 1]]
          BY <4>1, <1>3, <1>10
        <4> QED
          BY <4>1, <4>2 DEF DataOf
      <3> QED
        BY <3>1, <3>2
    <2>2. PICK D : D = DataOf(d)'
      OBVIOUS
    <2>3. DataOf(c) \subseteq D \cup {a}
      BY <2>1, <2>2 DEF DataOf
    <2>4. DataOf(c) \subseteq DataOf(d)' \cup Returned'
      BY <1>6, <2>2, <2>3
    <2> QED
      BY <1>5, <1>6, <2>4, OneKeeps
  <1> QED
    BY <1>1, <1>3, <1>6, <1>8, <1>9, <1>11, <1>12

\* A list to which a node has been linked.
LEMMA LinkedAppend ==
  ASSUME NEW c, NEW node, NEW n, NEW end, Linked(c, node, n, end), NEW node2, NEW p,
         p \in DOMAIN node2, p # end, \A i \in 1..Len(c) : c[i] # p,
         DOMAIN node \subseteq DOMAIN node2, node2[p].next = end,
         \A i \in 1..Len(c) : node2[c[i]].next = IF i = Len(c) THEN p ELSE node[c[i]].next
  PROVE  /\ Linked(Append(c, p), node2, IF c = <<>> THEN p ELSE n, end)
         /\ Len(c) \in Nat /\ Len(Append(c, p)) = Len(c) + 1 /\ Append(c, p)[Len(c) + 1] = p
         /\ \A i \in 1..Len(c) : Append(c, p)[i] = c[i]
         /\ Append(c, p) \in Seq(DOMAIN node2) /\ Append(c, p) # <<>>
  <1>1. c \in Seq(DOMAIN node) /\ n = After(c, 1, end)
    BY DEF Linked
  <1>2. PICK l \in Nat : l = Len(c)
    BY <1>1
  <1>3. PICK d : d = Append(c, p)
    OBVIOUS
  <1>4. c \in Seq(DOMAIN node2)
    <2>1. \A i \in 1..Len(c) : c[i] \in DOMAIN node2
      BY <1>1
    <2>2. c = [i \in 1..Len(c) |-> c[i]] /\ Len(c) \in Nat
      BY <1>1
    <2> QED
      BY <2>1, <2>2
  <1>5. /\ d \in Seq(DOMAIN node2) /\ Len(d) = l + 1 /\ d[l + 1] = p
        /\ \A i \in 1..l : d[i] = c[i]
    BY <1>2, <1>3, <1>4
  <1>6. \A i, j \in 1..(l + 1) : d[i] = d[j] => i = j
    <2> SUFFICES ASSUME NEW i \in 1..(l + 1), NEW j \in 1..(l + 1), d[i] = d[j] PROVE i = j
      OBVIOUS
    <2>1. CASE i \in 1..l /\ j \in 1..l
      BY <2>1, <1>2, <1>5 DEF Linked
    <2>2. CASE i = l + 1 /\ j \in 1..l
      BY <2>2, <1>2, <1>5
    <2>3. CASE j = l + 1 /\ i \in 1..l
      BY <2>3, <1>2, <1>5
    <2> QED
      BY <2>1, <2>2, <2>3
  <1>7. \A i \in 1..(l + 1) : d[i] # end
    BY <1>2, <1>5 DEF Linked
  <1>8. (IF c = <<>> THEN p ELSE n) = After(d, 1, end)
    <2>1. c = <<>> <=> l = 0
      BY <1>1, <1>2
    <2> QED
      BY <2>1, <1>1, <1>2, <1>5 DEF After
  <1>9. ASSUME NEW i \in 1..(l + 1) PROVE node2[d[i]].next = After(d, i + 1, end)
    <2>1. CASE i = l + 1
      BY <2>1, <1>5 DEF After
    <2>2. CASE i = l
      BY <2>2, <1>2, <1>5 DEF After
    <2>3. CASE i < l
      <3>1. i \in 1..l /\ i + 1 \in 1..l /\ node[c[i]].next = After(c, i + 1, end)
        BY <2>3, <1>2 DEF Linked
      <3> QED
        BY <2>3, <3>1, <1>2, <1>5 DEF After
    <2> QED
      BY <2>1, <2>2, <2>3
  <1>10. Linked(d, node2, IF c = <<>> THEN p ELSE n, end)
    BY <1>5, <1>6, <1>7, <1>8, <1>9 DEF Linked
  <1>11. d # <<>>
    BY <1>5
  <1> QED
    BY <1>2, <1>3, <1>5, <1>10, <1>11

\* The data of a list with one node more.
LEMMA DataMore ==
  ASSUME NEW c, NEW d, Len(c) \in Nat, Len(d) = Len(c) + 1, \A i \in 1..Len(c) : d[i] = c[i],
         \A i \in 1..Len(c) : mem'.node[c[i]].data = mem.node[c[i]].data
  PROVE  DataOf(c) \subseteq DataOf(d)' /\ mem'.node[d[Len(c) + 1]].data \in DataOf(d)'
  <1>1. 1..Len(c) \subseteq 1..Len(d) /\ Len(c) + 1 \in 1..Len(d)
    OBVIOUS
  <1>2. PICK D : D = DataOf(d)'
    OBVIOUS
  <1>3. \A i \in 1..Len(d) : mem'.node[d[i]].data \in D
    BY <1>2 DEF DataOf
  <1>4. \A i \in 1..Len(c) : mem.node[c[i]].data \in D
    BY <1>1, <1>3
  <1>5. DataOf(c) \subseteq D
    BY <1>4 DEF DataOf
  <1> QED
    BY <1>1, <1>2, <1>3, <1>5

LEMMA ListPushSafe ==
  ASSUME ThreadsafeAssumption, ListInv, calls' = calls, NEW t \in Thread, Queues!list_push(t)
  PROVE  ListInv' /\ ListActs(t)
  <1>1. PICK p : p = Queues!New
    OBVIOUS
  <1>2. PICK v : v = Queues!Item(t)
    OBVIOUS
  <1>3. PICK more : more = Queues!Added(mem.node, p, [data |-> v, next |-> Null])
    OBVIOUS
  <1>4. PICK shared : shared = IF mem.tail = Null THEN [node |-> more, head |-> p, tail |-> p]
                               ELSE [node |-> [more EXCEPT ![mem.tail].next = p], tail |-> p]
    OBVIOUS
  <1>5. PICK got : got = th[t].got
    OBVIOUS
  <1>6. th[t].pc = "push" /\ Ends(t, shared, got)
    BY <1>1, <1>2, <1>3, <1>4, <1>5, ReturnsAre
       DEF Queues!list_push, Queues!Return, ListInv, Calling, Threading
  <1>7. p \in Nat /\ p \notin DOMAIN mem.node /\ p # Null /\ v \in Data
    <2>1. p = Threads!Fresh(mem.node) /\ p \in Nat /\ p \notin DOMAIN mem.node
      <3>1. IsFiniteSet(DOMAIN mem.node)
        BY DEF ListInv, ListMemory
      <3>2. Threads!Fresh(mem.node) \in Nat /\ Threads!Fresh(mem.node) \notin DOMAIN mem.node
            /\ Queues!Fresh(mem.node) = Threads!Fresh(mem.node)
        BY <3>1, FreshIs
      <3> QED
        BY <1>1, <3>2 DEF Queues!New
    <2>2. th[t].todo \in Seq(Operations)
      BY DEF ListInv, Calling, Threading
    <2>3. v \in Data
      BY <1>2, <2>2 DEF Queues!Item, Data
    <2> QED
      BY <2>1, <2>3 DEF ThreadsafeAssumption
  <1>8. th[t].pc # "done" /\ Head(th[t].todo) = "push" /\ Calling /\ Between
    BY <1>6 DEF ListInv, Calling, Threading, Operations
  <1>9. /\ Calling' /\ Between' /\ mem' = Threads!Over(shared, mem)
        /\ th'[t].pc \in Operations \cup {"done"}
        /\ th'[t].todo = Tail(th[t].todo) /\ th[t].todo # <<>>
        /\ \A u \in Thread : u # t => th'[u] = th[u]
        /\ Returned \subseteq Returned'
    <2>1. PICK a \in Answers : a = Null
      BY DEF Answers, Data
    <2>2. got = th[t].got \/ got = Append(th[t].got, a)
      BY <1>5
    <2> QED
      BY ONLY <1>8, calls' = calls, t \in Thread, a \in Answers, <2>2, <1>6, OneReturns
  <1>10. PICK c : ListList(c)
    BY DEF ListInv
  <1>11. /\ Linked(c, mem.node, mem.head, Null) /\ c \in Seq(DOMAIN mem.node) /\ Len(c) \in Nat
         /\ mem.head = After(c, 1, Null)
         /\ \A i, j \in 1..Len(c) : c[i] = c[j] => i = j
         /\ \A i \in 1..Len(c) : c[i] # Null
         /\ mem.tail = IF c = <<>> THEN Null ELSE c[Len(c)]
    BY <1>10 DEF ListList, Linked
  <1>12. /\ c = <<>> <=> Len(c) = 0
         /\ c # <<>> => Len(c) \in 1..Len(c) /\ mem.tail \in DOMAIN mem.node /\ mem.tail # Null
         /\ c = <<>> => mem.tail = Null
    <2>1. c = <<>> <=> Len(c) = 0
      BY <1>11
    <2>2. c # <<>> => Len(c) \in 1..Len(c)
      BY <1>11, <2>1
    <2>3. c # <<>> => mem.tail = c[Len(c)] /\ c[Len(c)] \in DOMAIN mem.node /\ c[Len(c)] # Null
      BY <1>11, <2>2
    <2> QED
      BY <1>11, <2>1, <2>2, <2>3
  <1>13. /\ DOMAIN more = DOMAIN mem.node \cup {p} /\ more[p] = [data |-> v, next |-> Null]
         /\ \A n \in DOMAIN mem.node : more[n] = mem.node[n]
    BY <1>3, <1>7 DEF Queues!Added
  <1>14. /\ {"node", "head", "tail"} \subseteq DOMAIN mem' /\ mem'.tail = p
         /\ mem'.node = IF c = <<>> THEN more ELSE [more EXCEPT ![mem.tail].next = p]
         /\ mem'.head = IF c = <<>> THEN p ELSE mem.head
    <2>1. CASE c = <<>>
      <3>1. /\ DOMAIN shared = {"node", "head", "tail"} /\ shared.node = more
            /\ shared.head = p /\ shared.tail = p
        BY <1>4, <1>12, <2>1
      <3> QED
        BY <1>9, <2>1, <3>1, ListFields DEF ListInv
    <2>2. CASE c # <<>>
      <3>1. /\ DOMAIN shared = {"node", "tail"} /\ shared.tail = p
            /\ shared.node = [more EXCEPT ![mem.tail].next = p]
        BY <1>4, <1>12, <2>2
      <3> QED
        BY <1>9, <2>2, <3>1, ListFields DEF ListInv
    <2> QED
      BY <2>1, <2>2
  <1>15. /\ DOMAIN mem'.node = DOMAIN mem.node \cup {p}
         /\ mem'.node[p].data = v /\ mem'.node[p].next = Null /\ mem'.node[p] \in Nodes
         /\ \A n \in DOMAIN mem.node :
               /\ mem'.node[n].data = mem.node[n].data /\ mem'.node[n] \in Nodes
               /\ mem'.node[n].next = IF c # <<>> /\ n = mem.tail THEN p ELSE mem.node[n].next
    <2>1. \A n \in DOMAIN mem.node : mem.node[n] \in Nodes
      BY DEF ListInv, ListMemory
    <2>2. more[p] \in Nodes /\ more[p].data = v /\ more[p].next = Null
      BY <1>7, <1>13 DEF Nodes
    <2>3. CASE c = <<>>
      BY <1>13, <1>14, <2>1, <2>2, <2>3
    <2>4. CASE c # <<>>
      <3>1. mem'.node = [more EXCEPT ![mem.tail].next = p] /\ mem.tail \in DOMAIN mem.node
        BY <1>12, <1>14, <2>4
      <3>2. /\ DOMAIN mem'.node = DOMAIN more
            /\ mem'.node[mem.tail] = [mem.node[mem.tail] EXCEPT !.next = p]
            /\ \A n \in DOMAIN more : n # mem.tail => mem'.node[n] = more[n]
        BY <1>13, <3>1
      <3>3. /\ mem'.node[mem.tail] \in Nodes /\ mem'.node[mem.tail].next = p
            /\ mem'.node[mem.tail].data = mem.node[mem.tail].data
        BY <1>7, <2>1, <3>1, <3>2 DEF Nodes
      <3>4. p # mem.tail
        BY <1>7, <3>1
      <3> QED
        BY <1>7, <1>13, <2>1, <2>2, <2>4, <3>1, <3>2, <3>3, <3>4
    <2> QED
      BY <2>3, <2>4
  <1>16. ListMemory'
    <2>1. IsFiniteSet(DOMAIN mem'.node)
      BY <1>15, FS_AddElement DEF ListInv, ListMemory
    <2> QED
      BY <1>7, <1>14, <1>15, <2>1 DEF ListInv, ListMemory
  <1>17. PICK d : d = Append(c, p)
    OBVIOUS
  <1>18. /\ Linked(d, mem'.node, mem'.head, Null) /\ Len(d) = Len(c) + 1 /\ d[Len(c) + 1] = p
         /\ d # <<>> /\ \A i \in 1..Len(c) : d[i] = c[i]
    <2>1. \A i \in 1..Len(c) : mem'.node[c[i]].next = IF i = Len(c) THEN p ELSE mem.node[c[i]].next
      <3> TAKE i \in 1..Len(c)
      <3>1. c[i] \in DOMAIN mem.node /\ c # <<>> /\ (c[i] = mem.tail <=> i = Len(c))
        BY <1>11, <1>12
      <3> QED
        BY <1>15, <3>1
    <2>2. \A i \in 1..Len(c) : c[i] # p
      BY <1>7, <1>11
    <2>3. /\ Linked(Append(c, p), mem'.node, IF c = <<>> THEN p ELSE mem.head, Null)
          /\ Len(Append(c, p)) = Len(c) + 1 /\ Append(c, p)[Len(c) + 1] = p
          /\ \A i \in 1..Len(c) : Append(c, p)[i] = c[i]
          /\ Append(c, p) # <<>>
      <3>1. PICK node, node2, n : node = mem.node /\ node2 = mem'.node /\ n = mem.head
        OBVIOUS
      <3>2. /\ Linked(c, node, n, Null) /\ p \in DOMAIN node2 /\ p # Null
            /\ DOMAIN node \subseteq DOMAIN node2 /\ node2[p].next = Null
            /\ \A i \in 1..Len(c) : c[i] # p
            /\ \A i \in 1..Len(c) : node2[c[i]].next = IF i = Len(c) THEN p ELSE node[c[i]].next
        BY <1>7, <1>11, <1>15, <2>1, <2>2, <3>1
      <3>3. /\ Linked(Append(c, p), node2, IF c = <<>> THEN p ELSE n, Null)
            /\ Len(Append(c, p)) = Len(c) + 1 /\ Append(c, p)[Len(c) + 1] = p
            /\ \A i \in 1..Len(c) : Append(c, p)[i] = c[i]
            /\ Append(c, p) # <<>>
        BY ONLY <3>2, LinkedAppend
      <3> QED
        BY <3>1, <3>3
    <2> QED
      BY <1>14, <1>17, <2>3
  <1>19. Keeps(DataOf(d) \cup Returned)'
    <2>1. \A i \in 1..Len(c) : mem'.node[c[i]].data = mem.node[c[i]].data
      BY <1>11, <1>15
    <2>2. DataOf(c) \subseteq DataOf(d)' /\ v \in DataOf(d)'
      BY <1>11, <1>15, <1>18, <2>1, DataMore
    <2>3. Keeps(DataOf(c) \cup Returned) /\ DataOf(c) \subseteq DataOf(d)' \cup Returned'
      BY <1>10, <2>2 DEF ListList
    <2> QED
      BY <1>2, <1>8, <1>9, <2>2, <2>3, OneKeeps
  <1>20. ListList(d)'
    BY <1>14, <1>18, <1>19 DEF ListList
  <1>21. ListActs(t)
    <2>1. Linked(c, mem.node, mem.head, Null) /\ IsFiniteSet(DOMAIN mem.node)
      BY <1>11 DEF ListInv, ListMemory
    <2>2. Linked(d, mem'.node, mem'.head, Null) /\ IsFiniteSet(DOMAIN mem'.node)
      BY <1>18, <1>16 DEF ListMemory
    <2>3. Queues!ListItems = ValuesOf(c, mem.node)
      BY ONLY <2>1, ItemsAre
    <2>4. Queues!ListItems' = ValuesOf(d, mem'.node)
      BY ONLY <2>2, ItemsThen
    <2>5. ValuesOf(d, mem'.node) = Append(ValuesOf(c, mem.node), v)
      <3>1. PICK node, node2 : node = mem.node /\ node2 = mem'.node
        OBVIOUS
      <3>2. Len(c) \in Nat
        BY <1>11
      <3>3. Len(d) = Len(c) + 1
        BY <1>18
      <3>4. \A i \in 1..Len(c) : d[i] = c[i] /\ node2[c[i]].data = node[c[i]].data
        BY <3>1, <1>11, <1>18, <1>15
      <3>5. node2[d[Len(c) + 1]].data = v
        BY <3>1, <1>11, <1>18, <1>15
      <3>6. ValuesOf(d, node2) = Append(ValuesOf(c, node), v)
        BY ONLY <3>2, <3>3, <3>4, <3>5, ValuesMore
      <3> QED
        BY <3>1, <3>6
    <2>6. th'[t].got = th[t].got /\ \A u \in Thread : u # t => th'[u].got = th[u].got
      <3>1. th'[t].got = got /\ \A u \in Thread : u # t => th'[u].got = th[u].got
        BY <1>6, <1>8, OneAnswered
      <3> QED
        BY <1>5, <3>1
    <2> QED
      BY <1>2, <1>9, <2>3, <2>4, <2>5, <2>6 DEF ListActs, Does
  <1> QED
    BY <1>9, <1>16, <1>20, <1>21 DEF ListInv

LEMMA ListPopSafe ==
  ASSUME ThreadsafeAssumption, ListInv, calls' = calls, NEW t \in Thread, Queues!list_try_pop(t)
  PROVE  ListInv' /\ ListActs(t)
  <1>1. CASE mem.head = Null
    BY <1>1, ListEmpty DEF Queues!list_try_pop
  <1>2. CASE mem.head # Null
    <2>1. PICK next : next = mem.node[mem.head].next
      OBVIOUS
    <2>2. PICK shared : shared = [node |-> Queues!Without(mem.node, mem.head), head |-> next,
                                  tail |-> IF next = Null THEN Null ELSE mem.tail]
      OBVIOUS
    <2>3. PICK got : got = Append(th[t].got, mem.node[mem.head].data)
      OBVIOUS
    <2>4. th[t].pc = "try_pop" /\ Ends(t, shared, got)
      BY <1>2, <2>1, <2>2, <2>3, ReturnsAre
         DEF Queues!list_try_pop, Queues!Answer, Queues!With, ListInv, Calling, Threading
    <2>5. PICK c : ListList(c)
      BY DEF ListInv
    <2>6. /\ Calling /\ ListMemory /\ Between /\ Linked(c, mem.node, mem.head, Null)
          /\ Keeps(DataOf(c) \cup Returned) /\ mem.tail = (IF c = <<>> THEN Null ELSE c[Len(c)])
      BY <2>5 DEF ListInv, ListList
    <2>7. /\ DOMAIN shared = {"node", "head", "tail"}
          /\ shared.node = Queues!Without(mem.node, mem.head)
          /\ shared.head = mem.node[mem.head].next
          /\ shared.tail = IF next = Null THEN Null ELSE mem.tail
      BY <2>1, <2>2
    <2>8. PICK d : d = Tail(c)
      OBVIOUS
    <2>9. /\ Calling' /\ Between' /\ ListMemory' /\ mem' = Threads!Over(shared, mem)
          /\ Linked(d, mem'.node, mem'.head, Null) /\ Keeps(DataOf(d) \cup Returned)'
          /\ c # <<>> /\ Len(c) \in Nat /\ Len(d) = Len(c) - 1 /\ d \in Seq(DOMAIN mem.node)
          /\ \A i \in 1..Len(d) : d[i] = c[i + 1]
      <3>1. PICK end : end = Null
        OBVIOUS
      <3>2. Linked(c, mem.node, mem.head, end) /\ mem.head # end
        BY <1>2, <2>6, <3>1
      <3>3. DOMAIN shared \subseteq {"node", "head", "tail"} /\ {"node", "head"} \subseteq DOMAIN shared
        BY <2>7
      <3>4. /\ Calling' /\ Between' /\ ListMemory' /\ mem' = Threads!Over(shared, mem)
            /\ Linked(d, mem'.node, mem'.head, end) /\ Keeps(DataOf(d) \cup Returned)'
        BY ONLY ThreadsafeAssumption, calls' = calls, t \in Thread,
                <2>3, <2>4, <2>6, <2>7, <2>8, <3>1, <3>2, <3>3, ListPops
      <3>5. /\ c # <<>> /\ Len(c) \in Nat /\ Len(d) = Len(c) - 1 /\ d \in Seq(DOMAIN mem.node)
            /\ \A i \in 1..Len(d) : d[i] = c[i + 1]
        BY <2>8, <3>2, LinkedRest
      <3> QED
        BY <3>1, <3>4, <3>5
    <2>10. mem'.head = next /\ mem'.tail = IF next = Null THEN Null ELSE mem.tail
      BY <2>1, <2>6, <2>7, <2>9, ListFields
    <2>11. mem'.tail = IF d = <<>> THEN Null ELSE d[Len(d)]
      <3>1. /\ mem'.head = After(d, 1, Null) /\ (d = <<>> <=> Len(d) = 0)
            /\ \A i \in 1..Len(d) : d[i] # Null
        BY <2>9 DEF Linked
      <3>2. CASE Len(d) = 0
        BY <2>10, <3>1, <3>2 DEF After
      <3>3. CASE Len(d) # 0
        <4>1. Len(d) \in 1..Len(d) /\ 1 \in 1..Len(d) /\ Len(d) + 1 = Len(c)
          BY <2>9, <3>3
        <4>2. mem'.head = d[1] /\ d[1] # Null
          BY <3>1, <4>1 DEF After
        <4>3. next # Null
          BY <2>10, <4>2
        <4>4. d[Len(d)] = c[Len(d) + 1]
          BY <2>9, <4>1
        <4> QED
          BY <2>6, <2>9, <2>10, <3>1, <3>3, <4>1, <4>3, <4>4
      <3> QED
        BY <3>2, <3>3
    <2>12. ListList(d)'
      BY <2>9, <2>11 DEF ListList
    <2>13. ListActs(t)
      <3>1. Linked(c, mem.node, mem.head, Null) /\ mem.head # Null /\ IsFiniteSet(DOMAIN mem.node)
        BY <1>2, <2>6 DEF ListMemory
      <3>2. Linked(d, mem'.node, mem'.head, Null) /\ IsFiniteSet(DOMAIN mem'.node)
        BY <2>9 DEF ListMemory
      <3>3. mem'.node = Queues!Without(mem.node, mem.head)
        BY <2>6, <2>7, <2>9, ListFields
      <3>4. Shorter(c, Tail(c), mem.node, mem'.node) /\ c[1] = mem.head
        BY ONLY <3>1, <3>3, PopsShorten
      <3>5. Queues!ListItems = ValuesOf(c, mem.node)
        BY ONLY <3>1, ItemsAre
      <3>6. Queues!ListItems' = ValuesOf(d, mem'.node)
        BY ONLY <3>2, ItemsThen
      <3>7. /\ ValuesOf(c, mem.node) # <<>> /\ ValuesOf(Tail(c), mem'.node) = Tail(ValuesOf(c, mem.node))
            /\ Head(ValuesOf(c, mem.node)) = mem.node[c[1]].data
        BY ONLY <3>4, ValuesRest
      <3>8. th'[t].got = got /\ \A u \in Thread : u # t => th'[u].got = th[u].got
        <4>1. Calling /\ th[t].pc # "done"
          BY <2>4, <2>6 DEF Operations
        <4> QED
          BY <4>1, <2>4, OneAnswered
      <3> QED
        BY <2>3, <2>8, <3>4, <3>5, <3>6, <3>7, <3>8 DEF ListActs, Does
    <2> QED
      BY <2>9, <2>12, <2>13 DEF ListInv
  <1> QED
    BY <1>1, <1>2

LEMMA ListFirst ==
  ASSUME ThreadsafeAssumption, Calling, mem = Queues!ListInit,
         \A t \in Thread : th[t].pc \in Operations \cup {"done"} /\ Pushed(t) = {}
  PROVE  ListInv
  <1>1. /\ mem.node = <<>> /\ mem.head = Null /\ mem.tail = Null
        /\ {"node", "head", "tail"} \subseteq DOMAIN mem /\ DOMAIN mem.node = {}
    BY DEF Queues!ListInit
  <1>2. ListMemory
    BY <1>1, FS_EmptySet DEF ListMemory
  <1>3. Linked(<<>>, mem.node, mem.head, Null)
    BY <1>1 DEF Linked, After
  <1>4. \A t \in Thread : th[t].pc \notin {"pushed", "notify"}
    BY DEF Operations
  <1>5. Keeps(DataOf(<<>>) \cup Returned)
    BY <1>4 DEF Keeps
  <1>6. ListList(<<>>) /\ Between
    BY <1>1, <1>3, <1>5 DEF ListList, Between
  <1> QED
    BY <1>2, <1>6 DEF ListInv

LEMMA DummyPushSafe ==
  ASSUME ThreadsafeAssumption, DummyInv, calls' = calls, NEW t \in Thread, Queues!dummy_push(t)
  PROVE  DummyInv' /\ DummyActs(t)
  <1>1. PICK p : p = Queues!New
    OBVIOUS
  <1>2. PICK v : v = Queues!Item(t)
    OBVIOUS
  <1>3. PICK full : full = [mem.node EXCEPT ![mem.tail] = [data |-> v, next |-> p]]
    OBVIOUS
  <1>4. PICK shared : shared = [node |-> Queues!Added(full, p, Queues!Blank), tail |-> p]
    OBVIOUS
  <1>5. PICK got : got = th[t].got
    OBVIOUS
  <1>6. th[t].pc = "push" /\ Ends(t, shared, got)
    BY <1>1, <1>2, <1>3, <1>4, <1>5, ReturnsAre
       DEF Queues!dummy_push, Queues!Return, DummyInv, Calling, Threading
  <1>7. p \in Nat /\ p \notin DOMAIN mem.node /\ p # Null /\ v \in Data
    <2>1. p = Threads!Fresh(mem.node) /\ p \in Nat /\ p \notin DOMAIN mem.node
      <3>1. IsFiniteSet(DOMAIN mem.node)
        BY DEF DummyInv, ListMemory
      <3>2. Threads!Fresh(mem.node) \in Nat /\ Threads!Fresh(mem.node) \notin DOMAIN mem.node
            /\ Queues!Fresh(mem.node) = Threads!Fresh(mem.node)
        BY <3>1, FreshIs
      <3> QED
        BY <1>1, <3>2 DEF Queues!New
    <2>2. th[t].todo \in Seq(Operations)
      BY DEF DummyInv, Calling, Threading
    <2>3. v \in Data
      BY <1>2, <2>2 DEF Queues!Item, Data
    <2> QED
      BY <2>1, <2>3 DEF ThreadsafeAssumption
  <1>8. th[t].pc # "done" /\ Head(th[t].todo) = "push" /\ Calling /\ Between
    BY <1>6 DEF DummyInv, Calling, Threading, Operations
  <1>9. /\ Calling' /\ Between' /\ mem' = Threads!Over(shared, mem)
        /\ th'[t].pc \in Operations \cup {"done"}
        /\ th'[t].todo = Tail(th[t].todo) /\ th[t].todo # <<>>
        /\ \A u \in Thread : u # t => th'[u] = th[u]
        /\ Returned \subseteq Returned'
    <2>1. PICK a \in Answers : a = Null
      BY DEF Answers, Data
    <2>2. got = th[t].got \/ got = Append(th[t].got, a)
      BY <1>5
    <2> QED
      BY ONLY <1>8, calls' = calls, t \in Thread, a \in Answers, <2>2, <1>6, OneReturns
  <1>10. PICK c : DummyList(c)
    BY DEF DummyInv
  <1>11. /\ Linked(c, mem.node, mem.head, mem.tail) /\ c \in Seq(DOMAIN mem.node)
         /\ \A i \in 1..Len(c) : c[i] # mem.tail /\ c[i] \in DOMAIN mem.node
         /\ mem.tail \in DOMAIN mem.node
    BY <1>10 DEF DummyList, Linked
  <1>12. /\ {"node", "head", "tail"} \subseteq DOMAIN mem' /\ mem'.tail = p /\ mem'.head = mem.head
         /\ mem'.node = Queues!Added(full, p, Queues!Blank)
    <2>1. /\ DOMAIN shared = {"node", "tail"} /\ shared.tail = p
          /\ shared.node = Queues!Added(full, p, Queues!Blank)
      BY <1>4
    <2> QED
      BY <1>9, <2>1, ListFields DEF DummyInv
  <1>13. /\ DOMAIN mem'.node = DOMAIN mem.node \cup {p} /\ mem'.node[p] = Queues!Blank
         /\ mem'.node[mem.tail] = [data |-> v, next |-> p]
         /\ \A n \in DOMAIN mem.node : n # mem.tail => mem'.node[n] = mem.node[n]
    <2>1. /\ DOMAIN full = DOMAIN mem.node /\ full[mem.tail] = [data |-> v, next |-> p]
          /\ \A n \in DOMAIN mem.node : n # mem.tail => full[n] = mem.node[n]
      BY <1>3, <1>11
    <2>2. /\ DOMAIN mem'.node = DOMAIN full \cup {p} /\ mem'.node[p] = Queues!Blank
          /\ \A n \in DOMAIN full : n # p => mem'.node[n] = full[n]
      BY <1>12 DEF Queues!Added
    <2> QED
      BY <1>7, <1>11, <2>1, <2>2
  <1>14. ListMemory'
    <2>1. IsFiniteSet(DOMAIN mem'.node)
      BY <1>13, FS_AddElement DEF DummyInv, ListMemory
    <2>2. Queues!Blank \in Nodes /\ [data |-> v, next |-> p] \in Nodes
      BY <1>7 DEF Queues!Blank, Nodes, Data
    <2>3. \A n \in DOMAIN mem'.node : mem'.node[n] \in Nodes
      BY <1>13, <2>2 DEF DummyInv, ListMemory
    <2> QED
      BY <1>7, <1>12, <1>13, <2>1, <2>3 DEF DummyInv, ListMemory
  <1>15. PICK d : d = Append(c, mem.tail)
    OBVIOUS
  <1>16. /\ Linked(d, mem'.node, mem'.head, mem'.tail) /\ Len(c) \in Nat /\ Len(d) = Len(c) + 1
         /\ d[Len(c) + 1] = mem.tail /\ \A i \in 1..Len(c) : d[i] = c[i]
    <2>1. PICK node, node2, n, end : /\ node = mem.node /\ node2 = mem'.node
                                     /\ n = mem.head /\ end = mem.tail
      OBVIOUS
    <2>2. Linked(c, node2, n, end)
      <3>1. Linked(c, node, n, end)
        BY <1>11, <2>1
      <3>2. \A i \in 1..Len(c) : c[i] \in DOMAIN node2 /\ node2[c[i]].next = node[c[i]].next
        BY <1>11, <1>13, <2>1
      <3> QED
        BY ONLY <3>1, <3>2, LinkedStays
    <2>3. end \in DOMAIN node2 /\ node2[end].next = p /\ p # end /\ \A i \in 1..Len(c) : c[i] # p
      BY <1>7, <1>11, <1>13, <2>1
    <2>4. /\ Linked(Append(c, end), node2, n, p) /\ Len(c) \in Nat
          /\ Len(Append(c, end)) = Len(c) + 1 /\ Append(c, end)[Len(c) + 1] = end
          /\ \A i \in 1..Len(c) : Append(c, end)[i] = c[i]
      BY ONLY <2>2, <2>3, LinkedMore
    <2> QED
      BY <1>12, <1>15, <2>1, <2>4
  <1>17. Keeps(DataOf(d) \cup Returned)'
    <2>1. \A i \in 1..Len(c) : mem'.node[c[i]].data = mem.node[c[i]].data
      BY <1>11, <1>13
    <2>2. DataOf(c) \subseteq DataOf(d)' /\ v \in DataOf(d)'
      <3>1. DataOf(c) \subseteq DataOf(d)' /\ mem'.node[d[Len(c) + 1]].data \in DataOf(d)'
        BY ONLY <1>16, <2>1, DataMore
      <3>2. mem'.node[d[Len(c) + 1]].data = v
        BY <1>13, <1>16
      <3> QED
        BY <3>1, <3>2
    <2>3. Keeps(DataOf(c) \cup Returned) /\ DataOf(c) \subseteq DataOf(d)' \cup Returned'
      BY <1>10, <2>2 DEF DummyList
    <2> QED
      BY <1>2, <1>8, <1>9, <2>2, <2>3, OneKeeps
  <1>18. DummyList(d)'
    BY <1>12, <1>13, <1>16, <1>17 DEF DummyList
  <1>19. DummyActs(t)
    <2>1. Linked(c, mem.node, mem.head, mem.tail) /\ IsFiniteSet(DOMAIN mem.node)
      BY <1>11 DEF DummyInv, ListMemory
    <2>2. Linked(d, mem'.node, mem'.head, mem'.tail) /\ IsFiniteSet(DOMAIN mem'.node)
      BY <1>16, <1>14 DEF ListMemory
    <2>3. Queues!DummyItems = ValuesOf(c, mem.node)
      BY ONLY <2>1, ItemsAre
    <2>4. Queues!DummyItems' = ValuesOf(d, mem'.node)
      BY ONLY <2>2, ItemsThen
    <2>5. ValuesOf(d, mem'.node) = Append(ValuesOf(c, mem.node), v)
      <3>1. PICK node, node2 : node = mem.node /\ node2 = mem'.node
        OBVIOUS
      <3>2. Len(c) \in Nat
        BY <1>16
      <3>3. Len(d) = Len(c) + 1
        BY <1>16
      <3>4. \A i \in 1..Len(c) : d[i] = c[i] /\ node2[c[i]].data = node[c[i]].data
        BY <3>1, <1>16, <1>16, <1>11, <1>13
      <3>5. node2[d[Len(c) + 1]].data = v
        BY <3>1, <1>16, <1>16, <1>11, <1>13
      <3>6. ValuesOf(d, node2) = Append(ValuesOf(c, node), v)
        BY ONLY <3>2, <3>3, <3>4, <3>5, ValuesMore
      <3> QED
        BY <3>1, <3>6
    <2>6. th'[t].got = th[t].got /\ \A u \in Thread : u # t => th'[u].got = th[u].got
      <3>1. th'[t].got = got /\ \A u \in Thread : u # t => th'[u].got = th[u].got
        BY <1>6, <1>8, OneAnswered
      <3> QED
        BY <1>5, <3>1
    <2> QED
      BY <1>2, <1>9, <2>3, <2>4, <2>5, <2>6 DEF DummyActs, Does
  <1> QED
    BY <1>9, <1>14, <1>18, <1>19 DEF DummyInv

LEMMA DummyPopSafe ==
  ASSUME ThreadsafeAssumption, DummyInv, calls' = calls, NEW t \in Thread, Queues!dummy_try_pop(t)
  PROVE  DummyInv' /\ DummyActs(t)
  <1>1. CASE mem.head = mem.tail
    BY <1>1, ListEmpty DEF Queues!dummy_try_pop
  <1>2. CASE mem.head # mem.tail
    <2>1. PICK shared : shared = [node |-> Queues!Without(mem.node, mem.head),
                                  head |-> mem.node[mem.head].next]
      OBVIOUS
    <2>2. PICK got : got = Append(th[t].got, mem.node[mem.head].data)
      OBVIOUS
    <2>3. th[t].pc = "try_pop" /\ Ends(t, shared, got)
      BY <1>2, <2>1, <2>2, ReturnsAre
         DEF Queues!dummy_try_pop, Queues!Answer, Queues!With, DummyInv, Calling, Threading
    <2>4. PICK c : DummyList(c)
      BY DEF DummyInv
    <2>5. PICK end : end = mem.tail
      OBVIOUS
    <2>6. /\ Calling /\ ListMemory /\ Between /\ Linked(c, mem.node, mem.head, end)
          /\ Keeps(DataOf(c) \cup Returned) /\ end \in DOMAIN mem.node /\ mem.head # end
      BY <1>2, <2>4, <2>5 DEF DummyInv, DummyList
    <2>7. /\ DOMAIN shared = {"node", "head"}
          /\ shared.node = Queues!Without(mem.node, mem.head)
          /\ shared.head = mem.node[mem.head].next
      BY <2>1
    <2>8. PICK d : d = Tail(c)
      OBVIOUS
    <2>9. /\ Calling' /\ Between' /\ ListMemory' /\ mem' = Threads!Over(shared, mem)
          /\ Linked(d, mem'.node, mem'.head, end) /\ Keeps(DataOf(d) \cup Returned)'
          /\ DOMAIN mem'.node = DOMAIN mem.node \ {mem.head}
      BY <2>2, <2>3, <2>6, <2>7, <2>8, ListPops
    <2>10. mem'.tail = end
      BY <2>5, <2>6, <2>7, <2>9, ListFields
    <2>11. DummyList(d)'
      BY <2>6, <2>9, <2>10 DEF DummyList
    <2>12. DummyActs(t)
      <3>1. Linked(c, mem.node, mem.head, mem.tail) /\ mem.head # mem.tail /\ IsFiniteSet(DOMAIN mem.node)
        BY <1>2, <2>5, <2>6 DEF ListMemory
      <3>2. Linked(d, mem'.node, mem'.head, mem'.tail) /\ IsFiniteSet(DOMAIN mem'.node)
        BY <2>9, <2>10 DEF ListMemory
      <3>3. mem'.node = Queues!Without(mem.node, mem.head)
        BY <2>6, <2>7, <2>9, ListFields
      <3>4. Shorter(c, Tail(c), mem.node, mem'.node) /\ c[1] = mem.head
        BY ONLY <3>1, <3>3, PopsShorten
      <3>5. Queues!DummyItems = ValuesOf(c, mem.node)
        BY ONLY <3>1, ItemsAre
      <3>6. Queues!DummyItems' = ValuesOf(d, mem'.node)
        BY ONLY <3>2, ItemsThen
      <3>7. /\ ValuesOf(c, mem.node) # <<>> /\ ValuesOf(Tail(c), mem'.node) = Tail(ValuesOf(c, mem.node))
            /\ Head(ValuesOf(c, mem.node)) = mem.node[c[1]].data
        BY ONLY <3>4, ValuesRest
      <3>8. th'[t].got = got /\ \A u \in Thread : u # t => th'[u].got = th[u].got
        <4>1. Calling /\ th[t].pc # "done"
          BY <2>3, <2>6 DEF Operations
        <4> QED
          BY <4>1, <2>3, OneAnswered
      <3> QED
        BY <2>2, <2>8, <3>4, <3>5, <3>6, <3>7, <3>8 DEF DummyActs, Does
    <2> QED
      BY <2>9, <2>11, <2>12 DEF DummyInv
  <1> QED
    BY <1>1, <1>2

LEMMA DummyFirst ==
  ASSUME ThreadsafeAssumption, Calling, mem = Queues!DummyInit,
         \A t \in Thread : th[t].pc \in Operations \cup {"done"} /\ Pushed(t) = {}
  PROVE  DummyInv
  <1>1. /\ mem.node = [n \in {0} |-> Queues!Blank] /\ mem.head = 0 /\ mem.tail = 0
        /\ {"node", "head", "tail"} \subseteq DOMAIN mem
    BY DEF Queues!DummyInit
  <1>2. ListMemory
    <2>1. IsFiniteSet({0})
      BY FS_Singleton
    <2> QED
      BY <1>1, <2>1 DEF ListMemory, Queues!Blank, Nodes, Data
  <1>3. Linked(<<>>, mem.node, mem.head, mem.tail)
    BY <1>1 DEF Linked, After
  <1>4. \A t \in Thread : th[t].pc \notin {"pushed", "notify"}
    BY DEF Operations
  <1>5. Keeps(DataOf(<<>>) \cup Returned)
    BY <1>4 DEF Keeps
  <1>6. DummyList(<<>>) /\ Between
    BY <1>1, <1>3, <1>5 DEF DummyList, Between
  <1> QED
    BY <1>2, <1>6 DEF DummyInv

\* What the properties say of the queues for one thread.
LEMMA OneHolds ==
  ASSUME ListInv \/ DummyInv
  PROVE  /\ ListInv => UNION {Pushed(t) : t \in Thread} \subseteq ToSet(Queues!ListItems) \cup Returned
         /\ DummyInv => UNION {Pushed(t) : t \in Thread} \subseteq ToSet(Queues!DummyItems) \cup Returned
         /\ {mem.head, mem.tail} \ {Null} \subseteq DOMAIN mem.node
  <1>1. ASSUME NEW c, NEW end, Linked(c, mem.node, mem.head, end), IsFiniteSet(DOMAIN mem.node)
        PROVE  /\ ToSet(Queues!ValuesTo(mem.head, end)) = DataOf(c)
               /\ mem.head = end \/ mem.head \in DOMAIN mem.node
               /\ c # <<>> => c[Len(c)] \in DOMAIN mem.node
    <2>1. Queues!Chain(mem.node, mem.head, end) = c
      BY <1>1, ChainIs
    <2>2. Queues!ValuesTo(mem.head, end) = [i \in DOMAIN c |-> mem.node[c[i]].data]
      BY <2>1 DEF Queues!ValuesTo
    <2>3. c \in Seq(DOMAIN mem.node) /\ mem.head = After(c, 1, end)
      BY <1>1 DEF Linked
    <2>4. DOMAIN c = 1..Len(c) /\ Len(c) \in Nat /\ (c # <<>> => Len(c) \in 1..Len(c))
      BY <2>3
    <2>5. ToSet(Queues!ValuesTo(mem.head, end)) = DataOf(c)
      BY <2>2, <2>4 DEF ToSet, DataOf
    <2>6. mem.head = end \/ mem.head \in DOMAIN mem.node
      BY <2>3 DEF After
    <2>7. c # <<>> => c[Len(c)] \in DOMAIN mem.node
      BY <2>3, <2>4
    <2> QED
      BY <2>5, <2>6, <2>7
  <1>2. ASSUME ListInv
        PROVE  /\ UNION {Pushed(t) : t \in Thread} \subseteq ToSet(Queues!ListItems) \cup Returned
               /\ {mem.head, mem.tail} \ {Null} \subseteq DOMAIN mem.node
    <2>1. PICK c : ListList(c)
      BY <1>2 DEF ListInv
    <2>2. /\ Linked(c, mem.node, mem.head, Null) /\ IsFiniteSet(DOMAIN mem.node)
          /\ Keeps(DataOf(c) \cup Returned) /\ mem.tail = IF c = <<>> THEN Null ELSE c[Len(c)]
      BY <1>2, <2>1 DEF ListInv, ListMemory, ListList
    <2>3. /\ ToSet(Queues!ListItems) = DataOf(c)
          /\ mem.head = Null \/ mem.head \in DOMAIN mem.node
          /\ c # <<>> => c[Len(c)] \in DOMAIN mem.node
      BY <1>1, <2>2 DEF Queues!ListItems
    <2> QED
      BY <2>2, <2>3 DEF Keeps
  <1>3. ASSUME DummyInv
        PROVE  /\ UNION {Pushed(t) : t \in Thread} \subseteq ToSet(Queues!DummyItems) \cup Returned
               /\ {mem.head, mem.tail} \ {Null} \subseteq DOMAIN mem.node
    <2>1. PICK c : DummyList(c)
      BY <1>3 DEF DummyInv
    <2>2. PICK end : end = mem.tail
      OBVIOUS
    <2>3. /\ Linked(c, mem.node, mem.head, end) /\ IsFiniteSet(DOMAIN mem.node)
          /\ Keeps(DataOf(c) \cup Returned) /\ end \in DOMAIN mem.node
      BY <1>3, <2>1, <2>2 DEF DummyInv, ListMemory, DummyList
    <2>4. /\ ToSet(Queues!ValuesTo(mem.head, end)) = DataOf(c)
          /\ mem.head = end \/ mem.head \in DOMAIN mem.node
      BY <1>1, <2>3
    <2>5. ToSet(Queues!DummyItems) = DataOf(c)
      BY <2>2, <2>4 DEF Queues!DummyItems
    <2> QED
      BY <2>2, <2>3, <2>4, <2>5 DEF Keeps
  <1> QED
    BY <1>2, <1>3
=============================================================================
