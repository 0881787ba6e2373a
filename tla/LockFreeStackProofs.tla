-------------------------- MODULE LockFreeStackProofs --------------------------
(***************************************************************************)
(* Proofs about LockFreeStack for any threads, places in memory and        *)
(* values: no node is deleted while it is used, none is forgotten, and the *)
(* stack is linearizable.                                                  *)
(***************************************************************************)
EXTENDS LockFreeStack, FiniteSetTheorems, TLAPS

------------------------------------------------------------------------------
(* The inductive invariant *)

Place == {"idle", "push", "increase", "next", "take", "swap", "count", "release"}

CountedPtr == [external_count : Int, ptr : Node \cup {Null}]
NodeRecord == [data : Value \cup {Null}, internal_count : Int, next : CountedPtr]

\* The types of the variables; the counts are unbounded integers.
TypeOK ==
    /\ head \in CountedPtr
    /\ mem \in [Node -> NodeRecord]
    /\ allocated \subseteq Node
    /\ pc \in [Thread -> Place]
    /\ old \in [Thread -> CountedPtr]
    /\ ptr \in [Thread -> Node \cup {Null}]
    /\ next \in [Thread -> CountedPtr]
    /\ got \in [Thread -> Value \cup {Null}]
    /\ nops \in Nat

\* c lists the nodes from h on, each once.
Link(c, i) == IF i <= Len(c) THEN c[i] ELSE Null

Linked(c, h, m) ==
    /\ c \in Seq(Node)
    /\ \A i, j \in 1..Len(c) : c[i] = c[j] => i = j
    /\ h.ptr = Link(c, 1)
    /\ \A i \in 1..Len(c) : m[c[i]].next.ptr = Link(c, i + 1)

\* The poppers with a reference to a node.
Holders(n) == {t \in Thread : Holds(t) /\ ptr[t] = n}
Refs(n) == Cardinality(Holders(n))

\* A popper that has taken its node off the stack, and has yet to settle the
\* node's count.
Taking(t) == pc[t] \in {"swap", "count"}

\* The threads that answer for a node off the stack: its pusher, or the popper
\* that took it.
Owners(n) == {t \in Thread : (At(t, "push") \/ Taking(t)) /\ ptr[t] = n}

\* A node not yet pushed is one thread's own.
Alone(t) ==
    /\ ptr[t] \in allocated
    /\ mem[ptr[t]].internal_count = 0
    /\ mem[ptr[t]].data \in Value
    /\ Holders(ptr[t]) = {}
    /\ Owners(ptr[t]) = {t}

PushersAlone == \A t \in Thread : At(t, "push") => Alone(t)

\* A node with a reference is in memory, and what was read of it still holds.
HoldersSafe ==
    \A t \in Thread : Holds(t) =>
        /\ ptr[t] \in allocated
        /\ At(t, "release") \/ old[t].ptr = ptr[t]
        /\ At(t, "take") => next[t] = mem[ptr[t]].next

\* The references counted through the head (old), but for the head's own, less
\* those given up (internal_count, then negative) are the references there are.
TakersCount ==
    \A t \in Thread : Taking(t) =>
        /\ mem[ptr[t]].internal_count <= 0
        /\ Refs(ptr[t]) = old[t].external_count - 1 + mem[ptr[t]].internal_count
        /\ Owners(ptr[t]) = {t}

\* The count of a node on the stack is in the pointer to it.
External(c, i) == IF i = 1 THEN head.external_count ELSE mem[c[i - 1]].next.external_count

StackCount(c) ==
    \A i \in 1..Len(c) :
        /\ c[i] \in allocated
        /\ mem[c[i]].internal_count <= 0
        /\ Refs(c[i]) = External(c, i) - 1 + mem[c[i]].internal_count
        /\ Owners(c[i]) = {}

\* Any other node is there for the references to it that internal_count counts.
RestCount(c) ==
    \A n \in allocated :
        \/ \E i \in 1..Len(c) : c[i] = n
        \/ Owners(n) # {}
        \/ mem[n].internal_count = Refs(n) /\ Refs(n) > 0

Shape(c) == Linked(c, head, mem) /\ StackCount(c) /\ RestCount(c)

Safe(c) == PushersAlone /\ HoldersSafe /\ TakersCount /\ Shape(c)

IInv == TypeOK /\ \E c \in Seq(Node) : Safe(c)

------------------------------------------------------------------------------
(* The chain of nodes *)

\* Induction over the natural numbers, stated of a set: n's least predecessor
\* outside S would have no predecessor in the set of all of them.
LEMMA SetInduction ==
  ASSUME NEW S \in SUBSET Nat, 0 \in S, \A n \in S : n + 1 \in S
  PROVE  S = Nat
  <1>1. SUFFICES ASSUME NEW n \in Nat, n \notin S PROVE FALSE
    OBVIOUS
  <1> DEFINE K == {k \in 0..n : k \notin S}
             down == [k \in K |-> k - 1]
  <1>2. IsFiniteSet(K)
    <2>1. IsFiniteSet(0..n) /\ K \in SUBSET (0..n)
      BY FS_Interval
    <2> QED
      BY <2>1, FS_Subset
  <1>3. \A k \in K : k - 1 \in K
    OBVIOUS
  <1>4. down \in Injection(K, K)
    BY <1>3 DEF Injection, IsInjective
  <1>5. down \in Surjection(K, K)
    BY <1>2, <1>4, FS_Injection
  <1>6. n \in K
    BY <1>1
  <1>7. PICK k \in K : down[k] = n
    <2> HIDE DEF K, down
    <2> QED
      BY <1>6, <1>5 DEF Surjection
  <1> QED
    BY <1>7

\* A list of distinct nodes is no longer than there are nodes.
LEMMA LinkedShort ==
  ASSUME StackAssumption, NEW c, NEW h, NEW m, Linked(c, h, m)
  PROVE  Len(c) \in Nat /\ Len(c) <= Cardinality(Node)
  <1> DEFINE S == 1..Len(c)
  <1>1. Len(c) \in Nat /\ c \in [S -> Node] /\ \A i, j \in S : c[i] = c[j] => i = j
    BY DEF Linked
  <1>2. c \in Injection(S, Node)
    <2> HIDE DEF S
    <2> QED
      BY <1>1 DEF Injection, IsInjective
  <1>3. Cardinality(S) = Len(c)
    BY <1>1, FS_Interval
  <1>4. Cardinality(S) <= Cardinality(Node)
    <2> HIDE DEF S
    <2> QED
      BY <1>2, FS_Injection DEF StackAssumption
  <1> QED
    BY <1>1, <1>3, <1>4

\* The first k nodes of a list, or all of a shorter one.
FirstOf(c, k) == SubSeq(c, 1, IF k <= Len(c) THEN k ELSE Len(c))

\* One more node of the list is what Extend adds to its first ones.
LEMMA ExtendIs ==
  ASSUME StackAssumption, NEW c, NEW h, NEW m, Linked(c, h, m), NEW k \in Nat
  PROVE  Extend(FirstOf(c, k), h, m) = FirstOf(c, k + 1)
  <1> DEFINE s == FirstOf(c, k)
  <1>1. /\ c \in Seq(Node) /\ h.ptr = Link(c, 1)
        /\ \A i \in 1..Len(c) : m[c[i]].next.ptr = Link(c, i + 1)
    BY DEF Linked
  <1>2. CASE k < Len(c)
    <2>1. s = SubSeq(c, 1, k) /\ s \in Seq(Node) /\ Len(s) = k /\ (k > 0 => s[k] = c[k])
      BY <1>1, <1>2 DEF FirstOf
    <2>0. FirstOf(c, k + 1) = SubSeq(c, 1, k + 1)
      BY <1>1, <1>2 DEF FirstOf
    <2> HIDE DEF s
    <2>2. s = <<>> <=> k = 0
      <3>1. s \in Seq(Node) /\ Len(s) = k
        BY <2>1
      <3>2. s = <<>> <=> Len(s) = 0
        BY <3>1
      <3> QED
        BY <3>1, <3>2
    <2>3. (IF s = <<>> THEN h.ptr ELSE m[s[Len(s)]].next.ptr) = c[k + 1]
      <3>1. CASE k = 0
        BY <3>1, <1>1, <1>2, <2>2 DEF Link
      <3>2. CASE k # 0
        <4>1. k \in 1..Len(c) /\ Link(c, k + 1) = c[k + 1]
          BY <3>2, <1>1, <1>2 DEF Link
        <4>2. m[c[k]].next.ptr = c[k + 1]
          BY <4>1, <1>1
        <4>3. s[Len(s)] = c[k]
          BY <3>2, <2>1
        <4> QED
          BY <3>2, <4>2, <4>3, <2>2
      <3> QED
        BY <3>1, <3>2
    <2>4. c[k + 1] \in Node /\ c[k + 1] # Null
      BY <1>1, <1>2 DEF StackAssumption
    <2>5. Append(s, c[k + 1]) = SubSeq(c, 1, k + 1)
      BY <1>1, <1>2, <2>1
    <2>6. Extend(s, h, m) = Append(s, c[k + 1])
      BY <2>3, <2>4 DEF Extend
    <2> QED
      BY <2>6, <2>5, <2>0 DEF s
  <1>3. CASE k >= Len(c)
    <2>1. s = c
      BY <1>1, <1>3 DEF FirstOf
    <2>2. c = <<>> <=> Len(c) = 0
      BY <1>1
    <2>3. (IF s = <<>> THEN h.ptr ELSE m[s[Len(s)]].next.ptr) = Null
      BY <1>1, <2>1, <2>2 DEF Link
    <2>4. FirstOf(c, k + 1) = c
      BY <1>1, <1>3 DEF FirstOf
    <2> HIDE DEF s
    <2> QED
      BY <2>1, <2>3, <2>4 DEF Extend, s
  <1> QED
    BY <1>1, <1>2, <1>3

\* The list is what ChainOf computes: the equation of its recursive function
\* has a solution, the list's first nodes, and no other.
LEMMA ChainIs ==
  ASSUME StackAssumption, NEW c, NEW h, NEW m, Linked(c, h, m)
  PROVE  ChainOf(h, m) = c
  <1> DEFINE K == Cardinality(Node)
             F(f) == [k \in 0..K |-> IF k = 0 THEN <<>> ELSE Extend(f[k - 1], h, m)]
             first == CHOOSE f : f = F(f)
             g == [k \in 0..K |-> FirstOf(c, k)]
  <1>1. K \in Nat /\ Len(c) \in Nat /\ Len(c) <= K /\ c \in Seq(Node)
    BY LinkedShort, FS_CardinalityType DEF StackAssumption, Linked
  <1>2. FirstOf(c, 0) = <<>> /\ FirstOf(c, K) = c
    BY <1>1 DEF FirstOf
  <1>3. ASSUME NEW k \in Nat PROVE Extend(FirstOf(c, k), h, m) = FirstOf(c, k + 1)
    BY ExtendIs
  <1>4. g = F(g)
    <2>1. \A k \in 0..K : g[k] = IF k = 0 THEN <<>> ELSE Extend(g[k - 1], h, m)
      <3> TAKE k \in 0..K
      <3>1. CASE k = 0
        BY <3>1, <1>2
      <3>2. CASE k # 0
        <4>1. k - 1 \in 0..K /\ k - 1 \in Nat /\ g[k - 1] = FirstOf(c, k - 1) /\ g[k] = FirstOf(c, (k - 1) + 1)
          BY <3>2, <1>1
        <4>2. Extend(FirstOf(c, k - 1), h, m) = FirstOf(c, (k - 1) + 1)
          BY <4>1, <1>3
        <4> QED
          BY <3>2, <4>1, <4>2
      <3> QED
        BY <3>1, <3>2
    <2> QED
      BY <2>1
  <1>5. first = F(first)
    <2> HIDE DEF F, g
    <2> QED
      BY <1>4
  <1>6. \A k \in Nat : k <= K => first[k] = FirstOf(c, k)
    <2> DEFINE S == {k \in Nat : k <= K => first[k] = FirstOf(c, k)}
    <2> HIDE DEF first
    <2>1. \A k \in 0..K : first[k] = IF k = 0 THEN <<>> ELSE Extend(first[k - 1], h, m)
      BY <1>5
    <2>2. 0 \in S
      BY <2>1, <1>1, <1>2
    <2>3. ASSUME NEW k \in S PROVE k + 1 \in S
      <3>1. SUFFICES ASSUME k + 1 <= K PROVE first[k + 1] = FirstOf(c, k + 1)
        OBVIOUS
      <3>2. k \in Nat /\ first[k] = FirstOf(c, k)
        BY <3>1, <1>1
      <3>3. k + 1 \in 0..K /\ k + 1 # 0 /\ (k + 1) - 1 = k
        BY <3>1, <3>2, <1>1
      <3>4. first[k + 1] = Extend(first[k], h, m)
        BY <3>3, <2>1
      <3> QED
        BY <3>2, <3>4, <1>3
    <2>4. S = Nat
      <3> HIDE DEF S
      <3>1. S \in SUBSET Nat
        BY DEF S
      <3> QED
        BY <3>1, <2>2, <2>3, SetInduction
    <2> QED
      BY <2>4
  <1>7. ChainOf(h, m) = first[K]
    BY DEF ChainOf
  <1> HIDE DEF first
  <1> QED
    BY <1>1, <1>2, <1>6, <1>7

------------------------------------------------------------------------------
(* Counting references *)

\* The references to a node can be counted.
LEMMA RefsType ==
  ASSUME StackAssumption, NEW n
  PROVE  IsFiniteSet(Holders(n)) /\ Refs(n) \in Nat
  <1>1. Holders(n) \in SUBSET Thread
    BY DEF Holders
  <1> QED
    BY <1>1, FS_Subset, FS_CardinalityType DEF StackAssumption, Refs

\* A thread that comes to hold a node is one reference more.
LEMMA OneMore ==
  ASSUME StackAssumption, NEW n, NEW t, t \notin Holders(n),
         Holders(n)' = Holders(n) \cup {t}
  PROVE  Refs(n)' = Refs(n) + 1
  <1>1. Cardinality(Holders(n) \cup {t}) = Cardinality(Holders(n)) + 1
    BY RefsType, FS_AddElement
  <1> QED
    BY <1>1 DEF Refs

\* A thread that gives up a node is one reference less.
LEMMA OneLess ==
  ASSUME StackAssumption, NEW n, NEW t, t \in Holders(n),
         Holders(n)' = Holders(n) \ {t}
  PROVE  Refs(n)' = Refs(n) - 1
  <1>1. Cardinality(Holders(n) \ {t}) = Cardinality(Holders(n)) - 1
    BY RefsType, FS_RemoveElement
  <1> QED
    BY <1>1 DEF Refs

\* A single reference is that of any thread that holds the node.
LEMMA OnlyHolder ==
  ASSUME StackAssumption, NEW n, NEW t, t \in Holders(n)
  PROVE  Refs(n) >= 1 /\ (Refs(n) = 1 => Holders(n) = {t})
  <1> DEFINE R == Holders(n) \ {t}
  <1>1. IsFiniteSet(R) /\ Cardinality(R) = Refs(n) - 1
    BY RefsType, FS_RemoveElement DEF Refs
  <1>2. Cardinality(R) \in Nat /\ (Cardinality(R) = 0 => R = {})
    BY <1>1, FS_CardinalityType, FS_EmptySet
  <1>3. Refs(n) >= 1 /\ (Refs(n) = 1 => R = {})
    <2> HIDE DEF R
    <2> QED
      BY <1>1, <1>2, RefsType
  <1> QED
    BY <1>3

\* A node that nobody holds has no references.
LEMMA NoHolder ==
  ASSUME NEW n, Holders(n) = {}
  PROVE  Refs(n) = 0
  BY FS_EmptySet DEF Refs

------------------------------------------------------------------------------
(* Types *)

\* TypeOK holds of the first state.
LEMMA TypeInit ==
  ASSUME Init PROVE TypeOK
  BY DEF Init, TypeOK, Counted, Nothing, CountedPtr, NodeRecord, Place

\* What fetch_add leaves in memory.
LEMMA FetchAddIs ==
  ASSUME TypeOK, NEW t \in Thread, ptr[t] \in Node, NEW n \in Int, NEW finds,
         FetchAdd(t, n, finds)
  PROVE  /\ mem' \in [Node -> NodeRecord]
         /\ allocated' \subseteq Node
         /\ mem'[ptr[t]].internal_count = mem[ptr[t]].internal_count + n
         /\ \A x \in Node :
              /\ mem'[x].next = mem[x].next
              /\ mem'[x].data = mem[x].data
              /\ x # ptr[t] => mem'[x].internal_count = mem[x].internal_count
  <1> DEFINE r == [mem[ptr[t]] EXCEPT !.internal_count = mem[ptr[t]].internal_count + n]
  <1>1. \A x \in Node : mem[x] \in NodeRecord
    BY DEF TypeOK
  <1>2. /\ r \in NodeRecord
        /\ r.internal_count = mem[ptr[t]].internal_count + n
        /\ r.next = mem[ptr[t]].next
        /\ r.data = mem[ptr[t]].data
    BY <1>1 DEF NodeRecord
  <1>3. mem' = [mem EXCEPT ![ptr[t]] = r]
    BY DEF FetchAdd
  <1>4. allocated' \subseteq Node
    BY DEF FetchAdd, TypeOK
  <1> HIDE DEF r
  <1>5. mem \in [Node -> NodeRecord]
    BY DEF TypeOK
  <1> QED
    BY <1>2, <1>3, <1>4, <1>5

\* Every step keeps the types: what a popper looks at is a node.
LEMMA TypeStep ==
  ASSUME StackAssumption, TypeOK, HoldersSafe, [Next]_vars
  PROVE  TypeOK'
  <1>0. \A t \in Thread : Holds(t) => ptr[t] \in Node
    BY DEF HoldersSafe, TypeOK
  <1> USE DEF TypeOK, Goto, Place
  <1>1. ASSUME NEW t \in Thread, NEW v \in Value, Push(t, v) PROVE TypeOK'
    <2>1. PICK n \in Node \ allocated :
            /\ allocated' = allocated \cup {n}
            /\ mem' = [mem EXCEPT ![n] = [data |-> v, internal_count |-> 0, next |-> head]]
            /\ ptr' = [ptr EXCEPT ![t] = n]
      BY <1>1 DEF Push
    <2>2. mem' \in [Node -> NodeRecord]
      BY <2>1 DEF NodeRecord
    <2>3. nops' \in Nat
      BY <1>1 DEF Push, Call
    <2> QED
      BY <1>1, <2>1, <2>2, <2>3 DEF Push
  <1>2. ASSUME NEW t \in Thread, PushExchange(t) PROVE TypeOK'
    <2>1. mem' \in [Node -> NodeRecord]
      <3>1. \A n \in Node : [mem[n] EXCEPT !.next = head] \in NodeRecord
        BY DEF NodeRecord
      <3>2. mem' = mem \/ mem' = [mem EXCEPT ![ptr[t]] = [mem[ptr[t]] EXCEPT !.next = head]]
        BY <1>2 DEF PushExchange
      <3> QED
        BY <3>1, <3>2
    <2>2. head' \in CountedPtr
      BY <1>2 DEF PushExchange, Counted, CountedPtr
    <2> QED
      BY <1>2, <2>1, <2>2 DEF PushExchange
  <1>3. ASSUME NEW t \in Thread, Pop(t) PROVE TypeOK'
    BY <1>3 DEF Pop, Call
  <1>4. ASSUME NEW t \in Thread, increase_head_count(t) PROVE TypeOK'
    <2>1. /\ Counted(head.external_count + 1, head.ptr) \in CountedPtr
          /\ Counted(head.external_count + 1, head.ptr).ptr \in Node \cup {Null}
      BY DEF Counted, CountedPtr
    <2>2. CASE head = old[t]
      BY <1>4, <2>1, <2>2 DEF increase_head_count
    <2>3. CASE head # old[t]
      BY <1>4, <2>3 DEF increase_head_count
    <2> QED
      BY <2>2, <2>3
  <1>5. ASSUME NEW t \in Thread, ReadNext(t) PROVE TypeOK'
    <2>0. ptr[t] \in Node
      BY <1>0, <1>5 DEF ReadNext, At, Holds
    <2>1. next[t] \in CountedPtr /\ next' \in [Thread -> CountedPtr]
      BY <1>5, <2>0 DEF ReadNext, NodeRecord
    <2> QED
      BY <1>5, <2>0, <2>1 DEF ReadNext
  <1>6. ASSUME NEW t \in Thread, Take(t) PROVE TypeOK'
    <2>1. CASE head = old[t]
      BY <1>6, <2>1 DEF Take
    <2>2. CASE head # old[t]
      BY <1>6, <2>2 DEF Take
    <2> QED
      BY <2>1, <2>2
  <1>7. ASSUME NEW t \in Thread, Swap(t) PROVE TypeOK'
    <2>0. ptr[t] \in Node
      BY <1>0, <1>7 DEF Swap, At, Holds
    <2>1. mem' \in [Node -> NodeRecord]
      BY <1>7, <2>0 DEF Swap, NodeRecord
    <2> QED
      BY <1>7, <2>0, <2>1 DEF Swap, NodeRecord
  <1>8. ASSUME NEW t \in Thread, CountRefs(t) PROVE TypeOK'
    <2>1. ptr[t] \in Node
      BY <1>0, <1>8 DEF CountRefs, At, Holds
    <2>2. PICK n \in Int : FetchAdd(t, n, -n)
      BY <1>8 DEF CountRefs, CountedPtr
    <2>3. mem' \in [Node -> NodeRecord] /\ allocated' \subseteq Node
      BY <2>1, <2>2, FetchAddIs
    <2> QED
      BY <1>8, <2>3 DEF CountRefs
  <1>9. ASSUME NEW t \in Thread, Release(t) PROVE TypeOK'
    <2>1. ptr[t] \in Node
      BY <1>0, <1>9 DEF Release, At, Holds
    <2>2. FetchAdd(t, -1, 1) /\ -1 \in Int
      BY <1>9 DEF Release
    <2>3. mem' \in [Node -> NodeRecord] /\ allocated' \subseteq Node
      BY <2>1, <2>2, FetchAddIs
    <2> QED
      BY <1>9, <2>3 DEF Release
  <1>10. CASE UNCHANGED vars
    BY <1>10 DEF vars, local
  <1> QED
    BY <1>1, <1>2, <1>3, <1>4, <1>5, <1>6, <1>7, <1>8, <1>9, <1>10 DEF Next, Step

------------------------------------------------------------------------------
(* Steps that leave every node as it is *)

\* What each list entry means for the variables, without the operators.
LEMMA ChainNodes ==
  ASSUME NEW c, Shape(c)
  PROVE  /\ c \in Seq(Node) /\ Len(c) \in Nat
         /\ \A i \in 1..Len(c) : c[i] \in Node
  BY DEF Shape, Linked

\* The shape rests on no more of the state than is named here.
LEMMA QuietShape ==
  ASSUME StackAssumption, NEW c, Shape(c), allocated \subseteq Node,
         head'.ptr = head.ptr, head.ptr # Null => head' = head,
         allocated' = allocated,
         \A n \in Node : /\ mem'[n].next = mem[n].next
                         /\ mem'[n].internal_count = mem[n].internal_count,
         \A n \in Node : Refs(n)' = Refs(n),
         \A n \in Node : Owners(n)' = Owners(n)
  PROVE  Shape(c)'
  <1>1. c \in Seq(Node) /\ \A i \in 1..Len(c) : c[i] \in Node
    BY ChainNodes
  <1>2. Linked(c, head', mem')
    BY <1>1 DEF Shape, Linked
  <1>3. \A i \in 1..Len(c) : External(c, i)' = External(c, i)
    <2> TAKE i \in 1..Len(c)
    <2>1. CASE i = 1
      <3>1. head.ptr = c[1] /\ c[1] \in Node
        BY <1>1, <2>1 DEF Shape, Linked, Link
      <3>2. CASE head' = head
        BY <2>1, <3>2 DEF External
      <3>3. CASE head' # head
        BY <2>1, <3>1, <3>3 DEF StackAssumption
      <3> QED
        BY <3>2, <3>3
    <2>2. CASE i # 1
      <3>1. i - 1 \in 1..Len(c)
        BY <1>1, <2>2
      <3> QED
        BY <1>1, <2>2, <3>1 DEF External
    <2> QED
      BY <2>1, <2>2
  <1>4. StackCount(c)'
    BY <1>1, <1>3 DEF Shape, StackCount
  <1>5. RestCount(c)'
    BY <1>1 DEF Shape, RestCount
  <1> QED
    BY <1>2, <1>4, <1>5 DEF Shape

\* A step of t that moves neither to nor from a place where it holds a node or
\* answers for one.
LEMMA QuietMove ==
  ASSUME TypeOK, NEW t \in Thread, NEW place,
         pc' = [pc EXCEPT ![t] = place],
         \A u \in Thread : u # t => ptr'[u] = ptr[u],
         Holds(t)' <=> Holds(t), Holds(t) => ptr'[t] = ptr[t],
         (At(t, "push") \/ Taking(t))' <=> (At(t, "push") \/ Taking(t)),
         At(t, "push") => ptr'[t] = ptr[t]
  PROVE  \A n : /\ Holders(n)' = Holders(n)
                /\ Owners(n)' = Owners(n)
                /\ Refs(n)' = Refs(n)
  <1>1. pc \in [Thread -> Place]
    BY DEF TypeOK
  <1>2. \A u \in Thread : u # t => pc'[u] = pc[u]
    BY <1>1
  <1>3. ASSUME NEW n PROVE Holders(n)' = Holders(n)
    BY <1>2 DEF Holders, Holds
  <1>4. ASSUME NEW n PROVE Owners(n)' = Owners(n)
    BY <1>2 DEF Owners, Taking, At, Holds
  <1> QED
    BY <1>3, <1>4 DEF Refs

\* A call of pop.
LEMMA PopStep ==
  ASSUME StackAssumption, TypeOK, NEW c, Safe(c), NEW t \in Thread, Pop(t)
  PROVE  Safe(c)'
  <1>1. /\ pc \in [Thread -> Place] /\ pc[t] = "idle" /\ pc' = [pc EXCEPT ![t] = "increase"]
        /\ old \in [Thread -> CountedPtr] /\ old' = [old EXCEPT ![t] = head]
        /\ head' = head /\ mem' = mem /\ allocated' = allocated /\ ptr' = ptr /\ next' = next
        /\ allocated \subseteq Node
    BY DEF Pop, TypeOK, At, Goto
  <1>2. \A n : Holders(n)' = Holders(n) /\ Owners(n)' = Owners(n) /\ Refs(n)' = Refs(n)
    BY <1>1, QuietMove DEF Holds, At, Taking
  <1>3. Shape(c)'
    BY <1>1, <1>2, QuietShape DEF Safe
  <1>4. PushersAlone'
    BY <1>1, <1>2 DEF Safe, PushersAlone, Alone, At
  <1>5. HoldersSafe'
    BY <1>1, <1>2 DEF Safe, HoldersSafe, At, Holds
  <1>6. TakersCount'
    BY <1>1, <1>2 DEF Safe, TakersCount, Taking
  <1> QED
    BY <1>3, <1>4, <1>5, <1>6 DEF Safe

\* The first of a popper's two reads.
LEMMA ReadNextStep ==
  ASSUME StackAssumption, TypeOK, NEW c, Safe(c), NEW t \in Thread, ReadNext(t)
  PROVE  Safe(c)'
  <1>1. /\ pc \in [Thread -> Place] /\ pc[t] = "next" /\ pc' = [pc EXCEPT ![t] = "take"]
        /\ next \in [Thread -> CountedPtr] /\ next' = [next EXCEPT ![t] = mem[ptr[t]].next]
        /\ head' = head /\ mem' = mem /\ allocated' = allocated /\ ptr' = ptr /\ old' = old
        /\ allocated \subseteq Node
    BY DEF ReadNext, TypeOK, At, Goto
  <1>2. \A n : Holders(n)' = Holders(n) /\ Owners(n)' = Owners(n) /\ Refs(n)' = Refs(n)
    BY <1>1, QuietMove DEF Holds, At, Taking
  <1>3. Shape(c)'
    BY <1>1, <1>2, QuietShape DEF Safe
  <1>4. PushersAlone'
    BY <1>1, <1>2 DEF Safe, PushersAlone, Alone, At
  <1>5. HoldersSafe'
    BY <1>1, <1>2 DEF Safe, HoldersSafe, At, Holds
  <1>6. TakersCount'
    BY <1>1, <1>2 DEF Safe, TakersCount, Taking
  <1> QED
    BY <1>3, <1>4, <1>5, <1>6 DEF Safe

\* The value is swapped out of the node by the popper that took it.
LEMMA SwapStep ==
  ASSUME StackAssumption, TypeOK, NEW c, Safe(c), NEW t \in Thread, Swap(t)
  PROVE  Safe(c)'
  <1>1. /\ pc \in [Thread -> Place] /\ pc[t] = "swap" /\ pc' = [pc EXCEPT ![t] = "count"]
        /\ head' = head /\ allocated' = allocated /\ ptr' = ptr /\ old' = old /\ next' = next
        /\ allocated \subseteq Node
    BY DEF Swap, TypeOK, At, Goto
  <1>2. \A n : Holders(n)' = Holders(n) /\ Owners(n)' = Owners(n) /\ Refs(n)' = Refs(n)
    BY <1>1, QuietMove DEF Holds, At, Taking
  <1>3. ptr[t] \in Node /\ Owners(ptr[t]) = {t}
    BY <1>1 DEF Safe, HoldersSafe, TakersCount, Holds, Taking
  <1>4. \A n \in Node : /\ mem'[n].next = mem[n].next
                        /\ mem'[n].internal_count = mem[n].internal_count
                        /\ n # ptr[t] => mem'[n].data = mem[n].data
    <2>1. mem' = [mem EXCEPT ![ptr[t]].data = Null]
      BY DEF Swap
    <2>2. mem \in [Node -> NodeRecord]
      BY DEF TypeOK
    <2> QED
      BY <2>1, <2>2 DEF NodeRecord
  <1>5. Shape(c)'
    BY <1>1, <1>2, <1>4, QuietShape DEF Safe
  <1>6. PushersAlone'
    <2>1. ASSUME NEW u \in Thread, At(u, "push")' PROVE u # t /\ At(u, "push") /\ ptr[u] \in Node
      BY <1>1, <2>1 DEF At, Safe, PushersAlone, Alone
    <2>2. ASSUME NEW u \in Thread, At(u, "push")' PROVE ptr[u] # ptr[t]
      BY <1>3, <2>1, <2>2 DEF Safe, PushersAlone, Alone
    <2> QED
      BY <1>1, <1>2, <1>4, <2>1, <2>2 DEF Safe, PushersAlone, Alone
  <1>7. HoldersSafe'
    BY <1>1, <1>2, <1>4 DEF Safe, HoldersSafe, At, Holds
  <1>8. TakersCount'
    <2>1. ASSUME NEW u \in Thread, Taking(u)' PROVE Taking(u) /\ ptr[u] \in Node
      BY <1>1, <2>1 DEF Taking, Safe, HoldersSafe, Holds
    <2> QED
      BY <1>1, <1>2, <1>4, <2>1 DEF Safe, TakersCount
  <1> QED
    BY <1>5, <1>6, <1>7, <1>8 DEF Safe

\* The compare_exchange of increase_head_count fails, or the stack is empty.
LEMMA NoReferenceStep ==
  ASSUME StackAssumption, TypeOK, NEW c, Safe(c), NEW t \in Thread, increase_head_count(t),
         head # old[t] \/ head.ptr = Null
  PROVE  Safe(c)'
  <1>1. /\ pc \in [Thread -> Place] /\ pc[t] = "increase"
        /\ \E place \in {"increase", "idle"} : pc' = [pc EXCEPT ![t] = place]
        /\ head'.ptr = head.ptr /\ (head.ptr # Null => head' = head)
        /\ mem' = mem /\ allocated' = allocated /\ next' = next
        /\ \A u \in Thread : u # t => ptr'[u] = ptr[u] /\ old'[u] = old[u]
        /\ allocated \subseteq Node
    <2>1. /\ pc \in [Thread -> Place] /\ old \in [Thread -> CountedPtr] /\ allocated \subseteq Node
          /\ ptr \in [Thread -> Node \cup {Null}] /\ pc[t] = "increase"
          /\ mem' = mem /\ allocated' = allocated /\ next' = next
      BY DEF increase_head_count, TypeOK, At
    <2>2. CASE head = old[t]
      <3>1. /\ head' = Counted(head.external_count + 1, head.ptr) /\ head.ptr = Null
            /\ \E new : old' = [old EXCEPT ![t] = new] /\ ptr' = [ptr EXCEPT ![t] = new.ptr]
            /\ pc' = [pc EXCEPT ![t] = "idle"]
        BY <2>2 DEF increase_head_count, Counted, Goto
      <3> QED
        BY <2>1, <3>1 DEF Counted
    <2>3. CASE head # old[t]
      <3>1. /\ head' = head /\ old' = [old EXCEPT ![t] = head] /\ ptr' = ptr /\ pc' = pc
        BY <2>3 DEF increase_head_count
      <3>2. pc' = [pc EXCEPT ![t] = "increase"]
        BY <2>1, <3>1
      <3> QED
        BY <2>1, <3>1, <3>2
    <2> QED
      BY <2>2, <2>3
  <1>2. \A n : Holders(n)' = Holders(n) /\ Owners(n)' = Owners(n) /\ Refs(n)' = Refs(n)
    <2>1. PICK place \in {"increase", "idle"} : pc' = [pc EXCEPT ![t] = place]
      BY <1>1
    <2> QED
      BY <1>1, <2>1, QuietMove DEF Holds, At, Taking
  <1>3. Shape(c)'
    BY <1>1, <1>2, QuietShape DEF Safe
  <1>4. PushersAlone'
    BY <1>1, <1>2 DEF Safe, PushersAlone, Alone, At
  <1>5. HoldersSafe'
    BY <1>1, <1>2 DEF Safe, HoldersSafe, At, Holds
  <1>6. TakersCount'
    BY <1>1, <1>2 DEF Safe, TakersCount, Taking
  <1> QED
    BY <1>3, <1>4, <1>5, <1>6 DEF Safe

\* The compare_exchange of pop fails.
LEMMA TakeFailsStep ==
  ASSUME StackAssumption, TypeOK, NEW c, Safe(c), NEW t \in Thread, Take(t), head # old[t]
  PROVE  Safe(c)'
  <1>1. /\ pc \in [Thread -> Place] /\ pc[t] = "take" /\ pc' = [pc EXCEPT ![t] = "release"]
        /\ old \in [Thread -> CountedPtr] /\ old' = [old EXCEPT ![t] = head]
        /\ head' = head /\ mem' = mem /\ allocated' = allocated /\ ptr' = ptr /\ next' = next
        /\ allocated \subseteq Node
    BY DEF Take, TypeOK, At, Goto
  <1>2. \A n : Holders(n)' = Holders(n) /\ Owners(n)' = Owners(n) /\ Refs(n)' = Refs(n)
    BY <1>1, QuietMove DEF Holds, At, Taking
  <1>3. Shape(c)'
    BY <1>1, <1>2, QuietShape DEF Safe
  <1>4. PushersAlone'
    BY <1>1, <1>2 DEF Safe, PushersAlone, Alone, At
  <1>5. HoldersSafe'
    BY <1>1, <1>2 DEF Safe, HoldersSafe, At, Holds
  <1>6. TakersCount'
    BY <1>1, <1>2 DEF Safe, TakersCount, Taking
  <1> QED
    BY <1>3, <1>4, <1>5, <1>6 DEF Safe

------------------------------------------------------------------------------
(* Steps on one node *)

\* The list stays what it is when the pointers in it do.
LEMMA SameChain ==
  ASSUME NEW c, Shape(c), head' = head,
         \A i \in 1..Len(c) : mem'[c[i]].next = mem[c[i]].next
  PROVE  /\ Linked(c, head', mem')
         /\ \A i \in 1..Len(c) : External(c, i)' = External(c, i)
  <1>1. Linked(c, head', mem')
    BY DEF Shape, Linked
  <1>2. Len(c) \in Nat
    BY ChainNodes
  <1>3. ASSUME NEW i \in 1..Len(c) PROVE External(c, i)' = External(c, i)
    <2>1. i = 1 \/ i - 1 \in 1..Len(c)
      BY <1>2
    <2> QED
      BY <2>1 DEF External
  <1> QED
    BY <1>1, <1>3

\* A node is made: no popper can know it.
LEMMA PushStep ==
  ASSUME StackAssumption, TypeOK, NEW c, Safe(c), NEW t \in Thread, NEW v \in Value, Push(t, v)
  PROVE  Safe(c)'
  <1>1. PICK n \in Node \ allocated :
          /\ allocated' = allocated \cup {n}
          /\ mem' = [mem EXCEPT ![n] = [data |-> v, internal_count |-> 0, next |-> head]]
          /\ ptr' = [ptr EXCEPT ![t] = n]
    BY DEF Push
  <1>2. /\ pc \in [Thread -> Place] /\ pc[t] = "idle" /\ pc' = [pc EXCEPT ![t] = "push"]
        /\ head' = head /\ old' = old /\ next' = next
        /\ ptr \in [Thread -> Node \cup {Null}] /\ mem \in [Node -> NodeRecord]
        /\ allocated \subseteq Node
    BY DEF Push, TypeOK, At, Goto
  <1>3. \A u \in Thread : Holds(u) \/ At(u, "push") => ptr[u] \in allocated
    BY DEF Safe, HoldersSafe, PushersAlone, Alone
  <1>4. Holders(n) = {} /\ Owners(n) = {}
    BY <1>1, <1>3 DEF Holders, Owners, Taking, Holds
  <1>5. \A x \in Node : x # n => mem'[x] = mem[x]
    BY <1>1, <1>2
  <1>6. mem'[n].data = v /\ mem'[n].internal_count = 0
    BY <1>1, <1>2
  <1>7. \A u \in Thread : u # t => pc'[u] = pc[u] /\ ptr'[u] = ptr[u]
    BY <1>1, <1>2
  <1>8. pc'[t] = "push" /\ ptr'[t] = n
    BY <1>1, <1>2
  <1>9. \A x \in Node : Holders(x)' = Holders(x)
    BY <1>2, <1>7, <1>8 DEF Holders, Holds
  <1>10. /\ Owners(n)' = {t}
         /\ \A x \in Node : x # n => Owners(x)' = Owners(x)
    <2>1. Owners(n)' = Owners(n) \cup {t}
      BY <1>2, <1>7, <1>8 DEF Owners, At, Taking
    <2>2. ASSUME NEW x \in Node, x # n PROVE Owners(x)' = Owners(x)
      BY <1>2, <1>7, <1>8, <2>2 DEF Owners, At, Taking
    <2> QED
      BY <1>4, <2>1, <2>2
  <1>11. \A x \in Node : Refs(x)' = Refs(x)
    BY <1>9 DEF Refs
  <1>12. \A i \in 1..Len(c) : c[i] \in Node /\ c[i] # n
    BY <1>1, ChainNodes DEF Safe, Shape, StackCount
  <1>13. Shape(c)'
    <2>1. Linked(c, head', mem') /\ \A i \in 1..Len(c) : External(c, i)' = External(c, i)
      BY <1>2, <1>5, <1>12, SameChain DEF Safe
    <2>2. StackCount(c)'
      BY <1>1, <1>5, <1>10, <1>11, <1>12, <2>1 DEF Safe, Shape, StackCount
    <2>3. RestCount(c)'
      <3>1. ASSUME NEW x \in allocated, x # n
            PROVE  \/ \E i \in 1..Len(c) : c[i] = x
                   \/ Owners(x)' # {}
                   \/ mem'[x].internal_count = Refs(x)' /\ Refs(x)' > 0
        BY <1>2, <1>5, <1>10, <1>11, <3>1 DEF Safe, Shape, RestCount
      <3>2. allocated' = allocated \cup {n} /\ Owners(n)' # {}
        BY <1>1, <1>10
      <3> QED
        BY <1>1, <3>1, <3>2 DEF RestCount
    <2> QED
      BY <2>1, <2>2, <2>3 DEF Shape
  <1>14. PushersAlone'
    <2>1. ASSUME NEW u \in Thread, At(u, "push")', u # t
          PROVE  Alone(u)'
      <3>1. At(u, "push") /\ ptr'[u] = ptr[u] /\ ptr[u] \in allocated /\ ptr[u] \in Node /\ ptr[u] # n
        BY <1>1, <1>2, <1>3, <1>7, <2>1 DEF At
      <3> QED
        BY <1>1, <1>5, <1>9, <1>10, <3>1 DEF Safe, PushersAlone, Alone
    <2>2. Alone(t)'
      BY <1>1, <1>4, <1>6, <1>8, <1>9, <1>10 DEF Alone
    <2> QED
      BY <2>1, <2>2 DEF PushersAlone
  <1>15. HoldersSafe'
    <2>1. ASSUME NEW u \in Thread, Holds(u)'
          PROVE  u # t /\ Holds(u) /\ ptr'[u] = ptr[u] /\ pc'[u] = pc[u]
      BY <1>7, <1>8, <2>1 DEF Holds
    <2>2. ASSUME NEW u \in Thread, Holds(u)
          PROVE  ptr[u] \in allocated /\ mem'[ptr[u]] = mem[ptr[u]]
      BY <1>1, <1>2, <1>3, <1>5, <2>2
    <2> QED
      BY <1>1, <1>2, <2>1, <2>2 DEF Safe, HoldersSafe, At
  <1>16. TakersCount'
    <2>1. ASSUME NEW u \in Thread, Taking(u)'
          PROVE  Taking(u) /\ ptr'[u] = ptr[u] /\ ptr[u] \in Node /\ ptr[u] # n
      BY <1>1, <1>2, <1>3, <1>7, <1>8, <2>1 DEF Taking, Holds
    <2> QED
      BY <1>2, <1>5, <1>10, <1>11, <2>1 DEF Safe, TakersCount
  <1> QED
    BY <1>13, <1>14, <1>15, <1>16 DEF Safe

\* The compare_exchange of push fails: next, of a node nobody else knows, is
\* set to the head.
LEMMA PushRetryStep ==
  ASSUME StackAssumption, TypeOK, NEW c, Safe(c), NEW t \in Thread, PushExchange(t),
         head # mem[ptr[t]].next
  PROVE  Safe(c)'
  <1>1. /\ pc[t] = "push" /\ mem' = [mem EXCEPT ![ptr[t]].next = head]
        /\ head' = head /\ pc' = pc /\ old' = old /\ next' = next /\ ptr' = ptr
        /\ allocated' = allocated /\ allocated \subseteq Node /\ mem \in [Node -> NodeRecord]
    BY DEF PushExchange, TypeOK, At
  <1>2. Alone(t)
    BY <1>1 DEF Safe, PushersAlone, At
  <1>3. /\ \A x \in Node : x # ptr[t] => mem'[x].next = mem[x].next
        /\ \A x \in Node : /\ mem'[x].internal_count = mem[x].internal_count
                           /\ mem'[x].data = mem[x].data
    BY <1>1 DEF NodeRecord
  <1>4. \A x : Holders(x)' = Holders(x) /\ Owners(x)' = Owners(x) /\ Refs(x)' = Refs(x)
    BY <1>1 DEF Holders, Holds, Owners, Taking, At, Refs
  <1>5. \A i \in 1..Len(c) : c[i] \in Node /\ c[i] # ptr[t]
    BY <1>2, ChainNodes DEF Alone, Safe, Shape, StackCount
  <1>6. Shape(c)'
    <2>1. Linked(c, head', mem') /\ \A i \in 1..Len(c) : External(c, i)' = External(c, i)
      BY <1>1, <1>3, <1>5, SameChain DEF Safe
    <2>2. StackCount(c)'
      BY <1>1, <1>3, <1>4, <1>5, <2>1 DEF Safe, Shape, StackCount
    <2>3. RestCount(c)'
      BY <1>1, <1>3, <1>4 DEF Safe, Shape, RestCount
    <2> QED
      BY <2>1, <2>2, <2>3 DEF Shape
  <1>7. PushersAlone'
    BY <1>1, <1>3, <1>4 DEF Safe, PushersAlone, Alone, At
  <1>8. HoldersSafe'
    <2>1. \A u \in Thread : Holds(u) => ptr[u] \in Node /\ ptr[u] # ptr[t]
      BY <1>1, <1>2 DEF Safe, HoldersSafe, Alone, Holders
    <2> QED
      BY <1>1, <1>3, <2>1 DEF Safe, HoldersSafe, At, Holds
  <1>9. TakersCount'
    <2>1. \A u \in Thread : Taking(u) => ptr[u] \in Node
      BY <1>1 DEF Safe, HoldersSafe, Holds, Taking
    <2> QED
      BY <1>1, <1>3, <1>4, <2>1 DEF Safe, TakersCount, Taking
  <1> QED
    BY <1>6, <1>7, <1>8, <1>9 DEF Safe

\* The entries of a list with one more node on top.
LEMMA OnTop ==
  ASSUME NEW c \in Seq(Node), NEW n \in Node
  PROVE  /\ <<n>> \o c \in Seq(Node)
         /\ Len(<<n>> \o c) = Len(c) + 1 /\ Len(c) \in Nat
         /\ (<<n>> \o c)[1] = n
         /\ \A i \in 1..Len(c) : (<<n>> \o c)[i + 1] = c[i]
  OBVIOUS

\* The compare_exchange of push succeeds: the node is on the stack.
LEMMA PushedStep ==
  ASSUME StackAssumption, TypeOK, NEW c, Safe(c), NEW t \in Thread, PushExchange(t),
         head = mem[ptr[t]].next
  PROVE  \E d \in Seq(Node) : d = <<ptr[t]>> \o c /\ Safe(d)'
  <1> DEFINE n == ptr[t]
  <1>1. /\ pc[t] = "push" /\ pc' = [pc EXCEPT ![t] = "idle"] /\ pc \in [Thread -> Place]
        /\ head' = Counted(1, ptr[t])
        /\ mem' = mem /\ old' = old /\ next' = next /\ ptr' = ptr
        /\ allocated' = allocated /\ allocated \subseteq Node
    BY DEF PushExchange, TypeOK, At, Goto
  <1>2. Alone(t)
    BY <1>1 DEF Safe, PushersAlone, At
  <1>3. n \in Node
    BY <1>1, <1>2 DEF Alone
  <1>4. PICK p : p = n
    OBVIOUS
  <1>5. PICK d : d = <<p>> \o c
    OBVIOUS
  <1>6. /\ c \in Seq(Node) /\ d \in Seq(Node)
        /\ Len(d) = Len(c) + 1 /\ Len(c) \in Nat
        /\ d[1] = p
        /\ \A i \in 1..Len(c) : d[i + 1] = c[i]
    <2>1. c \in Seq(Node)
      BY ChainNodes DEF Safe
    <2> QED
      BY <1>3, <1>4, <1>5, <2>1, OnTop
  <1>7. \A i \in 1..Len(d) : i = 1 \/ (i - 1 \in 1..Len(c) /\ d[i] = c[i - 1])
    BY <1>6
  <1>8. \A i \in 1..Len(c) : c[i] \in Node /\ c[i] # p
    BY <1>2, <1>4, ChainNodes DEF Alone, Safe, Shape, StackCount
  <1>9. \A u \in Thread : u # t => pc'[u] = pc[u]
    BY <1>1
  <1>10. \A x : Holders(x)' = Holders(x) /\ Refs(x)' = Refs(x)
    <2>1. \A x : Holders(x)' = Holders(x)
      BY <1>1, <1>9 DEF Holders, Holds
    <2> QED
      BY <2>1 DEF Refs
  <1>11. Owners(p)' = {} /\ \A x : x # p => Owners(x)' = Owners(x)
    <2>1. Owners(p)' = Owners(p) \ {t}
      BY <1>1, <1>4, <1>9 DEF Owners, At, Taking
    <2>2. ASSUME NEW x, x # p PROVE Owners(x)' = Owners(x)
      BY <1>1, <1>4, <1>9, <2>2 DEF Owners, At, Taking
    <2> QED
      BY <1>2, <1>4, <2>1, <2>2 DEF Alone
  <1>12. Linked(d, head', mem')
    <2>1. \A i, j \in 1..Len(d) : d[i] = d[j] => i = j
      <3> TAKE i, j \in 1..Len(d)
      <3>1. HAVE d[i] = d[j]
      <3>2. CASE i = 1 /\ j = 1
        BY <3>2
      <3>3. CASE i # 1 /\ j # 1
        <4>1. i - 1 = j - 1
          BY <1>7, <3>1, <3>3 DEF Safe, Shape, Linked
        <4> QED
          BY <4>1, <1>6
      <3>4. CASE i = 1 /\ j # 1
        <4>1. d[j] = c[j - 1] /\ c[j - 1] # p
          BY <1>7, <1>8, <3>4
        <4> QED
          BY <1>6, <3>1, <3>4, <4>1
      <3>5. CASE i # 1 /\ j = 1
        <4>1. d[i] = c[i - 1] /\ c[i - 1] # p
          BY <1>7, <1>8, <3>5
        <4> QED
          BY <1>6, <3>1, <3>5, <4>1
      <3> QED
        BY <3>2, <3>3, <3>4, <3>5
    <2>2. head'.ptr = Link(d, 1)
      BY <1>1, <1>4, <1>6 DEF Counted, Link
    <2>3. ASSUME NEW i \in 1..Len(d) PROVE mem'[d[i]].next.ptr = Link(d, i + 1)
      <3>1. Link(d, i + 1) = Link(c, i)
        BY <1>6 DEF Link
      <3>2. CASE i = 1
        BY <1>1, <1>4, <1>6, <3>1, <3>2 DEF Safe, Shape, Linked
      <3>3. CASE i # 1
        <4>1. mem[c[i - 1]].next.ptr = Link(c, (i - 1) + 1)
          BY <1>7, <3>3 DEF Safe, Shape, Linked
        <4> QED
          BY <1>1, <1>6, <1>7, <3>1, <3>3, <4>1
      <3> QED
        BY <3>2, <3>3
    <2> QED
      BY <1>6, <2>1, <2>2, <2>3 DEF Linked
  <1>13. StackCount(d)'
    <2>1. ASSUME NEW i \in 1..Len(d)
          PROVE  /\ d[i] \in allocated'
                 /\ mem'[d[i]].internal_count <= 0
                 /\ Refs(d[i])' = External(d, i)' - 1 + mem'[d[i]].internal_count
                 /\ Owners(d[i])' = {}
      <3>1. CASE i = 1
        <4>1. External(d, i)' = 1
          BY <1>1, <3>1 DEF External, Counted
        <4>2. mem[p].internal_count = 0 /\ p \in allocated /\ Holders(p) = {}
          BY <1>2, <1>4 DEF Alone
        <4>3. Refs(p)' = 0
          BY <4>2, <1>10, NoHolder
        <4> QED
          BY <1>1, <1>6, <1>11, <3>1, <4>1, <4>2, <4>3
      <3>2. CASE i # 1
        <4> DEFINE k == i - 1
        <4>1. k \in 1..Len(c) /\ d[i] = c[k] /\ c[k] # p
          BY <1>7, <1>8, <3>2
        <4>2. External(d, i)' = External(c, k)
          <5>1. CASE k = 1
            <6>1. d[i - 1] = p
              BY <5>1, <1>6
            <6>2. mem[p].next = head
              BY <1>4
            <6>3. External(d, i)' = mem[d[i - 1]].next.external_count
              BY <1>1, <3>2 DEF External
            <6>4. External(c, k) = head.external_count
              BY <5>1 DEF External
            <6> QED
              BY <6>1, <6>2, <6>3, <6>4
          <5>2. CASE k # 1
            <6>1. d[i - 1] = c[k - 1]
              BY <5>2, <4>1, <1>6, <1>7
            <6>2. External(d, i)' = mem[d[i - 1]].next.external_count
              BY <1>1, <3>2 DEF External
            <6>3. External(c, k) = mem[c[k - 1]].next.external_count
              BY <5>2 DEF External
            <6> QED
              BY <6>1, <6>2, <6>3
          <5> QED
            BY <5>1, <5>2
        <4>3. /\ c[k] \in allocated
              /\ mem[c[k]].internal_count <= 0
              /\ Refs(c[k]) = External(c, k) - 1 + mem[c[k]].internal_count
              /\ Owners(c[k]) = {}
          BY <4>1 DEF Safe, Shape, StackCount
        <4> HIDE DEF k
        <4> QED
          BY <1>1, <1>10, <1>11, <4>1, <4>2, <4>3
      <3> QED
        BY <3>1, <3>2
    <2> QED
      BY <2>1 DEF StackCount
  <1>14. RestCount(d)'
    <2>1. ASSUME NEW x \in allocated
          PROVE  \/ \E i \in 1..Len(d) : d[i] = x
                 \/ Owners(x)' # {}
                 \/ mem'[x].internal_count = Refs(x)' /\ Refs(x)' > 0
      <3>1. CASE x = p
        BY <1>6, <3>1
      <3>2. CASE x # p
        <4>1. ASSUME NEW i \in 1..Len(c), c[i] = x PROVE \E j \in 1..Len(d) : d[j] = x
          BY <1>6, <4>1
        <4>2. \/ \E i \in 1..Len(c) : c[i] = x
              \/ Owners(x) # {}
              \/ mem[x].internal_count = Refs(x) /\ Refs(x) > 0
          BY DEF Safe, Shape, RestCount
        <4> QED
          BY <1>1, <1>10, <1>11, <3>2, <4>1, <4>2
      <3> QED
        BY <3>1, <3>2
    <2> QED
      BY <1>1, <2>1 DEF RestCount
  <1>15. PushersAlone'
    <2>1. ASSUME NEW u \in Thread, At(u, "push")' PROVE Alone(u)'
      <3>1. u # t /\ At(u, "push") /\ Alone(u)
        BY <1>1, <2>1 DEF At, Safe, PushersAlone
      <3>2. ptr[u] # p
        BY <1>2, <1>4, <3>1 DEF Alone
      <3> QED
        BY <1>1, <1>10, <1>11, <3>1, <3>2 DEF Alone
    <2> QED
      BY <2>1 DEF PushersAlone
  <1>16. HoldersSafe'
    BY <1>1, <1>9 DEF Safe, HoldersSafe, At, Holds
  <1>17. TakersCount'
    <2>1. ASSUME NEW u \in Thread, Taking(u)'
          PROVE  Taking(u) /\ ptr[u] # p
      BY <1>1, <1>2, <1>4, <2>1 DEF Taking, Holds, Alone, Holders
    <2> QED
      BY <1>1, <1>10, <1>11, <2>1 DEF Safe, TakersCount
  <1>18. Safe(d)'
    BY <1>12, <1>13, <1>14, <1>15, <1>16, <1>17 DEF Safe, Shape
  <1> QED
    BY <1>4, <1>5, <1>6, <1>18

\* A reference is taken to the node on top, and counted in the head.
LEMMA ReferenceStep ==
  ASSUME StackAssumption, TypeOK, NEW c, Safe(c), NEW t \in Thread, increase_head_count(t),
         head = old[t], head.ptr # Null
  PROVE  Safe(c)'
  <1>1. /\ pc[t] = "increase" /\ pc' = [pc EXCEPT ![t] = "next"] /\ pc \in [Thread -> Place]
        /\ head'.external_count = head.external_count + 1 /\ head'.ptr = head.ptr
        /\ old' = [old EXCEPT ![t] = head'] /\ old \in [Thread -> CountedPtr]
        /\ ptr' = [ptr EXCEPT ![t] = head.ptr] /\ ptr \in [Thread -> Node \cup {Null}]
        /\ mem' = mem /\ next' = next
        /\ allocated' = allocated /\ allocated \subseteq Node
    BY DEF increase_head_count, TypeOK, At, Goto, Counted
  <1>2. c \in Seq(Node) /\ Len(c) >= 1 /\ c[1] = head.ptr /\ Len(c) \in Nat
        /\ \A i \in 1..Len(c) : c[i] \in Node
    BY ChainNodes DEF Safe, Shape, Linked, Link
  <1>3. PICK n \in Node : n = head.ptr
    BY <1>2
  <1>4. /\ n \in allocated /\ Owners(n) = {}
        /\ mem[n].internal_count <= 0
        /\ Refs(n) = head.external_count - 1 + mem[n].internal_count
    <2>1. 1 \in 1..Len(c) /\ External(c, 1) = head.external_count
      BY <1>2 DEF External
    <2>2. /\ c[1] \in allocated /\ Owners(c[1]) = {}
          /\ mem[c[1]].internal_count <= 0
          /\ Refs(c[1]) = External(c, 1) - 1 + mem[c[1]].internal_count
      BY <2>1 DEF Safe, Shape, StackCount
    <2> QED
      BY <1>2, <1>3, <2>1, <2>2
  <1>5. \A u \in Thread : u # t => pc'[u] = pc[u] /\ ptr'[u] = ptr[u] /\ old'[u] = old[u]
    BY <1>1
  <1>6. pc'[t] = "next" /\ ptr'[t] = n /\ old'[t].ptr = n
    BY <1>1, <1>3
  <1>7. \A x : Owners(x)' = Owners(x)
    BY <1>1, <1>5, <1>6 DEF Owners, At, Taking
  <1>8. Refs(n)' = Refs(n) + 1 /\ \A x : x # n => Holders(x)' = Holders(x) /\ Refs(x)' = Refs(x)
    <2>1. Holders(n)' = Holders(n) \cup {t} /\ t \notin Holders(n)
      BY <1>1, <1>5, <1>6 DEF Holders, Holds
    <2>2. ASSUME NEW x, x # n PROVE Holders(x)' = Holders(x)
      BY <1>1, <1>5, <1>6, <2>2 DEF Holders, Holds
    <2>3. Refs(n)' = Refs(n) + 1
      BY <2>1, OneMore
    <2> QED
      BY <2>2, <2>3 DEF Refs
  <1>9. Shape(c)'
    <2>1. Linked(c, head', mem')
      BY <1>1 DEF Safe, Shape, Linked
    <2>2. ASSUME NEW i \in 1..Len(c)
          PROVE  /\ c[i] \in allocated'
                 /\ mem'[c[i]].internal_count <= 0
                 /\ Refs(c[i])' = External(c, i)' - 1 + mem'[c[i]].internal_count
                 /\ Owners(c[i])' = {}
      <3>1. /\ c[i] \in allocated
            /\ mem[c[i]].internal_count <= 0
            /\ Refs(c[i]) = External(c, i) - 1 + mem[c[i]].internal_count
            /\ Owners(c[i]) = {}
        BY DEF Safe, Shape, StackCount
      <3>2. CASE i = 1
        <4>1. External(c, i)' = head.external_count + 1
          BY <1>1, <3>2 DEF External
        <4>2. c[i] = n /\ head.external_count \in Int /\ mem[n].internal_count \in Int
          BY <1>2, <1>3, <3>2 DEF TypeOK, CountedPtr, NodeRecord
        <4>3. Refs(n)' = head.external_count + 1 - 1 + mem[n].internal_count
          BY <1>4, <1>8, <4>2
        <4> QED
          BY <1>1, <1>7, <3>1, <4>1, <4>2, <4>3
      <3>3. CASE i # 1
        <4>1. External(c, i)' = External(c, i)
          BY <1>1, <3>3 DEF External
        <4>2. c[i] # n
          BY <1>2, <1>3, <3>3 DEF Safe, Shape, Linked
        <4> QED
          BY <1>1, <1>7, <1>8, <3>1, <4>1, <4>2
      <3> QED
        BY <3>2, <3>3
    <2>3. StackCount(c)'
      BY <2>2 DEF StackCount
    <2>4. RestCount(c)'
      <3>1. ASSUME NEW x \in allocated
            PROVE  \/ \E i \in 1..Len(c) : c[i] = x
                   \/ Owners(x)' # {}
                   \/ mem'[x].internal_count = Refs(x)' /\ Refs(x)' > 0
        <4>1. CASE x = n
          BY <1>2, <1>3, <4>1
        <4>2. CASE x # n
          BY <1>1, <1>7, <1>8, <4>2 DEF Safe, Shape, RestCount
        <4> QED
          BY <4>1, <4>2
      <3> QED
        BY <1>1, <3>1 DEF RestCount
    <2> QED
      BY <2>1, <2>3, <2>4 DEF Shape
  <1>10. PushersAlone'
    <2>1. ASSUME NEW u \in Thread, At(u, "push")' PROVE Alone(u)'
      <3>1. u # t /\ ptr'[u] = ptr[u] /\ Alone(u)
        BY <1>5, <1>6, <2>1 DEF At, Safe, PushersAlone
      <3>2. ptr[u] # n
        BY <1>4, <3>1 DEF Alone
      <3> QED
        BY <1>1, <1>7, <1>8, <3>1, <3>2 DEF Alone
    <2> QED
      BY <2>1 DEF PushersAlone
  <1>11. HoldersSafe'
    <2>1. ASSUME NEW u \in Thread, Holds(u)', u # t
          PROVE  Holds(u) /\ ptr'[u] = ptr[u] /\ pc'[u] = pc[u] /\ old'[u] = old[u]
      BY <1>5, <2>1 DEF Holds
    <2>2. ptr'[t] \in allocated /\ old'[t].ptr = ptr'[t] /\ pc'[t] # "take"
      BY <1>4, <1>6
    <2> QED
      BY <1>1, <2>1, <2>2 DEF Safe, HoldersSafe, At
  <1>12. TakersCount'
    <2>1. ASSUME NEW u \in Thread, Taking(u)'
          PROVE  Taking(u) /\ ptr'[u] = ptr[u] /\ old'[u] = old[u] /\ ptr[u] # n
      <3>1. Taking(u) /\ ptr'[u] = ptr[u] /\ old'[u] = old[u]
        BY <1>5, <1>6, <2>1 DEF Taking
      <3>2. u \in Owners(ptr[u])
        BY <3>1 DEF Owners
      <3> QED
        BY <1>4, <3>1, <3>2
    <2> QED
      BY <1>1, <1>7, <1>8, <2>1 DEF Safe, TakersCount
  <1> QED
    BY <1>9, <1>10, <1>11, <1>12 DEF Safe

\* The entries of a list without its first node.
LEMMA OffTop ==
  ASSUME NEW c \in Seq(Node), Len(c) >= 1
  PROVE  /\ Tail(c) \in Seq(Node)
         /\ Len(Tail(c)) = Len(c) - 1 /\ Len(c) \in Nat
         /\ \A i \in 1..Len(c) - 1 : Tail(c)[i] = c[i + 1]
  OBVIOUS

\* The compare_exchange of pop succeeds: what its node's next says is the head.
LEMMA TakenStep ==
  ASSUME StackAssumption, TypeOK, NEW c, Safe(c), NEW t \in Thread, Take(t), head = old[t]
  PROVE  c # <<>> /\ c[1] = ptr[t] /\ \E d \in Seq(Node) : d = Tail(c) /\ Safe(d)'
  <1>1. /\ pc[t] = "take" /\ pc' = [pc EXCEPT ![t] = "swap"] /\ pc \in [Thread -> Place]
        /\ head' = next[t] /\ mem' = mem /\ old' = old /\ next' = next /\ ptr' = ptr
        /\ allocated' = allocated /\ allocated \subseteq Node
    BY DEF Take, TypeOK, At, Goto
  <1>2. /\ ptr[t] \in Node /\ head.ptr = ptr[t]
        /\ head' = mem[ptr[t]].next
    BY <1>1 DEF Safe, HoldersSafe, Holds, At
  <1>3. c \in Seq(Node) /\ Len(c) >= 1 /\ c[1] = ptr[t] /\ Len(c) \in Nat
        /\ \A i \in 1..Len(c) : c[i] \in Node
    BY <1>2, ChainNodes DEF Safe, Shape, Linked, Link, StackAssumption
  <1>4. PICK p : p = ptr[t]
    OBVIOUS
  <1>5. PICK d : d = Tail(c)
    OBVIOUS
  <1>6. /\ d \in Seq(Node) /\ Len(d) = Len(c) - 1
        /\ \A i \in 1..Len(d) : i + 1 \in 1..Len(c) /\ d[i] = c[i + 1]
    BY <1>3, <1>5, OffTop
  <1>7. \A i \in 1..Len(d) : d[i] # p
    <2>1. ASSUME NEW i \in 1..Len(d) PROVE d[i] # p
      <3>1. i + 1 \in 1..Len(c) /\ 1 \in 1..Len(c) /\ i + 1 # 1 /\ d[i] = c[i + 1]
        BY <1>3, <1>6
      <3> QED
        BY <1>3, <1>4, <3>1 DEF Safe, Shape, Linked
    <2> QED
      BY <2>1
  <1>8. \A u \in Thread : u # t => pc'[u] = pc[u]
    BY <1>1
  <1>9. \A x : Holders(x)' = Holders(x) /\ Refs(x)' = Refs(x)
    <2>1. \A x : Holders(x)' = Holders(x)
      BY <1>1, <1>8 DEF Holders, Holds
    <2> QED
      BY <2>1 DEF Refs
  <1>10. /\ p \in allocated /\ Owners(p) = {}
         /\ mem[p].internal_count <= 0
         /\ Refs(p) = old[t].external_count - 1 + mem[p].internal_count
    <2>1. 1 \in 1..Len(c) /\ External(c, 1) = old[t].external_count
      BY <1>3 DEF External
    <2>2. /\ c[1] \in allocated /\ Owners(c[1]) = {}
          /\ mem[c[1]].internal_count <= 0
          /\ Refs(c[1]) = External(c, 1) - 1 + mem[c[1]].internal_count
      BY <2>1 DEF Safe, Shape, StackCount
    <2> QED
      BY <1>3, <1>4, <2>1, <2>2
  <1>11. Owners(p)' = {t} /\ \A x : x # p => Owners(x)' = Owners(x)
    <2>1. Owners(p)' = Owners(p) \cup {t}
      BY <1>1, <1>4, <1>8 DEF Owners, At, Taking
    <2>2. ASSUME NEW x, x # p PROVE Owners(x)' = Owners(x)
      BY <1>1, <1>4, <1>8, <2>2 DEF Owners, At, Taking
    <2> QED
      BY <1>10, <2>1, <2>2
  <1>12. Linked(d, head', mem')
    <2>1. ASSUME NEW i \in 1..Len(d), NEW j \in 1..Len(d), d[i] = d[j] PROVE i = j
      <3>0. /\ i + 1 \in 1..Len(c) /\ j + 1 \in 1..Len(c)
            /\ c[i + 1] = c[j + 1]
        BY <1>6, <2>1
      <3>1. i + 1 = j + 1
        BY <3>0 DEF Safe, Shape, Linked
      <3> QED
        BY <3>1, <1>6
    <2>2. \A i \in 1..Len(c) : mem[c[i]].next.ptr = Link(c, i + 1)
      BY DEF Safe, Shape, Linked
    <2>3. \A i \in Nat : Link(d, i) = Link(c, i + 1) \/ i = 0
      <3>1. ASSUME NEW i \in Nat, i # 0 PROVE Link(d, i) = Link(c, i + 1)
        <4>1. CASE i <= Len(d)
          BY <1>3, <1>6, <3>1, <4>1 DEF Link
        <4>2. CASE ~(i <= Len(d))
          BY <1>3, <1>6, <3>1, <4>2 DEF Link
        <4> QED
          BY <4>1, <4>2
      <3> QED
        BY <3>1
    <2>4. head'.ptr = Link(d, 1)
      BY <1>2, <1>3, <2>2, <2>3
    <2>5. ASSUME NEW i \in 1..Len(d) PROVE mem'[d[i]].next.ptr = Link(d, i + 1)
      <3>1. mem[c[i + 1]].next.ptr = Link(c, (i + 1) + 1)
        BY <1>6, <2>2
      <3>2. Link(d, i + 1) = Link(c, (i + 1) + 1)
        BY <2>3, <1>6, <1>3
      <3> QED
        BY <1>1, <1>6, <3>1, <3>2
    <2> QED
      BY <1>6, <2>1, <2>4, <2>5 DEF Linked
  <1>13. StackCount(d)'
    <2>1. ASSUME NEW i \in 1..Len(d)
          PROVE  /\ d[i] \in allocated'
                 /\ mem'[d[i]].internal_count <= 0
                 /\ Refs(d[i])' = External(d, i)' - 1 + mem'[d[i]].internal_count
                 /\ Owners(d[i])' = {}
      <3>1. i + 1 \in 1..Len(c) /\ d[i] = c[i + 1] /\ i + 1 # 1 /\ (i + 1) - 1 = i
        BY <1>6, <1>3
      <3>2. External(d, i)' = External(c, i + 1)
        <4>1. External(c, i + 1) = mem[c[i]].next.external_count
          BY <3>1 DEF External
        <4>2. CASE i = 1
          BY <1>2, <1>3, <4>1, <4>2 DEF External
        <4>3. CASE i # 1
          <5>1. d[i - 1] = c[i]
            BY <4>3, <1>6, <1>3
          <5> QED
            BY <1>1, <4>1, <4>3, <5>1 DEF External
        <4> QED
          BY <4>2, <4>3
      <3>3. /\ c[i + 1] \in allocated
            /\ mem[c[i + 1]].internal_count <= 0
            /\ Refs(c[i + 1]) = External(c, i + 1) - 1 + mem[c[i + 1]].internal_count
            /\ Owners(c[i + 1]) = {}
        BY <3>1 DEF Safe, Shape, StackCount
      <3>4. d[i] # p
        BY <1>7
      <3> QED
        BY <1>1, <1>9, <1>11, <3>1, <3>2, <3>3, <3>4
    <2> QED
      BY <2>1 DEF StackCount
  <1>14. RestCount(d)'
    <2>1. ASSUME NEW x \in allocated
          PROVE  \/ \E i \in 1..Len(d) : d[i] = x
                 \/ Owners(x)' # {}
                 \/ mem'[x].internal_count = Refs(x)' /\ Refs(x)' > 0
      <3>1. CASE x = p
        BY <1>11, <3>1
      <3>2. CASE x # p
        <4>1. ASSUME NEW i \in 1..Len(c), c[i] = x PROVE \E j \in 1..Len(d) : d[j] = x
          <5>1. i # 1
            BY <1>3, <1>4, <3>2, <4>1
          <5>2. i - 1 \in 1..Len(d) /\ d[i - 1] = x
            BY <1>3, <1>6, <4>1, <5>1
          <5> QED
            BY <5>2
        <4>2. \/ \E i \in 1..Len(c) : c[i] = x
              \/ Owners(x) # {}
              \/ mem[x].internal_count = Refs(x) /\ Refs(x) > 0
          BY DEF Safe, Shape, RestCount
        <4> QED
          BY <1>1, <1>9, <1>11, <3>2, <4>1, <4>2
      <3> QED
        BY <3>1, <3>2
    <2> QED
      BY <1>1, <2>1 DEF RestCount
  <1>15. PushersAlone'
    <2>1. ASSUME NEW u \in Thread, At(u, "push")' PROVE Alone(u)'
      <3>1. u # t /\ Alone(u)
        BY <1>1, <1>8, <2>1 DEF At, Safe, PushersAlone
      <3>2. ptr[u] # p
        BY <1>10, <3>1 DEF Alone
      <3> QED
        BY <1>1, <1>9, <1>11, <3>1, <3>2 DEF Alone
    <2> QED
      BY <2>1 DEF PushersAlone
  <1>16. HoldersSafe'
    BY <1>1, <1>8 DEF Safe, HoldersSafe, At, Holds
  <1>17. TakersCount'
    <2>1. ASSUME NEW u \in Thread, Taking(u)', u # t
          PROVE  Taking(u) /\ ptr[u] # p
      <3>1. Taking(u)
        BY <1>8, <2>1 DEF Taking
      <3>2. u \in Owners(ptr[u])
        BY <3>1 DEF Owners
      <3> QED
        BY <1>10, <3>1, <3>2
    <2> QED
      BY <1>1, <1>4, <1>9, <1>10, <1>11, <2>1 DEF Safe, TakersCount
  <1>18. Safe(d)'
    BY <1>12, <1>13, <1>14, <1>15, <1>16, <1>17 DEF Safe, Shape
  <1> QED
    <2>1. c # <<>>
      BY <1>3
    <2>2. \E e \in Seq(Node) : e = Tail(c) /\ Safe(e)'
      BY <1>5, <1>6, <1>18
    <2> QED
      BY <1>3, <2>1, <2>2

\* The popper that took a node settles its count, and deletes it or leaves that
\* to the others that have a reference.
LEMMA CountRefsStep ==
  ASSUME StackAssumption, TypeOK, TypeOK', NEW c, Safe(c), NEW t \in Thread, CountRefs(t)
  PROVE  Safe(c)'
  <1>1. /\ pc[t] = "count" /\ pc' = [pc EXCEPT ![t] = "idle"] /\ pc \in [Thread -> Place]
        /\ head' = head /\ old' = old /\ next' = next /\ ptr' = ptr
        /\ allocated \subseteq Node
    BY DEF CountRefs, TypeOK, At, Goto
  <1>2. PICK n \in Node : n = ptr[t]
    BY <1>1 DEF Safe, HoldersSafe, Holds
  <1>3. /\ n \in allocated /\ Owners(n) = {t}
        /\ mem[n].internal_count <= 0
        /\ Refs(n) = old[t].external_count - 1 + mem[n].internal_count
    BY <1>1, <1>2 DEF Safe, HoldersSafe, TakersCount, Holds, Taking
  <1>4. PICK k \in Int : /\ k = old[t].external_count - 2
                         /\ FetchAdd(t, k, -k)
    BY DEF CountRefs, TypeOK, CountedPtr
  <1>5. /\ mem'[n].internal_count = mem[n].internal_count + k
        /\ \A x \in Node : /\ mem'[x].next = mem[x].next
                           /\ mem'[x].data = mem[x].data
                           /\ x # n => mem'[x].internal_count = mem[x].internal_count
    BY <1>2, <1>4, FetchAddIs
  <1>6. PICK r \in Int : r = mem[n].internal_count
    BY DEF TypeOK, NodeRecord
  <1>7. Refs(n) = k + 1 + r
    BY <1>3, <1>4, <1>6 DEF TypeOK, CountedPtr
  <1>8. allocated' = IF r = -k THEN allocated \ {n} ELSE allocated
    BY <1>2, <1>4, <1>6 DEF FetchAdd
  <1>9. \A u \in Thread : u # t => pc'[u] = pc[u]
    BY <1>1
  <1>10. Holders(n)' = Holders(n) \ {t} /\ t \in Holders(n)
    BY <1>1, <1>2, <1>9 DEF Holders, Holds
  <1>11. Refs(n)' = k + r /\ Refs(n)' \in Nat
    <2>1. Refs(n)' = Refs(n) - 1
      BY <1>10, OneLess
    <2>2. Refs(n) \in Nat /\ Refs(n) >= 1
      BY <1>10, OnlyHolder, RefsType
    <2> QED
      BY <1>7, <2>1, <2>2
  <1>12. \A x : x # n => Holders(x)' = Holders(x) /\ Refs(x)' = Refs(x)
    <2>1. ASSUME NEW x, x # n PROVE Holders(x)' = Holders(x)
      BY <1>1, <1>2, <1>9, <2>1 DEF Holders, Holds
    <2> QED
      BY <2>1 DEF Refs
  <1>13. Owners(n)' = {} /\ \A x : x # n => Owners(x)' = Owners(x)
    <2>1. Owners(n)' = Owners(n) \ {t}
      BY <1>1, <1>2, <1>9 DEF Owners, At, Taking
    <2>2. ASSUME NEW x, x # n PROVE Owners(x)' = Owners(x)
      BY <1>1, <1>2, <1>9, <2>2 DEF Owners, At, Taking
    <2> QED
      BY <1>3, <2>1, <2>2
  <1>14. \A x \in allocated : x # n => x \in allocated'
    BY <1>8
  <1>15. \A u \in Thread : Holds(u)' => Holds(u) /\ u # t /\ ptr[u] \in allocated'
    <2>1. ASSUME NEW u \in Thread, Holds(u)' PROVE Holds(u) /\ u # t
      BY <1>1, <1>9, <2>1 DEF Holds
    <2>2. ASSUME NEW u \in Thread, Holds(u), u # t PROVE ptr[u] \in allocated'
      <3>1. ptr[u] \in allocated
        BY <2>2 DEF Safe, HoldersSafe
      <3>2. CASE ptr[u] = n /\ r = -k
        <4>1. Refs(n) = 1
          BY <1>7, <3>2
        <4>2. Holders(n) = {t}
          BY <4>1, <1>10, OnlyHolder
        <4>3. u \in Holders(n)
          BY <2>2, <3>2 DEF Holders
        <4> QED
          BY <2>2, <4>2, <4>3
      <3>3. CASE ptr[u] # n
        BY <1>14, <3>1, <3>3
      <3>4. CASE r # -k
        BY <1>8, <3>1, <3>4
      <3> QED
        BY <3>2, <3>3, <3>4
    <2> QED
      BY <2>1, <2>2
  <1>16. Shape(c)'
    <2>1. \A i \in 1..Len(c) : c[i] \in Node /\ c[i] # n
      BY <1>3, ChainNodes DEF Safe, Shape, StackCount
    <2>2. Linked(c, head', mem') /\ \A i \in 1..Len(c) : External(c, i)' = External(c, i)
      BY <1>1, <1>5, <2>1, SameChain DEF Safe
    <2>3. StackCount(c)'
      BY <1>5, <1>12, <1>13, <1>14, <2>1, <2>2 DEF Safe, Shape, StackCount
    <2>4. RestCount(c)'
      <3>1. ASSUME NEW x \in allocated'
            PROVE  \/ \E i \in 1..Len(c) : c[i] = x
                   \/ Owners(x)' # {}
                   \/ mem'[x].internal_count = Refs(x)' /\ Refs(x)' > 0
        <4>1. x \in allocated /\ x \in Node
          BY <1>1, <1>8
        <4>2. CASE x = n
          <5>1. r # -k
            BY <1>8, <4>2
          <5>2. mem'[n].internal_count = Refs(n)' /\ Refs(n)' > 0
            BY <1>5, <1>6, <1>11, <5>1
          <5> QED
            BY <4>2, <5>2
        <4>3. CASE x # n
          BY <1>5, <1>12, <1>13, <4>1, <4>3 DEF Safe, Shape, RestCount
        <4> QED
          BY <4>2, <4>3
      <3> QED
        BY <3>1 DEF RestCount
    <2> QED
      BY <2>2, <2>3, <2>4 DEF Shape
  <1>17. PushersAlone'
    <2>1. ASSUME NEW u \in Thread, At(u, "push")' PROVE Alone(u)'
      <3>1. u # t /\ Alone(u)
        BY <1>1, <1>9, <2>1 DEF At, Safe, PushersAlone
      <3>2. ptr[u] # n /\ ptr[u] \in Node
        BY <1>1, <1>3, <3>1 DEF Alone
      <3> QED
        BY <1>1, <1>5, <1>12, <1>13, <1>14, <3>1, <3>2 DEF Alone
    <2> QED
      BY <2>1 DEF PushersAlone
  <1>18. HoldersSafe'
    <2>1. \A u \in Thread : Holds(u) => ptr[u] \in Node
      BY <1>1 DEF Safe, HoldersSafe
    <2> QED
      BY <1>1, <1>5, <1>9, <1>15, <2>1 DEF Safe, HoldersSafe, At
  <1>19. TakersCount'
    <2>1. ASSUME NEW u \in Thread, Taking(u)'
          PROVE  Taking(u) /\ ptr[u] # n /\ ptr[u] \in Node
      <3>1. Taking(u) /\ u # t
        BY <1>1, <1>9, <2>1 DEF Taking
      <3>2. u \in Owners(ptr[u]) /\ ptr[u] \in Node
        BY <1>1, <3>1 DEF Owners, Safe, HoldersSafe, Taking, Holds
      <3> QED
        BY <1>3, <3>1, <3>2
    <2> QED
      BY <1>1, <1>5, <1>12, <1>13, <2>1 DEF Safe, TakersCount
  <1> QED
    BY <1>16, <1>17, <1>18, <1>19 DEF Safe

\* A popper whose node somebody else took gives up its reference, and deletes
\* the node when the count says that it was the last one.
LEMMA ReleaseStep ==
  ASSUME StackAssumption, TypeOK, NEW c, Safe(c), NEW t \in Thread, Release(t)
  PROVE  Safe(c)'
  <1>1. /\ pc[t] = "release" /\ pc' = [pc EXCEPT ![t] = "increase"] /\ pc \in [Thread -> Place]
        /\ head' = head /\ old' = old /\ next' = next /\ ptr' = ptr
        /\ allocated \subseteq Node
    BY DEF Release, TypeOK, At, Goto
  <1>2. PICK n \in Node : n = ptr[t] /\ n \in allocated
    BY <1>1 DEF Safe, HoldersSafe, Holds
  <1>3. FetchAdd(t, -1, 1) /\ -1 \in Int
    BY DEF Release
  <1>4. PICK r \in Int : r = mem[n].internal_count
    BY DEF TypeOK, NodeRecord
  <1>5. /\ mem'[n].internal_count = r - 1
        /\ \A x \in Node : /\ mem'[x].next = mem[x].next
                           /\ mem'[x].data = mem[x].data
                           /\ x # n => mem'[x].internal_count = mem[x].internal_count
    <2>1. /\ mem'[ptr[t]].internal_count = mem[ptr[t]].internal_count + -1
          /\ \A x \in Node : /\ mem'[x].next = mem[x].next
                             /\ mem'[x].data = mem[x].data
                             /\ x # ptr[t] => mem'[x].internal_count = mem[x].internal_count
      BY <1>2, <1>3, FetchAddIs
    <2> QED
      BY <1>2, <1>4, <2>1
  <1>6. allocated' = IF r = 1 THEN allocated \ {n} ELSE allocated
    BY <1>2, <1>3, <1>4 DEF FetchAdd
  <1>7. \A u \in Thread : u # t => pc'[u] = pc[u]
    BY <1>1
  <1>8. Holders(n)' = Holders(n) \ {t} /\ t \in Holders(n)
    BY <1>1, <1>2, <1>7 DEF Holders, Holds
  <1>9. Refs(n)' = Refs(n) - 1 /\ Refs(n)' \in Nat /\ Refs(n) \in Nat
    BY <1>8, OneLess, OnlyHolder, RefsType
  <1>10. \A x : x # n => Holders(x)' = Holders(x) /\ Refs(x)' = Refs(x)
    <2>1. ASSUME NEW x, x # n PROVE Holders(x)' = Holders(x)
      BY <1>1, <1>2, <1>7, <2>1 DEF Holders, Holds
    <2> QED
      BY <2>1 DEF Refs
  <1>11. \A x : Owners(x)' = Owners(x)
    BY <1>1, <1>7 DEF Owners, At, Taking
  <1>12. \A x \in allocated : x # n => x \in allocated'
    BY <1>6
  <1>13. \A i \in 1..Len(c) : c[i] = n => r <= 0
    BY <1>4 DEF Safe, Shape, StackCount
  <1>14. \A u \in Thread : u \in Owners(n) => Taking(u) /\ ptr[u] = n /\ r <= 0
    <2> SUFFICES ASSUME NEW u \in Thread, u \in Owners(n)
                 PROVE  Taking(u) /\ ptr[u] = n /\ r <= 0
      OBVIOUS
    <2>1. ptr[u] = n /\ (At(u, "push") \/ Taking(u))
      BY DEF Owners
    <2>2. ~At(u, "push")
      BY <1>8, <2>1 DEF Safe, PushersAlone, Alone
    <2> QED
      BY <1>4, <2>1, <2>2 DEF Safe, TakersCount
  <1>15. r > 0 => r = Refs(n)
    <2>1. \A u \in Thread : u \in Owners(n) => r <= 0
      BY <1>14
    <2>2. Owners(n) \subseteq Thread
      BY DEF Owners
    <2>3. \/ \E i \in 1..Len(c) : c[i] = n
          \/ Owners(n) # {}
          \/ mem[n].internal_count = Refs(n) /\ Refs(n) > 0
      BY <1>2 DEF Safe, Shape, RestCount
    <2> QED
      BY <1>4, <1>13, <2>1, <2>2, <2>3
  <1>16. \A u \in Thread : Holds(u)' => Holds(u) /\ u # t /\ ptr[u] \in allocated'
    <2>1. ASSUME NEW u \in Thread, Holds(u)' PROVE Holds(u) /\ u # t
      BY <1>1, <1>7, <2>1 DEF Holds
    <2>2. ASSUME NEW u \in Thread, Holds(u), u # t PROVE ptr[u] \in allocated'
      <3>1. ptr[u] \in allocated
        BY <2>2 DEF Safe, HoldersSafe
      <3>2. CASE ptr[u] = n /\ r = 1
        <4>1. Refs(n) = 1
          BY <1>15, <3>2
        <4>2. Holders(n) = {t}
          BY <4>1, <1>8, OnlyHolder
        <4>3. u \in Holders(n)
          BY <2>2, <3>2 DEF Holders
        <4> QED
          BY <2>2, <4>2, <4>3
      <3>3. CASE ptr[u] # n
        BY <1>12, <3>1, <3>3
      <3>4. CASE r # 1
        BY <1>6, <3>1, <3>4
      <3> QED
        BY <3>2, <3>3, <3>4
    <2> QED
      BY <2>1, <2>2
  <1>17. Shape(c)'
    <2>1. \A i \in 1..Len(c) : c[i] \in Node
      BY ChainNodes DEF Safe
    <2>2. Linked(c, head', mem') /\ \A i \in 1..Len(c) : External(c, i)' = External(c, i)
      BY <1>1, <1>5, <2>1, SameChain DEF Safe
    <2>3. ASSUME NEW i \in 1..Len(c)
          PROVE  /\ c[i] \in allocated'
                 /\ mem'[c[i]].internal_count <= 0
                 /\ Refs(c[i])' = External(c, i)' - 1 + mem'[c[i]].internal_count
                 /\ Owners(c[i])' = {}
      <3>1. /\ c[i] \in allocated
            /\ mem[c[i]].internal_count <= 0
            /\ Refs(c[i]) = External(c, i) - 1 + mem[c[i]].internal_count
            /\ Owners(c[i]) = {}
        BY DEF Safe, Shape, StackCount
      <3>2. CASE c[i] = n
        <4>1. r <= 0 /\ allocated' = allocated
          BY <1>6, <1>13, <3>2
        <4>2. External(c, i) \in Int
          <5>1. i = 1 \/ c[i - 1] \in Node
            BY <2>1
          <5> QED
            BY <5>1 DEF External, TypeOK, CountedPtr, NodeRecord
        <4>3. Refs(n) = External(c, i) - 1 + r
          BY <1>4, <3>1, <3>2
        <4>4. Refs(n)' = External(c, i) - 1 + (r - 1)
          BY <1>9, <4>2, <4>3
        <4> QED
          BY <1>5, <1>11, <2>2, <3>1, <3>2, <4>1, <4>4
      <3>3. CASE c[i] # n
        BY <1>5, <1>10, <1>11, <1>12, <2>1, <2>2, <3>1, <3>3
      <3> QED
        BY <3>2, <3>3
    <2>4. StackCount(c)'
      BY <2>3 DEF StackCount
    <2>5. RestCount(c)'
      <3>1. ASSUME NEW x \in allocated'
            PROVE  \/ \E i \in 1..Len(c) : c[i] = x
                   \/ Owners(x)' # {}
                   \/ mem'[x].internal_count = Refs(x)' /\ Refs(x)' > 0
        <4>1. x \in allocated /\ x \in Node
          BY <1>1, <1>6
        <4>2. \/ \E i \in 1..Len(c) : c[i] = x
              \/ Owners(x) # {}
              \/ mem[x].internal_count = Refs(x) /\ Refs(x) > 0
          BY <4>1 DEF Safe, Shape, RestCount
        <4>3. CASE x = n
          <5>1. r # 1
            BY <1>6, <4>3
          <5>2. r = Refs(n) /\ Refs(n) > 0 => mem'[n].internal_count = Refs(n)' /\ Refs(n)' > 0
            BY <1>5, <1>9, <5>1
          <5> QED
            BY <1>4, <1>11, <4>2, <4>3, <5>2
        <4>4. CASE x # n
          BY <1>5, <1>10, <1>11, <4>1, <4>2, <4>4
        <4> QED
          BY <4>3, <4>4
      <3> QED
        BY <3>1 DEF RestCount
    <2> QED
      BY <2>2, <2>4, <2>5 DEF Shape
  <1>18. PushersAlone'
    <2>1. ASSUME NEW u \in Thread, At(u, "push")' PROVE Alone(u)'
      <3>1. Alone(u)
        BY <1>1, <1>7, <2>1 DEF At, Safe, PushersAlone
      <3>2. ptr[u] # n /\ ptr[u] \in Node
        BY <1>1, <1>8, <3>1 DEF Alone
      <3> QED
        BY <1>1, <1>5, <1>10, <1>11, <1>12, <3>1, <3>2 DEF Alone
    <2> QED
      BY <2>1 DEF PushersAlone
  <1>19. HoldersSafe'
    <2>1. \A u \in Thread : Holds(u) => ptr[u] \in Node
      BY <1>1 DEF Safe, HoldersSafe
    <2> QED
      BY <1>1, <1>5, <1>7, <1>16, <2>1 DEF Safe, HoldersSafe, At
  <1>20. TakersCount'
    <2> SUFFICES ASSUME NEW u \in Thread, Taking(u)'
                 PROVE  /\ mem'[ptr[u]].internal_count <= 0
                        /\ Refs(ptr[u])' = old[u].external_count - 1 + mem'[ptr[u]].internal_count
                        /\ Owners(ptr[u])' = {u}
      BY <1>1 DEF TakersCount
    <2>1. Taking(u) /\ ptr[u] \in Node
      BY <1>1, <1>7 DEF Taking, Safe, HoldersSafe, Holds
    <2>2. /\ mem[ptr[u]].internal_count <= 0
          /\ Refs(ptr[u]) = old[u].external_count - 1 + mem[ptr[u]].internal_count
          /\ Owners(ptr[u]) = {u}
      BY <2>1 DEF Safe, TakersCount
    <2>3. CASE ptr[u] = n
      <3>1. PICK e \in Int : e = old[u].external_count
        BY DEF TypeOK, CountedPtr
      <3>2. Refs(n)' = e - 1 + (r - 1) /\ r <= 0
        BY <1>4, <1>9, <2>2, <2>3, <3>1
      <3> QED
        BY <1>1, <1>5, <1>11, <2>2, <2>3, <3>1, <3>2
    <2>4. CASE ptr[u] # n
      BY <1>1, <1>5, <1>10, <1>11, <2>1, <2>2, <2>4
    <2> QED
      BY <2>3, <2>4
  <1> QED
    BY <1>17, <1>18, <1>19, <1>20 DEF Safe

------------------------------------------------------------------------------
(* The invariant *)

\* The stack begins empty.
LEMMA InvInit ==
  ASSUME StackAssumption, Init
  PROVE  Safe(<<>>)
  <1>1. /\ head = Counted(0, Null) /\ allocated = {}
        /\ pc = [t \in Thread |-> "idle"]
    BY DEF Init
  <1>2. Linked(<<>>, head, mem)
    BY <1>1 DEF Linked, Link, Counted
  <1>3. StackCount(<<>>) /\ RestCount(<<>>)
    BY <1>1 DEF StackCount, RestCount
  <1>4. PushersAlone /\ HoldersSafe /\ TakersCount
    BY <1>1 DEF PushersAlone, HoldersSafe, TakersCount, At, Holds, Taking
  <1> QED
    BY <1>2, <1>3, <1>4 DEF Safe, Shape

\* Nothing changes when the variables do not.
LEMMA StutterStep ==
  ASSUME NEW c, Safe(c), UNCHANGED vars
  PROVE  Safe(c)'
  <1>1. /\ head' = head /\ mem' = mem /\ allocated' = allocated /\ pc' = pc
        /\ old' = old /\ ptr' = ptr /\ next' = next
    BY DEF vars, local
  <1>2. \A x : Holders(x)' = Holders(x) /\ Owners(x)' = Owners(x) /\ Refs(x)' = Refs(x)
    BY <1>1 DEF Holders, Holds, Owners, Taking, At, Refs
  <1>3. Shape(c)'
    BY <1>1, <1>2 DEF Safe, Shape, Linked, StackCount, RestCount, External
  <1>4. PushersAlone' /\ HoldersSafe' /\ TakersCount'
    BY <1>1, <1>2 DEF Safe, PushersAlone, Alone, HoldersSafe, TakersCount, At, Holds, Taking
  <1> QED
    BY <1>3, <1>4 DEF Safe

\* Every step leaves a list of nodes that makes the counts right.
LEMMA SafeStep ==
  ASSUME StackAssumption, TypeOK, TypeOK', NEW c \in Seq(Node), Safe(c), [Next]_vars
  PROVE  \E d \in Seq(Node) : Safe(d)'
  <1>1. ASSUME NEW t \in Thread, NEW v \in Value, Push(t, v) PROVE Safe(c)'
    BY <1>1, PushStep
  <1>2. ASSUME NEW t \in Thread, PushExchange(t) PROVE \E d \in Seq(Node) : Safe(d)'
    <2>1. CASE head = mem[ptr[t]].next
      BY <1>2, <2>1, PushedStep
    <2>2. CASE head # mem[ptr[t]].next
      BY <1>2, <2>2, PushRetryStep
    <2> QED
      BY <2>1, <2>2
  <1>3. ASSUME NEW t \in Thread, Pop(t) PROVE Safe(c)'
    BY <1>3, PopStep
  <1>4. ASSUME NEW t \in Thread, increase_head_count(t) PROVE Safe(c)'
    <2>1. CASE head = old[t] /\ head.ptr # Null
      BY <1>4, <2>1, ReferenceStep
    <2>2. CASE head # old[t] \/ head.ptr = Null
      BY <1>4, <2>2, NoReferenceStep
    <2> QED
      BY <2>1, <2>2
  <1>5. ASSUME NEW t \in Thread, ReadNext(t) PROVE Safe(c)'
    BY <1>5, ReadNextStep
  <1>6. ASSUME NEW t \in Thread, Take(t) PROVE \E d \in Seq(Node) : Safe(d)'
    <2>1. CASE head = old[t]
      BY <1>6, <2>1, TakenStep
    <2>2. CASE head # old[t]
      BY <1>6, <2>2, TakeFailsStep
    <2> QED
      BY <2>1, <2>2
  <1>7. ASSUME NEW t \in Thread, Swap(t) PROVE Safe(c)'
    BY <1>7, SwapStep
  <1>8. ASSUME NEW t \in Thread, CountRefs(t) PROVE Safe(c)'
    BY <1>8, CountRefsStep
  <1>9. ASSUME NEW t \in Thread, Release(t) PROVE Safe(c)'
    BY <1>9, ReleaseStep
  <1>10. CASE UNCHANGED vars
    BY <1>10, StutterStep
  <1>11. \/ \E t \in Thread : Step(t)
         \/ UNCHANGED vars
    BY DEF Next
  <1> QED
    BY <1>1, <1>2, <1>3, <1>4, <1>5, <1>6, <1>7, <1>8, <1>9, <1>10, <1>11 DEF Step

\* The invariant is inductive: the references to a node are those that the head
\* or the pointer to it, and the node itself, have counted.
THEOREM Invariance == Spec => []IInv
  <1> USE StackAssumption
  <1>1. Init => IInv
    <2> SUFFICES ASSUME Init PROVE IInv
      OBVIOUS
    <2>1. TypeOK /\ Safe(<<>>)
      BY TypeInit, InvInit
    <2>2. <<>> \in Seq(Node)
      OBVIOUS
    <2> QED
      BY <2>1, <2>2 DEF IInv
  <1>2. IInv /\ [Next]_vars => IInv'
    <2> SUFFICES ASSUME IInv, [Next]_vars PROVE IInv'
      OBVIOUS
    <2>1. TypeOK
      BY DEF IInv
    <2>2. PICK c \in Seq(Node) : Safe(c)
      BY DEF IInv
    <2>3. TypeOK'
      <3>1. HoldersSafe
        BY <2>2 DEF Safe
      <3> QED
        BY <2>1, <3>1, TypeStep
    <2>4. \E d \in Seq(Node) : Safe(d)'
      BY <2>1, <2>2, <2>3, SafeStep
    <2> QED
      BY <2>3, <2>4 DEF IInv
  <1> QED
    BY <1>1, <1>2, PTL DEF Spec

\* The list of the invariant is the chain of nodes from the head.
LEMMA ChainSafe ==
  ASSUME StackAssumption, NEW c, Safe(c)
  PROVE  Chain = c
  BY ChainIs DEF Safe, Shape, Chain

\* No thread uses a node after it is deleted, for any number of threads, nodes
\* and calls, in any order of their accesses.
THEOREM UseAfterDelete == Spec => []NoUseAfterDelete
  <1> USE StackAssumption
  <1>1. IInv => NoUseAfterDelete
    <2> SUFFICES ASSUME IInv PROVE NoUseAfterDelete
      OBVIOUS
    <2>1. PICK c \in Seq(Node) : Safe(c)
      BY DEF IInv
    <2>2. Chain = c
      BY <2>1, ChainSafe
    <2>3. InChain \subseteq allocated
      BY <2>1, <2>2 DEF InChain, Safe, Shape, StackCount
    <2>4. ASSUME NEW t \in Thread, Holds(t)
          PROVE  ptr[t] \in allocated /\ \A u \in Thread : At(u, "push") => ptr[u] # ptr[t]
      <3>1. \A u \in Thread : At(u, "push") => t \notin Holders(ptr[u])
        BY <2>1 DEF Safe, PushersAlone, Alone
      <3> QED
        BY <2>1, <2>4, <3>1 DEF Safe, HoldersSafe, Holders
    <2> QED
      BY <2>3, <2>4 DEF NoUseAfterDelete
  <1> QED
    BY <1>1, Invariance, PTL

\* The stack forgets no node: when every thread is outside push and pop, the
\* nodes in memory are those on the stack.
THEOREM Leak == Spec => []NoLeak
  <1> USE StackAssumption
  <1>1. IInv => NoLeak
    <2> SUFFICES ASSUME IInv, \A t \in Thread : At(t, "idle") PROVE allocated = InChain
      BY DEF NoLeak
    <2>1. PICK c \in Seq(Node) : Safe(c)
      BY DEF IInv
    <2>2. Chain = c
      BY <2>1, ChainSafe
    <2>3. \A x : Holders(x) = {} /\ Owners(x) = {}
      BY DEF Holders, Holds, Owners, Taking, At
    <2>4. \A x : Refs(x) = 0
      BY <2>3, NoHolder
    <2>5. \A x \in allocated : \E i \in 1..Len(c) : c[i] = x
      BY <2>1, <2>3, <2>4 DEF Safe, Shape, RestCount
    <2>6. \A i \in 1..Len(c) : c[i] \in allocated
      BY <2>1 DEF Safe, Shape, StackCount
    <2>7. \A x : x \in InChain <=> \E i \in 1..Len(c) : c[i] = x
      BY <2>2 DEF InChain
    <2>8. \A x : x \in allocated <=> \E i \in 1..Len(c) : c[i] = x
      BY <2>5, <2>6
    <2> QED
      BY <2>7, <2>8
  <1> QED
    BY <1>1, Invariance, PTL

------------------------------------------------------------------------------
(* Linearizability *)

\* Two sequences with the same entries are equal.
LEMMA SameEntries ==
  ASSUME NEW S, NEW s \in Seq(S), NEW q \in Seq(S), Len(s) = Len(q),
         \A i \in 1..Len(s) : s[i] = q[i]
  PROVE  s = q
  OBVIOUS

\* What the atomic stack holds is the data on the list.
LEMMA ItemsAre ==
  ASSUME StackAssumption, NEW c \in Seq(Node), Safe(c)
  PROVE  Items = [i \in 1..Len(c) |-> mem[c[i]].data]
  BY ChainSafe DEF Items

\* They are values, as many as there are nodes.
LEMMA ItemsType ==
  ASSUME StackAssumption, TypeOK, NEW c \in Seq(Node), Safe(c)
  PROVE  Items \in Seq(Value \cup {Null}) /\ Len(Items) = Len(c)
  <1>1. \A i \in 1..Len(c) : mem[c[i]].data \in Value \cup {Null}
    BY DEF TypeOK, NodeRecord
  <1>2. Items = [i \in 1..Len(c) |-> mem[c[i]].data] /\ Len(c) \in Nat
    BY ItemsAre
  <1> QED
    BY <1>1, <1>2

\* The same of what it holds after a step.
LEMMA ItemsBecome ==
  ASSUME StackAssumption, NEW d \in Seq(Node), Safe(d)'
  PROVE  Items' = [i \in 1..Len(d) |-> mem'[d[i]].data]
  <1>1. Linked(d, head', mem')
    BY DEF Safe, Shape
  <1>2. Chain' = d
    BY <1>1, ChainIs DEF Chain
  <1> QED
    BY <1>2 DEF Items

\* They do not change when the list and the data in it do not.
LEMMA SameItems ==
  ASSUME StackAssumption, NEW c \in Seq(Node), Safe(c), Safe(c)',
         \A i \in 1..Len(c) : mem'[c[i]].data = mem[c[i]].data
  PROVE  Items' = Items
  BY ItemsAre, ItemsBecome

\* What a pop returns does not change when its thread neither begins to swap nor
\* takes a value.
LEMMA SameGot ==
  ASSUME NEW t \in Thread,
         got' = got,
         \A u \in Thread : u # t => pc'[u] = pc[u] /\ ptr'[u] = ptr[u],
         pc[t] # "swap", pc'[t] # "swap",
         \A u \in Thread : At(u, "swap") => mem'[ptr[u]].data = mem[ptr[u]].data
  PROVE  Got' = Got
  <1>1. ASSUME NEW u \in Thread
        PROVE  (IF At(u, "swap") THEN mem[ptr[u]].data ELSE got[u])'
                 = IF At(u, "swap") THEN mem[ptr[u]].data ELSE got[u]
    <2>1. CASE u = t
      BY <2>1 DEF At
    <2>2. CASE u # t
      BY <2>2 DEF At
    <2> QED
      BY <2>1, <2>2
  <1> QED
    BY <1>1 DEF Got

\* The nodes of poppers, and those on the stack, are in memory.
LEMMA UsedNodes ==
  ASSUME TypeOK, NEW c, Safe(c)
  PROVE  /\ \A i \in 1..Len(c) : c[i] \in Node /\ c[i] \in allocated /\ Owners(c[i]) = {}
         /\ \A u \in Thread : At(u, "swap") =>
              ptr[u] \in Node /\ ptr[u] \in allocated /\ Owners(ptr[u]) = {u}
  <1>1. \A i \in 1..Len(c) : c[i] \in Node /\ c[i] \in allocated /\ Owners(c[i]) = {}
    BY DEF Safe, Shape, StackCount, TypeOK
  <1>2. ASSUME NEW u \in Thread, At(u, "swap")
        PROVE  ptr[u] \in Node /\ ptr[u] \in allocated /\ Owners(ptr[u]) = {u}
    BY <1>2 DEF At, Safe, HoldersSafe, TakersCount, Holds, Taking, TypeOK
  <1> QED
    BY <1>1, <1>2

\* Every step is a step of the atomic stack or leaves it alone.
LEMMA AtomicStep ==
  ASSUME StackAssumption, TypeOK, TypeOK', NEW c \in Seq(Node), Safe(c), [Next]_vars
  PROVE  [Atomic!Next]_<<Items, Got>>
  <1>0. /\ \A i \in 1..Len(c) : c[i] \in Node /\ c[i] \in allocated /\ Owners(c[i]) = {}
        /\ \A u \in Thread : At(u, "swap") =>
             ptr[u] \in Node /\ ptr[u] \in allocated /\ Owners(ptr[u]) = {u}
    BY UsedNodes
  <1>T. /\ pc \in [Thread -> Place] /\ ptr \in [Thread -> Node \cup {Null}]
        /\ mem \in [Node -> NodeRecord] /\ old \in [Thread -> CountedPtr]
        /\ got \in [Thread -> Value \cup {Null}]
    BY DEF TypeOK
  <1>1. ASSUME NEW t \in Thread, NEW v \in Value, Push(t, v) PROVE Items' = Items /\ Got' = Got
    <2>1. Safe(c)'
      BY <1>1, PushStep
    <2>2. \A x \in allocated : x \in Node => mem'[x] = mem[x]
      BY <1>1, <1>T DEF Push
    <2>3. Items' = Items
      BY <1>0, <2>1, <2>2, SameItems
    <2>4. /\ got' = got /\ pc[t] # "swap" /\ pc'[t] # "swap"
          /\ \A u \in Thread : u # t => pc'[u] = pc[u] /\ ptr'[u] = ptr[u]
      BY <1>1, <1>T DEF Push, At, Goto
    <2>5. \A u \in Thread : At(u, "swap") => mem'[ptr[u]].data = mem[ptr[u]].data
      BY <1>0, <2>2
    <2> QED
      BY <2>3, <2>4, <2>5, SameGot
  <1>2. ASSUME NEW t \in Thread, PushExchange(t), head # mem[ptr[t]].next
        PROVE  Items' = Items /\ Got' = Got
    <2>1. Safe(c)'
      BY <1>2, PushRetryStep
    <2>2. \A x \in Node : mem'[x].data = mem[x].data
      <3>1. mem' = [mem EXCEPT ![ptr[t]].next = head]
        BY <1>2 DEF PushExchange
      <3> QED
        BY <3>1, <1>T DEF NodeRecord
    <2>3. Items' = Items
      BY <1>0, <2>1, <2>2, SameItems
    <2>4. /\ got' = got /\ pc[t] # "swap" /\ pc'[t] # "swap"
          /\ \A u \in Thread : u # t => pc'[u] = pc[u] /\ ptr'[u] = ptr[u]
      BY <1>2, <1>T DEF PushExchange, At
    <2> QED
      BY <1>0, <2>2, <2>3, <2>4, SameGot
  <1>3. ASSUME NEW t \in Thread, PushExchange(t), head = mem[ptr[t]].next
        PROVE  \E v \in Value : Atomic!Push(v)
    <2>1. PICK d \in Seq(Node) : d = <<ptr[t]>> \o c /\ Safe(d)'
      BY <1>3, PushedStep
    <2>2. Alone(t)
      BY <1>3 DEF PushExchange, Safe, PushersAlone
    <2>3. PICK v \in Value : v = mem[ptr[t]].data
      BY <2>2 DEF Alone
    <2>4. /\ mem' = mem /\ got' = got /\ ptr' = ptr /\ pc[t] # "swap" /\ pc'[t] # "swap"
          /\ \A u \in Thread : u # t => pc'[u] = pc[u]
      BY <1>3, <1>T DEF PushExchange, At, Goto
    <2>5. Items' = <<v>> \o Items
      <3>1. Items = [i \in 1..Len(c) |-> mem[c[i]].data]
        BY ItemsAre
      <3>2. Items' = [i \in 1..Len(d) |-> mem[d[i]].data]
        <4>1. Items' = [i \in 1..Len(d) |-> mem'[d[i]].data]
          BY <2>1, ItemsBecome
        <4> QED
          BY <4>1, <2>4
      <3>3. /\ Len(d) = Len(c) + 1 /\ Len(c) \in Nat /\ d[1] = ptr[t]
            /\ \A i \in 1..Len(c) : d[i + 1] = c[i]
        <4>1. ptr[t] \in Node
          BY <2>2 DEF Alone, TypeOK
        <4> QED
          BY <2>1, <4>1, OnTop
      <3>4. Items \in Seq(Value \cup {Null}) /\ Len(Items) = Len(c)
        BY ItemsType
      <3>5. \A i \in 1..Len(d) : i = 1 \/ (i - 1 \in 1..Len(c) /\ d[i] = c[i - 1])
        BY <3>3
      <3>6. \A i \in 1..Len(d) : mem[d[i]].data \in Value \cup {Null}
        BY <1>T, <2>1 DEF NodeRecord
      <3>7. Items' \in Seq(Value \cup {Null}) /\ Len(Items') = Len(d)
        BY <3>2, <3>3, <3>6
      <3> DEFINE q == <<v>> \o Items
      <3>8. /\ q \in Seq(Value \cup {Null}) /\ Len(q) = Len(c) + 1
            /\ q[1] = v /\ \A i \in 1..Len(c) : q[i + 1] = Items[i]
        BY <3>3, <3>4
      <3>9. ASSUME NEW i \in 1..Len(d) PROVE Items'[i] = q[i]
        <4> HIDE DEF q
        <4>1. CASE i = 1
          BY <2>3, <3>2, <3>3, <3>8, <4>1
        <4>2. CASE i # 1
          <5>1. PICK k \in 1..Len(c) : i = k + 1
            BY <3>3, <3>5, <4>2
          <5>2. Items'[i] = mem[c[k]].data
            BY <3>2, <3>3, <5>1
          <5>3. q[i] = mem[c[k]].data
            BY <3>1, <3>8, <5>1
          <5> QED
            BY <5>2, <5>3
        <4> QED
          BY <4>1, <4>2
      <3>10. Items' = q
        <4> HIDE DEF q
        <4> QED
          BY <3>3, <3>7, <3>8, <3>9, SameEntries
      <3> QED
        BY <3>10
    <2>6. Got' = Got
      BY <2>4, SameGot
    <2> QED
      BY <2>5, <2>6 DEF Atomic!Push
  <1>4. ASSUME NEW t \in Thread, Pop(t) PROVE Items' = Items /\ Got' = Got
    <2>1. Safe(c)'
      BY <1>4, PopStep
    <2>2. mem' = mem /\ ptr' = ptr
      BY <1>4 DEF Pop
    <2>3. Items' = Items
      BY <2>1, <2>2, SameItems
    <2>4. /\ got' = got /\ pc[t] # "swap" /\ pc'[t] # "swap"
          /\ \A u \in Thread : u # t => pc'[u] = pc[u]
      BY <1>4, <1>T DEF Pop, At, Goto
    <2> QED
      BY <2>2, <2>3, <2>4, SameGot
  <1>5. ASSUME NEW t \in Thread, increase_head_count(t), head # old[t] \/ head.ptr # Null
        PROVE  Items' = Items /\ Got' = Got
    <2>1. Safe(c)'
      <3>1. CASE head # old[t]
        BY <1>5, <3>1, NoReferenceStep
      <3>2. CASE head = old[t]
        BY <1>5, <3>2, ReferenceStep
      <3> QED
        BY <3>1, <3>2
    <2>2. mem' = mem
      BY <1>5 DEF increase_head_count
    <2>3. Items' = Items
      BY <2>1, <2>2, SameItems
    <2>4. /\ got' = got /\ pc[t] # "swap" /\ pc'[t] # "swap"
          /\ \A u \in Thread : u # t => pc'[u] = pc[u] /\ ptr'[u] = ptr[u]
      <3>1. CASE head # old[t]
        BY <1>5, <1>T, <3>1 DEF increase_head_count, At
      <3>2. CASE head = old[t]
        BY <1>5, <1>T, <3>2 DEF increase_head_count, At, Goto, Counted
      <3> QED
        BY <3>1, <3>2
    <2> QED
      BY <2>2, <2>3, <2>4, SameGot
  <1>6. ASSUME NEW t \in Thread, increase_head_count(t), head = old[t], head.ptr = Null
        PROVE  Atomic!PopEmpty(t)
    <2>1. Safe(c)'
      BY <1>6, NoReferenceStep
    <2>2. /\ mem' = mem /\ pc[t] = "increase" /\ pc' = [pc EXCEPT ![t] = "idle"]
          /\ got' = [got EXCEPT ![t] = Null]
          /\ \A u \in Thread : u # t => ptr'[u] = ptr[u]
      BY <1>6, <1>T DEF increase_head_count, Counted, At, Goto
    <2>3. Items' = Items
      BY <2>1, <2>2, SameItems
    <2>4. Len(c) = 0
      BY <1>0, <1>6 DEF Safe, Shape, Linked, Link, StackAssumption
    <2>5. Items = <<>>
      <3>1. Items \in Seq(Value \cup {Null}) /\ Len(Items) = 0
        BY <2>4, ItemsType
      <3> QED
        BY <3>1
    <2>6. Got' = [Got EXCEPT ![t] = Null]
      BY <1>T, <2>2 DEF Got, At
    <2> QED
      BY <2>3, <2>5, <2>6 DEF Atomic!PopEmpty
  <1>7. ASSUME NEW t \in Thread, ReadNext(t) PROVE Items' = Items /\ Got' = Got
    <2>1. Safe(c)'
      BY <1>7, ReadNextStep
    <2>2. mem' = mem /\ ptr' = ptr
      BY <1>7 DEF ReadNext
    <2>3. Items' = Items
      BY <2>1, <2>2, SameItems
    <2>4. /\ got' = got /\ pc[t] # "swap" /\ pc'[t] # "swap"
          /\ \A u \in Thread : u # t => pc'[u] = pc[u]
      BY <1>7, <1>T DEF ReadNext, At, Goto
    <2> QED
      BY <2>2, <2>3, <2>4, SameGot
  <1>8. ASSUME NEW t \in Thread, Take(t), head # old[t] PROVE Items' = Items /\ Got' = Got
    <2>1. Safe(c)'
      BY <1>8, TakeFailsStep
    <2>2. mem' = mem /\ ptr' = ptr
      BY <1>8 DEF Take
    <2>3. Items' = Items
      BY <2>1, <2>2, SameItems
    <2>4. /\ got' = got /\ pc[t] # "swap" /\ pc'[t] # "swap"
          /\ \A u \in Thread : u # t => pc'[u] = pc[u]
      BY <1>8, <1>T DEF Take, At, Goto
    <2> QED
      BY <2>2, <2>3, <2>4, SameGot
  <1>9. ASSUME NEW t \in Thread, Take(t), head = old[t] PROVE Atomic!Pop(t)
    <2>1. c # <<>> /\ c[1] = ptr[t] /\ \E d \in Seq(Node) : d = Tail(c) /\ Safe(d)'
      BY <1>9, TakenStep
    <2>2. PICK d \in Seq(Node) : d = Tail(c) /\ Safe(d)'
      BY <2>1
    <2>3. /\ mem' = mem /\ ptr' = ptr /\ got' = got
          /\ pc[t] = "take" /\ pc' = [pc EXCEPT ![t] = "swap"]
      BY <1>9 DEF Take, At, Goto
    <2>4. Len(c) >= 1 /\ Len(c) \in Nat
      BY <2>1
    <2>5. /\ Len(d) = Len(c) - 1
          /\ \A i \in 1..Len(c) - 1 : d[i] = c[i + 1]
      BY <2>2, <2>4, OffTop
    <2>6. Items = [i \in 1..Len(c) |-> mem[c[i]].data]
      BY ItemsAre
    <2>7. Items' = [i \in 1..Len(d) |-> mem[d[i]].data]
      BY <2>2, <2>3, ItemsBecome
    <2>8. Items # <<>> /\ Head(Items) = mem[ptr[t]].data /\ Items' = Tail(Items)
      <3>1. Items \in Seq(Value \cup {Null}) /\ Len(Items) = Len(c)
        BY ItemsType
      <3>2. Items[1] = mem[ptr[t]].data
        BY <2>1, <2>4, <2>6
      <3>3. /\ Tail(Items) \in Seq(Value \cup {Null}) /\ Len(Tail(Items)) = Len(c) - 1
            /\ \A i \in 1..Len(c) - 1 : Tail(Items)[i] = Items[i + 1]
        BY <2>4, <3>1
      <3>4. \A i \in 1..Len(d) : mem[d[i]].data \in Value \cup {Null}
        BY <1>T, <2>2 DEF NodeRecord
      <3>5. Items' \in Seq(Value \cup {Null}) /\ Len(Items') = Len(d)
        BY <2>4, <2>5, <2>7, <3>4
      <3>6. ASSUME NEW i \in 1..Len(c) - 1 PROVE Items'[i] = Tail(Items)[i]
        <4>1. Items'[i] = mem[c[i + 1]].data
          BY <2>4, <2>5, <2>7
        <4>2. Items[i + 1] = mem[c[i + 1]].data
          BY <2>4, <2>6
        <4> QED
          BY <3>3, <4>1, <4>2
      <3>7. Items' = Tail(Items)
        BY <2>5, <3>3, <3>5, <3>6, SameEntries
      <3>8. Items # <<>> /\ Head(Items) = Items[1]
        BY <2>4, <3>1
      <3> QED
        BY <3>2, <3>7, <3>8
    <2>9. Got' = [Got EXCEPT ![t] = mem[ptr[t]].data]
      BY <1>T, <2>3 DEF Got, At
    <2> QED
      BY <2>8, <2>9 DEF Atomic!Pop
  <1>10. ASSUME NEW t \in Thread, Swap(t) PROVE Items' = Items /\ Got' = Got
    <2>1. Safe(c)'
      BY <1>10, SwapStep
    <2>2. /\ pc[t] = "swap" /\ pc' = [pc EXCEPT ![t] = "count"] /\ ptr' = ptr
          /\ got' = [got EXCEPT ![t] = mem[ptr[t]].data]
      BY <1>10 DEF Swap, At, Goto
    <2>3. ptr[t] \in Node /\ Owners(ptr[t]) = {t}
      BY <1>0, <2>2 DEF At
    <2>4. \A x \in Node : x # ptr[t] => mem'[x].data = mem[x].data
      BY <1>10, <1>T DEF Swap
    <2>5. Items' = Items
      BY <1>0, <2>1, <2>3, <2>4, SameItems
    <2>6. ASSUME NEW u \in Thread
          PROVE  (IF At(u, "swap") THEN mem[ptr[u]].data ELSE got[u])'
                   = IF At(u, "swap") THEN mem[ptr[u]].data ELSE got[u]
      <3>1. CASE u = t
        BY <1>T, <2>2, <3>1 DEF At
      <3>2. CASE u # t
        <4>1. At(u, "swap") => ptr[u] # ptr[t] /\ ptr[u] \in Node
          BY <1>0, <2>3, <3>2
        <4> QED
          BY <1>T, <2>2, <2>4, <3>2, <4>1 DEF At
      <3> QED
        BY <3>1, <3>2
    <2>7. Got' = Got
      BY <2>6 DEF Got
    <2> QED
      BY <2>5, <2>7
  <1>11. ASSUME NEW t \in Thread, CountRefs(t) \/ Release(t) PROVE Items' = Items /\ Got' = Got
    <2>1. Safe(c)'
      BY <1>11, CountRefsStep, ReleaseStep
    <2>2. \A x \in Node : mem'[x].data = mem[x].data
      <3>1. ptr[t] \in Node
        BY <1>11 DEF CountRefs, Release, At, Holds, Safe, HoldersSafe, TypeOK
      <3>2. \E k \in Int, finds \in Int : FetchAdd(t, k, finds)
        <4>1. CASE CountRefs(t)
          <5>1. old[t].external_count - 2 \in Int
            BY <1>T DEF CountedPtr
          <5> QED
            BY <4>1, <5>1 DEF CountRefs
        <4>2. CASE Release(t)
          BY <4>2 DEF Release
        <4> QED
          BY <1>11, <4>1, <4>2
      <3> QED
        BY <3>1, <3>2, FetchAddIs
    <2>3. Items' = Items
      BY <1>0, <2>1, <2>2, SameItems
    <2>4. /\ got' = got /\ ptr' = ptr /\ pc[t] # "swap" /\ pc'[t] # "swap"
          /\ \A u \in Thread : u # t => pc'[u] = pc[u]
      BY <1>11, <1>T DEF CountRefs, Release, At, Goto
    <2> QED
      BY <1>0, <2>2, <2>3, <2>4, SameGot
  <1>12. CASE UNCHANGED vars
    BY <1>12 DEF vars, local, Items, Got, Chain, At
  <1>13. \/ \E t \in Thread : Step(t)
         \/ UNCHANGED vars
    BY DEF Next
  <1>14. ASSUME NEW t \in Thread, Step(t) PROVE Atomic!Next \/ (Items' = Items /\ Got' = Got)
    <2>1. CASE PushExchange(t)
      BY <1>2, <1>3, <2>1 DEF Atomic!Next
    <2>2. CASE increase_head_count(t)
      BY <1>5, <1>6, <2>2 DEF Atomic!Next
    <2>3. CASE Take(t)
      BY <1>8, <1>9, <2>3 DEF Atomic!Next
    <2>4. CASE ~PushExchange(t) /\ ~increase_head_count(t) /\ ~Take(t)
      BY <1>1, <1>4, <1>7, <1>10, <1>11, <1>14, <2>4 DEF Step
    <2> QED
      BY <2>1, <2>2, <2>3, <2>4
  <1> QED
    BY <1>12, <1>13, <1>14

\* push and pop take effect at one instant between call and return, for any
\* number of threads: the lock-free stack is a stack.
THEOREM Linearizable == Spec => StackSpec
  <1> USE StackAssumption
  <1>1. Init => Atomic!Init
    <2> SUFFICES ASSUME Init PROVE Atomic!Init
      OBVIOUS
    <2>1. Safe(<<>>) /\ <<>> \in Seq(Node)
      BY InvInit
    <2>2. Items = <<>>
      <3>1. TypeOK /\ Len(<<>>) = 0
        BY TypeInit
      <3>2. Items \in Seq(Value \cup {Null}) /\ Len(Items) = 0
        BY <2>1, <3>1, ItemsType
      <3> QED
        BY <3>2
    <2>3. Got = [t \in Thread |-> Null]
      BY DEF Init, Got, At
    <2> QED
      BY <2>2, <2>3 DEF Atomic!Init
  <1>2. IInv /\ IInv' /\ [Next]_vars => [Atomic!Next]_<<Items, Got>>
    <2> SUFFICES ASSUME IInv, IInv', [Next]_vars PROVE [Atomic!Next]_<<Items, Got>>
      OBVIOUS
    <2>1. TypeOK /\ TypeOK'
      BY DEF IInv
    <2>2. PICK c \in Seq(Node) : Safe(c)
      BY DEF IInv
    <2> QED
      BY <2>1, <2>2, AtomicStep
  <1> QED
    BY <1>1, <1>2, Invariance, PTL DEF Spec, StackSpec, Atomic!Spec
====
