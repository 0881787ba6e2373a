--------------------------- MODULE EchoServerProofs ---------------------------
(***************************************************************************)
(* Proofs about EchoServer for queries of any number and length, a kernel  *)
(* and an rbuf of any size: every byte is in one place and in order, no    *)
(* query is answered before it has arrived, a connection is in STATE_RES    *)
(* exactly while it has bytes to send, and no assertion fails while its    *)
(* client waits for answers in time.                                       *)
(***************************************************************************)
EXTENDS EchoServer, FiniteSetTheorems, SequenceTheorems, TLAPS

------------------------------------------------------------------------------
(* The bytes of the queries *)

\* Induction over the natural numbers, stated of a set: below a number outside
\* S there would be another.
LEMMA SetInduction ==
  ASSUME NEW S \in SUBSET Nat, 0 \in S, \A n \in S : n + 1 \in S
  PROVE  S = Nat
  <1>1. SUFFICES ASSUME NEW n \in Nat, n \notin S PROVE FALSE
    OBVIOUS
  <1> DEFINE K == {k \in 0..n : k \notin S}
             down == [k \in K |-> k - 1]
  <1>2. IsFiniteSet(K)
    <2>1. IsFiniteSet(0..n) /\ K \in SUBSET (0..n)
      BY FS_Interval
    <2> QED
      BY <2>1, FS_Subset
  <1>3. \A k \in K : k - 1 \in K
    OBVIOUS
  <1>4. down \in Injection(K, K)
    BY <1>3 DEF Injection, IsInjective
  <1>5. down \in Surjection(K, K)
    BY <1>2, <1>4, FS_Injection
  <1>6. n \in K
    BY <1>1
  <1>7. PICK k \in K : down[k] = n
    <2> HIDE DEF K, down
    <2> QED
      BY <1>6, <1>5 DEF Surjection
  <1> QED
    BY <1>7

\* The recursive function of FlattenSeq exists: one for k entries gives one for
\* k + 1.
LEMMA Flattened ==
  ASSUME NEW s, Len(s) \in Nat \ {0}
  PROVE  \E f : /\ FlattenSeq(s) = f[Len(s)]
                /\ \A i \in 1..Len(s) : f[i] = IF i = 1 THEN s[i] ELSE f[i - 1] \o s[i]
  <1> DEFINE F(f, k) == [i \in 1..k |-> IF i = 1 THEN s[i] ELSE f[i - 1] \o s[i]]
             S == {k \in Nat : \E f : f = F(f, k)}
             flat == CHOOSE f : f = F(f, Len(s))
  <1>1. 0 \in S
    <2>1. \E f : f = F(f, 0)
      <3>1. PICK f : f = F(<<>>, 0)
        OBVIOUS
      <3>2. f = F(f, 0)
        BY <3>1
      <3> HIDE DEF F
      <3> QED
        BY <3>2
    <2> HIDE DEF F
    <2> QED
      BY <2>1
  <1>2. ASSUME NEW k \in S PROVE k + 1 \in S
    <2>1. PICK f : f = F(f, k)
      OBVIOUS
    <2> DEFINE g == [i \in 1..k + 1 |-> IF i = 1 THEN s[i] ELSE f[i - 1] \o s[i]]
    <2>2. k \in Nat
      OBVIOUS
    <2>3. \A i \in 1..k : g[i] = f[i]
      <3>1. \A i \in 1..k : f[i] = IF i = 1 THEN s[i] ELSE f[i - 1] \o s[i]
        <4>1. PICK e : e = F(f, k)
          OBVIOUS
        <4>2. \A i \in 1..k : e[i] = IF i = 1 THEN s[i] ELSE f[i - 1] \o s[i]
          BY <4>1
        <4>3. e = f
          BY <2>1, <4>1
        <4> QED
          BY <4>2, <4>3
      <3>2. \A i \in 1..k : i \in 1..k + 1
        BY <2>2
      <3> QED
        BY <3>1, <3>2
    <2>4. \A i \in 1..k + 1 : g[i] = IF i = 1 THEN s[i] ELSE g[i - 1] \o s[i]
      <3> TAKE i \in 1..k + 1
      <3>1. CASE i = 1
        BY <3>1, <2>2
      <3>2. CASE i # 1
        <4>1. i - 1 \in 1..k
          BY <3>2, <2>2
        <4>2. g[i] = f[i - 1] \o s[i]
          BY <3>2
        <4> QED
          BY <3>2, <4>1, <4>2, <2>3
      <3> QED
        BY <3>1, <3>2
    <2>5. g = F(g, k + 1)
      BY <2>4
    <2> HIDE DEF F
    <2> QED
      BY <2>2, <2>5
  <1>3. S = Nat
    <2> HIDE DEF S
    <2>1. S \in SUBSET Nat
      BY DEF S
    <2> QED
      BY <1>1, <1>2, <2>1, SetInduction
  <1>4. flat = F(flat, Len(s))
    <2> HIDE DEF F
    <2> QED
      BY <1>3
  <1>5. FlattenSeq(s) = flat[Len(s)]
    BY DEF FlattenSeq
  <1> HIDE DEF flat
  <1> QED
    BY <1>4, <1>5

\* So is induction from m to n.
LEMMA UpTo ==
  ASSUME NEW A, NEW m \in Nat, NEW n \in Nat, m \in A,
         \A k \in Nat : m <= k /\ k < n /\ k \in A => k + 1 \in A
  PROVE  \A k \in Nat : m <= k /\ k <= n => k \in A
  <1> DEFINE B == {d \in Nat : m + d <= n => m + d \in A}
  <1>1. 0 \in B
    OBVIOUS
  <1>2. ASSUME NEW d \in B PROVE d + 1 \in B
    <2>1. d \in Nat /\ m + d \in Nat /\ m <= m + d /\ (m + d) + 1 = m + (d + 1)
      OBVIOUS
    <2>2. CASE m + (d + 1) <= n
      <3>1. m + d < n /\ m + d \in A
        BY <2>1, <2>2
      <3>2. (m + d) + 1 \in A
        BY <2>1, <3>1
      <3> QED
        BY <2>1, <3>2
    <2>3. CASE ~(m + (d + 1) <= n)
      BY <2>1, <2>3
    <2> QED
      BY <2>2, <2>3
  <1>3. B = Nat
    <2> HIDE DEF B
    <2>1. B \in SUBSET Nat
      BY DEF B
    <2> QED
      BY <1>1, <1>2, <2>1, SetInduction
  <1>4. ASSUME NEW k \in Nat, m <= k, k <= n PROVE k \in A
    <2>1. k - m \in Nat /\ m + (k - m) = k
      BY <1>4
    <2>2. k - m \in B
      BY <1>3, <2>1
    <2> QED
      BY <2>1, <2>2, <1>4
  <1> QED
    BY <1>4

\* c is a with b behind it.
Join(a, b, c) == c = a \o b

\* What a concatenation holds.
LEMMA Joined ==
  ASSUME NEW S, NEW a \in Seq(S), NEW b \in Seq(S), NEW c, Join(a, b, c)
  PROVE  /\ c \in Seq(S) /\ Len(a) \in Nat /\ Len(b) \in Nat /\ Len(c) = Len(a) + Len(b)
         /\ \A i \in 1..Len(a) : c[i] = a[i]
         /\ \A j \in 1..Len(b) : c[Len(a) + j] = b[j]
         /\ \A i \in 1..Len(c) : i \notin 1..Len(a) =>
              i - Len(a) \in 1..Len(b) /\ c[i] = b[i - Len(a)]
  <1>1. /\ c \in Seq(S) /\ Len(a) \in Nat /\ Len(b) \in Nat
        /\ Len(c) = Len(a) + Len(b)
        /\ \A i \in 1..Len(a) + Len(b) : c[i] = IF i <= Len(a) THEN a[i] ELSE b[i - Len(a)]
    <2>1. c = a \o b
      BY DEF Join
    <2> QED
      BY <2>1, ConcatProperties
  <1>2. PICK la \in Nat, lb \in Nat : la = Len(a) /\ lb = Len(b)
    BY <1>1
  <1>3. \A i \in 1..la + lb : c[i] = IF i <= la THEN a[i] ELSE b[i - la]
    BY <1>1, <1>2
  <1>4. \A j \in 1..lb : c[la + j] = b[j]
    <2> TAKE j \in 1..lb
    <2>1. la + j \in 1..la + lb /\ ~(la + j <= la) /\ (la + j) - la = j
      OBVIOUS
    <2> QED
      BY <1>3, <2>1
  <1>5. \A i \in 1..la + lb : i \notin 1..la => i - la \in 1..lb /\ c[i] = b[i - la]
    <2> SUFFICES ASSUME NEW i \in 1..la + lb, i \notin 1..la
                 PROVE  i - la \in 1..lb /\ c[i] = b[i - la]
      OBVIOUS
    <2>1. i - la \in 1..lb /\ ~(i <= la)
      OBVIOUS
    <2> QED
      BY <1>3, <2>1
  <1> QED
    BY <1>1, <1>2, <1>3, <1>4, <1>5

\* The values of f join the entries of s one after another; each value goes on
\* where the one before it ends, and keeps what is there.
Grows(S, N, s, f) ==
    /\ f[1] = s[1]
    /\ \A k \in 1..N : s[k] \in Seq(S)
    /\ \A k \in Nat : 1 <= k /\ k < N => Join(f[k], s[k + 1], f[k + 1])

Laid(S, N, s, f) ==
    /\ \A k \in 1..N : f[k] \in Seq(S)
    /\ \A k \in Nat : 1 <= k /\ k < N =>
         /\ Len(f[k + 1]) = Len(f[k]) + Len(s[k + 1])
         /\ \A j \in 1..Len(s[k + 1]) : f[k + 1][Len(f[k]) + j] = s[k + 1][j]
    /\ \A m, n \in 1..N : m <= n =>
         Len(f[m]) <= Len(f[n]) /\ \A i \in 1..Len(f[m]) : f[n][i] = f[m][i]
    /\ \A k \in 1..N : \A i \in 1..Len(f[k]) :
         \E m \in 1..k : \E j \in 1..Len(s[m]) : f[k][i] = s[m][j]

\* So every value is a sequence that ends where the next one goes on.
LEMMA Grown ==
  ASSUME NEW S, NEW N \in Nat \ {0}, NEW s, NEW f, Grows(S, N, s, f)
  PROVE  Laid(S, N, s, f)
  <1>0. /\ f[1] = s[1]
        /\ \A k \in 1..N : s[k] \in Seq(S)
        /\ \A k \in Nat : 1 <= k /\ k < N => Join(f[k], s[k + 1], f[k + 1])
    BY DEF Grows
  <1> USE <1>0
  <1>1. \A k \in 1..N : f[k] \in Seq(S)
    <2> DEFINE A == {k \in 1..N : f[k] \in Seq(S)}
    <2>1. 1 \in A
      OBVIOUS
    <2>2. ASSUME NEW k \in Nat, 1 <= k, k < N, k \in A PROVE k + 1 \in A
      <3>1. f[k] \in Seq(S) /\ k + 1 \in 1..N
        BY <2>2
      <3>2. Join(f[k], s[k + 1], f[k + 1]) /\ s[k + 1] \in Seq(S)
        BY <2>2, <3>1
      <3>3. f[k + 1] \in Seq(S)
        BY <3>1, <3>2, Joined
      <3> QED
        BY <3>1, <3>3
    <2>3. \A k \in Nat : 1 <= k /\ k <= N => k \in A
      <3> HIDE DEF A
      <3> QED
        BY <2>1, <2>2, UpTo
    <2> QED
      BY <2>3
  <1>2. ASSUME NEW k \in Nat, 1 <= k, k < N
        PROVE  /\ f[k] \in Seq(S) /\ s[k + 1] \in Seq(S) /\ Join(f[k], s[k + 1], f[k + 1])
               /\ k \in 1..N /\ k + 1 \in 1..N
    <2>1. k \in 1..N /\ k + 1 \in 1..N
      BY <1>2
    <2>2. Join(f[k], s[k + 1], f[k + 1])
      BY <1>2
    <2> QED
      BY <1>1, <2>1, <2>2
  <1>3. ASSUME NEW k \in Nat, 1 <= k, k < N
        PROVE  /\ Len(f[k + 1]) = Len(f[k]) + Len(s[k + 1])
               /\ \A j \in 1..Len(s[k + 1]) : f[k + 1][Len(f[k]) + j] = s[k + 1][j]
    <2>1. PICK a, b, c : a = f[k] /\ b = s[k + 1] /\ c = f[k + 1]
      OBVIOUS
    <2>2. a \in Seq(S) /\ b \in Seq(S) /\ Join(a, b, c)
      BY <1>2, <1>3, <2>1
    <2>3. Len(c) = Len(a) + Len(b)
      BY ONLY <2>2, Joined
    <2>4. \A j \in 1..Len(b) : c[Len(a) + j] = b[j]
      BY ONLY <2>2, Joined
    <2> QED
      BY <2>1, <2>3, <2>4
  <1>4. ASSUME NEW m \in 1..N, NEW n \in 1..N, m <= n
        PROVE  Len(f[m]) <= Len(f[n]) /\ \A i \in 1..Len(f[m]) : f[n][i] = f[m][i]
    <2> DEFINE Keeps(k) == Len(f[m]) <= Len(f[k]) /\ \A i \in 1..Len(f[m]) : f[k][i] = f[m][i]
               A == {k \in 1..N : Keeps(k)}
    <2>1. m \in A
      <3>1. Len(f[m]) \in Nat
        BY <1>1
      <3> QED
        BY <3>1
    <2>2. ASSUME NEW k \in Nat, m <= k, k < n, k \in A PROVE k + 1 \in A
      <3>1. 1 <= k /\ k < N /\ Keeps(k) /\ k + 1 \in 1..N
        BY <2>2
      <3>2. /\ Len(f[k]) \in Nat /\ Len(s[k + 1]) \in Nat
            /\ Len(f[k + 1]) = Len(f[k]) + Len(s[k + 1])
            /\ \A i \in 1..Len(f[k]) : f[k + 1][i] = f[k][i]
        <4>1. PICK a, b, c : a = f[k] /\ b = s[k + 1] /\ c = f[k + 1]
          OBVIOUS
        <4>2. a \in Seq(S) /\ b \in Seq(S) /\ Join(a, b, c)
          BY <1>2, <3>1, <4>1
        <4>3. Len(a) \in Nat /\ Len(b) \in Nat
          BY ONLY <4>2, Joined
        <4>4. Len(c) = Len(a) + Len(b)
          BY ONLY <4>2, Joined
        <4>5. \A i \in 1..Len(a) : c[i] = a[i]
          BY ONLY <4>2, Joined
        <4> QED
          BY <4>1, <4>3, <4>4, <4>5
      <3>3. PICK a \in Nat, b \in Nat, c \in Nat :
                  a = Len(f[k]) /\ b = Len(s[k + 1]) /\ c = Len(f[m]) /\ Len(f[k + 1]) = a + b
        <4>1. Len(f[m]) \in Nat
          BY <1>1
        <4> QED
          BY <3>2, <4>1
      <3>4. c <= a /\ \A i \in 1..c : f[k][i] = f[m][i]
        BY <3>1, <3>3
      <3>5. \A i \in 1..c : f[k + 1][i] = f[m][i]
        <4> TAKE i \in 1..c
        <4>1. i \in 1..a
          BY <3>4
        <4> QED
          BY <3>2, <3>3, <3>4, <4>1
      <3>6. Len(f[m]) <= Len(f[k + 1])
        <4>1. c <= a + b
          BY <3>4
        <4> QED
          BY <3>3, <4>1
      <3>7. Keeps(k + 1)
        BY <3>3, <3>5, <3>6
      <3> HIDE DEF Keeps
      <3> QED
        BY <3>1, <3>7
    <2>3. \A k \in Nat : m <= k /\ k <= n => k \in A
      <3>1. m \in Nat /\ n \in Nat
        OBVIOUS
      <3> HIDE DEF A
      <3> QED
        BY <2>1, <2>2, <3>1, UpTo
    <2>4. n \in A
      <3> HIDE DEF A
      <3> QED
        BY <1>4, <2>3
    <2> QED
      BY <2>4
  <1>5. ASSUME NEW n \in 1..N
        PROVE  \A i \in 1..Len(f[n]) : \E m \in 1..n : \E j \in 1..Len(s[m]) : f[n][i] = s[m][j]
    <2> DEFINE From(k) == \A i \in 1..Len(f[k]) :
                            \E m \in 1..k : \E j \in 1..Len(s[m]) : f[k][i] = s[m][j]
               A == {k \in 1..N : From(k)}
    <2>1. 1 \in A
      <3>1. ASSUME NEW i \in 1..Len(f[1])
            PROVE  \E m \in 1..1 : \E j \in 1..Len(s[m]) : f[1][i] = s[m][j]
        <4>1. i \in 1..Len(s[1]) /\ f[1][i] = s[1][i] /\ 1 \in 1..1
          OBVIOUS
        <4> QED
          BY <4>1
      <3>2. From(1) /\ 1 \in 1..N
        BY <3>1
      <3> HIDE DEF From
      <3> QED
        BY <3>2
    <2>2. ASSUME NEW k \in Nat, 1 <= k, k < N, k \in A PROVE k + 1 \in A
      <3>1. From(k) /\ k + 1 \in 1..N
        BY <2>2
      <3>2. /\ \A i \in 1..Len(f[k]) : f[k + 1][i] = f[k][i]
            /\ \A i \in 1..Len(f[k + 1]) : i \notin 1..Len(f[k]) =>
                 /\ i - Len(f[k]) \in 1..Len(s[k + 1])
                 /\ f[k + 1][i] = s[k + 1][i - Len(f[k])]
        <4>1. PICK a, b, c : a = f[k] /\ b = s[k + 1] /\ c = f[k + 1]
          OBVIOUS
        <4>2. a \in Seq(S) /\ b \in Seq(S) /\ Join(a, b, c)
          BY <1>2, <2>2, <4>1
        <4>3. \A i \in 1..Len(a) : c[i] = a[i]
          BY ONLY <4>2, Joined
        <4>4. \A i \in 1..Len(c) : i \notin 1..Len(a) =>
                  i - Len(a) \in 1..Len(b) /\ c[i] = b[i - Len(a)]
          BY ONLY <4>2, Joined
        <4> QED
          BY <4>1, <4>3, <4>4
      <3>3. ASSUME NEW i \in 1..Len(f[k + 1])
            PROVE  \E m \in 1..k + 1 : \E j \in 1..Len(s[m]) : f[k + 1][i] = s[m][j]
        <4>1. CASE i \in 1..Len(f[k])
          <5>1. PICK m \in 1..k : \E j \in 1..Len(s[m]) : f[k][i] = s[m][j]
            BY <3>1, <4>1
          <5>2. m \in 1..k + 1 /\ f[k + 1][i] = f[k][i]
            BY <3>2, <4>1
          <5> QED
            BY <5>1, <5>2
        <4>2. CASE i \notin 1..Len(f[k])
          <5>1. PICK j \in 1..Len(s[k + 1]) : f[k + 1][i] = s[k + 1][j]
            BY <3>2, <4>2
          <5>2. k + 1 \in 1..k + 1
            OBVIOUS
          <5> QED
            BY <5>1, <5>2
        <4> QED
          BY <4>1, <4>2
      <3>4. From(k + 1)
        BY <3>3
      <3> HIDE DEF From
      <3> QED
        BY <3>1, <3>4
    <2>3. \A k \in Nat : 1 <= k /\ k <= N => k \in A
      <3> HIDE DEF A
      <3> QED
        BY <2>1, <2>2, UpTo
    <2>4. n \in A
      <3> HIDE DEF A
      <3> QED
        BY <2>3
    <2> QED
      BY <2>4
  <1> QED
    BY <1>1, <1>3, <1>4, <1>5 DEF Laid


\* A byte, by the query and its place in it.
Byte == Nat \X Nat
NQueries == Len(QueryLen)

\* end[k]: the bytes of the first k queries, which lie one behind the other.
Layout(end) ==
    /\ end \in [0..NQueries -> Nat]
    /\ end[0] = 0 /\ end[NQueries] = Len(Queries)
    /\ \A k \in 1..NQueries : end[k] = end[k - 1] + HeaderSize + QueryLen[k]
    /\ \A k, l \in 0..NQueries : k <= l => end[k] <= end[l]
    /\ \A k \in 1..NQueries, j \in Nat :
          j \in 1..HeaderSize + QueryLen[k] => Queries[end[k - 1] + j] = <<k, j>>
    /\ \A k \in 0..NQueries : \A i \in 1..end[k] : Queries[i][1] \in 1..k

QueriesEnd == CHOOSE end : Layout(end)

\* The queries are laid out so.
LEMMA QueriesLaidOut ==
  ASSUME ConnectionAssumption
  PROVE  Queries \in Seq(Byte) /\ Layout(QueriesEnd)
  <1> DEFINE s == [i \in DOMAIN QueryLen |-> Message(QueryLen, i)]
  <1>1. /\ NQueries \in Nat /\ HeaderSize \in Nat /\ DOMAIN QueryLen = 1..NQueries
        /\ \A k \in 1..NQueries : QueryLen[k] \in Nat
    BY DEF ConnectionAssumption, NQueries
  <1>2. /\ Len(s) = NQueries
        /\ \A k \in 1..NQueries : /\ s[k] \in Seq(Byte)
                                  /\ Len(s[k]) = HeaderSize + QueryLen[k]
                                  /\ \A j \in 1..HeaderSize + QueryLen[k] : s[k][j] = <<k, j>>
    <2>1. \A k \in 1..NQueries : s[k] = [j \in 1..HeaderSize + QueryLen[k] |-> <<k, j>>]
      BY <1>1 DEF Message
    <2>2. Len(s) = NQueries
      <3>1. s \in Seq({Message(QueryLen, i) : i \in 1..NQueries})
        BY <1>1
      <3> QED
        BY <1>1, <3>1
    <2>3. ASSUME NEW k \in 1..NQueries, NEW n \in Nat
          PROVE  /\ [j \in 1..n |-> <<k, j>>] \in Seq(Byte)
                 /\ Len([j \in 1..n |-> <<k, j>>]) = n
      <3>1. \A j \in 1..n : <<k, j>> \in Byte
        BY <1>1 DEF Byte
      <3> QED
        BY <3>1
    <2>4. ASSUME NEW k \in 1..NQueries
          PROVE  s[k] \in Seq(Byte) /\ Len(s[k]) = HeaderSize + QueryLen[k]
      <3>1. PICK n \in Nat : n = HeaderSize + QueryLen[k]
        BY <1>1
      <3>2. s[k] = [j \in 1..n |-> <<k, j>>]
        BY <2>1, <3>1
      <3> HIDE DEF s
      <3> QED
        BY <2>3, <3>1, <3>2
    <2>5. \A k \in 1..NQueries : \A j \in 1..HeaderSize + QueryLen[k] : s[k][j] = <<k, j>>
      <3> TAKE k \in 1..NQueries
      <3>1. PICK n \in Nat : n = HeaderSize + QueryLen[k]
        BY <1>1
      <3>2. s[k] = [j \in 1..n |-> <<k, j>>]
        BY <2>1, <3>1
      <3> HIDE DEF s
      <3> QED
        BY <3>1, <3>2
    <2> HIDE DEF s
    <2> QED
      BY <2>2, <2>4, <2>5
  <1>3. Queries = FlattenSeq(s)
    BY DEF Queries, Messages
  <1>4. Queries \in Seq(Byte) /\ \E end : Layout(end)
    <2> HIDE DEF s
    <2>1. CASE NQueries = 0
      <3>1. Queries = s /\ s = <<>>
        <4>1. s = <<>>
          BY <1>1, <1>2, <2>1 DEF s
        <4> QED
          BY <1>2, <1>3, <2>1, <4>1 DEF FlattenSeq
      <3> DEFINE end == [k \in 0..0 |-> 0]
      <3>2. end \in [0..0 -> Nat] /\ end[0] = 0 /\ 0 \in 0..0 /\ \A k \in 0..0 : k = 0
        OBVIOUS
      <3>3. Queries = <<>> /\ Len(Queries) = 0
        BY <3>1
      <3> HIDE DEF end
      <3>4. Layout(end)
        <4>1. \A k, l \in 0..0 : k <= l => end[k] <= end[l]
          BY <3>2
        <4>2. \A k \in 0..0 : \A i \in 1..end[k] : Queries[i][1] \in 1..k
          BY <3>2
        <4>3. \A k \in 1..0 : FALSE
          OBVIOUS
        <4> QED
          BY <2>1, <3>2, <3>3, <4>1, <4>2, <4>3 DEF Layout
      <3>5. Queries \in Seq(Byte)
        BY <3>3
      <3> QED
        BY <3>4, <3>5
    <2>2. CASE NQueries # 0
      <3>1. PICK f : /\ Queries = f[NQueries]
                     /\ \A i \in 1..NQueries : f[i] = IF i = 1 THEN s[i] ELSE f[i - 1] \o s[i]
        <4>1. Len(s) \in Nat \ {0}
          BY <1>1, <1>2, <2>2
        <4>2. PICK f : /\ FlattenSeq(s) = f[Len(s)]
                       /\ \A i \in 1..Len(s) : f[i] = IF i = 1 THEN s[i] ELSE f[i - 1] \o s[i]
          BY ONLY <4>1, Flattened
        <4>3. Len(s) = NQueries
          BY <1>2
        <4> QED
          BY ONLY <1>3, <4>2, <4>3
      <3>14. f[1] = s[1]
        BY <1>1, <2>2, <3>1
      <3>15. ASSUME NEW k \in Nat, 1 <= k, k < NQueries PROVE Join(f[k], s[k + 1], f[k + 1])
        <4>1. k + 1 \in 1..NQueries /\ k + 1 # 1 /\ (k + 1) - 1 = k
          BY <1>1, <3>15
        <4>2. f[k + 1] = f[k] \o s[k + 1]
          BY <3>1, <4>1
        <4> QED
          BY <4>2 DEF Join
      <3>16. NQueries \in Nat \ {0} /\ \A k \in 1..NQueries : s[k] \in Seq(Byte)
        BY <1>1, <1>2, <2>2
      <3>2. /\ \A k \in 1..NQueries : f[k] \in Seq(Byte)
            /\ \A k \in Nat : 1 <= k /\ k < NQueries =>
                 /\ Len(f[k + 1]) = Len(f[k]) + Len(s[k + 1])
                 /\ \A j \in 1..Len(s[k + 1]) : f[k + 1][Len(f[k]) + j] = s[k + 1][j]
            /\ \A m, n \in 1..NQueries : m <= n =>
                 Len(f[m]) <= Len(f[n]) /\ \A i \in 1..Len(f[m]) : f[n][i] = f[m][i]
            /\ \A k \in 1..NQueries : \A i \in 1..Len(f[k]) :
                 \E m \in 1..k : \E j \in 1..Len(s[m]) : f[k][i] = s[m][j]
        <4>1. \A k \in Nat : 1 <= k /\ k < NQueries => Join(f[k], s[k + 1], f[k + 1])
          BY <3>15
        <4>2. Grows(Byte, NQueries, s, f)
          BY <3>14, <3>16, <4>1 DEF Grows
        <4>3. Laid(Byte, NQueries, s, f)
          BY <3>16, <4>2, Grown
        <4> QED
          BY ONLY <4>3 DEF Laid
      <3> DEFINE end == [k \in 0..NQueries |-> IF k = 0 THEN 0 ELSE Len(f[k])]
      <3>3. \A k \in 1..NQueries : Len(f[k]) \in Nat
        BY <3>2
      <3>4. end \in [0..NQueries -> Nat] /\ end[0] = 0
        BY <1>1, <3>3
      <3>5. NQueries \in 1..NQueries /\ f[1] = s[1] /\ 1 \in 1..NQueries
        BY <1>1, <2>2, <3>1
      <3>6. /\ end[NQueries] = Len(Queries)
            /\ \A k \in 1..NQueries : end[k] = Len(f[k])
        BY <1>1, <3>1, <3>5
      <3> HIDE DEF end
      <3>7. ASSUME NEW k \in 1..NQueries
            PROVE  /\ end[k] = end[k - 1] + HeaderSize + QueryLen[k]
                   /\ \A j \in 1..HeaderSize + QueryLen[k] : f[k][end[k - 1] + j] = <<k, j>>
        <4>1. PICK n \in Nat : n = HeaderSize + QueryLen[k]
          BY <1>1
        <4>2. Len(s[k]) = n /\ \A j \in 1..n : s[k][j] = <<k, j>>
          BY <1>2, <4>1
        <4>3. CASE k = 1
          <5>1. end[k] = n /\ end[k - 1] = 0
            BY <3>4, <3>5, <3>6, <4>2, <4>3
          <5>2. \A j \in 1..n : f[k][0 + j] = <<k, j>>
            BY <3>5, <4>2, <4>3
          <5>3. end[k] = end[k - 1] + HeaderSize + QueryLen[k]
            <6>1. PICK m \in Nat, q \in Nat : m = HeaderSize /\ q = QueryLen[k] /\ n = m + q
              BY <1>1, <4>1
            <6>2. m + q = 0 + m + q
              OBVIOUS
            <6> QED
              BY ONLY <5>1, <6>1, <6>2
          <5> QED
            BY ONLY <4>1, <5>1, <5>2, <5>3
        <4>4. CASE k # 1
          <5>1. k - 1 \in 1..NQueries /\ 1 <= k - 1 /\ k - 1 < NQueries /\ (k - 1) + 1 = k
            BY <1>1, <4>4
          <5>2. PICK a \in Nat : a = end[k - 1] /\ a = Len(f[k - 1])
            BY <3>3, <3>6, <5>1
          <5>5. PICK p : p = k - 1 /\ p \in Nat /\ 1 <= p /\ p < NQueries /\ p + 1 = k
            BY <5>1
          <5>6. /\ Len(f[k]) = Len(f[p]) + Len(s[k])
                /\ \A j \in 1..Len(s[k]) : f[k][Len(f[p]) + j] = s[k][j]
            <6>1. /\ Len(f[p + 1]) = Len(f[p]) + Len(s[p + 1])
                  /\ \A j \in 1..Len(s[p + 1]) : f[p + 1][Len(f[p]) + j] = s[p + 1][j]
              BY <3>2, <5>5
            <6> QED
              BY ONLY <5>5, <6>1
          <5>3. end[k] = a + n
            BY <3>6, <4>2, <5>2, <5>5, <5>6
          <5>4. \A j \in 1..n : f[k][a + j] = <<k, j>>
            BY <4>2, <5>2, <5>5, <5>6
          <5>7. end[k] = end[k - 1] + HeaderSize + QueryLen[k]
            <6>1. \E m \in Nat, q \in Nat : m = HeaderSize /\ q = QueryLen[k]
              BY <1>1
            <6>2. PICK m \in Nat, q \in Nat : m = HeaderSize /\ q = QueryLen[k] /\ n = m + q
              BY <4>1, <6>1
            <6>3. a + (m + q) = a + m + q
              OBVIOUS
            <6> QED
              BY ONLY <5>2, <5>3, <6>2, <6>3
          <5> QED
            BY ONLY <4>1, <5>2, <5>4, <5>7
        <4> QED
          BY <4>3, <4>4
      <3>8. ASSUME NEW k \in 0..NQueries, NEW l \in 0..NQueries, k <= l PROVE end[k] <= end[l]
        <4>1. CASE k = 0
          BY <3>4, <4>1
        <4>2. CASE k # 0
          <5>1. k \in 1..NQueries /\ l \in 1..NQueries
            BY <3>8, <4>2
          <5> QED
            BY <3>2, <3>6, <3>8, <5>1
        <4> QED
          BY <4>1, <4>2
      <3>9. \A k \in 1..NQueries : \A i \in 1..end[k] : Queries[i] = f[k][i]
        BY <3>1, <3>2, <3>5, <3>6
      <3>10. ASSUME NEW k \in 1..NQueries, NEW j \in 1..HeaderSize + QueryLen[k]
             PROVE  Queries[end[k - 1] + j] = <<k, j>>
        <4>1. PICK n \in Nat, a \in Nat : n = HeaderSize + QueryLen[k] /\ a = end[k - 1]
          <5>1. k - 1 \in 0..NQueries
            BY <1>1
          <5>2. end[k - 1] \in Nat
            BY <3>4, <5>1
          <5>3. HeaderSize + QueryLen[k] \in Nat
            BY <1>1
          <5> QED
            BY ONLY <5>2, <5>3
        <4>2. end[k] = a + n
          <5>1. PICK m \in Nat, q \in Nat : m = HeaderSize /\ q = QueryLen[k] /\ n = m + q
            BY <1>1, <4>1
          <5>2. end[k] = a + HeaderSize + QueryLen[k]
            BY <3>7, <4>1
          <5>3. end[k] = a + m + q
            BY <5>1, <5>2
          <5>4. a + m + q = a + (m + q)
            OBVIOUS
          <5> QED
            BY <5>1, <5>3, <5>4
        <4>3. a + j \in 1..end[k] /\ j \in 1..n
          <5>1. j \in 1..n
            BY <4>1
          <5>2. a + j \in 1..a + n
            BY <5>1
          <5> QED
            BY ONLY <4>2, <5>1, <5>2
        <4> QED
          BY <3>7, <3>9, <4>1, <4>3
      <3>11. ASSUME NEW k \in 0..NQueries, NEW i \in 1..end[k] PROVE Queries[i][1] \in 1..k
        <4>1. k \in 1..NQueries
          BY <3>4
        <4>2. Queries[i] = f[k][i] /\ i \in 1..Len(f[k])
          BY <3>6, <3>9, <4>1
        <4>3. PICK m \in 1..k : \E j \in 1..Len(s[m]) : f[k][i] = s[m][j]
          BY <3>2, <4>1, <4>2
        <4>4. PICK j \in 1..Len(s[m]) : f[k][i] = s[m][j]
          BY ONLY <4>3
        <4>5. m \in 1..NQueries /\ j \in 1..HeaderSize + QueryLen[m]
          <5>1. m \in 1..NQueries
            BY <1>1, <4>1
          <5>2. Len(s[m]) = HeaderSize + QueryLen[m]
            BY <1>2, <5>1
          <5> QED
            BY <5>1, <5>2
        <4>6. s[m][j] = <<m, j>>
          BY <1>2, <4>5
        <4> QED
          BY <4>2, <4>4, <4>6
      <3>12. Layout(end)
        <4>1. \A k, l \in 0..NQueries : k <= l => end[k] <= end[l]
          BY <3>8
        <4>2. \A k \in 1..NQueries : end[k] = end[k - 1] + HeaderSize + QueryLen[k]
          BY <3>7
        <4>3. \A k \in 1..NQueries, j \in Nat :
                j \in 1..HeaderSize + QueryLen[k] => Queries[end[k - 1] + j] = <<k, j>>
          BY <3>10
        <4>4. \A k \in 0..NQueries : \A i \in 1..end[k] : Queries[i][1] \in 1..k
          BY <3>11
        <4> QED
          BY <3>4, <3>6, <4>1, <4>2, <4>3, <4>4 DEF Layout
      <3>13. Queries \in Seq(Byte)
        BY <3>1, <3>2, <3>5
      <3> QED
        BY <3>12, <3>13
    <2> QED
      BY <1>1, <2>1, <2>2
  <1> QED
    BY <1>4 DEF QueriesEnd
------------------------------------------------------------------------------
(* The inductive invariant *)

\* The bytes behind the first a of the queries, up to the b-th.
Bytes(a, b) == SubSeq(Queries, a + 1, b)

\* The bytes of the first k queries.
Answers(k) == {Queries[i] : i \in 1..QueriesEnd[k]}

\* What of wbuf is still to be sent.
Unsent == SubSeq(wbuf, wbuf_sent + 1, Len(wbuf))

TypeOK ==
    /\ nsent \in 0..Len(Queries) /\ hungup \in BOOLEAN
    /\ received \in Seq(Byte) /\ s2c \in Seq(Byte) /\ c2s \in Seq(Byte)
    /\ rbuf \in Seq(Byte) /\ Len(rbuf) <= RbufCap
    /\ wbuf \in Seq(Byte) /\ wbuf_sent \in 0..Len(wbuf)

\* Where the loop is says what state the connection is in, and the state what
\* wbuf holds.
Control ==
    /\ accepted = "no" =>
         pc = "poll" /\ state = "STATE_REQ" /\ rbuf = <<>> /\ wbuf = <<>> /\ wbuf_sent = 0
    /\ pc = "try_flush_buffer" => state = "STATE_RES"
    /\ pc \in {"try_fill_buffer", "try_one_request"} => state = "STATE_REQ"
    /\ state \in {"STATE_REQ", "STATE_RES", "STATE_END"}
    /\ state = "STATE_REQ" => wbuf = <<>> /\ wbuf_sent = 0
    /\ state = "STATE_RES" => wbuf_sent < Len(wbuf)
    /\ state = "STATE_END" => hungup \/ wbuf = <<>>

\* k queries are answered: rbuf begins with the next one, and the answers to
\* these k are the bytes received, under way and still in wbuf.
Answered(k) ==
    /\ QueriesEnd[k] <= nsent
    /\ rbuf \o c2s = Bytes(QueriesEnd[k], nsent)
    /\ ~hungup => received \o s2c \o Unsent = Bytes(0, QueriesEnd[k])
    /\ received \in Seq(Answers(k)) /\ s2c \in Seq(Answers(k)) /\ wbuf \in Seq(Answers(k))

IInv == TypeOK /\ Control /\ \E k \in 0..NQueries : Answered(k)
------------------------------------------------------------------------------
(* Sequences cut into pieces *)

\* A piece of a sequence.
LEMMA Piece ==
  ASSUME NEW S, NEW s \in Seq(S), NEW a \in Nat, NEW b \in Nat, a <= b, b <= Len(s)
  PROVE  /\ SubSeq(s, a + 1, b) \in Seq(S)
         /\ Len(SubSeq(s, a + 1, b)) = b - a
         /\ \A i \in 1..b - a : SubSeq(s, a + 1, b)[i] = s[a + i]
  <1>1. PICK n \in Nat : n = Len(s)
    BY LenProperties
  <1>2. \A i \in a + 1..b : s[i] \in S
    <2> TAKE i \in a + 1..b
    <2>1. i \in 1..n
      BY <1>1
    <2> QED
      BY <1>1, <2>1, ElementOfSeq
  <1>3. PICK m \in Nat : m = a + 1
    OBVIOUS
  <1>4. \A i \in m..b : s[i] \in S
    BY <1>2, <1>3
  <1>5. /\ SubSeq(s, m, b) \in Seq(S)
        /\ Len(SubSeq(s, m, b)) = IF m <= b THEN b - m + 1 ELSE 0
        /\ \A i \in 1..b - m + 1 : SubSeq(s, m, b)[i] = s[m + i - 1]
    BY <1>3, <1>4, SubSeqProperties
  <1>6. Len(SubSeq(s, m, b)) = b - a
    BY <1>3, <1>5
  <1>7. \A i \in 1..b - a : SubSeq(s, m, b)[i] = s[a + i]
    <2> TAKE i \in 1..b - a
    <2>1. i \in 1..b - m + 1 /\ m + i - 1 = a + i
      BY <1>3
    <2>2. SubSeq(s, m, b)[i] = s[m + i - 1]
      BY <1>5, <2>1
    <2> QED
      BY <2>1, <2>2
  <1> QED
    BY <1>3, <1>5, <1>6, <1>7

\* Two pieces that meet are a piece.
LEMMA Pieces ==
  ASSUME NEW S, NEW s \in Seq(S), NEW a \in Nat, NEW b \in Nat, NEW d \in Nat,
         a <= b, b <= d, d <= Len(s)
  PROVE  SubSeq(s, a + 1, b) \o SubSeq(s, b + 1, d) = SubSeq(s, a + 1, d)
  <1>1. PICK n \in Nat : n = Len(s)
    BY LenProperties
  <1>2. PICK m \in Nat : m = a + 1
    OBVIOUS
  <1>3. m \in 1..Len(s) + 1 /\ b \in m - 1..Len(s) /\ d \in b..Len(s)
    BY <1>1, <1>2
  <1> QED
    BY <1>2, <1>3, ConcatAdjacentSubSeq

\* A sequence cut in two.
LEMMA Cut ==
  ASSUME NEW S, NEW s \in Seq(S), NEW n \in Nat, n <= Len(s)
  PROVE  SubSeq(s, 1, n) \o SubSeq(s, n + 1, Len(s)) = s
  <1>1. PICK l \in Nat : l = Len(s)
    BY LenProperties
  <1>2. 1 \in 1..Len(s) + 1 /\ n \in 1 - 1..Len(s) /\ Len(s) \in n..Len(s)
    BY <1>1
  <1>3. SubSeq(s, 1, n) \o SubSeq(s, n + 1, Len(s)) = SubSeq(s, 1, Len(s))
    BY <1>2, ConcatAdjacentSubSeq
  <1> QED
    BY <1>3, SubSeqFull

\* Where two sequences in a row are cut does not matter: the head of the second
\* can go to the end of the first.
LEMMA HeadMoves ==
  ASSUME NEW S, NEW r \in Seq(S), NEW s \in Seq(S), s # <<>>
  PROVE  /\ Append(r, Head(s)) \in Seq(S) /\ Tail(s) \in Seq(S)
         /\ Append(r, Head(s)) \o Tail(s) = r \o s
  <1>1. Head(s) \in S /\ Tail(s) \in Seq(S)
    BY HeadTailProperties
  <1>2. Append(r, Head(s)) \in Seq(S) /\ Append(r, Head(s)) = r \o <<Head(s)>>
    BY <1>1, AppendProperties, AppendIsConcat
  <1>3. <<Head(s)>> \in Seq(S)
    BY <1>1
  <1>4. <<Head(s)>> \o Tail(s) = s
    <2>1. PICK l \in Nat \ {0} : l = Len(s)
      BY LenProperties, EmptySeq
    <2>2. 1 \in 1..Len(s) /\ Len(s) \in 1..Len(s) /\ 2 \in 1..Len(s) + 1
      BY <2>1
    <2>3. SubSeq(s, 1, Len(s)) = <<s[1]>> \o SubSeq(s, 1 + 1, Len(s))
      BY <2>2, SubSeqRecursiveFirst
    <2>4. Tail(s) = SubSeq(s, 2, Len(s)) /\ 1 + 1 = 2 /\ Head(s) = s[1]
      BY TailIsSubSeq
    <2> QED
      BY <2>3, <2>4, SubSeqFull
  <1> QED
    BY <1>1, <1>2, <1>3, <1>4, ConcatAssociative

\* Three sequences in a row, however they are grouped.
InRow(a, b, c) == (a \o b) \o c = a \o (b \o c)

\* It makes no difference.
LEMMA Associative ==
  ASSUME NEW S, NEW a \in Seq(S), NEW b \in Seq(S), NEW c \in Seq(S)
  PROVE  InRow(a, b, c)
  BY ConcatAssociative DEF InRow

\* What is behind the same front is the same.
LEMMA SameFront ==
  ASSUME NEW S, NEW p \in Seq(S), NEW t \in Seq(S), NEW s \in Seq(S), NEW y \in Seq(S),
         NEW r, NEW z, Join(p, t, r), Join(r, s, z), Join(p, y, z)
  PROVE  t \o s = y
  <1>1. (p \o t) \o s = p \o (t \o s)
    BY ConcatAssociative
  <1>2. t \o s \in Seq(S)
    BY ConcatProperties
  <1>3. r = p \o t /\ z = r \o s /\ z = p \o y
    BY DEF Join
  <1>4. p \o (t \o s) = p \o y
    BY ONLY <1>1, <1>3
  <1> QED
    BY ONLY <1>2, <1>4, p \in Seq(S), y \in Seq(S), ConcatSimplifications, Zenon

\* The a-th to the b-th entry of q are in r and s, at least n of them in r.
Splits(r, s, q, a, b, n) == r \o s = SubSeq(q, a + 1, b) /\ n <= Len(r)

\* Cut behind the n-th entry of r, the piece falls into two.
CutsAt(r, s, q, a, b, n) ==
    /\ a + n <= b
    /\ SubSeq(r, 1, n) = SubSeq(q, a + 1, a + n)
    /\ SubSeq(r, n + 1, Len(r)) \o s = SubSeq(q, (a + n) + 1, b)

\* The first n entries of r are the first n of the piece, and the rest the rest.
LEMMA FrontCut ==
  ASSUME NEW S, NEW q \in Seq(S), NEW r \in Seq(S), NEW s \in Seq(S),
         NEW a \in Nat, NEW b \in Nat, NEW n \in Nat,
         a <= b, b <= Len(q), Splits(r, s, q, a, b, n)
  PROVE  SubSeq(r, n + 1, Len(r)) \in Seq(S) /\ CutsAt(r, s, q, a, b, n)
  <1> DEFINE p == SubSeq(r, 1, n)
             t == SubSeq(r, n + 1, Len(r))
             x == SubSeq(q, a + 1, a + n)
             y == SubSeq(q, (a + n) + 1, b)
  <1>0. r \o s = SubSeq(q, a + 1, b) /\ n <= Len(r)
    BY DEF Splits
  <1>1. PICK lr \in Nat, ls \in Nat, lq \in Nat : lr = Len(r) /\ ls = Len(s) /\ lq = Len(q)
    BY LenProperties
  <1>2. /\ Len(r \o s) = lr + ls
        /\ \A i \in 1..lr + ls : (r \o s)[i] = IF i <= lr THEN r[i] ELSE s[i - lr]
    BY <1>1, ConcatProperties
  <1>3. /\ Len(SubSeq(q, a + 1, b)) = b - a
        /\ \A i \in 1..b - a : SubSeq(q, a + 1, b)[i] = q[a + i]
    <2>1. Len(SubSeq(q, a + 1, b)) = b - a
      BY Piece
    <2>2. \A i \in 1..b - a : SubSeq(q, a + 1, b)[i] = q[a + i]
      BY Piece
    <2> QED
      BY ONLY <2>1, <2>2
  <1>4. lr + ls = b - a
    BY <1>0, <1>2, <1>3
  <1>5. a + n \in Nat /\ a <= a + n /\ a + n <= b /\ a + n <= lq /\ n <= lr
    BY <1>0, <1>1, <1>4
  <1>6. p \in Seq(S) /\ Len(p) = n /\ \A i \in 1..n : p[i] = r[i]
    <2>1. /\ SubSeq(r, 0 + 1, n) \in Seq(S) /\ Len(SubSeq(r, 0 + 1, n)) = n - 0
          /\ \A i \in 1..n - 0 : SubSeq(r, 0 + 1, n)[i] = r[0 + i]
      BY <1>1, <1>5, Piece
    <2>2. 0 + 1 = 1 /\ n - 0 = n /\ \A i \in 1..n : 0 + i = i
      OBVIOUS
    <2> QED
      BY <2>1, <2>2
  <1>7. t \in Seq(S)
    <2>1. lr <= Len(r) /\ n <= lr
      BY <1>1, <1>5
    <2> QED
      BY <1>1, <2>1, Piece
  <1>8. x \in Seq(S) /\ Len(x) = n /\ \A i \in 1..n : x[i] = q[a + i]
    <2>1. /\ x \in Seq(S) /\ Len(x) = (a + n) - a
          /\ \A i \in 1..(a + n) - a : x[i] = q[a + i]
      BY <1>1, <1>5, Piece
    <2>2. (a + n) - a = n
      OBVIOUS
    <2> QED
      BY <2>1, <2>2
  <1>9. y \in Seq(S)
    BY <1>1, <1>5, Piece
  <1>10. p = x
    <2>1. \A i \in 1..n : p[i] = x[i]
      <3> TAKE i \in 1..n
      <3>1. i \in 1..lr + ls /\ i <= lr /\ i \in 1..b - a
        BY <1>4, <1>5
      <3>2. r[i] = (r \o s)[i] /\ SubSeq(q, a + 1, b)[i] = q[a + i]
        BY <1>2, <1>3, <3>1
      <3>3. r[i] = q[a + i]
        BY <1>0, <3>2
      <3> HIDE DEF p, x
      <3> QED
        BY <1>6, <1>8, <3>3
    <2> HIDE DEF p, x
    <2> QED
      BY <1>6, <1>8, <2>1, SeqEqual
  <1>11. p \o t = r
    BY <1>1, <1>5, Cut
  <1>12. x \o y = SubSeq(q, a + 1, b)
    <2>1. PICK c \in Nat : c = a + n
      BY <1>5
    <2>2. a <= c /\ c <= b
      BY <1>5, <2>1
    <2>3. SubSeq(q, a + 1, c) \o SubSeq(q, c + 1, b) = SubSeq(q, a + 1, b)
      BY <2>2, Pieces
    <2> QED
      BY <2>1, <2>3
  <1>13. t \o s = y
    <2>1. Join(p, t, r) /\ Join(r, s, r \o s) /\ Join(p, y, r \o s)
      BY <1>0, <1>10, <1>11, <1>12 DEF Join
    <2>2. PICK z : z = r \o s
      OBVIOUS
    <2>3. Join(r, s, z) /\ Join(p, y, z)
      BY <2>1, <2>2
    <2>4. p \in Seq(S) /\ t \in Seq(S) /\ y \in Seq(S) /\ s \in Seq(S)
      BY <1>6, <1>7, <1>9
    <2> HIDE DEF p, t, x, y
    <2> QED
      BY ONLY <2>1, <2>3, <2>4, SameFront
  <1> QED
    BY <1>5, <1>7, <1>10, <1>13 DEF CutsAt
------------------------------------------------------------------------------
(* The invariant holds *)

\* Where the queries end.
LEMMA Ends ==
  /\ Queries \in Seq(Byte) /\ Len(Queries) \in Nat /\ NQueries \in Nat
  /\ QueriesEnd[0] = 0
  /\ \A k \in 0..NQueries : QueriesEnd[k] \in Nat /\ QueriesEnd[k] <= Len(Queries)
  /\ \A k, l \in 0..NQueries : k <= l => Answers(k) \subseteq Answers(l)
  /\ \A k \in 0..NQueries : Answers(k) \subseteq Byte
  <1>1. Queries \in Seq(Byte) /\ Layout(QueriesEnd)
    BY ConnectionAssumption, QueriesLaidOut
  <1>2. NQueries \in Nat /\ Len(Queries) \in Nat
    BY <1>1, ConnectionAssumption, LenProperties DEF NQueries
  <1>3. /\ QueriesEnd \in [0..NQueries -> Nat] /\ QueriesEnd[0] = 0
        /\ QueriesEnd[NQueries] = Len(Queries)
        /\ \A k, l \in 0..NQueries : k <= l => QueriesEnd[k] <= QueriesEnd[l]
    BY <1>1 DEF Layout
  <1>4. ASSUME NEW k \in 0..NQueries
        PROVE  QueriesEnd[k] \in Nat /\ QueriesEnd[k] <= Len(Queries)
    BY <1>2, <1>3
  <1>5. ASSUME NEW k \in 0..NQueries, NEW l \in 0..NQueries, k <= l
        PROVE  Answers(k) \subseteq Answers(l)
    <2>1. QueriesEnd[k] <= QueriesEnd[l] /\ QueriesEnd[k] \in Nat /\ QueriesEnd[l] \in Nat
      BY <1>3, <1>5
    <2>2. 1..QueriesEnd[k] \subseteq 1..QueriesEnd[l]
      BY <2>1
    <2> QED
      BY <2>2 DEF Answers
  <1>6. ASSUME NEW k \in 0..NQueries PROVE Answers(k) \subseteq Byte
    <2>1. \A i \in 1..QueriesEnd[k] : i \in 1..Len(Queries)
      BY <1>2, <1>4
    <2> QED
      BY <1>1, <2>1, ElementOfSeq DEF Answers
  <1> QED
    BY <1>1, <1>2, <1>3, <1>4, <1>5, <1>6

\* The lengths are numbers.
LEMMA LengthsAre ==
  ASSUME TypeOK
  PROVE  nsent \in Nat /\ Len(received) \in Nat /\ Len(rbuf) \in Nat /\ Len(c2s) \in Nat
  <1>1. Len(Queries) \in Nat
    BY Ends
  <1> QED
    BY <1>1, LenProperties DEF TypeOK

\* What is not answered is in rbuf and c2s; the answers are received, under way
\* and in wbuf, unless the client is gone.
LEMMA LengthsAddUp ==
  ASSUME TypeOK, NEW k \in 0..NQueries, Answered(k), ~hungup
  PROVE  \E c \in Nat, m \in Nat, v \in Nat, s \in Nat, w \in Nat, r \in Nat, l \in Nat :
              /\ c = QueriesEnd[k] /\ m = nsent /\ v = Len(received) /\ s = Len(s2c)
              /\ w = Len(Unsent) /\ r = Len(rbuf) /\ l = Len(c2s)
              /\ c <= m /\ r + l = m - c /\ v + s + w = c
  <1>3. PICK c \in Nat, m \in Nat : c = QueriesEnd[k] /\ m = nsent
    <2>1. QueriesEnd[k] \in Nat
      BY Ends
    <2> QED
      BY <2>1, LengthsAre
  <1>4. rbuf \o c2s = SubSeq(Queries, c + 1, m) /\ c <= m
    BY <1>3 DEF Answered, Bytes
  <1>5. received \o s2c \o Unsent = SubSeq(Queries, 0 + 1, c)
    BY <1>3 DEF Answered, Bytes
  <1>6. Queries \in Seq(Byte) /\ m <= Len(Queries) /\ c <= Len(Queries) /\ 0 <= c
    BY <1>3, <1>4, Ends DEF TypeOK
  <1>7. Len(SubSeq(Queries, c + 1, m)) = m - c /\ Len(SubSeq(Queries, 0 + 1, c)) = c
    <2>1. Len(SubSeq(Queries, c + 1, m)) = m - c
      BY <1>4, <1>6, Piece
    <2>2. Len(SubSeq(Queries, 0 + 1, c)) = c - 0
      BY <1>6, Piece
    <2> QED
      BY <2>1, <2>2
  <1>8. Len(rbuf) + Len(c2s) = m - c
    <2>1. rbuf \in Seq(Byte) /\ c2s \in Seq(Byte)
      BY DEF TypeOK
    <2>2. Len(rbuf \o c2s) = Len(rbuf) + Len(c2s)
      BY <2>1, ConcatProperties
    <2> QED
      BY <1>4, <1>7, <2>2
  <1>9. /\ Len(s2c) \in Nat /\ Len(Unsent) \in Nat /\ Len(received) \in Nat
        /\ Len(received) + Len(s2c) + Len(Unsent) = c
    <2>1. received \in Seq(Byte) /\ s2c \in Seq(Byte) /\ Unsent \in Seq(Byte)
      <3>1. wbuf \in Seq(Byte) /\ wbuf_sent \in Nat /\ Len(wbuf) \in Nat /\ wbuf_sent <= Len(wbuf)
        BY LenProperties DEF TypeOK
      <3>2. PICK w \in Seq(Byte), a \in Nat, b \in Nat : w = wbuf /\ a = wbuf_sent /\ b = Len(wbuf)
        BY <3>1
      <3>3. SubSeq(w, a + 1, b) \in Seq(Byte)
        BY <3>1, <3>2, Piece
      <3> QED
        BY <3>2, <3>3 DEF TypeOK, Unsent
    <2>2. received \o s2c \in Seq(Byte) /\ Len(received \o s2c) = Len(received) + Len(s2c)
      BY <2>1, ConcatProperties
    <2>3. PICK x \in Seq(Byte), y \in Seq(Byte) : x = received \o s2c /\ y = Unsent
      BY <2>1, <2>2
    <2>4. Len(x \o y) = Len(x) + Len(y) /\ Len(y) \in Nat /\ Len(s2c) \in Nat /\ Len(received) \in Nat
      BY <2>1, <2>3, ConcatProperties, LenProperties
    <2>5. Len(x) = Len(received) + Len(s2c) /\ Len(x \o y) = c
      BY <1>5, <1>7, <2>2, <2>3
    <2> QED
      BY <2>3, <2>4, <2>5
  <1>10. Len(rbuf) \in Nat /\ Len(c2s) \in Nat
    BY LengthsAre
  <1> QED
    BY <1>3, <1>4, <1>8, <1>9, <1>10

\* A sequence over a set is one over a larger set.
LEMMA SeqGrows ==
  ASSUME NEW S, NEW T, S \subseteq T, NEW s \in Seq(S)
  PROVE  s \in Seq(T)
  BY SeqMonotonic

\* Before the client connects nothing is answered.
LEMMA InitInv == Init => IInv
  <1> SUFFICES ASSUME Init PROVE IInv
    OBVIOUS
  <1>1. /\ nsent = 0 /\ received = <<>> /\ hungup = FALSE /\ c2s = <<>> /\ s2c = <<>>
        /\ accepted = "no" /\ state = "STATE_REQ" /\ rbuf = <<>> /\ wbuf = <<>>
        /\ wbuf_sent = 0 /\ pc = "poll"
    BY DEF Init
  <1>2. \A S : <<>> \in Seq(S)
    OBVIOUS
  <1>3. <<>> \o <<>> = <<>> /\ Len(<<>>) = 0
    OBVIOUS
  <1>4. SubSeq(Queries, 0 + 1, 0) = <<>> /\ SubSeq(<<>>, 0 + 1, 0) = <<>>
    BY SubSeqEmpty
  <1>5. 0 <= RbufCap
    <2>1. HeaderSize \in Nat /\ k_max_msg \in Nat
      BY ConnectionAssumption
    <2> QED
      BY <2>1 DEF RbufCap
  <1>6. TypeOK
    <2>1. Len(Queries) \in Nat
      BY Ends
    <2>2. nsent \in 0..Len(Queries) /\ wbuf_sent \in 0..Len(wbuf)
      BY <1>1, <1>3, <2>1
    <2> QED
      BY <1>1, <1>2, <1>3, <1>5, <2>2 DEF TypeOK
  <1>7. Control
    BY <1>1 DEF Control
  <1>8. Answered(0)
    <2>1. rbuf \o c2s = Bytes(QueriesEnd[0], nsent)
      BY <1>1, <1>3, <1>4, Ends DEF Bytes
    <2>2. Unsent = <<>>
      BY <1>1, <1>3, <1>4 DEF Unsent
    <2>3. received \o s2c \o Unsent = Bytes(0, QueriesEnd[0])
      BY <1>1, <1>3, <1>4, <2>2, Ends DEF Bytes
    <2> QED
      BY <1>1, <1>2, <2>1, <2>3, Ends DEF Answered
  <1>9. 0 \in 0..NQueries
    BY Ends
  <1> QED
    BY <1>6, <1>7, <1>8, <1>9 DEF IInv

\* A step that moves no byte.
LEMMA QuietStep ==
  ASSUME IInv, Control',
         UNCHANGED <<nsent, received, hungup, c2s, s2c, rbuf, wbuf, wbuf_sent>>
  PROVE  IInv'
  <1>1. TypeOK'
    BY DEF IInv, TypeOK
  <1>2. PICK k \in 0..NQueries : Answered(k)
    BY DEF IInv
  <1>3. Answered(k)'
    BY <1>2 DEF Answered, Bytes, Unsent, Answers
  <1> QED
    BY <1>1, <1>3 DEF IInv

\* The client sends the next byte: it goes behind what is in c2s.
LEMMA WriteStep == IInv /\ ClientWrite => IInv'
  <1> SUFFICES ASSUME IInv, ClientWrite PROVE IInv'
    OBVIOUS
  <1>1. /\ nsent < Len(Queries) /\ nsent' = nsent + 1
        /\ c2s' = Append(c2s, Queries[nsent + 1])
        /\ UNCHANGED <<received, hungup, s2c, rbuf, wbuf, wbuf_sent, accepted, state, pc>>
    BY DEF ClientWrite, serverVars, bufVars
  <1>2. PICK k \in 0..NQueries : Answered(k)
    BY DEF IInv
  <1>3. TypeOK /\ Control
    BY DEF IInv
  <1>4. /\ nsent \in Nat /\ Queries \in Seq(Byte) /\ Len(Queries) \in Nat
        /\ c2s \in Seq(Byte) /\ rbuf \in Seq(Byte)
        /\ QueriesEnd[k] \in Nat /\ QueriesEnd[k] <= nsent
    BY <1>2, <1>3, Ends DEF TypeOK, Answered
  <1>5. PICK b \in Byte : b = Queries[nsent + 1]
    <2>1. nsent + 1 \in 1..Len(Queries)
      BY <1>1, <1>4
    <2> QED
      BY <1>4, <2>1, ElementOfSeq
  <1>6. c2s' \in Seq(Byte) /\ c2s' = c2s \o <<b>> /\ <<b>> \in Seq(Byte)
    BY <1>1, <1>4, <1>5, AppendProperties, AppendIsConcat
  <1>7. rbuf \o c2s' = Bytes(QueriesEnd[k], nsent + 1)
    <2>1. rbuf \o (c2s \o <<b>>) = (rbuf \o c2s) \o <<b>>
      <3>1. rbuf \in Seq(Byte) /\ c2s \in Seq(Byte) /\ <<b>> \in Seq(Byte)
        BY <1>4, <1>6
      <3>2. InRow(rbuf, c2s, <<b>>)
        BY ONLY <3>1, Associative
      <3> QED
        BY <3>2 DEF InRow
    <2>2. PICK c \in Nat, n \in Nat : c = QueriesEnd[k] /\ n = nsent
      BY <1>4
    <2>3. SubSeq(Queries, n + 1, n + 1) = <<b>>
      <3>1. PICK m \in Nat : m = n + 1
        OBVIOUS
      <3>2. m \in 1..Len(Queries) /\ m \in m..Len(Queries) /\ m < m + 1
        BY <1>1, <1>4, <2>2, <3>1
      <3>3. SubSeq(Queries, m, m) = <<Queries[m]>> \o SubSeq(Queries, m + 1, m)
        BY <1>4, <3>2, SubSeqRecursiveFirst
      <3>4. SubSeq(Queries, m + 1, m) = <<>>
        BY <3>2, SubSeqEmpty
      <3>5. <<b>> \o <<>> = <<b>>
        BY <1>6, ConcatEmptySeq
      <3> QED
        BY <1>5, <2>2, <3>1, <3>3, <3>4, <3>5
    <2>4. n + 1 <= Len(Queries) /\ c <= n /\ n <= n + 1
      BY <1>1, <1>4, <2>2
    <2>5. SubSeq(Queries, c + 1, n) \o SubSeq(Queries, n + 1, n + 1) = SubSeq(Queries, c + 1, n + 1)
      BY <1>4, <2>4, Pieces
    <2>6. rbuf \o c2s = SubSeq(Queries, c + 1, n)
      BY <1>2, <2>2 DEF Answered, Bytes
    <2> QED
      BY <1>6, <2>1, <2>2, <2>3, <2>5, <2>6 DEF Bytes
  <1>8. TypeOK'
    <2>1. nsent' \in 0..Len(Queries)
      BY <1>1, <1>4
    <2> QED
      BY <1>1, <1>3, <1>6, <2>1 DEF TypeOK
  <1>9. Control'
    BY <1>1, <1>3 DEF Control
  <1>10. Answered(k)'
    <2>1. QueriesEnd[k] <= nsent'
      BY <1>1, <1>4
    <2>2. rbuf' \o c2s' = Bytes(QueriesEnd[k], nsent')
      BY <1>1, <1>7
    <2>3. received' = received /\ s2c' = s2c /\ wbuf' = wbuf /\ Unsent' = Unsent /\ hungup' = hungup
      BY <1>1 DEF Unsent
    <2> QED
      BY <1>2, <2>1, <2>2, <2>3 DEF Answered, Bytes, Answers
  <1> QED
    BY <1>8, <1>9, <1>10 DEF IInv

\* The client reads the first byte of s2c.
LEMMA ReadStep == IInv /\ ClientRead => IInv'
  <1> SUFFICES ASSUME IInv, ClientRead PROVE IInv'
    OBVIOUS
  <1>1. /\ ~hungup /\ s2c # <<>> /\ received' = Append(received, Head(s2c)) /\ s2c' = Tail(s2c)
        /\ UNCHANGED <<nsent, hungup, c2s, rbuf, wbuf, wbuf_sent, accepted, state, pc>>
    BY DEF ClientRead, serverVars, bufVars
  <1>2. PICK k \in 0..NQueries : Answered(k)
    BY DEF IInv
  <1>3. TypeOK /\ Control
    BY DEF IInv
  <1>4. received \in Seq(Answers(k)) /\ s2c \in Seq(Answers(k))
    BY <1>2 DEF Answered
  <1>5. /\ received' \in Seq(Answers(k)) /\ s2c' \in Seq(Answers(k))
        /\ received' \o s2c' = received \o s2c
    BY <1>1, <1>4, HeadMoves
  <1>6. Answers(k) \subseteq Byte
    BY Ends
  <1>7. received' \in Seq(Byte) /\ s2c' \in Seq(Byte)
    BY <1>5, <1>6, SeqGrows
  <1>8. TypeOK'
    BY <1>1, <1>3, <1>7 DEF TypeOK
  <1>9. Control'
    BY <1>1, <1>3 DEF Control
  <1>10. Answered(k)'
    <2>1. Unsent' = Unsent
      BY <1>1 DEF Unsent
    <2> QED
      BY <1>1, <1>2, <1>5, <2>1 DEF Answered, Bytes, Answers
  <1> QED
    BY <1>8, <1>9, <1>10 DEF IInv

\* The client closes its socket: what is on the way to it is lost.
LEMMA HangUpStep == IInv /\ ClientHangsUp => IInv'
  <1> SUFFICES ASSUME IInv, ClientHangsUp PROVE IInv'
    OBVIOUS
  <1>1. /\ hungup' = TRUE /\ s2c' = <<>>
        /\ UNCHANGED <<nsent, received, c2s, rbuf, wbuf, wbuf_sent, accepted, state, pc>>
    BY DEF ClientHangsUp, serverVars, bufVars
  <1>2. PICK k \in 0..NQueries : Answered(k)
    BY DEF IInv
  <1>3. TypeOK /\ Control
    BY DEF IInv
  <1>4. \A S : <<>> \in Seq(S)
    OBVIOUS
  <1>5. TypeOK'
    BY <1>1, <1>3, <1>4 DEF TypeOK
  <1>6. Control'
    BY <1>1, <1>3 DEF Control
  <1>7. Answered(k)'
    BY <1>1, <1>2, <1>4 DEF Answered, Bytes, Answers
  <1> QED
    BY <1>5, <1>6, <1>7 DEF IInv

\* A client that has read as many bytes as it has written has left none behind,
\* so that it starts over as if nothing had been sent.
LEMMA StartOverStep == IInv /\ ClientStartsOver => IInv'
  <1> SUFFICES ASSUME IInv, ClientStartsOver PROVE IInv'
    OBVIOUS
  <1>1. /\ ~hungup /\ nsent = Len(received) /\ nsent' = 0 /\ received' = <<>>
        /\ UNCHANGED <<hungup, c2s, s2c, accepted, state, rbuf, wbuf, wbuf_sent, pc>>
    BY DEF ClientStartsOver, serverVars, bufVars
  <1>2. TypeOK /\ Control
    BY DEF IInv
  <1>3. PICK k \in 0..NQueries : Answered(k)
    BY DEF IInv
  <1>4. Len(s2c) = 0 /\ Len(Unsent) = 0 /\ Len(rbuf) = 0 /\ Len(c2s) = 0
    <2>1. PICK c \in Nat, m \in Nat, v \in Nat, s \in Nat, w \in Nat, r \in Nat, l \in Nat :
              /\ c = QueriesEnd[k] /\ m = nsent /\ v = Len(received) /\ s = Len(s2c)
              /\ w = Len(Unsent) /\ r = Len(rbuf) /\ l = Len(c2s)
              /\ c <= m /\ r + l = m - c /\ v + s + w = c
      BY <1>1, <1>2, <1>3, LengthsAddUp
    <2>2. v = m
      BY <1>1, <2>1
    <2>3. s = 0 /\ w = 0 /\ r = 0 /\ l = 0
      BY ONLY <2>1, <2>2
    <2> QED
      BY <2>1, <2>3
  <1>5. s2c = <<>> /\ rbuf = <<>> /\ c2s = <<>>
    <2>1. s2c \in Seq(Byte) /\ rbuf \in Seq(Byte) /\ c2s \in Seq(Byte)
      BY <1>2 DEF TypeOK
    <2> QED
      BY <1>4, <2>1, EmptySeq
  <1>6. wbuf = <<>>
    <2>1. CASE state = "STATE_RES"
      <3>1. PICK a \in Nat, b \in Nat : a = wbuf_sent /\ b = Len(wbuf) /\ wbuf \in Seq(Byte)
        <4>1. wbuf \in Seq(Byte) /\ wbuf_sent \in 0..Len(wbuf)
          BY <1>2 DEF TypeOK
        <4>2. Len(wbuf) \in Nat
          BY <4>1, LenProperties
        <4>3. wbuf_sent \in Nat
          BY <4>1, <4>2
        <4> QED
          BY <4>1, <4>2, <4>3
      <3>2. a < b
        BY <1>2, <2>1, <3>1 DEF Control
      <3>3. Len(SubSeq(wbuf, a + 1, b)) = b - a
        BY <3>1, <3>2, Piece
      <3> QED
        BY <1>4, <3>1, <3>2, <3>3 DEF Unsent
    <2> QED
      BY <1>1, <1>2, <2>1 DEF Control
  <1>7. /\ 0 \in 0..NQueries /\ QueriesEnd[0] = 0 /\ Queries \in Seq(Byte)
        /\ Len(Queries) \in Nat
    BY Ends, ConnectionAssumption, QueriesLaidOut DEF Layout
  <1>8. TypeOK'
    BY <1>1, <1>2, <1>7 DEF TypeOK
  <1>9. Control'
    BY <1>1, <1>2 DEF Control
  <1>10. Answered(0)'
    <2>1. Bytes(0, 0) = <<>>
      <3>1. SubSeq(Queries, 0 + 1, 0) \in Seq(Byte) /\ Len(SubSeq(Queries, 0 + 1, 0)) = 0 - 0
        BY <1>7, Piece
      <3> QED
        BY <3>1, EmptySeq DEF Bytes
    <2>2. <<>> \o <<>> = <<>>
      OBVIOUS
    <2>3. Unsent' = <<>>
      <3>1. Unsent' = Unsent
        BY <1>1 DEF Unsent
      <3>2. Unsent = SubSeq(<<>>, wbuf_sent + 1, 0)
        BY <1>6 DEF Unsent
      <3>3. wbuf_sent = 0
        BY <1>2, <1>6 DEF TypeOK
      <3>4. SubSeq(<<>>, 1, 0) = <<>>
        OBVIOUS
      <3> QED
        BY <3>1, <3>2, <3>3, <3>4
    <2>4. <<>> \in Seq(Answers(0)')
      OBVIOUS
    <2> QED
      BY <1>1, <1>5, <1>6, <1>7, <2>1, <2>2, <2>3, <2>4 DEF Answered, Bytes
  <1> QED
    BY <1>7, <1>8, <1>9, <1>10 DEF IInv

\* The steps of the server that move no byte.
LEMMA QuietSteps ==
  ASSUME IInv,
         \/ accept_new_conn \/ connection_io \/ IoDone \/ FillWouldBlock \/ FillEnds
         \/ FillFails \/ FlushWouldBlock \/ FlushFails \/ FlushKills
         \/ RequestDone \/ RequestTooLong \/ RequestIncomplete
  PROVE  IInv'
  <1> DEFINE same == UNCHANGED <<nsent, received, hungup, c2s, s2c, rbuf, wbuf, wbuf_sent>>
  <1>1. Control
    BY DEF IInv
  <1>2. CASE accept_new_conn
    <2>1. /\ state' = "STATE_REQ" /\ rbuf' = <<>> /\ wbuf' = <<>> /\ wbuf_sent' = 0
          /\ accepted = "no" /\ accepted' = "yes"
          /\ UNCHANGED <<nsent, received, hungup, c2s, s2c, pc>>
      BY <1>2 DEF accept_new_conn, clientVars
    <2>2. Control' /\ same
      BY <1>1, <2>1 DEF Control
    <2> QED
      BY <2>2, QuietStep
  <1>3. CASE connection_io
    <2>1. accepted = "yes" /\ UNCHANGED <<nsent, received, hungup, c2s, s2c, accepted, state,
                                          rbuf, wbuf, wbuf_sent>>
      BY <1>3 DEF connection_io, clientVars, bufVars
    <2>2. pc' = CASE state = "STATE_REQ" -> "try_fill_buffer"
                  [] state = "STATE_RES" -> "try_flush_buffer"
                  [] OTHER -> "aborted"
      BY <1>3 DEF connection_io
    <2>3. \/ state = "STATE_REQ" /\ pc' = "try_fill_buffer"
          \/ state = "STATE_RES" /\ pc' = "try_flush_buffer"
          \/ pc' = "aborted"
      BY <2>2
    <2>4. Control'
      BY <1>1, <2>1, <2>3 DEF Control
    <2> QED
      BY <2>1, <2>4, QuietStep
  <1>4. CASE IoDone
    <2>1. pc \in {"main", "flushed"} /\ pc' = "poll" /\ accepted' \in {"closed", accepted}
      BY <1>4 DEF IoDone
    <2>2. UNCHANGED <<nsent, received, hungup, c2s, s2c, state, rbuf, wbuf, wbuf_sent>>
      BY <1>4 DEF IoDone, clientVars, bufVars
    <2>3. Control'
      BY <1>1, <2>1, <2>2 DEF Control
    <2> QED
      BY <2>2, <2>3, QuietStep
  <1>5. CASE FillWouldBlock \/ FillEnds \/ FillFails
    <2>1. pc = "try_fill_buffer" /\ pc' = "main" /\ state' \in {"STATE_END", state}
      BY <1>5 DEF FillWouldBlock, FillEnds, FillFails
    <2>2. UNCHANGED <<nsent, received, hungup, c2s, s2c, accepted, rbuf, wbuf, wbuf_sent>>
      BY <1>5 DEF FillWouldBlock, FillEnds, FillFails, clientVars, bufVars
    <2>3. Control'
      BY <1>1, <2>1, <2>2 DEF Control
    <2> QED
      BY <2>2, <2>3, QuietStep
  <1>6. CASE FlushWouldBlock \/ FlushFails \/ FlushKills
    <2>1. /\ pc = "try_flush_buffer" /\ pc' \in {"flushed", "killed"}
          /\ state' = state \/ (state' = "STATE_END" /\ hungup)
      BY <1>6 DEF FlushWouldBlock, FlushFails, FlushKills
    <2>2. UNCHANGED <<nsent, received, hungup, c2s, s2c, accepted, rbuf, wbuf, wbuf_sent>>
      BY <1>6 DEF FlushWouldBlock, FlushFails, FlushKills, clientVars, bufVars
    <2>3. Control'
      BY <1>1, <2>1, <2>2 DEF Control
    <2> QED
      BY <2>2, <2>3, QuietStep
  <1>7. CASE RequestDone
    <2>1. /\ pc = "flushed"
          /\ pc' = IF state = "STATE_REQ" THEN "try_one_request" ELSE "main"
          /\ UNCHANGED <<nsent, received, hungup, c2s, s2c, accepted, state, rbuf, wbuf, wbuf_sent>>
      BY <1>7 DEF RequestDone, clientVars, bufVars
    <2>2. Control'
      BY <1>1, <2>1 DEF Control
    <2> QED
      BY <2>1, <2>2, QuietStep
  <1>8. CASE RequestTooLong \/ RequestIncomplete
    <2>1. /\ pc = "try_one_request"
          /\ \/ pc' = "main" /\ state' = "STATE_END"
             \/ pc' = "try_fill_buffer" /\ state' = state
          /\ UNCHANGED <<nsent, received, hungup, c2s, s2c, accepted, rbuf, wbuf, wbuf_sent>>
      BY <1>8 DEF RequestTooLong, RequestIncomplete, clientVars, bufVars
    <2>2. Control'
      BY <1>1, <2>1 DEF Control
    <2> QED
      BY <2>1, <2>2, QuietStep
  <1> QED
    BY <1>2, <1>3, <1>4, <1>5, <1>6, <1>7, <1>8

\* read() moves the first bytes of c2s to the end of rbuf.
LEMMA FillStep == IInv /\ FillReads => IInv'
  <1> SUFFICES ASSUME IInv, FillReads PROVE IInv'
    OBVIOUS
  <1> DEFINE least == IF Len(c2s) < RbufCap - Len(rbuf) THEN Len(c2s) ELSE RbufCap - Len(rbuf)
  <1>1. PICK k \in 0..NQueries : Answered(k)
    BY DEF IInv
  <1>2. TypeOK /\ Control
    BY DEF IInv
  <1>3. /\ pc = "try_fill_buffer" /\ pc' \in {"try_one_request", "aborted"}
        /\ rbuf' = rbuf \o SubSeq(c2s, 1, least)
        /\ c2s' = SubSeq(c2s, least + 1, Len(c2s))
        /\ UNCHANGED <<nsent, received, hungup, s2c, wbuf, wbuf_sent, accepted, state>>
    BY DEF FillReads, clientVars
  <1>4. /\ rbuf \in Seq(Byte) /\ c2s \in Seq(Byte) /\ Len(rbuf) \in Nat /\ Len(c2s) \in Nat
        /\ Len(rbuf) <= RbufCap /\ RbufCap \in Nat
    <2>1. HeaderSize \in Nat /\ k_max_msg \in Nat
      BY ConnectionAssumption
    <2>2. RbufCap \in Nat
      BY <2>1 DEF RbufCap
    <2> QED
      BY <1>2, <2>2, LenProperties DEF TypeOK
  <1>5. PICK n \in Nat : n = least /\ n <= Len(c2s) /\ n <= RbufCap - Len(rbuf)
    BY <1>4
  <1> HIDE DEF least
  <1>6. /\ SubSeq(c2s, 1, n) \in Seq(Byte) /\ Len(SubSeq(c2s, 1, n)) = n
        /\ SubSeq(c2s, n + 1, Len(c2s)) \in Seq(Byte)
        /\ SubSeq(c2s, 1, n) \o SubSeq(c2s, n + 1, Len(c2s)) = c2s
    <2>1. /\ SubSeq(c2s, 0 + 1, n) \in Seq(Byte) /\ Len(SubSeq(c2s, 0 + 1, n)) = n - 0
      BY <1>4, <1>5, Piece
    <2>2. 0 + 1 = 1 /\ n - 0 = n
      OBVIOUS
    <2>3. SubSeq(c2s, n + 1, Len(c2s)) \in Seq(Byte)
      <3>1. PICK l \in Nat : l = Len(c2s) /\ l <= Len(c2s)
        BY <1>4
      <3>2. SubSeq(c2s, n + 1, l) \in Seq(Byte)
        BY <1>4, <1>5, <3>1, Piece
      <3> QED
        BY <3>1, <3>2
    <2> QED
      BY <1>4, <1>5, <2>1, <2>2, <2>3, Cut
  <1>7. PICK p, q : p = SubSeq(c2s, 1, n) /\ q = SubSeq(c2s, n + 1, Len(c2s))
    OBVIOUS
  <1>8. /\ p \in Seq(Byte) /\ q \in Seq(Byte) /\ Len(p) = n /\ p \o q = c2s
        /\ rbuf' = rbuf \o p /\ c2s' = q
    BY <1>3, <1>5, <1>6, <1>7
  <1>9. rbuf' \in Seq(Byte) /\ Len(rbuf') = Len(rbuf) + n
    BY <1>4, <1>8, ConcatProperties
  <1>10. rbuf' \o c2s' = rbuf \o c2s
    <2>0. rbuf \in Seq(Byte) /\ p \in Seq(Byte) /\ q \in Seq(Byte)
      BY <1>4, <1>8
    <2>1. (rbuf \o p) \o q = rbuf \o (p \o q)
      <3>1. InRow(rbuf, p, q)
        BY ONLY <2>0, Associative
      <3> QED
        BY <3>1 DEF InRow
    <2> QED
      BY ONLY <1>8, <2>1
  <1>11. Len(rbuf') <= RbufCap
    BY <1>4, <1>5, <1>9
  <1>12. TypeOK'
    BY <1>2, <1>3, <1>8, <1>9, <1>11 DEF TypeOK
  <1>13. Control'
    BY <1>2, <1>3 DEF Control
  <1>14. Answered(k)'
    <2>1. Unsent' = Unsent
      BY <1>3 DEF Unsent
    <2> QED
      BY <1>1, <1>3, <1>10, <2>1 DEF Answered, Bytes, Answers
  <1> QED
    BY <1>12, <1>13, <1>14 DEF IInv

\* write() moves the first of the bytes to be sent to the end of s2c, or loses
\* them with the client.
LEMMA FlushStep == IInv /\ FlushWrites => IInv'
  <1> SUFFICES ASSUME IInv, FlushWrites PROVE IInv'
    OBVIOUS
  <1>1. PICK k \in 0..NQueries : Answered(k)
    BY DEF IInv
  <1>2. TypeOK /\ Control
    BY DEF IInv
  <1>3. PICK n \in 0..Len(wbuf) - wbuf_sent :
          /\ s2c' = IF hungup THEN s2c ELSE s2c \o SubSeq(wbuf, wbuf_sent + 1, wbuf_sent + n)
          /\ IF wbuf_sent + n = Len(wbuf)
             THEN /\ state' = "STATE_REQ"
                  /\ wbuf' = <<>> /\ wbuf_sent' = 0
                  /\ pc' = "flushed"
             ELSE /\ wbuf_sent' = wbuf_sent + n
                  /\ UNCHANGED <<state, wbuf, pc>>
    BY DEF FlushWrites
  <1>4. pc = "try_flush_buffer" /\ UNCHANGED <<nsent, received, hungup, c2s, accepted, rbuf>>
    BY DEF FlushWrites, clientVars
  <1>5. /\ wbuf \in Seq(Answers(k)) /\ s2c \in Seq(Answers(k)) /\ received \in Seq(Answers(k))
        /\ Answers(k) \subseteq Byte
    BY <1>1, Ends DEF Answered
  <1>6. PICK a \in Nat, l \in Nat, e \in Nat :
              a = wbuf_sent /\ l = Len(wbuf) /\ e = wbuf_sent + n /\ a <= e /\ e <= l
    BY <1>2, LenProperties DEF TypeOK
  <1>7. PICK p, r : p = SubSeq(wbuf, a + 1, e) /\ r = SubSeq(wbuf, e + 1, l)
    OBVIOUS
  <1>8. p \in Seq(Answers(k)) /\ r \in Seq(Answers(k)) /\ p \o r = Unsent
    <2>1. p \o r = SubSeq(wbuf, a + 1, l)
      <3>1. a <= e /\ e <= l /\ l <= Len(wbuf)
        BY <1>6
      <3>2. SubSeq(wbuf, a + 1, e) \o SubSeq(wbuf, e + 1, l) = SubSeq(wbuf, a + 1, l)
        BY <1>5, <3>1, Pieces
      <3> QED
        BY <1>7, <3>2
    <2>2. l <= Len(wbuf) /\ e <= Len(wbuf)
      BY <1>6
    <2>3. p \in Seq(Answers(k)) /\ r \in Seq(Answers(k))
      BY <1>5, <1>6, <1>7, <2>2, Piece
    <2> QED
      BY <1>6, <2>1, <2>3 DEF Unsent
  <1>9. /\ Unsent' = r
        /\ wbuf' \in Seq(Answers(k)) /\ wbuf_sent' \in 0..Len(wbuf')
        /\ \/ state' = "STATE_REQ" /\ wbuf' = <<>> /\ wbuf_sent' = 0 /\ pc' = "flushed"
           \/ state' = state /\ pc' = pc /\ wbuf_sent' < Len(wbuf')
    <2>1. CASE e = l
      <3>1. state' = "STATE_REQ" /\ wbuf' = <<>> /\ wbuf_sent' = 0 /\ pc' = "flushed"
        BY <1>3, <1>6, <2>1
      <3>2. r = <<>> /\ SubSeq(<<>>, 0 + 1, 0) = <<>> /\ Len(<<>>) = 0
        BY <1>6, <1>7, <2>1, SubSeqEmpty
      <3>3. Unsent' = <<>>
        BY <3>1, <3>2 DEF Unsent
      <3>4. <<>> \in Seq(Answers(k)) /\ 0 \in 0..Len(<<>>)
        OBVIOUS
      <3> QED
        BY <3>1, <3>2, <3>3, <3>4
    <2>2. CASE e # l
      <3>1. wbuf_sent' = e /\ UNCHANGED <<state, wbuf, pc>>
        BY <1>3, <1>6, <2>2
      <3>2. Unsent' = r
        BY <1>6, <1>7, <3>1 DEF Unsent
      <3>3. e < l /\ e \in 0..l
        BY <1>6, <2>2
      <3> QED
        BY <1>5, <1>6, <3>1, <3>2, <3>3
    <2> QED
      BY <2>1, <2>2
  <1>10. s2c' \in Seq(Answers(k)) /\ (~hungup => s2c' = s2c \o p)
    <2>1. s2c \o p \in Seq(Answers(k))
      BY <1>5, <1>8, ConcatProperties
    <2>2. s2c' = IF hungup THEN s2c ELSE s2c \o p
      BY <1>3, <1>6, <1>7
    <2> QED
      BY <1>5, <2>1, <2>2
  <1>11. ASSUME ~hungup PROVE received \o s2c' \o Unsent' = received \o s2c \o Unsent
    <2>1. received \in Seq(Byte) /\ s2c \in Seq(Byte) /\ p \in Seq(Byte) /\ r \in Seq(Byte)
      BY <1>5, <1>8, SeqGrows
    <2>2. (received \o s2c) \o p = received \o (s2c \o p)
      <3>1. InRow(received, s2c, p)
        BY ONLY <2>1, Associative
      <3> QED
        BY <3>1 DEF InRow
    <2>3. received \o s2c \in Seq(Byte)
      BY ONLY <2>1, ConcatProperties
    <2>4. ((received \o s2c) \o p) \o r = (received \o s2c) \o (p \o r)
      <3>1. PICK x : x = received \o s2c
        OBVIOUS
      <3>2. x \in Seq(Byte) /\ p \in Seq(Byte) /\ r \in Seq(Byte)
        BY <2>1, <2>3, <3>1
      <3>3. (x \o p) \o r = x \o (p \o r)
        <4>1. InRow(x, p, r)
          BY ONLY <3>2, Associative
        <4> QED
          BY <4>1 DEF InRow
      <3> QED
        BY ONLY <3>1, <3>3
    <2>5. s2c' = s2c \o p /\ Unsent' = r /\ Unsent = p \o r
      BY <1>8, <1>9, <1>10, <1>11
    <2> QED
      BY ONLY <2>2, <2>4, <2>5
  <1>12. TypeOK'
    <2>1. s2c' \in Seq(Byte) /\ wbuf' \in Seq(Byte)
      BY <1>5, <1>9, <1>10, SeqGrows
    <2> QED
      BY <1>2, <1>4, <1>9, <2>1 DEF TypeOK
  <1>13. Control'
    BY <1>2, <1>4, <1>9 DEF Control
  <1>14. Answered(k)'
    BY <1>1, <1>4, <1>9, <1>10, <1>11 DEF Answered, Bytes, Answers
  <1> QED
    BY <1>12, <1>13, <1>14 DEF IInv

\* In front of rbuf is the query behind the k that are answered.
LEMMA NextQuery ==
  ASSUME TypeOK, NEW k \in 0..NQueries, Answered(k), HasHeader
  PROVE  /\ k + 1 \in 1..NQueries
         /\ Decode(rbuf) = QueryLen[k + 1]
         /\ QueryLen[k + 1] \in Nat /\ HeaderSize \in Nat \ {0}
         /\ QueriesEnd[k + 1] = QueriesEnd[k] + HeaderSize + QueryLen[k + 1]
  <1>1. Queries \in Seq(Byte) /\ Layout(QueriesEnd)
    BY ConnectionAssumption, QueriesLaidOut
  <1>2. HeaderSize \in Nat \ {0} /\ \A i \in 1..NQueries : QueryLen[i] \in Nat
    BY ConnectionAssumption DEF NQueries
  <1>3. PICK c \in Nat, r \in Nat, l \in Nat, m \in Nat :
              c = QueriesEnd[k] /\ r = Len(rbuf) /\ l = Len(c2s) /\ m = nsent
    BY Ends, LenProperties DEF TypeOK
  <1>4. /\ rbuf \o c2s = SubSeq(Queries, c + 1, m) /\ c <= m /\ m <= Len(Queries)
        /\ rbuf \in Seq(Byte) /\ c2s \in Seq(Byte)
    BY <1>3, Ends DEF Answered, Bytes, TypeOK
  <1>5. /\ Len(rbuf \o c2s) = r + l
        /\ \A i \in 1..r + l : (rbuf \o c2s)[i] = IF i <= r THEN rbuf[i] ELSE c2s[i - r]
    <2>1. Len(rbuf \o c2s) = Len(rbuf) + Len(c2s)
      BY <1>4, ConcatProperties
    <2>2. \A i \in 1..Len(rbuf) + Len(c2s) :
             (rbuf \o c2s)[i] = IF i <= Len(rbuf) THEN rbuf[i] ELSE c2s[i - Len(rbuf)]
      BY <1>4, ConcatProperties
    <2> QED
      BY ONLY <1>3, <2>1, <2>2
  <1>6. /\ Len(SubSeq(Queries, c + 1, m)) = m - c
        /\ \A i \in 1..m - c : SubSeq(Queries, c + 1, m)[i] = Queries[c + i]
    BY <1>1, <1>4, Piece
  <1>7. r + l = m - c
    BY <1>4, <1>5, <1>6
  <1>8. \A i \in 1..r : rbuf[i] = Queries[c + i]
    <2> TAKE i \in 1..r
    <2>1. i \in 1..r + l /\ i <= r /\ i \in 1..m - c
      BY <1>7
    <2>2. (rbuf \o c2s)[i] = rbuf[i]
      BY <1>5, <2>1
    <2>3. SubSeq(Queries, c + 1, m)[i] = Queries[c + i]
      BY <1>6, <2>1
    <2> QED
      BY <1>4, <2>2, <2>3
  <1>9. PICK h \in Nat \ {0} : h = HeaderSize /\ h <= r
    BY <1>2, <1>3 DEF HasHeader
  <1>10. k + 1 \in 1..NQueries
    <2>1. c < m
      BY <1>7, <1>9
    <2>2. c < Len(Queries) /\ Len(Queries) = QueriesEnd[NQueries]
      BY <1>1, <1>4, <2>1, Ends DEF Layout
    <2>3. k # NQueries
      BY <1>3, <2>2
    <2> QED
      BY <2>3, Ends
  <1>11. PICK n \in 1..NQueries : n = k + 1 /\ n - 1 = k
    BY <1>10, Ends
  <1>12. QueriesEnd[n] = c + HeaderSize + QueryLen[n]
    BY <1>1, <1>3, <1>11 DEF Layout
  <1>13. \A j \in 1..h : rbuf[j] = <<n, j>>
    <2> TAKE j \in 1..h
    <2>1. PICK q \in Nat : q = QueryLen[n]
      BY <1>2
    <2>2. j \in 1..r /\ j \in Nat /\ j \in 1..h + q
      BY <1>9
    <2>3. Queries[QueriesEnd[n - 1] + j] = <<n, j>>
      BY <1>1, <1>9, <2>1, <2>2 DEF Layout
    <2> QED
      BY <1>3, <1>8, <1>11, <2>2, <2>3
  <1>14. Decode(rbuf) = QueryLen[n]
    <2>1. 1 \in 1..h
      BY <1>9
    <2>2. rbuf[1] = <<n, 1>>
      BY <1>13, <2>1
    <2>3. rbuf[1][1] = n
      BY <2>2
    <2>4. \A j \in 1..HeaderSize : rbuf[j] = <<rbuf[1][1], j>>
      BY <1>9, <1>13, <2>3
    <2> QED
      BY <2>3, <2>4 DEF Decode
  <1> QED
    BY <1>2, <1>3, <1>10, <1>11, <1>12, <1>14

\* The query in front of rbuf is answered: it goes to wbuf.
LEMMA EchoStep == IInv /\ RequestEchoed => IInv'
  <1> SUFFICES ASSUME IInv, RequestEchoed PROVE IInv'
    OBVIOUS
  <1>1. PICK k \in 0..NQueries : Answered(k)
    BY DEF IInv
  <1>2. TypeOK /\ Control
    BY DEF IInv
  <1>3. /\ pc = "try_one_request" /\ pc' = "try_flush_buffer" /\ state' = "STATE_RES"
        /\ wbuf' = Query /\ rbuf' = Behind
        /\ UNCHANGED <<nsent, received, hungup, c2s, s2c, accepted, wbuf_sent>>
        /\ HasHeader /\ HeaderSize + Decode(rbuf) <= Len(rbuf)
    BY DEF RequestEchoed, Echo, HasQuery, clientVars
  <1>4. wbuf = <<>> /\ wbuf_sent = 0 /\ accepted # "no"
    BY <1>2, <1>3 DEF Control
  <1>5. PICK d \in 1..NQueries : d = k + 1
    BY <1>1, <1>2, <1>3, NextQuery
  <1>6. PICK h \in Nat \ {0}, q \in Nat :
              /\ h = HeaderSize /\ q = QueryLen[d] /\ Decode(rbuf) = q
              /\ QueriesEnd[d] = QueriesEnd[k] + h + q
    BY <1>1, <1>2, <1>3, <1>5, NextQuery
  <1>7. PICK c \in Nat, r \in Nat, m \in Nat, n \in Nat \ {0} :
              c = QueriesEnd[k] /\ r = Len(rbuf) /\ m = nsent /\ n = h + q
    <2>1. QueriesEnd[k] \in Nat /\ Len(Queries) \in Nat
      BY Ends
    <2>2. Len(rbuf) \in Nat /\ nsent \in Nat
      BY <1>2, <2>1, LenProperties DEF TypeOK
    <2>3. h + q \in Nat \ {0}
      OBVIOUS
    <2> QED
      BY ONLY <2>1, <2>2, <2>3
  <1>8. /\ Queries \in Seq(Byte) /\ rbuf \in Seq(Byte) /\ c2s \in Seq(Byte)
        /\ rbuf \o c2s = SubSeq(Queries, c + 1, m) /\ c <= m /\ m <= Len(Queries) /\ n <= Len(rbuf)
    <2>1. Queries \in Seq(Byte) /\ rbuf \in Seq(Byte) /\ c2s \in Seq(Byte) /\ m <= Len(Queries)
      BY <1>2, <1>7, Ends DEF TypeOK
    <2>2. rbuf \o c2s = SubSeq(Queries, c + 1, m) /\ c <= m
      BY <1>1, <1>7 DEF Answered, Bytes
    <2>3. n <= Len(rbuf)
      BY <1>3, <1>6, <1>7
    <2> QED
      BY ONLY <2>1, <2>2, <2>3
  <1>9. PICK e \in Nat : e = c + n /\ e = QueriesEnd[d]
    <2>1. PICK e \in Nat : e = c + n
      OBVIOUS
    <2>2. QueriesEnd[d] = c + h + q
      BY <1>6, <1>7
    <2>3. c + h + q = c + (h + q)
      OBVIOUS
    <2> QED
      BY ONLY <1>7, <2>1, <2>2, <2>3
  <1>10. /\ e <= m
         /\ SubSeq(rbuf, 1, n) = SubSeq(Queries, c + 1, e)
         /\ SubSeq(rbuf, n + 1, r) \in Seq(Byte)
         /\ SubSeq(rbuf, n + 1, r) \o c2s = SubSeq(Queries, e + 1, m)
    <2>1. /\ c + n <= m
          /\ SubSeq(rbuf, 1, n) = SubSeq(Queries, c + 1, c + n)
          /\ SubSeq(rbuf, n + 1, Len(rbuf)) \in Seq(Byte)
          /\ SubSeq(rbuf, n + 1, Len(rbuf)) \o c2s = SubSeq(Queries, (c + n) + 1, m)
      <3>1. Splits(rbuf, c2s, Queries, c, m, n)
        BY <1>8 DEF Splits
      <3>2. /\ Queries \in Seq(Byte) /\ rbuf \in Seq(Byte) /\ c2s \in Seq(Byte)
            /\ c <= m /\ m <= Len(Queries) /\ n <= Len(rbuf)
        BY <1>8
      <3> QED
        <4>1. SubSeq(rbuf, n + 1, Len(rbuf)) \in Seq(Byte) /\ CutsAt(rbuf, c2s, Queries, c, m, n)
          BY <3>1, <3>2, FrontCut
        <4> QED
          BY ONLY <4>1 DEF CutsAt
    <2> QED
      BY ONLY <1>7, <1>9, <2>1
  <1>11. wbuf' = SubSeq(Queries, c + 1, e) /\ rbuf' = SubSeq(rbuf, n + 1, r)
    <2>1. /\ Query = SubSeq(rbuf, 1, h + q)
          /\ Behind = SubSeq(rbuf, h + q + 1, Len(rbuf))
      BY <1>6 DEF Query, Behind
    <2> QED
      BY ONLY <1>3, <1>7, <1>10, <2>1
  <1>12. c <= e /\ e <= Len(Queries) /\ e - c = n
    <2>1. c <= e /\ e - c = n
      BY <1>9
    <2>2. PICK l \in Nat : l = Len(Queries)
      BY Ends
    <2>3. e <= l
      BY <1>8, <1>10, <2>2
    <2> QED
      BY <2>1, <2>2, <2>3
  <1>13. /\ wbuf' \in Seq(Byte) /\ Len(wbuf') = n
         /\ \A i \in 1..n : wbuf'[i] = Queries[c + i]
    <2>1. /\ SubSeq(Queries, c + 1, e) \in Seq(Byte)
          /\ Len(SubSeq(Queries, c + 1, e)) = e - c
          /\ \A i \in 1..e - c : SubSeq(Queries, c + 1, e)[i] = Queries[c + i]
      BY <1>8, <1>12, Piece
    <2> QED
      BY ONLY <1>11, <1>12, <2>1
  <1>14. wbuf' \in Seq(Answers(d))
    <2>1. ASSUME NEW i \in 1..n PROVE wbuf'[i] \in Answers(d)
      <3>1. c + i \in 1..e
        BY <1>9
      <3> QED
        BY <1>9, <1>13, <3>1 DEF Answers
    <2>2. PICK w : w = wbuf'
      OBVIOUS
    <2>3. w \in Seq(Byte) /\ \A i \in 1..Len(w) : w[i] \in Answers(d)
      BY <1>13, <2>1, <2>2
    <2>4. w \in Seq(Answers(d))
      BY <2>3
    <2> QED
      BY <2>2, <2>4
  <1>15. Len(rbuf') <= RbufCap
    <2>1. PICK t \in Nat : t = Len(rbuf) /\ t <= Len(rbuf) /\ n <= t
      BY <1>7, <1>8
    <2>2. Len(SubSeq(rbuf, n + 1, t)) = t - n
      BY <1>8, <2>1, Piece
    <2>3. RbufCap \in Nat /\ t <= RbufCap
      <3>1. HeaderSize \in Nat /\ k_max_msg \in Nat
        BY ConnectionAssumption
      <3> QED
        BY <1>2, <2>1, <3>1 DEF RbufCap, TypeOK
    <2>4. t - n <= RbufCap
      BY <2>3
    <2> QED
      BY <1>7, <1>11, <2>1, <2>2, <2>4
  <1>16. TypeOK'
    <2>1. wbuf_sent' \in 0..Len(wbuf')
      BY <1>3, <1>4, <1>13
    <2> QED
      BY <1>2, <1>3, <1>10, <1>11, <1>13, <1>15, <2>1 DEF TypeOK
  <1>17. Control'
    <2>1. wbuf_sent' < Len(wbuf')
      BY <1>3, <1>4, <1>13
    <2> QED
      BY <1>3, <1>4, <2>1 DEF Control
  <1>18. Answered(d)'
    <2>1. QueriesEnd[d] <= nsent'
      BY <1>3, <1>7, <1>9, <1>10
    <2>2. rbuf' \o c2s' = Bytes(QueriesEnd[d], nsent')
      BY <1>3, <1>7, <1>9, <1>10, <1>11 DEF Bytes
    <2>3. received' \in Seq(Answers(d)) /\ s2c' \in Seq(Answers(d))
      <3>1. k \in 0..NQueries /\ d \in 0..NQueries /\ k <= d
        BY <1>5
      <3>2. Answers(k) \subseteq Answers(d)
        BY <3>1, Ends
      <3> QED
        BY <1>1, <1>3, <3>2, SeqGrows DEF Answered
    <2>4. ASSUME ~hungup PROVE received' \o s2c' \o Unsent' = Bytes(0, QueriesEnd[d])
      <3>1. Unsent = <<>>
        <4>1. SubSeq(<<>>, 0 + 1, 0) = <<>> /\ Len(<<>>) = 0
          BY SubSeqEmpty
        <4> QED
          BY <1>4, <4>1 DEF Unsent
      <3>2. PICK x : x = received \o s2c /\ x \in Seq(Byte)
        BY <1>2, ConcatProperties DEF TypeOK
      <3>3. x \o <<>> = x
        BY <3>2, ConcatEmptySeq
      <3>4. x = SubSeq(Queries, 0 + 1, c)
        BY <1>1, <1>7, <2>4, <3>1, <3>2, <3>3 DEF Answered, Bytes
      <3>5. Unsent' = wbuf'
        <4>1. PICK w : w = wbuf' /\ w \in Seq(Byte)
          BY <1>13
        <4>2. SubSeq(w, 0 + 1, Len(w)) = w
          BY <4>1, SubSeqFull
        <4> QED
          BY <1>3, <1>4, <4>1, <4>2 DEF Unsent
      <3>6. SubSeq(Queries, 0 + 1, c) \o SubSeq(Queries, c + 1, e) = SubSeq(Queries, 0 + 1, e)
        BY <1>8, <1>12, Pieces
      <3> QED
        BY <1>3, <1>9, <1>11, <3>2, <3>4, <3>5, <3>6 DEF Bytes
    <2>5. Answers(d)' = Answers(d) /\ Bytes(QueriesEnd[d], nsent)' = Bytes(QueriesEnd[d], nsent')
      BY DEF Answers, Bytes
    <2> QED
      BY <1>3, <1>14, <2>1, <2>2, <2>3, <2>4 DEF Answered, Answers, Bytes
  <1>19. d \in 0..NQueries
    BY <1>5
  <1> QED
    BY <1>16, <1>17, <1>18, <1>19 DEF IInv

\* Every step keeps the invariant.
LEMMA StepInv == IInv /\ [Next]_vars => IInv'
  <1> SUFFICES ASSUME IInv, [Next]_vars PROVE IInv'
    OBVIOUS
  <1>1. CASE ClientWrite
    BY <1>1, WriteStep
  <1>2. CASE ClientRead
    BY <1>2, ReadStep
  <1>3. CASE ClientHangsUp
    BY <1>3, HangUpStep
  <1>4. CASE FillReads
    BY <1>4, FillStep
  <1>5. CASE FlushWrites
    BY <1>5, FlushStep
  <1>6. CASE RequestEchoed
    BY <1>6, EchoStep
  <1>7. CASE \/ accept_new_conn \/ connection_io \/ IoDone \/ FillWouldBlock \/ FillEnds
             \/ FillFails \/ FlushWouldBlock \/ FlushFails \/ FlushKills
             \/ RequestDone \/ RequestTooLong \/ RequestIncomplete
    BY <1>7, QuietSteps
  <1>8. CASE UNCHANGED vars
    <2>1. /\ UNCHANGED <<nsent, received, hungup, c2s, s2c, rbuf, wbuf, wbuf_sent>>
          /\ UNCHANGED <<accepted, state, pc>>
      BY <1>8 DEF vars, clientVars, serverVars, bufVars
    <2>2. Control'
      BY <2>1 DEF IInv, Control
    <2> QED
      BY <2>1, <2>2, QuietStep
  <1>9. CASE ClientStartsOver
    BY <1>9, StartOverStep
  <1> QED
    BY <1>1, <1>2, <1>3, <1>4, <1>5, <1>6, <1>7, <1>8, <1>9
    DEF Next, Client, Server, ServerCommon

\* In every state rbuf begins with the first query that is not answered, in
\* whatever pieces the queries have come.
THEOREM Invariance == Spec => []IInv
  <1>1. Init => IInv
    BY InitInv
  <1>2. IInv /\ [Next]_vars => IInv'
    BY StepInv
  <1> QED
    BY <1>1, <1>2, PTL DEF Spec

------------------------------------------------------------------------------
(* What follows *)

\* A connection has bytes to send exactly in STATE_RES, so that poll() never
\* waits for POLLIN with an answer unsent.
THEOREM StateSaysWork == Spec => []StateTellsWork
  <1>1. IInv => StateTellsWork
    <2> SUFFICES ASSUME IInv, state # "STATE_END"
                 PROVE  state = "STATE_RES" <=> wbuf_sent < Len(wbuf)
      BY DEF StateTellsWork
    <2>1. Control
      BY DEF IInv
    <2>2. CASE state = "STATE_RES"
      BY <2>1, <2>2 DEF Control
    <2>3. CASE state = "STATE_REQ"
      <3>1. wbuf = <<>> /\ wbuf_sent = 0 /\ Len(<<>>) = 0
        BY <2>1, <2>3 DEF Control
      <3> QED
        BY <2>3, <3>1
    <2> QED
      BY <2>1, <2>2, <2>3 DEF Control
  <1> QED
    BY <1>1, Invariance, PTL

\* While the client is there the bytes it has received, those under way to it,
\* those still in wbuf, those in rbuf and those in c2s are, one behind the
\* other, the bytes it has sent.
THEOREM Conservation == Spec => []BytesConserved
  <1>1. IInv => BytesConserved
    <2> SUFFICES ASSUME IInv, ~hungup
                 PROVE  received \o s2c \o Unsent \o rbuf \o c2s = SubSeq(Queries, 1, nsent)
      BY DEF BytesConserved, Unsent
    <2>1. TypeOK
      BY DEF IInv
    <2>2. PICK k \in 0..NQueries : Answered(k)
      BY DEF IInv
    <2>3. PICK c \in Nat, m \in Nat : c = QueriesEnd[k] /\ m = nsent
      <3>1. QueriesEnd[k] \in Nat /\ Len(Queries) \in Nat
        BY Ends
      <3>2. nsent \in Nat
        BY <2>1, <3>1 DEF TypeOK
      <3> QED
        BY <3>1, <3>2
    <2>4. PICK x : x = received \o s2c \o Unsent
      OBVIOUS
    <2>5. x = SubSeq(Queries, 0 + 1, c) /\ rbuf \o c2s = SubSeq(Queries, c + 1, m) /\ c <= m
      BY <2>2, <2>3, <2>4 DEF Answered, Bytes
    <2>6. Queries \in Seq(Byte) /\ 0 <= c /\ m <= Len(Queries) /\ c <= Len(Queries)
      BY <2>1, <2>3, Ends DEF TypeOK
    <2>7. SubSeq(Queries, 0 + 1, c) \o SubSeq(Queries, c + 1, m) = SubSeq(Queries, 0 + 1, m)
      BY <2>5, <2>6, Pieces
    <2>8. SubSeq(Queries, 0 + 1, c) \in Seq(Byte)
      BY <2>6, Piece
    <2>9. x \in Seq(Byte) /\ rbuf \in Seq(Byte) /\ c2s \in Seq(Byte)
      BY <2>1, <2>5, <2>8 DEF TypeOK
    <2>10. (x \o rbuf) \o c2s = x \o (rbuf \o c2s)
      <3>1. PICK y \in Seq(Byte), z \in Seq(Byte) : y = rbuf /\ z = c2s
        BY <2>9
      <3>2. x \in Seq(Byte) /\ y \in Seq(Byte) /\ z \in Seq(Byte)
        BY <2>9, <3>1
      <3>3. (x \o y) \o z = x \o (y \o z)
        <4>1. InRow(x, y, z)
          BY ONLY <3>2, Associative
        <4> QED
          BY <4>1 DEF InRow
      <3> QED
        BY ONLY <3>1, <3>3
    <2>11. 0 + 1 = 1
      OBVIOUS
    <2> QED
      BY ONLY <2>3, <2>4, <2>5, <2>7, <2>10, <2>11
  <1> QED
    BY <1>1, Invariance, PTL

\* No byte of an answer is on its way before the last byte of its query has
\* arrived.
THEOREM OnlyWhole == Spec => []WholeQueriesOnly
  <1>1. IInv => WholeQueriesOnly
    <2> SUFFICES ASSUME IInv, NEW byte \in ToSet(received \o s2c \o wbuf)
                 PROVE  \E n \in 1..nsent - Len(c2s) :
                           Queries[n] = <<byte[1], HeaderSize + QueryLen[byte[1]]>>
      BY DEF WholeQueriesOnly
    <2>1. TypeOK
      BY DEF IInv
    <2>2. PICK k \in 0..NQueries : Answered(k)
      BY DEF IInv
    <2>3. Queries \in Seq(Byte) /\ Layout(QueriesEnd)
      BY ConnectionAssumption, QueriesLaidOut
    <2>4. byte \in Answers(k)
      <3>1. PICK s : s = received \o s2c
        OBVIOUS
      <3>2. received \in Seq(Answers(k)) /\ s2c \in Seq(Answers(k)) /\ wbuf \in Seq(Answers(k))
        BY <2>2 DEF Answered
      <3>3. s \in Seq(Answers(k))
        BY <3>1, <3>2, ConcatProperties
      <3>4. PICK t : t = s \o wbuf /\ t \in Seq(Answers(k))
        BY <3>2, <3>3, ConcatProperties
      <3>5. PICK i \in DOMAIN t : byte = t[i]
        BY <3>1, <3>4 DEF ToSet
      <3> QED
        BY <3>4, <3>5
    <2>5. PICK i \in 1..QueriesEnd[k] : byte = Queries[i]
      BY <2>4 DEF Answers
    <2>6. PICK b \in 1..k : b = byte[1]
      BY <2>3, <2>5 DEF Layout
    <2>7. /\ b \in 1..NQueries /\ b \in 0..NQueries /\ b - 1 \in 0..NQueries /\ b <= k
          /\ NQueries \in Nat
      BY <2>6, Ends
    <2>8. PICK h \in Nat \ {0}, q \in Nat : h = HeaderSize /\ q = QueryLen[b]
      <3>1. HeaderSize \in Nat \ {0} /\ \A l \in 1..NQueries : QueryLen[l] \in Nat
        BY ConnectionAssumption DEF NQueries
      <3> QED
        BY <2>7, <3>1
    <2>9. PICK a \in Nat, e \in Nat, c \in Nat :
                a = QueriesEnd[b - 1] /\ e = QueriesEnd[b] /\ c = QueriesEnd[k]
      BY <2>7, Ends
    <2>10. e = a + h + q /\ e <= c
      BY <2>3, <2>7, <2>8, <2>9 DEF Layout
    <2>11. Queries[e] = <<b, h + q>>
      <3>1. PICK j \in Nat : j = h + q
        OBVIOUS
      <3>2. j \in 1..HeaderSize + QueryLen[b]
        BY <2>8, <3>1
      <3>3. Queries[a + j] = <<b, j>>
        BY <2>3, <2>7, <2>9, <3>2 DEF Layout
      <3>4. a + j = e
        BY <2>10, <3>1
      <3> QED
        BY ONLY <3>1, <3>3, <3>4
    <2>12. c <= nsent - Len(c2s)
      <3>1. PICK r \in Nat, l \in Nat, m \in Nat : r = Len(rbuf) /\ l = Len(c2s) /\ m = nsent
        BY <2>1, Ends, LenProperties DEF TypeOK
      <3>2. /\ rbuf \o c2s = SubSeq(Queries, c + 1, m) /\ c <= m /\ m <= Len(Queries)
            /\ rbuf \in Seq(Byte) /\ c2s \in Seq(Byte)
        BY <2>1, <2>2, <2>9, <3>1, Ends DEF Answered, Bytes, TypeOK
      <3>3. Len(rbuf \o c2s) = r + l
        BY <3>1, <3>2, ConcatProperties
      <3>4. Len(SubSeq(Queries, c + 1, m)) = m - c
        BY <2>3, <3>2, Piece
      <3>5. r + l = m - c
        BY <3>2, <3>3, <3>4
      <3> QED
        BY <3>1, <3>5
    <2>13. e \in 1..nsent - Len(c2s)
      <3>1. Len(c2s) \in Nat /\ nsent \in Nat
        BY <2>1, Ends, LenProperties DEF TypeOK
      <3>2. e >= 1
        BY <2>10
      <3> QED
        BY <2>10, <2>12, <3>1, <3>2
    <2> QED
      BY <2>6, <2>8, <2>11, <2>13
  <1> QED
    BY <1>1, Invariance, PTL

------------------------------------------------------------------------------
(* The assertion of try_fill_buffer *)

\* The client never has more than half of rbuf sent and not answered.
ShortWindow == 2 * (nsent - Len(received)) <= RbufCap

\* No unread or unanswered byte has come back to the client, nor does one after it
\* has hung up; a connection that has ended is dropped before poll() reports it again.
AssertInv ==
    /\ hungup => Len(received) + Len(rbuf) + Len(c2s) <= nsent
    /\ accepted = "yes" /\ pc = "poll" => state # "STATE_END"
    /\ pc # "aborted"

\* While the client is there the bytes add up.
LEMMA BytesAddUp ==
  ASSUME IInv, ~hungup
  PROVE  Len(received) + Len(rbuf) + Len(c2s) <= nsent
  <1>1. TypeOK
    BY DEF IInv
  <1>2. PICK k \in 0..NQueries : Answered(k)
    BY DEF IInv
  <1>3. PICK c \in Nat, m \in Nat, v \in Nat, s \in Nat, w \in Nat, r \in Nat, l \in Nat :
              /\ c = QueriesEnd[k] /\ m = nsent /\ v = Len(received) /\ s = Len(s2c)
              /\ w = Len(Unsent) /\ r = Len(rbuf) /\ l = Len(c2s)
              /\ c <= m /\ r + l = m - c /\ v + s + w = c
    BY <1>1, <1>2, LengthsAddUp
  <1>4. v + r + l <= m
    BY <1>3
  <1> QED
    BY <1>3, <1>4

LEMMA BytesFew ==
  ASSUME IInv, AssertInv
  PROVE  Len(received) + Len(rbuf) + Len(c2s) <= nsent
  BY BytesAddUp DEF AssertInv

\* read() takes the bytes it puts into rbuf from c2s, so with them rbuf is no fuller than
\* what the client waits for.
LEMMA FillKeeps ==
  ASSUME IInv, AssertInv, FillReads
  PROVE  /\ Len(received') + Len(rbuf') + Len(c2s') <= nsent'
         /\ ShortWindow => pc' = "try_one_request"
  <1> DEFINE least == IF Len(c2s) < RbufCap - Len(rbuf) THEN Len(c2s) ELSE RbufCap - Len(rbuf)
  <1>1. /\ rbuf' = rbuf \o SubSeq(c2s, 1, least)
        /\ c2s' = SubSeq(c2s, least + 1, Len(c2s))
        /\ pc' = IF Len(rbuf') <= RbufCap - Len(rbuf') THEN "try_one_request" ELSE "aborted"
        /\ UNCHANGED <<nsent, received>>
    BY DEF FillReads, clientVars
  <1>2. TypeOK
    BY DEF IInv
  <1>3. nsent \in Nat /\ Len(received) \in Nat /\ Len(rbuf) \in Nat /\ Len(c2s) \in Nat
    BY <1>2, LengthsAre
  <1>4. rbuf \in Seq(Byte) /\ c2s \in Seq(Byte) /\ Len(rbuf) <= RbufCap /\ RbufCap \in Nat
    <2>1. HeaderSize \in Nat /\ k_max_msg \in Nat
      BY ConnectionAssumption
    <2> QED
      BY <1>2, <2>1 DEF TypeOK, RbufCap
  <1>5. PICK n \in Nat : n = least /\ n <= Len(c2s)
    BY <1>3, <1>4
  <1> HIDE DEF least
  <1>6. SubSeq(c2s, 1, n) \in Seq(Byte) /\ Len(SubSeq(c2s, 1, n)) = n
    <2>1. /\ SubSeq(c2s, 0 + 1, n) \in Seq(Byte) /\ Len(SubSeq(c2s, 0 + 1, n)) = n - 0
      BY <1>4, <1>5, Piece
    <2>2. 0 + 1 = 1 /\ n - 0 = n
      OBVIOUS
    <2> QED
      BY <2>1, <2>2
  <1>7. Len(SubSeq(c2s, n + 1, Len(c2s))) = Len(c2s) - n
    <2>1. PICK l \in Nat : l = Len(c2s)
      BY <1>3
    <2>2. n <= l /\ l <= Len(c2s)
      BY <1>5, <2>1
    <2>3. Len(SubSeq(c2s, n + 1, l)) = l - n
      BY <1>4, <2>2, Piece
    <2> QED
      BY <2>1, <2>3
  <1>8. PICK p \in Seq(Byte) : p = SubSeq(c2s, 1, n) /\ Len(p) = n
    BY <1>6
  <1>9. Len(rbuf \o p) = Len(rbuf) + n
    BY <1>4, <1>8, ConcatProperties
  <1>10. Len(rbuf') = Len(rbuf) + n /\ Len(c2s') = Len(c2s) - n
    BY <1>1, <1>5, <1>7, <1>8, <1>9
  <1>11. Len(received) + Len(rbuf) + Len(c2s) <= nsent
    BY BytesFew
  <1>12. Len(received') + Len(rbuf') + Len(c2s') <= nsent' /\ Len(received) + Len(rbuf') <= nsent
    <2>1. PICK v \in Nat, r \in Nat, l \in Nat, s \in Nat :
                v = Len(received) /\ r = Len(rbuf) /\ l = Len(c2s) /\ s = nsent
      BY <1>3
    <2>2. v + r + l <= s /\ n <= l
      BY <1>5, <1>11, <2>1
    <2>3. v + (r + n) + (l - n) <= s /\ v + (r + n) <= s
      BY <2>2
    <2>4. /\ Len(received') = v /\ Len(rbuf') = r + n /\ Len(c2s') = l - n
          /\ nsent' = s /\ Len(received) = v
      BY <1>1, <1>10, <2>1
    <2> QED
      BY ONLY <2>1, <2>3, <2>4
  <1>13. ASSUME ShortWindow PROVE Len(rbuf') <= RbufCap - Len(rbuf')
    BY <1>3, <1>4, <1>10, <1>12, <1>13 DEF ShortWindow
  <1> QED
    BY <1>1, <1>12, <1>13

\* An answered query leaves rbuf.
LEMMA EchoKeeps ==
  ASSUME IInv, AssertInv, RequestEchoed
  PROVE  Len(received') + Len(rbuf') + Len(c2s') <= nsent'
  <1>1. /\ HasQuery /\ rbuf' = SubSeq(rbuf, HeaderSize + Decode(rbuf) + 1, Len(rbuf))
        /\ UNCHANGED <<nsent, received, c2s>>
    BY DEF RequestEchoed, Echo, Behind, clientVars
  <1>2. TypeOK
    BY DEF IInv
  <1>3. nsent \in Nat /\ Len(received) \in Nat /\ Len(rbuf) \in Nat /\ Len(c2s) \in Nat
    BY <1>2, LengthsAre
  <1>4. Len(rbuf') <= Len(rbuf) /\ Len(rbuf') \in Nat
    <2>1. PICK k \in 0..NQueries : Answered(k)
      BY DEF IInv
    <2>2. HasHeader /\ HeaderSize + Decode(rbuf) <= Len(rbuf)
      BY <1>1 DEF HasQuery
    <2>3. PICK d \in 1..NQueries : d = k + 1
      BY <1>2, <2>1, <2>2, NextQuery
    <2>4. PICK h \in Nat, q \in Nat : h = HeaderSize /\ q = Decode(rbuf)
      BY <1>2, <2>1, <2>2, <2>3, NextQuery
    <2>5. PICK n \in Nat, l \in Nat : n = h + q /\ l = Len(rbuf) /\ n <= l
      BY <1>3, <2>2, <2>4
    <2>6. rbuf \in Seq(Byte)
      BY <1>2 DEF TypeOK
    <2>7. Len(SubSeq(rbuf, n + 1, l)) = l - n
      BY <2>5, <2>6, Piece
    <2>8. rbuf' = SubSeq(rbuf, n + 1, l)
      BY <1>1, <2>4, <2>5
    <2>9. l - n <= l /\ l - n \in Nat
      BY <2>5
    <2> QED
      BY ONLY <2>5, <2>7, <2>8, <2>9
  <1>5. Len(received) + Len(rbuf) + Len(c2s) <= nsent
    BY BytesFew
  <1>6. PICK v \in Nat, r \in Nat, l \in Nat, s \in Nat, x \in Nat :
              v = Len(received) /\ r = Len(rbuf) /\ l = Len(c2s) /\ s = nsent /\ x = Len(rbuf')
    BY <1>3, <1>4
  <1>7. v + x + l <= s
    BY ONLY <1>4, <1>5, <1>6
  <1>8. Len(received') = v /\ Len(rbuf') = x /\ Len(c2s') = l /\ nsent' = s
    BY <1>1, <1>6
  <1> QED
    BY ONLY <1>7, <1>8

\* No step leads to the abort while the client's window is short.
LEMMA AssertStep ==
  ASSUME IInv, AssertInv, ShortWindow, [Next]_vars
  PROVE  AssertInv'
  <1> DEFINE same == UNCHANGED <<nsent, received, hungup, rbuf, c2s>>
  <1>1. Len(received) + Len(rbuf) + Len(c2s) <= nsent /\ Control
    BY BytesFew DEF IInv
  <1>2. CASE ClientWrite \/ ClientRead \/ ClientStartsOver
    <2>1. ~hungup' /\ UNCHANGED <<accepted, pc, state>>
      BY <1>2 DEF ClientWrite, ClientRead, ClientStartsOver, serverVars
    <2> QED
      BY <2>1 DEF AssertInv
  <1>3. CASE ClientHangsUp
    <2>1. UNCHANGED <<nsent, received, rbuf, c2s, accepted, pc, state>>
      BY <1>3 DEF ClientHangsUp, serverVars, bufVars
    <2> QED
      BY <1>1, <2>1 DEF AssertInv
  <1>4. CASE FillReads
    <2>1. pc' = "try_one_request" /\ Len(received') + Len(rbuf') + Len(c2s') <= nsent'
      BY <1>4, FillKeeps
    <2> QED
      BY <2>1 DEF AssertInv
  <1>5. CASE RequestEchoed
    <2>1. pc' = "try_flush_buffer"
      BY <1>5 DEF RequestEchoed, Echo
    <2>2. Len(received') + Len(rbuf') + Len(c2s') <= nsent'
      BY <1>5, EchoKeeps
    <2> QED
      BY <2>1, <2>2 DEF AssertInv
  <1>6. CASE FlushWrites
    <2>1. /\ pc = "try_flush_buffer" /\ pc' \in {"flushed", pc}
          /\ UNCHANGED <<nsent, received, hungup, rbuf, c2s>>
      BY <1>6 DEF FlushWrites, clientVars
    <2> QED
      BY <1>1, <2>1 DEF AssertInv
  <1>7. CASE accept_new_conn
    <2>1. /\ rbuf' = <<>> /\ state' = "STATE_REQ" /\ accepted = "no"
          /\ UNCHANGED <<nsent, received, hungup, c2s, pc>>
      BY <1>7 DEF accept_new_conn, clientVars
    <2>2. rbuf = <<>>
      BY <1>1, <2>1 DEF Control
    <2> QED
      BY <1>1, <2>1, <2>2 DEF AssertInv
  <1>8. CASE connection_io
    <2>1. /\ accepted = "yes" /\ pc = "poll"
          /\ pc' = CASE state = "STATE_REQ" -> "try_fill_buffer"
                     [] state = "STATE_RES" -> "try_flush_buffer"
                     [] OTHER -> "aborted"
          /\ same
      BY <1>8 DEF connection_io, clientVars, bufVars
    <2>2. state \in {"STATE_REQ", "STATE_RES"}
      BY <1>1, <2>1 DEF AssertInv, Control
    <2>3. pc' \in {"try_fill_buffer", "try_flush_buffer"}
      BY <2>1, <2>2
    <2> QED
      BY <1>1, <2>1, <2>3 DEF AssertInv
  <1>9. CASE IoDone
    <2>1. pc' = "poll" /\ state' = state /\ same
          /\ accepted' = IF state = "STATE_END" THEN "closed" ELSE accepted
      BY <1>9 DEF IoDone, clientVars, bufVars
    <2> QED
      BY <1>1, <2>1 DEF AssertInv
  <1>10. CASE \/ FillWouldBlock \/ FillEnds \/ FillFails \/ FlushWouldBlock \/ FlushFails \/ FlushKills
              \/ RequestDone \/ RequestTooLong \/ RequestIncomplete
    <2>1. pc' \in {"main", "flushed", "killed", "try_one_request", "try_fill_buffer"} /\ same
      BY <1>10 DEF FillWouldBlock, FillEnds, FillFails, FlushWouldBlock, FlushFails, FlushKills,
                   RequestDone, RequestTooLong, RequestIncomplete, clientVars, bufVars
    <2> QED
      BY <1>1, <2>1 DEF AssertInv
  <1>11. CASE UNCHANGED vars
    <2>1. same /\ UNCHANGED <<accepted, pc, state>>
      BY <1>11 DEF vars, clientVars, serverVars, bufVars
    <2> QED
      BY <2>1 DEF AssertInv
  <1> QED
    BY <1>2, <1>3, <1>4, <1>5, <1>6, <1>7, <1>8, <1>9, <1>10, <1>11
    DEF Next, Client, Server, ServerCommon

\* While a client has no more than half of rbuf sent and not answered, as client.cpp
\* with its three short messages, no assertion of the server fails, however reads and
\* writes are cut up.  Without that it is false, as MCEchoLong shows.
THEOREM NoAbort == Spec /\ []ShortWindow => []AssertionsHold
  <1>1. Init => AssertInv
    BY DEF Init, AssertInv
  <1>2. AssertInv => AssertionsHold
    BY DEF AssertInv, AssertionsHold
  <1>3. IInv /\ AssertInv /\ ShortWindow /\ [Next]_vars => AssertInv'
    BY AssertStep
  <1> QED
    BY <1>1, <1>2, <1>3, Invariance, PTL DEF Spec
=============================================================================
