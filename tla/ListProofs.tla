----------------------------- MODULE ListProofs -----------------------------
(***************************************************************************)
(* Why a list whose readers and removers go hand over hand (chapter 6,     *)
(* threadsafe_list) stays a list: each step keeps WalkInv, for any threads *)
(* with any calls. What follows from it is in ThreadsafeProofs.            *)
(***************************************************************************)
EXTENDS QueueProofs


------------------------------------------------------------------------------
(* The list whose readers go hand over hand *)

\* The nodes of a list that come after a node.
RestOf(c, n) == {c[i] : i \in {i \in 1..Len(c) : \E j \in 1..Len(c) : j < i /\ c[j] = n}}

Values == Thread \X Nat
Links == [data : Values \cup {Null}, next : Nat \cup {Null}, m : Thread \cup {Null}]

\* What the calls have pushed that have returned.
Old == {v \in Values : v[2] > Len(th[v[1]].todo)}

WalkMemory ==
    /\ {"node", "removed"} \subseteq DOMAIN mem
    /\ IsFiniteSet(DOMAIN mem.node) /\ DOMAIN mem.node \subseteq Nat
    /\ \A n \in DOMAIN mem.node : mem.node[n] \in Links
    /\ mem.removed \subseteq Old

\* No value is twice in the list, and none that was removed.
WalkList(c) ==
    /\ Linked(c, mem.node, List!head, Null)
    /\ \A n \in NodesOf(c) \ {List!head} : mem.node[n].data \in Old \ mem.removed
    /\ \A m, n \in NodesOf(c) \ {List!head} : mem.node[m].data = mem.node[n].data => m = n

\* The node that remove_if has taken out and will free.
WalkPrivate(t) == IF th[t].pc \in {"unlock", "free"} THEN {th[t].next} ELSE {}

Walkers == {"walk", "next", "call", "unlock", "free"}

\* The nodes a walk is still to come to.
Ahead(c, t) ==
    IF th[t].pc = "call" THEN {th[t].next} \cup RestOf(c, th[t].next) ELSE RestOf(c, th[t].current)
DataIn(S) == {mem.node[n].data : n \in S}

\* A thread has the mutexes of the nodes it works on.
WalkHolds(c, t) ==
    /\ th[t].pc \in Operations \cup Walkers \cup {"done", "link", "end"}
    /\ th[t].pc = "link" => mem.node[List!head].m = t
    /\ th[t].pc \in Walkers \ {"call"} =>
          /\ "current" \in DOMAIN th[t] /\ th[t].current \in NodesOf(c)
          /\ mem.node[th[t].current].m = t
    /\ th[t].pc \in {"next", "call"} =>
          /\ "next" \in DOMAIN th[t] /\ th[t].next \in NodesOf(c) \ {List!head}
          /\ mem.node[th[t].next].m = t
    /\ th[t].pc = "next" => mem.node[th[t].current].next = th[t].next
    /\ th[t].pc = "call" => Head(th[t].todo) # "remove_if"
    /\ th[t].pc \in {"unlock", "free"} => "next" \in DOMAIN th[t]

\* What a walk has come to, and what it has missed.
WalkSees(t) ==
    /\ {"seen", "before", "start"} \subseteq DOMAIN th[t]
    /\ th[t].seen \in Seq(Values) /\ Len(th[t].seen) = Cardinality(ToSet(th[t].seen))
    /\ ToSet(th[t].seen) \cap th[t].before = {} /\ th[t].before \subseteq mem.removed
MatchesGone(t) ==
    \A v \in ToSet(th[t].seen) : Match(v) =>
        \/ Head(th[t].todo) = "for_each"
        \/ Head(th[t].todo) = "remove_if" /\ v \in mem.removed

WalkSafe(c, t) ==
    /\ WalkHolds(c, t)
    /\ th[t].pc \in Walkers \cup {"end"} =>
          WalkSees(t) /\ Head(th[t].todo) \in {"for_each", "find_first_if", "remove_if"}
    /\ th[t].pc \in Walkers =>
          /\ MatchesGone(t)
          /\ ToSet(th[t].seen) \cap DataIn(Ahead(c, t)) = {}
          /\ th[t].start \subseteq ToSet(th[t].seen) \cup mem.removed \cup DataIn(Ahead(c, t))
    /\ th[t].pc = "end" =>
          /\ "found" \in DOMAIN th[t]
          /\ th[t].found = Null => MatchesGone(t) /\ th[t].start \subseteq ToSet(th[t].seen) \cup mem.removed

\* Of a list c: each thread is in it where it has the mutexes, or has a node alone.
WalkAll(c) ==
    /\ WalkList(c)
    /\ \A t \in Thread :
        /\ WalkSafe(c, t) /\ WalkPrivate(t) \subseteq DOMAIN mem.node \ NodesOf(c)
        /\ \A u \in Thread : u # t => WalkPrivate(t) \cap WalkPrivate(u) = {}

WalkInv == Threading /\ WalkMemory /\ \E c : WalkAll(c)

\* The nodes that come after a node are those at later places.
Later(c, j) == {c[i] : i \in (j + 1)..Len(c)}

LEMMA RestIs ==
  ASSUME NEW c, Len(c) \in Nat, \A i, j \in 1..Len(c) : c[i] = c[j] => i = j, NEW j \in 1..Len(c)
  PROVE  RestOf(c, c[j]) = Later(c, j)
  <1>0. PICK n \in Nat : n = Len(c)
    OBVIOUS
  <1>1. \A k \in 1..n : c[k] = c[j] => k = j
    BY <1>0
  <1>2. ASSUME NEW i \in 1..n
        PROVE  (\E k \in 1..n : k < i /\ c[k] = c[j]) <=> i \in (j + 1)..n
    BY <1>0, <1>1
  <1>3. {i \in 1..n : \E k \in 1..n : k < i /\ c[k] = c[j]} = (j + 1)..n
    <2>1. (j + 1)..n \subseteq 1..n
      BY <1>0
    <2> QED
      BY <1>2, <2>1
  <1> QED
    BY <1>0, <1>3 DEF RestOf, Later

\* The list begins with its first node, and what follows a node is in it.
LEMMA NextIs ==
  ASSUME NEW c, NEW node, NEW n, NEW end, Linked(c, node, n, end), NEW x \in NodesOf(c)
  PROVE  /\ RestOf(c, x) \subseteq NodesOf(c) /\ x \notin RestOf(c, x) /\ n \notin RestOf(c, x)
         /\ NodesOf(c) \subseteq DOMAIN node /\ end \notin NodesOf(c)
         /\ node[x].next = end => RestOf(c, x) = {}
         /\ node[x].next # end =>
               /\ node[x].next \in NodesOf(c) /\ node[x].next \notin {x, n}
               /\ RestOf(c, x) = {node[x].next} \cup RestOf(c, node[x].next)
               /\ node[x].next \notin RestOf(c, node[x].next)
  <1>1. c \in Seq(DOMAIN node) /\ n = After(c, 1, end)
    BY DEF Linked
  <1>2. PICK l \in Nat : l = Len(c)
    BY <1>1
  <1>3. /\ \A i \in 1..l : c[i] \in DOMAIN node /\ c[i] # end /\ node[c[i]].next = After(c, i + 1, end)
        /\ \A i, j \in 1..l : c[i] = c[j] => i = j
    BY <1>1, <1>2 DEF Linked
  <1>4. PICK p \in 1..l : c[p] = x
    BY <1>2 DEF NodesOf
  <1>5. NodesOf(c) = {c[i] : i \in 1..l}
    BY <1>2 DEF NodesOf
  <1>6. ASSUME NEW j \in 1..l PROVE RestOf(c, c[j]) = {c[i] : i \in (j + 1)..l}
    <2>1. Len(c) \in Nat /\ j \in 1..Len(c) /\ \A i, k \in 1..Len(c) : c[i] = c[k] => i = k
      BY <1>2, <1>3
    <2>2. RestOf(c, c[j]) = Later(c, j)
      BY ONLY <2>1, RestIs
    <2> QED
      BY <1>2, <2>2 DEF Later
  <1>7. \A j \in 1..l : c[j] \notin {c[i] : i \in (j + 1)..l} /\ {c[i] : i \in (j + 1)..l} \subseteq NodesOf(c)
    <2> TAKE j \in 1..l
    <2>1. \A i \in (j + 1)..l : i \in 1..l /\ i # j
      OBVIOUS
    <2>2. \A i \in (j + 1)..l : c[i] # c[j]
      BY <2>1, <1>3
    <2> QED
      BY <1>5, <2>1, <2>2
  <1>8. RestOf(c, x) \subseteq NodesOf(c) /\ x \notin RestOf(c, x)
    BY <1>4, <1>6, <1>7
  <1>12. n \notin RestOf(c, x)
    <2>1. 1 \in 1..l /\ n = c[1]
      BY <1>1, <1>2, <1>4 DEF After
    <2>2. \A i \in (p + 1)..l : i \in 1..l /\ i # 1
      OBVIOUS
    <2>3. \A i \in (p + 1)..l : c[i] # n
      BY <1>3, <2>1, <2>2
    <2>4. RestOf(c, x) = {c[i] : i \in (p + 1)..l}
      BY <1>4, <1>6
    <2> QED
      BY <2>3, <2>4
  <1>9. NodesOf(c) \subseteq DOMAIN node /\ end \notin NodesOf(c)
    BY <1>3, <1>5
  <1>10. ASSUME p = l PROVE node[x].next = end /\ RestOf(c, x) = {}
    <2>1. node[x].next = end
      BY <1>2, <1>3, <1>4, <1>10 DEF After
    <2>2. (p + 1)..l = {}
      BY <1>10
    <2> QED
      BY <1>4, <1>6, <2>1, <2>2
  <1>11. ASSUME p # l
         PROVE  /\ node[x].next # end /\ node[x].next \in NodesOf(c) /\ node[x].next \notin {x, n}
                /\ RestOf(c, x) = {node[x].next} \cup RestOf(c, node[x].next)
                /\ node[x].next \notin RestOf(c, node[x].next)
    <2>1. p + 1 \in 1..l /\ p + 1 # p /\ p + 1 # 1 /\ 1 \in 1..l
      BY <1>11
    <2>2. node[x].next = c[p + 1] /\ n = c[1]
      BY <1>1, <1>2, <1>3, <1>4, <2>1 DEF After
    <2>3. c[p + 1] # end /\ c[p + 1] # c[p] /\ c[p + 1] # c[1] /\ c[p + 1] \in NodesOf(c)
      BY <1>3, <1>5, <2>1
    <2>4. RestOf(c, x) = {c[i] : i \in (p + 1)..l} /\ RestOf(c, c[p + 1]) = {c[i] : i \in ((p + 1) + 1)..l}
      BY <1>4, <1>6, <2>1
    <2>5. (p + 1)..l = {p + 1} \cup ((p + 1) + 1)..l
      BY <2>1
    <2>6. RestOf(c, x) = {c[p + 1]} \cup RestOf(c, c[p + 1])
      BY <2>4, <2>5
    <2>7. c[p + 1] \notin RestOf(c, c[p + 1])
      BY <1>7, <2>1, <2>4
    <2> QED
      BY <1>4, <2>2, <2>3, <2>6, <2>7
  <1> QED
    BY <1>8, <1>9, <1>10, <1>11, <1>12

\* A node linked in after the first one.
LEMMA LinkedInsert ==
  ASSUME NEW c, NEW node, NEW n, NEW end, Linked(c, node, n, end), n \in NodesOf(c),
         NEW node2, NEW new, new \in DOMAIN node2, new \notin NodesOf(c), new # end,
         NodesOf(c) \subseteq DOMAIN node2,
         node2[n].next = new, node2[new].next = node[n].next,
         \A x \in NodesOf(c) \ {n} : node2[x].next = node[x].next
  PROVE  \E d : /\ Linked(d, node2, n, end) /\ NodesOf(d) = NodesOf(c) \cup {new}
                /\ \A x \in NodesOf(c) \ {n} : RestOf(d, x) = RestOf(c, x)
  <1>1. c \in Seq(DOMAIN node) /\ n = After(c, 1, end)
    BY DEF Linked
  <1>2. PICK l \in Nat : l = Len(c)
    BY <1>1
  <1>3. /\ \A i \in 1..l : c[i] \in DOMAIN node /\ c[i] # end /\ node[c[i]].next = After(c, i + 1, end)
        /\ \A i, j \in 1..l : c[i] = c[j] => i = j
    BY <1>1, <1>2 DEF Linked
  <1>4. NodesOf(c) = {c[i] : i \in 1..l}
    BY <1>2 DEF NodesOf
  <1>5. 1 \in 1..l /\ c[1] = n
    <2>1. \E i \in 1..l : TRUE
      BY <1>4
    <2> QED
      BY <1>1, <1>2, <2>1 DEF After
  <1>6. PICK d : d = [i \in 1..(l + 1) |-> IF i = 1 THEN n ELSE IF i = 2 THEN new ELSE c[i - 1]]
    OBVIOUS
  <1>7. \A i \in 1..(l + 1) : i \notin {1, 2} => i - 1 \in 1..l /\ i - 1 # 1
    OBVIOUS
  <1>8. /\ d \in Seq(DOMAIN node2) /\ Len(d) = l + 1 /\ d[1] = n /\ d[2] = new
        /\ \A i \in 1..(l + 1) : i \notin {1, 2} => d[i] = c[i - 1]
    <2>1. \A i \in 1..(l + 1) : (IF i = 1 THEN n ELSE IF i = 2 THEN new ELSE c[i - 1]) \in DOMAIN node2
      BY <1>4, <1>5, <1>7
    <2>2. 1 \in 1..(l + 1) /\ 2 \in 1..(l + 1)
      BY <1>5
    <2>3. d \in Seq(DOMAIN node2) /\ Len(d) = l + 1
      BY <1>6, <2>1
    <2> QED
      BY <1>6, <2>2, <2>3
  <1>9. ASSUME NEW i \in 1..(l + 1)
        PROVE  /\ d[i] \in NodesOf(c) \cup {new} /\ d[i] # end
               /\ i \notin {1, 2} => d[i] # n /\ d[i] # new /\ d[i] = c[i - 1]
    <2>1. CASE i \in {1, 2}
      BY <2>1, <1>3, <1>5, <1>8
    <2>2. CASE i \notin {1, 2}
      <3>1. i - 1 \in 1..l /\ i - 1 # 1 /\ d[i] = c[i - 1]
        BY <2>2, <1>7, <1>8
      <3>2. c[i - 1] \in NodesOf(c)
        BY <3>1, <1>4
      <3>3. c[i - 1] # end /\ c[i - 1] # c[1]
        BY <3>1, <1>3, <1>5
      <3> QED
        BY <2>2, <3>1, <3>2, <3>3, <1>5
    <2> QED
      BY <2>1, <2>2
  <1>10. \A i, j \in 1..(l + 1) : d[i] = d[j] => i = j
    <2> TAKE i, j \in 1..(l + 1)
    <2>1. i \notin {1, 2} => d[i] # n /\ d[i] # new
      BY <1>9
    <2>2. j \notin {1, 2} => d[j] # n /\ d[j] # new
      BY <1>9
    <2>3. n # new
      BY <1>4, <1>5
    <2>4. i \notin {1, 2} /\ j \notin {1, 2} => (d[i] = d[j] => i - 1 = j - 1)
      BY <1>3, <1>7, <1>9
    <2> QED
      BY <1>8, <2>1, <2>2, <2>3, <2>4
  <1>11. NodesOf(d) = NodesOf(c) \cup {new}
    <2>1. NodesOf(d) = {d[i] : i \in 1..(l + 1)}
      BY <1>8 DEF NodesOf
    <2>2. ASSUME NEW i \in 1..l PROVE \E k \in 1..(l + 1) : d[k] = c[i]
      <3>1. CASE i = 1
        BY <3>1, <1>5, <1>8
      <3>2. CASE i # 1
        <4>1. i + 1 \in 1..(l + 1) /\ i + 1 \notin {1, 2} /\ (i + 1) - 1 = i
          BY <3>2
        <4> QED
          BY <4>1, <1>8
      <3> QED
        BY <3>1, <3>2
    <2>3. 2 \in 1..(l + 1)
      BY <1>5
    <2>4. \A z \in NodesOf(c) : \E k \in 1..(l + 1) : d[k] = z
      BY <1>4, <2>2
    <2>5. \A z \in NodesOf(d) : z \in NodesOf(c) \cup {new}
      BY <1>9, <2>1
    <2>6. new \in NodesOf(d) /\ NodesOf(c) \subseteq NodesOf(d)
      BY <1>8, <2>1, <2>3, <2>4
    <2> QED
      BY <2>5, <2>6
  <1>12. ASSUME NEW i \in 1..(l + 1) PROVE node2[d[i]].next = After(d, i + 1, end)
    <2>1. CASE i = 1
      <3>1. 1 + 1 <= l + 1 /\ 1 + 1 = 2
        BY <1>5
      <3> QED
        BY <2>1, <3>1, <1>8 DEF After
    <2>2. CASE i # 1
      <3>1. i - 1 \in 1..l /\ (i - 1) + 1 = i /\ (i + 1) - 1 = i
        BY <2>2
      <3>2. node2[d[i]].next = node[c[i - 1]].next
        <4>1. CASE i = 2
          BY <4>1, <1>5, <1>8
        <4>2. CASE i # 2
          BY <4>2, <2>2, <3>1, <1>3, <1>4, <1>5, <1>7, <1>8
        <4> QED
          BY <4>1, <4>2
      <3>3. node[c[i - 1]].next = After(c, i, end)
        BY <1>3, <3>1
      <3>4. After(d, i + 1, end) = After(c, i, end)
        <4>1. CASE i <= l
          <5>1. i + 1 \in 1..(l + 1) /\ i + 1 \notin {1, 2}
            BY <2>2, <4>1
          <5> QED
            BY <4>1, <5>1, <3>1, <1>2, <1>8 DEF After
        <4>2. CASE ~(i <= l)
          BY <4>2, <1>2, <1>8 DEF After
        <4> QED
          BY <4>1, <4>2
      <3> QED
        BY <3>2, <3>3, <3>4
    <2> QED
      BY <2>1, <2>2
  <1>13. Linked(d, node2, n, end)
    <2>1. n = After(d, 1, end)
      BY <1>5, <1>8 DEF After
    <2> QED
      BY <1>8, <1>9, <1>10, <1>12, <2>1 DEF Linked
  <1>14. ASSUME NEW x \in NodesOf(c) \ {n} PROVE RestOf(d, x) = RestOf(c, x)
    <2>1. PICK j \in 1..l : c[j] = x /\ j # 1
      BY <1>4, <1>5
    <2>2. RestOf(c, c[j]) = {c[i] : i \in (j + 1)..l}
      <3>1. Len(c) \in Nat /\ j \in 1..Len(c) /\ \A i, k \in 1..Len(c) : c[i] = c[k] => i = k
        BY <1>2, <1>3
      <3>2. RestOf(c, c[j]) = Later(c, j)
        BY ONLY <3>1, RestIs
      <3> QED
        BY <1>2, <3>2 DEF Later
    <2>3. j + 1 \in 1..(l + 1) /\ j + 1 \notin {1, 2} /\ (j + 1) - 1 = j /\ l + 1 \in Nat
      BY <2>1
    <2>4. d[j + 1] = x
      BY <1>8, <2>1, <2>3
    <2>5. RestOf(d, d[j + 1]) = {d[i] : i \in ((j + 1) + 1)..(l + 1)}
      <3>1. /\ Len(d) \in Nat /\ j + 1 \in 1..Len(d)
            /\ \A i, k \in 1..Len(d) : d[i] = d[k] => i = k
        BY <1>8, <1>10, <2>3
      <3>2. RestOf(d, d[j + 1]) = Later(d, j + 1)
        BY ONLY <3>1, RestIs
      <3> QED
        BY <1>8, <3>2 DEF Later
    <2>6. \A i \in ((j + 1) + 1)..(l + 1) : i - 1 \in (j + 1)..l /\ i \in 1..(l + 1) /\ i \notin {1, 2}
      BY <2>1
    <2>7. \A i \in (j + 1)..l : i + 1 \in ((j + 1) + 1)..(l + 1) /\ (i + 1) - 1 = i
      OBVIOUS
    <2>8. {d[i] : i \in ((j + 1) + 1)..(l + 1)} = {c[i] : i \in (j + 1)..l}
      <3>1. \A i \in ((j + 1) + 1)..(l + 1) : d[i] = c[i - 1]
        BY <1>8, <2>6
      <3>2. \A i \in (j + 1)..l : d[i + 1] = c[i]
        BY <2>7, <3>1
      <3> QED
        BY <2>6, <2>7, <3>1, <3>2
    <2> QED
      BY <2>1, <2>2, <2>4, <2>5, <2>8
  <1> QED
    BY <1>11, <1>13, <1>14

\* A node that is taken out.
LEMMA LinkedRemove ==
  ASSUME NEW c, NEW node, NEW n, NEW end, Linked(c, node, n, end),
         NEW x \in NodesOf(c), NEW y \in NodesOf(c), node[x].next = y,
         NEW node2, NodesOf(c) \subseteq DOMAIN node2, node2[x].next = node[y].next,
         \A z \in NodesOf(c) \ {x} : node2[z].next = node[z].next
  PROVE  \E d : /\ Linked(d, node2, n, end) /\ NodesOf(d) = NodesOf(c) \ {y}
                /\ \A z \in NodesOf(d) : RestOf(d, z) = RestOf(c, z) \ {y}
  <1>1. c \in Seq(DOMAIN node) /\ n = After(c, 1, end)
    BY DEF Linked
  <1>2. PICK l \in Nat : l = Len(c)
    BY <1>1
  <1>3. /\ \A i \in 1..l : c[i] \in DOMAIN node /\ c[i] # end /\ node[c[i]].next = After(c, i + 1, end)
        /\ \A i, j \in 1..l : c[i] = c[j] => i = j
    BY <1>1, <1>2 DEF Linked
  <1>4. NodesOf(c) = {c[i] : i \in 1..l}
    BY <1>2 DEF NodesOf
  <1>5. PICK p \in 1..l : c[p] = x
    BY <1>4
  <1>6. p + 1 \in 1..l /\ c[p + 1] = y
    <2>1. node[c[p]].next = After(c, p + 1, end) /\ y # end
      BY <1>3, <1>4
    <2> QED
      BY <1>2, <1>5, <2>1 DEF After
  <1>7. PICK d : d = [i \in 1..(l - 1) |-> IF i <= p THEN c[i] ELSE c[i + 1]]
    OBVIOUS
  <1>8. \A i \in 1..(l - 1) : i \in 1..l /\ i + 1 \in 1..l /\ i # l
    OBVIOUS
  <1>9. /\ d \in Seq(DOMAIN node2) /\ Len(d) = l - 1 /\ l - 1 \in Nat
        /\ \A i \in 1..(l - 1) : i <= p => d[i] = c[i]
        /\ \A i \in 1..(l - 1) : ~(i <= p) => d[i] = c[i + 1]
    <2>1. \A i \in 1..(l - 1) : (IF i <= p THEN c[i] ELSE c[i + 1]) \in DOMAIN node2
      BY <1>4, <1>8
    <2>2. l - 1 \in Nat
      BY <1>6
    <2> QED
      BY <1>7, <2>1, <2>2
  <1>10. \A i \in 1..(l - 1) : d[i] \in NodesOf(c) /\ d[i] # y /\ d[i] # end
    <2> TAKE i \in 1..(l - 1)
    <2>1. PICK k \in 1..l : d[i] = c[k] /\ k # p + 1
      BY <1>8, <1>9
    <2>2. c[k] \in NodesOf(c)
      BY <1>4
    <2>3. c[k] # c[p + 1] /\ c[k] # end
      BY <1>3, <1>6, <2>1
    <2> QED
      BY <1>6, <2>1, <2>2, <2>3
  <1>11. \A i, j \in 1..(l - 1) : d[i] = d[j] => i = j
    <2> TAKE i, j \in 1..(l - 1)
    <2>1. CASE i <= p /\ j <= p
      BY <2>1, <1>3, <1>8, <1>9
    <2>2. CASE i <= p /\ ~(j <= p)
      <3>1. i # j + 1 /\ i \in 1..l /\ j + 1 \in 1..l
        BY <2>2, <1>8
      <3>2. d[i] = c[i] /\ d[j] = c[j + 1]
        BY <2>2, <1>9
      <3> QED
        BY <3>1, <3>2, <1>3
    <2>3. CASE ~(i <= p) /\ j <= p
      <3>1. i + 1 # j
        BY <2>3
      <3> QED
        BY <2>3, <3>1, <1>3, <1>8, <1>9
    <2>4. CASE ~(i <= p) /\ ~(j <= p)
      <3>1. d[i] = d[j] => i + 1 = j + 1
        BY <2>4, <1>3, <1>8, <1>9
      <3> QED
        BY <3>1
    <2> QED
      BY <2>1, <2>2, <2>3, <2>4
  \* A node other than y is in d where it is in c, or one place earlier.
  <1>12. ASSUME NEW i \in 1..l, i # p + 1
         PROVE  \/ i <= p /\ i \in 1..(l - 1) /\ d[i] = c[i]
                \/ ~(i <= p) /\ i - 1 \in 1..(l - 1) /\ ~(i - 1 <= p) /\ d[i - 1] = c[i]
    <2>1. CASE i <= p
      <3>1. i \in 1..(l - 1)
        BY <2>1, <1>6
      <3> QED
        BY <2>1, <3>1, <1>9
    <2>2. CASE ~(i <= p)
      <3>1. i - 1 \in 1..(l - 1) /\ ~(i - 1 <= p) /\ (i - 1) + 1 = i
        BY <2>2, <1>12
      <3> QED
        BY <2>2, <3>1, <1>9
    <2> QED
      BY <2>1, <2>2
  <1>13. NodesOf(d) = NodesOf(c) \ {y}
    <2>1. NodesOf(d) = {d[i] : i \in 1..(l - 1)}
      BY <1>9 DEF NodesOf
    <2>2. ASSUME NEW z \in NodesOf(c) \ {y} PROVE z \in {d[i] : i \in 1..(l - 1)}
      <3>1. PICK i \in 1..l : c[i] = z /\ i # p + 1
        BY <1>4, <1>6
      <3> QED
        BY <3>1, <1>12
    <2> QED
      BY <1>10, <2>1, <2>2
  <1>14. ASSUME NEW i \in 1..(l - 1) PROVE node2[d[i]].next = After(d, i + 1, end)
    <2>1. CASE i < p
      <3>1. i <= p /\ i + 1 <= p /\ i + 1 \in 1..(l - 1) /\ i \in 1..l /\ i # p /\ i + 1 <= l
        BY <2>1, <1>6
      <3>2. d[i] = c[i] /\ d[i + 1] = c[i + 1] /\ c[i] \in NodesOf(c) \ {x}
        BY <3>1, <1>3, <1>4, <1>5, <1>9
      <3>3. node[c[i]].next = c[i + 1]
        BY <3>1, <1>2, <1>3 DEF After
      <3>4. After(d, i + 1, end) = d[i + 1]
        BY <3>1, <1>9 DEF After
      <3> QED
        BY <3>2, <3>3, <3>4
    <2>2. CASE i = p
      <3>1. d[i] = x /\ (p + 1) + 1 = p + 2
        BY <2>2, <1>5, <1>9
      <3>2. node2[x].next = After(c, p + 2, end)
        BY <1>3, <1>6, <3>1
      <3>3. After(d, p + 1, end) = After(c, p + 2, end)
        <4>1. CASE p + 2 <= l
          <5>1. p + 1 \in 1..(l - 1) /\ ~(p + 1 <= p)
            BY <4>1
          <5> QED
            BY <4>1, <5>1, <3>1, <1>2, <1>9 DEF After
        <4>2. CASE ~(p + 2 <= l)
          BY <4>2, <1>2, <1>9 DEF After
        <4> QED
          BY <4>1, <4>2
      <3> QED
        BY <2>2, <3>1, <3>2, <3>3
    <2>3. CASE i > p
      <3>1. ~(i <= p) /\ i + 1 \in 1..l /\ i + 1 # p /\ ~(i + 1 <= p) /\ (i + 1) + 1 = i + 2
        BY <2>3
      <3>2. d[i] = c[i + 1] /\ c[i + 1] \in NodesOf(c) \ {x}
        BY <3>1, <1>3, <1>4, <1>5, <1>9
      <3>3. node[c[i + 1]].next = After(c, i + 2, end)
        BY <3>1, <1>3
      <3>4. After(d, i + 1, end) = After(c, i + 2, end)
        <4>1. CASE i + 2 <= l
          <5>1. i + 1 \in 1..(l - 1)
            BY <4>1
          <5> QED
            BY <4>1, <5>1, <3>1, <1>2, <1>9 DEF After
        <4>2. CASE ~(i + 2 <= l)
          BY <4>2, <1>2, <1>9 DEF After
        <4> QED
          BY <4>1, <4>2
      <3> QED
        BY <3>2, <3>3, <3>4
    <2> QED
      BY <2>1, <2>2, <2>3
  <1>15. Linked(d, node2, n, end)
    <2>1. n = After(d, 1, end)
      <3>1. 1 <= p /\ 1 \in 1..(l - 1) /\ 1 \in 1..l
        BY <1>6
      <3> QED
        BY <3>1, <1>1, <1>2, <1>9 DEF After
    <2> QED
      BY <1>9, <1>10, <1>11, <1>14, <2>1 DEF Linked
  <1>16. ASSUME NEW z \in NodesOf(d) PROVE RestOf(d, z) = RestOf(c, z) \ {y}
    <2>1. PICK j \in 1..(l - 1) : d[j] = z
      BY <1>9 DEF NodesOf
    <2>2. RestOf(d, d[j]) = {d[i] : i \in (j + 1)..(l - 1)}
      <3>1. Len(d) \in Nat /\ j \in 1..Len(d) /\ \A i, k \in 1..Len(d) : d[i] = d[k] => i = k
        BY <1>9, <1>11
      <3>2. RestOf(d, d[j]) = Later(d, j)
        BY ONLY <3>1, RestIs
      <3> QED
        BY <1>9, <3>2 DEF Later
    <2>3. PICK k \in 1..l : /\ d[j] = c[k] /\ k # p + 1
                            /\ j <= p => k = j
                            /\ ~(j <= p) => k = j + 1
      BY <1>8, <1>9
    <2>4. RestOf(c, c[k]) = {c[i] : i \in (k + 1)..l}
      <3>1. Len(c) \in Nat /\ k \in 1..Len(c) /\ \A i, m \in 1..Len(c) : c[i] = c[m] => i = m
        BY <1>2, <1>3
      <3>2. RestOf(c, c[k]) = Later(c, k)
        BY ONLY <3>1, RestIs
      <3> QED
        BY <1>2, <3>2 DEF Later
    <2>5. ASSUME NEW i \in (j + 1)..(l - 1) PROVE d[i] \in {c[m] : m \in (k + 1)..l} \ {y}
      <3>1. i \in 1..(l - 1)
        OBVIOUS
      <3>2. CASE i <= p
        <4>1. i \in (k + 1)..l
          BY <3>2, <2>3, <1>6
        <4> QED
          BY <3>1, <3>2, <4>1, <1>9, <1>10
      <3>3. CASE ~(i <= p)
        <4>1. i + 1 \in (k + 1)..l
          BY <3>3, <2>3
        <4> QED
          BY <3>1, <3>3, <4>1, <1>9, <1>10
      <3> QED
        BY <3>2, <3>3
    <2>6. ASSUME NEW m \in (k + 1)..l, c[m] # y PROVE c[m] \in {d[i] : i \in (j + 1)..(l - 1)}
      <3>1. m \in 1..l /\ m # p + 1
        BY <2>6, <1>6
      <3>2. \/ m <= p /\ m \in 1..(l - 1) /\ d[m] = c[m]
            \/ ~(m <= p) /\ m - 1 \in 1..(l - 1) /\ ~(m - 1 <= p) /\ d[m - 1] = c[m]
        BY <3>1, <1>12
      <3>3. CASE m <= p
        <4>1. m \in (j + 1)..(l - 1) /\ d[m] = c[m]
          BY <3>2, <3>3, <2>3
        <4> QED
          BY <4>1
      <3>4. CASE ~(m <= p)
        <4>1. m - 1 \in (j + 1)..(l - 1) /\ d[m - 1] = c[m]
          BY <3>2, <3>4, <2>3
        <4> QED
          BY <4>1
      <3> QED
        BY <3>3, <3>4
    <2>7. {d[i] : i \in (j + 1)..(l - 1)} = {c[m] : m \in (k + 1)..l} \ {y}
      BY <2>5, <2>6
    <2> QED
      BY <2>1, <2>2, <2>3, <2>4, <2>7
  <1> QED
    BY <1>13, <1>15, <1>16

\* What a change of the list leaves to the one who has the mutex of node n.
Kept(c, d, n) ==
    /\ n \in NodesOf(d) /\ mem'.node[n].m = mem.node[n].m
    /\ mem'.node[n].data = mem.node[n].data /\ mem'.node[n].next = mem.node[n].next
    /\ DataIn(RestOf(d, n))' \subseteq DataIn(RestOf(c, n))
    /\ DataIn(RestOf(c, n)) \subseteq DataIn(RestOf(d, n))' \cup mem'.removed

\* The others go on with the nodes they have the mutexes of.
LEMMA WalkOthers ==
  ASSUME NEW c, NEW d, NEW u \in Thread, WalkSafe(c, u), List!head \in NodesOf(c),
         th'[u] = th[u], mem.removed \subseteq mem'.removed,
         \A n \in NodesOf(c) : mem.node[n].m = u => Kept(c, d, n)
  PROVE  WalkSafe(d, u)' /\ WalkPrivate(u)' = WalkPrivate(u)
  <1>1. WalkPrivate(u)' = WalkPrivate(u)
    BY DEF WalkPrivate
  <1>2. WalkHolds(c, u)
    BY DEF WalkSafe
  <1>3. WalkHolds(d, u)'
    BY <1>2 DEF WalkHolds, Kept, Walkers
  <1>4. WalkSees(u) => WalkSees(u)'
    BY DEF WalkSees
  <1>5. MatchesGone(u) => MatchesGone(u)'
    BY DEF MatchesGone
  <1>6. ASSUME th[u].pc \in Walkers
        PROVE  /\ DataIn(Ahead(d, u))' \subseteq DataIn(Ahead(c, u))
               /\ DataIn(Ahead(c, u)) \subseteq DataIn(Ahead(d, u))' \cup mem'.removed
    <2>1. CASE th[u].pc = "call"
      <3>1. PICK n : n = th[u].next
        OBVIOUS
      <3>2. n \in NodesOf(c) /\ mem.node[n].m = u
        BY <1>2, <2>1, <3>1 DEF WalkHolds
      <3>3. Kept(c, d, n)
        BY <3>2
      <3>4. Ahead(c, u) = {n} \cup RestOf(c, n) /\ Ahead(d, u)' = {n} \cup RestOf(d, n)
        BY <2>1, <3>1 DEF Ahead
      <3>5. DataIn(Ahead(c, u)) = {mem.node[n].data} \cup DataIn(RestOf(c, n))
        BY <3>4 DEF DataIn
      <3>6. DataIn(Ahead(d, u))' = {mem'.node[n].data} \cup DataIn(RestOf(d, n))'
        BY <3>4 DEF DataIn
      <3> QED
        BY <3>3, <3>5, <3>6 DEF Kept
    <2>2. CASE th[u].pc # "call"
      <3>1. PICK n : n = th[u].current
        OBVIOUS
      <3>2. n \in NodesOf(c) /\ mem.node[n].m = u
        BY <1>2, <1>6, <2>2, <3>1 DEF WalkHolds
      <3>3. Kept(c, d, n)
        BY <3>2
      <3>4. Ahead(c, u) = RestOf(c, n) /\ Ahead(d, u)' = RestOf(d, n)
        BY <2>2, <3>1 DEF Ahead
      <3>5. DataIn(Ahead(c, u)) = DataIn(RestOf(c, n)) /\ DataIn(Ahead(d, u))' = DataIn(RestOf(d, n))'
        BY <3>4 DEF DataIn
      <3> QED
        BY <3>3, <3>5 DEF Kept
    <2> QED
      BY <2>1, <2>2
  <1>7. th[u].pc \in Walkers \cup {"end"} =>
          WalkSees(u)' /\ Head(th'[u].todo) \in {"for_each", "find_first_if", "remove_if"}
    BY <1>4 DEF WalkSafe
  <1>8. ASSUME th[u].pc \in Walkers
        PROVE  /\ MatchesGone(u)'
               /\ ToSet(th'[u].seen) \cap DataIn(Ahead(d, u))' = {}
               /\ th'[u].start \subseteq ToSet(th'[u].seen) \cup mem'.removed \cup DataIn(Ahead(d, u))'
    BY <1>5, <1>6, <1>8 DEF WalkSafe
  <1>9. th[u].pc = "end" =>
          /\ "found" \in DOMAIN th'[u]
          /\ th'[u].found = Null =>
                MatchesGone(u)' /\ th'[u].start \subseteq ToSet(th'[u].seen) \cup mem'.removed
    BY <1>5 DEF WalkSafe
  <1>10. WalkSafe(d, u)'
    BY <1>3, <1>7, <1>8, <1>9 DEF WalkSafe
  <1> QED
    BY <1>1, <1>10

\* A step of one thread that turns the list c into d.
LEMMA WalkStep ==
  ASSUME NEW c, NEW d, WalkAll(c), NEW t \in Thread, Threading', WalkMemory', WalkList(d)',
         \A u \in Thread : u # t => th'[u] = th[u], mem.removed \subseteq mem'.removed,
         List!head \in NodesOf(c),
         \A n \in NodesOf(c) : mem.node[n].m \in Thread \ {t} => Kept(c, d, n),
         WalkSafe(d, t)', WalkPrivate(t)' \subseteq DOMAIN mem'.node \ NodesOf(d),
         \A u \in Thread : u # t => /\ WalkPrivate(u) \subseteq DOMAIN mem'.node \ NodesOf(d)
                                    /\ WalkPrivate(t)' \cap WalkPrivate(u) = {}
  PROVE  WalkInv'
  <1>1. ASSUME NEW u \in Thread, u # t
        PROVE  WalkSafe(d, u)' /\ WalkPrivate(u)' = WalkPrivate(u)
    <2>1. WalkSafe(c, u) /\ th'[u] = th[u]
      BY <1>1 DEF WalkAll
    <2>2. \A n \in NodesOf(c) : mem.node[n].m = u => Kept(c, d, n)
      BY <1>1
    <2> QED
      BY <2>1, <2>2, WalkOthers
  <1>2. ASSUME NEW u \in Thread, NEW v \in Thread, u # v
        PROVE  WalkPrivate(u)' \cap WalkPrivate(v)' = {}
    <2>1. CASE u # t /\ v # t
      BY <1>1, <1>2, <2>1 DEF WalkAll
    <2>2. CASE u = t
      BY <1>1, <1>2, <2>2
    <2>3. CASE v = t
      BY <1>1, <1>2, <2>3
    <2> QED
      BY <2>1, <2>2, <2>3
  <1>3. \A u \in Thread : WalkSafe(d, u)'
    BY <1>1
  <1>4. \A u \in Thread : WalkPrivate(u)' \subseteq DOMAIN mem'.node \ NodesOf(d)
    BY <1>1
  <1>5. NodesOf(d)' = NodesOf(d)
    BY DEF NodesOf
  <1>6. WalkAll(d)'
    BY <1>2, <1>3, <1>4, <1>5 DEF WalkAll
  <1> QED
    BY <1>6 DEF WalkInv

\* A step that changes only mutexes.
SameShape ==
    /\ {"node", "removed"} \subseteq DOMAIN mem' /\ mem'.removed = mem.removed
    /\ DOMAIN mem'.node = DOMAIN mem.node
    /\ \A n \in DOMAIN mem.node : /\ mem'.node[n] \in Links
                                  /\ mem'.node[n].data = mem.node[n].data
                                  /\ mem'.node[n].next = mem.node[n].next

LEMMA SameList ==
  ASSUME WalkMemory, SameShape, Old \subseteq Old', NEW c, WalkList(c)
  PROVE  /\ WalkMemory' /\ WalkList(c)'
         /\ \A S \in SUBSET NodesOf(c) : DataIn(S)' = DataIn(S)
         /\ \A n \in NodesOf(c) : mem'.node[n].m = mem.node[n].m => Kept(c, c, n)
         /\ List!head \in NodesOf(c) => NodesOf(c) \subseteq DOMAIN mem.node
  <1>1. Linked(c, mem.node, List!head, Null)
    BY DEF WalkList
  <1>2. NodesOf(c) \subseteq DOMAIN mem.node /\ \A i \in 1..Len(c) : c[i] \in NodesOf(c)
    <2>1. c \in Seq(DOMAIN mem.node)
      BY <1>1 DEF Linked
    <2> QED
      BY <2>1 DEF NodesOf
  <1>3. WalkMemory'
    BY DEF WalkMemory, SameShape
  <1>4. Linked(c, mem'.node, List!head, Null)
    <2>1. PICK node, node2, n : node = mem.node /\ node2 = mem'.node /\ n = List!head
      OBVIOUS
    <2>2. \A i \in 1..Len(c) : c[i] \in DOMAIN node2 /\ node2[c[i]].next = node[c[i]].next
      BY <1>2, <2>1 DEF SameShape
    <2>3. Linked(c, node, n, Null)
      BY <1>1, <2>1
    <2>4. Linked(c, node2, n, Null)
      BY ONLY <2>2, <2>3, LinkedStays
    <2> QED
      BY <2>1, <2>4
  <1>5. WalkList(c)'
    <2>1. NodesOf(c)' = NodesOf(c) /\ List!head' = List!head
      BY DEF NodesOf, List!head
    <2>2. \A n \in NodesOf(c) : mem'.node[n].data = mem.node[n].data
      BY <1>2 DEF SameShape
    <2>3. mem'.removed = mem.removed
      BY DEF SameShape
    <2> QED
      BY <1>4, <2>1, <2>2, <2>3 DEF WalkList
  <1>6. ASSUME NEW S \in SUBSET NodesOf(c) PROVE DataIn(S)' = DataIn(S)
    BY <1>2 DEF DataIn, SameShape
  <1>7. ASSUME NEW n \in NodesOf(c), mem'.node[n].m = mem.node[n].m PROVE Kept(c, c, n)
    <2>1. RestOf(c, n) \in SUBSET NodesOf(c)
      BY DEF RestOf, NodesOf
    <2>2. DataIn(RestOf(c, n))' = DataIn(RestOf(c, n))
      BY <1>6, <2>1
    <2>3. n \in DOMAIN mem.node
      BY <1>2
    <2> QED
      BY <1>7, <2>2, <2>3 DEF Kept, SameShape
  <1> QED
    BY <1>2, <1>3, <1>5, <1>6, <1>7

\* The list has its head, which is never taken out.
LEMMA HeadIs ==
  ASSUME ThreadsafeAssumption, NEW c, WalkList(c)
  PROVE  /\ List!head \in NodesOf(c) /\ NodesOf(c) \subseteq DOMAIN mem.node /\ Null \notin NodesOf(c)
         /\ Linked(c, mem.node, List!head, Null)
  <1>1. Linked(c, mem.node, List!head, Null)
    BY DEF WalkList
  <1>2. List!head # Null
    BY DEF List!head, ThreadsafeAssumption
  <1>3. c[1] = List!head /\ Len(c) \in Nat /\ Len(c) > 0
    BY ONLY <1>1, <1>2, LinkedRest
  <1>4. List!head \in NodesOf(c)
    <2>1. 1 \in 1..Len(c)
      BY <1>3
    <2> QED
      BY <1>3, <2>1 DEF NodesOf
  <1>5. NodesOf(c) \subseteq DOMAIN mem.node /\ Null \notin NodesOf(c)
    BY <1>1 DEF Linked, NodesOf
  <1> QED
    BY <1>1, <1>4, <1>5

LEMMA WalkSame ==
  ASSUME ThreadsafeAssumption, WalkMemory, NEW c, WalkAll(c), NEW t \in Thread, Threading', SameShape,
         \A u \in Thread : u # t => th'[u] = th[u], Old \subseteq Old',
         \A n \in NodesOf(c) : mem.node[n].m \in Thread \ {t} => mem'.node[n].m = mem.node[n].m,
         WalkSafe(c, t)', WalkPrivate(t)' \subseteq WalkPrivate(t)
  PROVE  WalkInv'
  <1>1. WalkList(c)
    BY DEF WalkAll
  <1>2. /\ WalkMemory' /\ WalkList(c)'
        /\ \A n \in NodesOf(c) : mem'.node[n].m = mem.node[n].m => Kept(c, c, n)
    BY <1>1, SameList
  <1>3. List!head \in NodesOf(c)
    BY <1>1, HeadIs
  <1>4. \A n \in NodesOf(c) : mem.node[n].m \in Thread \ {t} => Kept(c, c, n)
    BY <1>2
  <1>5. mem.removed \subseteq mem'.removed /\ DOMAIN mem'.node = DOMAIN mem.node
    BY DEF SameShape
  <1>6. WalkPrivate(t)' \subseteq DOMAIN mem'.node \ NodesOf(c)
    BY <1>5 DEF WalkAll
  <1>7. \A u \in Thread : u # t => /\ WalkPrivate(u) \subseteq DOMAIN mem'.node \ NodesOf(c)
                                   /\ WalkPrivate(t)' \cap WalkPrivate(u) = {}
    BY <1>5 DEF WalkAll
  <1> QED
    BY <1>2, <1>3, <1>4, <1>5, <1>6, <1>7, WalkStep

\* Steps of a thread that goes on.
LEMMA WalkGoesOn ==
  ASSUME Threading, NEW t \in Thread, NEW place, NEW shared, NEW own,
         List!Step(t, place, shared, own), place # "done", "todo" \notin DOMAIN own,
         "pc" \in DOMAIN own, own.pc \notin Operations \cup {"done"}
  PROVE  /\ th[t].pc = place /\ Threading' /\ Old' = Old /\ mem' = Threads!Over(shared, mem)
         /\ \A u \in Thread : u # t => th'[u] = th[u]
         /\ \A x \in DOMAIN own : x \in DOMAIN th'[t] /\ th'[t][x] = own[x]
         /\ \A x \in DOMAIN th[t] : x \notin DOMAIN own => x \in DOMAIN th'[t] /\ th'[t][x] = th[t][x]
         /\ th'[t].todo = th[t].todo
  <1>1. th[t].pc = place /\ GoesOn(t, shared, own)
    BY StepsAre DEF Threading
  <1>2. /\ Threading'
        /\ \A x \in DOMAIN own : x \in DOMAIN th'[t] /\ th'[t][x] = own[x]
        /\ \A x \in DOMAIN th[t] : x \notin DOMAIN own => x \in DOMAIN th'[t] /\ th'[t][x] = th[t][x]
        /\ th'[t].todo = th[t].todo
    BY <1>1, GoesOnIs
  <1>3. mem' = Threads!Over(shared, mem) /\ \A u \in Thread : u # t => th'[u] = th[u]
    BY <1>1 DEF GoesOn, Changes
  <1>4. \A u \in Thread : th'[u].todo = th[u].todo
    BY <1>2, <1>3
  <1>5. \A v \in Values : th'[v[1]].todo = th[v[1]].todo
    BY <1>4 DEF Values
  <1>6. Old' = Old
    BY <1>5 DEF Old
  <1> QED
    BY <1>1, <1>2, <1>3, <1>6

\* A mutex that is locked or unlocked, or no change at all.
LEMMA HoldIs ==
  ASSUME WalkMemory, NEW n \in DOMAIN mem.node, NEW w \in Thread \cup {Null}, NEW shared,
         shared = [node |-> List!Hold(mem.node, n, w)], mem' = Threads!Over(shared, mem)
  PROVE  /\ SameShape /\ mem'.node[n].m = w
         /\ \A x \in DOMAIN mem.node : x # n => mem'.node[x].m = mem.node[x].m
  <1>1. DOMAIN shared = {"node"} /\ shared.node = [mem.node EXCEPT ![n].m = w]
    BY DEF List!Hold
  <1>2. PICK node : node = [mem.node EXCEPT ![n].m = w]
    OBVIOUS
  <1>3. /\ DOMAIN mem' = {"node"} \cup DOMAIN mem /\ mem'.node = node
        /\ \A x \in DOMAIN mem : x # "node" => mem'[x] = mem[x]
    <2>1. /\ DOMAIN mem' = DOMAIN shared \cup DOMAIN mem
          /\ \A x \in DOMAIN shared : mem'[x] = shared[x]
          /\ \A x \in DOMAIN mem : x \notin DOMAIN shared => mem'[x] = mem[x]
      BY ONLY mem' = Threads!Over(shared, mem), MemIs
    <2> QED
      BY ONLY <1>1, <1>2, <2>1
  <1>4. "removed" \in DOMAIN mem' /\ mem'.removed = mem.removed
    BY <1>3 DEF WalkMemory
  <1>5. /\ DOMAIN node = DOMAIN mem.node /\ node[n] = [mem.node[n] EXCEPT !.m = w]
        /\ \A x \in DOMAIN mem.node : x # n => node[x] = mem.node[x]
    BY <1>2
  <1>6. mem.node[n] \in Links
    BY DEF WalkMemory
  <1>7. /\ node[n] \in Links /\ node[n].m = w /\ node[n].data = mem.node[n].data
        /\ node[n].next = mem.node[n].next
    BY <1>5, <1>6 DEF Links
  <1>8. \A x \in DOMAIN mem.node : /\ node[x] \in Links /\ node[x].data = mem.node[x].data
                                   /\ node[x].next = mem.node[x].next
    BY <1>5, <1>7 DEF WalkMemory
  <1>9. SameShape
    BY <1>3, <1>4, <1>5, <1>8 DEF SameShape
  <1> QED
    BY <1>3, <1>5, <1>7, <1>9

LEMMA SameIs ==
  ASSUME WalkMemory, mem' = Threads!Over(List!Same, mem)
  PROVE  SameShape /\ mem'.node = mem.node
  <1>1. DOMAIN List!Same = {}
    BY DEF List!Same
  <1>2. DOMAIN mem' = DOMAIN mem /\ \A x \in DOMAIN mem : mem'[x] = mem[x]
    BY <1>1, MemIs
  <1>3. {"node", "removed"} \subseteq DOMAIN mem
    BY DEF WalkMemory
  <1> QED
    BY <1>2, <1>3 DEF SameShape, WalkMemory

\* push_front locks the head.
LEMMA PushHeadSafe ==
  ASSUME ThreadsafeAssumption, WalkInv, NEW t \in Thread, List!PushLock(t)
  PROVE  WalkInv'
  <1>1. PICK c : WalkAll(c)
    BY DEF WalkInv
  <1>2. PICK shared, own : /\ shared = [node |-> List!Hold(mem.node, List!head, t)]
                           /\ own = [pc |-> "link"]
    OBVIOUS
  <1>3. List!Step(t, "push_front", shared, own) /\ mem.node[List!head].m = Null
    BY <1>2 DEF List!PushLock
  <1>4. Threading /\ WalkMemory /\ WalkList(c)
    BY <1>1 DEF WalkInv, WalkAll
  <1>5. List!head \in NodesOf(c) /\ NodesOf(c) \subseteq DOMAIN mem.node
    BY <1>4, HeadIs
  <1>6. DOMAIN own = {"pc"} /\ own.pc = "link" /\ own.pc \notin Operations \cup {"done"}
    BY <1>2 DEF Operations
  <1>7. /\ Threading' /\ Old' = Old /\ mem' = Threads!Over(shared, mem)
        /\ \A u \in Thread : u # t => th'[u] = th[u]
        /\ th'[t].pc = "link"
    <2>1. "todo" \notin DOMAIN own /\ "pc" \in DOMAIN own
      BY <1>6
    <2>2. /\ Threading' /\ Old' = Old /\ mem' = Threads!Over(shared, mem)
          /\ \A u \in Thread : u # t => th'[u] = th[u]
          /\ \A x \in DOMAIN own : x \in DOMAIN th'[t] /\ th'[t][x] = own[x]
      BY ONLY <1>3, <1>4, <1>6, <2>1, t \in Thread, "push_front" # "done", WalkGoesOn
    <2> QED
      BY <1>6, <2>2
  <1>8. /\ SameShape /\ mem'.node[List!head].m = t
        /\ \A x \in DOMAIN mem.node : x # List!head => mem'.node[x].m = mem.node[x].m
    BY <1>2, <1>4, <1>5, <1>7, HoldIs
  <1>9. WalkSafe(c, t)' /\ WalkPrivate(t)' = {}
    <2>1. List!head' = List!head
      BY DEF List!head
    <2> QED
      BY <1>7, <1>8, <2>1 DEF WalkSafe, WalkHolds, Walkers, WalkPrivate
  <1>10. \A n \in NodesOf(c) : mem.node[n].m \in Thread \ {t} => mem'.node[n].m = mem.node[n].m
    BY <1>3, <1>5, <1>8 DEF ThreadsafeAssumption
  <1> QED
    BY <1>1, <1>4, <1>7, <1>8, <1>9, <1>10, WalkSame

\* A step that locks or unlocks a mutex that no other thread has.
LEMMA LocksIs ==
  ASSUME ThreadsafeAssumption, WalkMemory, NEW c, WalkList(c), NEW t \in Thread,
         NEW n \in DOMAIN mem.node, NEW w \in Thread \cup {Null}, mem.node[n].m \in {t, Null},
         NEW shared, shared = [node |-> List!Hold(mem.node, n, w)], mem' = Threads!Over(shared, mem)
  PROVE  /\ SameShape /\ mem'.node[n].m = w
         /\ \A x \in DOMAIN mem.node : x # n => mem'.node[x].m = mem.node[x].m
         /\ \A x \in NodesOf(c) : mem.node[x].m \in Thread \ {t} => mem'.node[x].m = mem.node[x].m
  <1>1. /\ SameShape /\ mem'.node[n].m = w
        /\ \A x \in DOMAIN mem.node : x # n => mem'.node[x].m = mem.node[x].m
    BY HoldIs
  <1>2. NodesOf(c) \subseteq DOMAIN mem.node
    BY HeadIs
  <1>3. \A x \in NodesOf(c) : mem.node[x].m \in Thread \ {t} => mem'.node[x].m = mem.node[x].m
    BY <1>1, <1>2 DEF ThreadsafeAssumption
  <1> QED
    BY <1>1, <1>3

LEMMA WalkMoves ==
  ASSUME ThreadsafeAssumption, Threading, WalkMemory, NEW c, WalkList(c), NEW t \in Thread,
         NEW n \in DOMAIN mem.node, NEW w \in Thread \cup {Null}, mem.node[n].m \in {t, Null},
         NEW shared, shared = [node |-> List!Hold(mem.node, n, w)], NEW place, NEW own,
         List!Step(t, place, shared, own), place # "done", "todo" \notin DOMAIN own,
         "pc" \in DOMAIN own, own.pc \notin Operations \cup {"done"}
  PROVE  /\ Threading' /\ Old \subseteq Old' /\ th'[t].todo = th[t].todo
         /\ \A u \in Thread : u # t => th'[u] = th[u]
         /\ \A x \in DOMAIN own : x \in DOMAIN th'[t] /\ th'[t][x] = own[x]
         /\ \A x \in DOMAIN th[t] : x \notin DOMAIN own => x \in DOMAIN th'[t] /\ th'[t][x] = th[t][x]
         /\ SameShape /\ mem'.node[n].m = w
         /\ \A x \in DOMAIN mem.node : x # n => mem'.node[x].m = mem.node[x].m
         /\ \A x \in NodesOf(c) : mem.node[x].m \in Thread \ {t} => mem'.node[x].m = mem.node[x].m
  <1>1. /\ Threading' /\ Old' = Old /\ th'[t].todo = th[t].todo
        /\ \A u \in Thread : u # t => th'[u] = th[u]
        /\ \A x \in DOMAIN own : x \in DOMAIN th'[t] /\ th'[t][x] = own[x]
        /\ \A x \in DOMAIN th[t] : x \notin DOMAIN own => x \in DOMAIN th'[t] /\ th'[t][x] = th[t][x]
        /\ mem' = Threads!Over(shared, mem)
    BY WalkGoesOn
  <1>2. /\ SameShape /\ mem'.node[n].m = w
        /\ \A x \in DOMAIN mem.node : x # n => mem'.node[x].m = mem.node[x].m
        /\ \A x \in NodesOf(c) : mem.node[x].m \in Thread \ {t} => mem'.node[x].m = mem.node[x].m
    BY <1>1, LocksIs
  <1> QED
    BY <1>1, <1>2

\* The values in the list are those behind its head.
LEMMA ValuesAre ==
  ASSUME ThreadsafeAssumption, WalkMemory, NEW c, WalkList(c)
  PROVE  List!Values = DataIn(RestOf(c, List!head))
  <1>1. /\ List!head \in NodesOf(c) /\ Linked(c, mem.node, List!head, Null)
    BY HeadIs
  <1>2. PICK node, n : node = mem.node /\ n = List!head
    OBVIOUS
  <1>3. n # Null /\ IsFiniteSet(DOMAIN node) /\ Linked(c, node, n, Null)
    BY <1>1, <1>2 DEF List!head, ThreadsafeAssumption, WalkMemory
  <1>4. PICK d : d = Tail(c)
    OBVIOUS
  <1>5. /\ c[1] = n /\ Len(c) \in Nat /\ Len(c) > 0 /\ Linked(d, node, node[n].next, Null)
        /\ Len(d) = Len(c) - 1 /\ d \in Seq(DOMAIN node) /\ \A i \in 1..Len(d) : d[i] = c[i + 1]
    BY ONLY <1>3, <1>4, LinkedRest
  <1>6. List!Chain(node, node[n].next, Null) = d
    BY ONLY <1>3, <1>5, ChainIs
  <1>7. List!Values = {node[d[i]].data : i \in 1..Len(d)}
    <2>1. DOMAIN d = 1..Len(d)
      BY <1>5
    <2> QED
      BY <1>2, <1>6, <2>1 DEF List!Values
  <1>8. RestOf(c, c[1]) = Later(c, 1)
    <2>1. 1 \in 1..Len(c) /\ \A i, j \in 1..Len(c) : c[i] = c[j] => i = j
      BY <1>3, <1>5 DEF Linked
    <2> QED
      BY ONLY <1>5, <2>1, RestIs
  <1>9. Later(c, 1) = {d[i] : i \in 1..Len(d)}
    <2>1. ASSUME NEW i \in (1 + 1)..Len(c) PROVE c[i] \in {d[k] : k \in 1..Len(d)}
      <3>1. i - 1 \in 1..Len(d) /\ i = (i - 1) + 1
        BY <1>5
      <3>2. d[i - 1] = c[i]
        BY <1>5, <3>1
      <3> QED
        BY <3>1, <3>2
    <2>2. ASSUME NEW i \in 1..Len(d) PROVE d[i] \in {c[k] : k \in (1 + 1)..Len(c)}
      <3>1. i + 1 \in (1 + 1)..Len(c) /\ d[i] = c[i + 1]
        BY <1>5
      <3> QED
        BY <3>1
    <2> QED
      BY <2>1, <2>2 DEF Later
  <1> QED
    BY <1>2, <1>5, <1>7, <1>8, <1>9 DEF DataIn

\* The node a thread has come to, and those ahead.
LEMMA NextHas ==
  ASSUME ThreadsafeAssumption, WalkMemory, NEW c, WalkAll(c), NEW t \in Thread,
         th[t].pc \in {"next", "call"}, NEW n, n = th[t].next, NEW v, v = mem.node[n].data
  PROVE  /\ "next" \in DOMAIN th[t] /\ n \in NodesOf(c) /\ n # List!head /\ mem.node[n].m = t
         /\ DataIn(Ahead(c, t)) = {v} \cup DataIn(RestOf(c, n))
         /\ v \in Old /\ v \in Values /\ v \notin mem.removed /\ v \notin ToSet(th[t].seen)
         /\ v \notin DataIn(RestOf(c, n)) /\ RestOf(c, n) \in SUBSET NodesOf(c) /\ n \notin RestOf(c, n)
         /\ th[t].pc = "next" => /\ th[t].current \in NodesOf(c) /\ mem.node[th[t].current].m = t
                                 /\ th[t].current # n /\ mem.node[th[t].current].next = n
                                 /\ RestOf(c, th[t].current) = {n} \cup RestOf(c, n)
                                 /\ "current" \in DOMAIN th[t]
  <1>1. WalkList(c) /\ WalkSafe(c, t) /\ WalkHolds(c, t)
    BY DEF WalkAll, WalkSafe
  <1>2. /\ Linked(c, mem.node, List!head, Null) /\ Null \notin NodesOf(c)
    BY <1>1, HeadIs
  <1>3. PICK node : node = mem.node
    OBVIOUS
  <1>4. ASSUME NEW x \in NodesOf(c)
        PROVE  /\ RestOf(c, x) \subseteq NodesOf(c) /\ x \notin RestOf(c, x) /\ List!head \notin RestOf(c, x)
               /\ mem.node[x].next # Null =>
                     /\ mem.node[x].next # x
                     /\ RestOf(c, x) = {mem.node[x].next} \cup RestOf(c, mem.node[x].next)
    <2>1. PICK h : h = List!head
      OBVIOUS
    <2>2. Linked(c, node, h, Null)
      BY <1>2, <1>3, <2>1
    <2> QED
      BY ONLY <1>3, <2>1, <2>2, x \in NodesOf(c), NextIs
  <1>5. "next" \in DOMAIN th[t] /\ n \in NodesOf(c) /\ n # List!head /\ mem.node[n].m = t
    BY <1>1 DEF WalkHolds
  <1>6. RestOf(c, n) \in SUBSET NodesOf(c) /\ n \notin RestOf(c, n) /\ List!head \notin RestOf(c, n)
    BY <1>4, <1>5
  <1>7. ASSUME th[t].pc = "next"
        PROVE  /\ th[t].current \in NodesOf(c) /\ mem.node[th[t].current].m = t
               /\ th[t].current # n /\ mem.node[th[t].current].next = n
               /\ RestOf(c, th[t].current) = {n} \cup RestOf(c, n)
               /\ "current" \in DOMAIN th[t]
    <2>1. PICK x : x = th[t].current
      OBVIOUS
    <2>2. /\ x \in NodesOf(c) /\ mem.node[x].m = t /\ mem.node[x].next = n
          /\ "current" \in DOMAIN th[t]
      BY <1>1, <1>7, <2>1 DEF WalkHolds, Walkers
    <2>3. n # Null
      BY <1>2, <1>5
    <2> QED
      BY <1>4, <2>1, <2>2, <2>3
  <1>8. Ahead(c, t) = {n} \cup RestOf(c, n)
    BY <1>7 DEF Ahead
  <1>9. DataIn(Ahead(c, t)) = {v} \cup DataIn(RestOf(c, n))
    BY <1>8 DEF DataIn
  <1>10. v \in Old /\ v \in Values /\ v \notin mem.removed
    BY <1>1, <1>5 DEF WalkList, Old
  <1>11. v \notin ToSet(th[t].seen)
    <2>1. ToSet(th[t].seen) \cap DataIn(Ahead(c, t)) = {}
      BY <1>1 DEF WalkSafe, Walkers
    <2> QED
      BY <1>9, <2>1
  <1>12. v \notin DataIn(RestOf(c, n))
    <2>1. \A m \in RestOf(c, n) : m \in NodesOf(c) \ {List!head} /\ m # n
      BY <1>6
    <2>2. \A m \in RestOf(c, n) : mem.node[m].data # v
      BY <1>1, <1>5, <2>1 DEF WalkList
    <2> QED
      BY <2>2 DEF DataIn
  <1> QED
    BY <1>5, <1>6, <1>7, <1>9, <1>10, <1>11, <1>12

\* A sequence without repetition, and one more.
LEMMA NoRepeat ==
  ASSUME NEW S, NEW s \in Seq(S), Len(s) = Cardinality(ToSet(s)), NEW v \in S, v \notin ToSet(s)
  PROVE  /\ Append(s, v) \in Seq(S) /\ ToSet(Append(s, v)) = ToSet(s) \cup {v}
         /\ Len(Append(s, v)) = Cardinality(ToSet(Append(s, v)))
  <1>1. /\ Append(s, v) \in Seq(S) /\ Len(s) \in Nat /\ Len(Append(s, v)) = Len(s) + 1
        /\ ToSet(Append(s, v)) = ToSet(s) \cup {v}
    BY AppendIs
  <1>2. IsFiniteSet(ToSet(s))
    <2>1. PICK n \in Nat : n = Len(s)
      BY <1>1
    <2>2. DOMAIN s = 1..n
      BY <2>1
    <2>6. ToSet(s) = {s[i] : i \in 1..n}
      BY <2>2 DEF ToSet
    <2>3. IsFiniteSet(1..n)
      BY <2>1, FS_Interval
    <2> DEFINE f == [i \in 1..n |-> s[i]]
               T == {s[i] : i \in 1..n}
    <2>4. f \in Surjection(1..n, T)
      BY DEF Surjection
    <2> HIDE DEF f, T
    <2>5. IsFiniteSet(T)
      BY <2>3, <2>4, FS_Surjection
    <2> QED
      BY <2>5, <2>6 DEF T
  <1>3. Cardinality(ToSet(s) \cup {v}) = Cardinality(ToSet(s)) + 1
    BY <1>2, FS_AddElement
  <1> QED
    BY <1>1, <1>3

LEMMA VisitIs ==
  ASSUME NEW t \in Thread, WalkSees(t), NEW v \in Values, v \notin ToSet(th[t].seen),
         v \notin mem.removed, mem.removed \subseteq mem'.removed,
         {"seen", "before", "start"} \subseteq DOMAIN th'[t], th'[t].seen = Append(th[t].seen, v),
         th'[t].before = th[t].before
  PROVE  WalkSees(t)' /\ ToSet(th'[t].seen) = ToSet(th[t].seen) \cup {v}
  <1>1. PICK s \in Seq(Values) : s = th[t].seen
    BY DEF WalkSees
  <1>2. Len(s) = Cardinality(ToSet(s)) /\ v \notin ToSet(s)
    BY <1>1 DEF WalkSees
  <1>3. /\ Append(s, v) \in Seq(Values) /\ ToSet(Append(s, v)) = ToSet(s) \cup {v}
        /\ Len(Append(s, v)) = Cardinality(ToSet(Append(s, v)))
    BY <1>2, NoRepeat
  <1>4. ToSet(s) \cap th[t].before = {} /\ th[t].before \subseteq mem.removed
    BY <1>1 DEF WalkSees
  <1>5. Values' = Values
    BY DEF Values
  <1> QED
    BY <1>1, <1>3, <1>4, <1>5 DEF WalkSees

\* A walk that has come no further, or to one more node.
LEMMA WalkKeeps ==
  ASSUME NEW c, NEW d, NEW t \in Thread, WalkSafe(c, t), th[t].pc \in Walkers, th'[t].pc \in Walkers,
         th'[t].todo = th[t].todo,
         \A x \in {"seen", "before", "start"} : x \in DOMAIN th'[t] /\ th'[t][x] = th[t][x],
         mem.removed \subseteq mem'.removed, WalkHolds(d, t)',
         DataIn(Ahead(d, t))' \subseteq DataIn(Ahead(c, t)),
         DataIn(Ahead(c, t)) \subseteq DataIn(Ahead(d, t))' \cup mem'.removed
  PROVE  WalkSafe(d, t)'
  <1>1. th'[t].seen = th[t].seen /\ th'[t].before = th[t].before /\ th'[t].start = th[t].start
    OBVIOUS
  <1>2. WalkSees(t)'
    <2>1. WalkSees(t) /\ Values' = Values
      BY DEF WalkSafe, Values
    <2> QED
      BY <1>1, <2>1 DEF WalkSees
  <1>3. MatchesGone(t)'
    <2>1. MatchesGone(t)
      BY DEF WalkSafe
    <2> QED
      BY <1>1, <2>1 DEF MatchesGone
  <1>4. /\ ToSet(th[t].seen) \cap DataIn(Ahead(c, t)) = {}
        /\ th[t].start \subseteq ToSet(th[t].seen) \cup mem.removed \cup DataIn(Ahead(c, t))
        /\ Head(th[t].todo) \in {"for_each", "find_first_if", "remove_if"}
    BY DEF WalkSafe
  <1>5. /\ ToSet(th'[t].seen) \cap DataIn(Ahead(d, t))' = {}
        /\ th'[t].start \subseteq ToSet(th'[t].seen) \cup mem'.removed \cup DataIn(Ahead(d, t))'
        /\ Head(th'[t].todo) \in {"for_each", "find_first_if", "remove_if"}
    BY <1>1, <1>4
  <1>6. th'[t].pc # "end"
    BY DEF Walkers
  <1> QED
    BY <1>2, <1>3, <1>5, <1>6 DEF WalkSafe

LEMMA WalkVisits ==
  ASSUME NEW c, NEW d, NEW t \in Thread, WalkSafe(c, t), th[t].pc \in Walkers, th'[t].pc \in Walkers,
         th'[t].todo = th[t].todo, NEW v \in Values, v \notin ToSet(th[t].seen), v \notin mem.removed,
         {"seen", "before", "start"} \subseteq DOMAIN th'[t], th'[t].seen = Append(th[t].seen, v),
         th'[t].before = th[t].before, th'[t].start = th[t].start,
         mem.removed \subseteq mem'.removed, WalkHolds(d, t)',
         Match(v) => \/ Head(th[t].todo) = "for_each"
                     \/ Head(th[t].todo) = "remove_if" /\ v \in mem'.removed,
         DataIn(Ahead(d, t))' \subseteq DataIn(Ahead(c, t)), v \notin DataIn(Ahead(d, t))',
         DataIn(Ahead(c, t)) \subseteq {v} \cup DataIn(Ahead(d, t))' \cup mem'.removed
  PROVE  WalkSafe(d, t)'
  <1>1. WalkSees(t)' /\ ToSet(th'[t].seen) = ToSet(th[t].seen) \cup {v}
    <2>1. WalkSees(t)
      BY DEF WalkSafe
    <2> QED
      BY <2>1, VisitIs
  <1>2. MatchesGone(t)'
    <2>1. MatchesGone(t)
      BY DEF WalkSafe
    <2> QED
      BY <1>1, <2>1 DEF MatchesGone
  <1>3. /\ ToSet(th[t].seen) \cap DataIn(Ahead(c, t)) = {}
        /\ th[t].start \subseteq ToSet(th[t].seen) \cup mem.removed \cup DataIn(Ahead(c, t))
        /\ Head(th[t].todo) \in {"for_each", "find_first_if", "remove_if"}
    BY DEF WalkSafe
  <1>4. /\ ToSet(th'[t].seen) \cap DataIn(Ahead(d, t))' = {}
        /\ th'[t].start \subseteq ToSet(th'[t].seen) \cup mem'.removed \cup DataIn(Ahead(d, t))'
        /\ Head(th'[t].todo) \in {"for_each", "find_first_if", "remove_if"}
    BY <1>1, <1>3
  <1>5. th'[t].pc # "end"
    BY DEF Walkers
  <1> QED
    BY <1>1, <1>2, <1>4, <1>5 DEF WalkSafe

\* What is ahead of a thread, after a step that changes only mutexes.
LEMMA AheadIs ==
  ASSUME WalkMemory, SameShape, Old \subseteq Old', NEW c, WalkList(c), NEW t \in Thread,
         NEW S \in SUBSET NodesOf(c), Ahead(c, t)' = S
  PROVE  DataIn(Ahead(c, t))' = DataIn(S)
  <1>1. DataIn(S)' = DataIn(S)
    BY SameList
  <1>2. DataIn(Ahead(c, t))' = {mem'.node[n].data : n \in S}
    BY DEF DataIn
  <1>3. DataIn(S)' = {mem'.node[n].data : n \in S}
    BY DEF DataIn
  <1> QED
    BY <1>1, <1>2, <1>3

\* The node a walk is at.
LEMMA WalkHas ==
  ASSUME ThreadsafeAssumption, NEW c, WalkAll(c), NEW t \in Thread,
         th[t].pc = "walk", NEW x, x = th[t].current, NEW n, n = mem.node[x].next
  PROVE  /\ "current" \in DOMAIN th[t] /\ x \in NodesOf(c) /\ mem.node[x].m = t
         /\ Ahead(c, t) = RestOf(c, x) /\ RestOf(c, x) \in SUBSET NodesOf(c)
         /\ n = Null => RestOf(c, x) = {}
         /\ n # Null => n \in NodesOf(c) \ {List!head, x}
  <1>1. WalkList(c) /\ WalkSafe(c, t) /\ WalkHolds(c, t)
    BY DEF WalkAll, WalkSafe
  <1>2. "current" \in DOMAIN th[t] /\ x \in NodesOf(c) /\ mem.node[x].m = t
    BY <1>1 DEF WalkHolds, Walkers
  <1>3. Ahead(c, t) = RestOf(c, x)
    BY DEF Ahead
  <1>4. PICK node, h : node = mem.node /\ h = List!head
    OBVIOUS
  <1>5. Linked(c, node, h, Null) /\ x \in NodesOf(c)
    BY <1>1, <1>2, <1>4, HeadIs
  <1>6. /\ RestOf(c, x) \subseteq NodesOf(c)
        /\ node[x].next = Null => RestOf(c, x) = {}
        /\ node[x].next # Null => node[x].next \in NodesOf(c) /\ node[x].next \notin {x, h}
    BY ONLY <1>5, NextIs
  <1> QED
    BY <1>2, <1>3, <1>4, <1>6

LEMMA LockNextSafe ==
  ASSUME ThreadsafeAssumption, WalkInv, NEW t \in Thread, List!LockNext(t)
  PROVE  WalkInv'
  <1>1. PICK c : WalkAll(c)
    BY DEF WalkInv
  <1>2. PICK x, n, shared, own :
            /\ x = th[t].current /\ n = mem.node[x].next
            /\ shared = [node |-> List!Hold(mem.node, n, t)] /\ own = [pc |-> "next", next |-> n]
    OBVIOUS
  <1>3. List!Step(t, "walk", shared, own) /\ n # Null /\ mem.node[n].m = Null /\ th[t].pc = "walk"
    BY <1>2 DEF List!LockNext, List!NextOf, List!At
  <1>4. Threading /\ WalkMemory /\ WalkList(c)
    BY <1>1 DEF WalkInv, WalkAll
  <1>5. /\ "current" \in DOMAIN th[t] /\ x \in NodesOf(c) /\ mem.node[x].m = t
        /\ Ahead(c, t) = RestOf(c, x) /\ RestOf(c, x) \in SUBSET NodesOf(c)
        /\ n \in NodesOf(c) \ {List!head, x}
    BY <1>1, <1>2, <1>3, WalkHas
  <1>6. n \in DOMAIN mem.node /\ x \in DOMAIN mem.node
    BY <1>4, <1>5, HeadIs
  <1>7. /\ DOMAIN own = {"pc", "next"} /\ own.pc = "next" /\ own.next = n
        /\ "todo" \notin DOMAIN own /\ own.pc \notin Operations \cup {"done"}
    BY <1>2 DEF Operations
  <1>8. /\ Threading' /\ Old \subseteq Old' /\ th'[t].todo = th[t].todo
        /\ \A u \in Thread : u # t => th'[u] = th[u]
        /\ \A y \in DOMAIN own : y \in DOMAIN th'[t] /\ th'[t][y] = own[y]
        /\ \A y \in DOMAIN th[t] : y \notin DOMAIN own => y \in DOMAIN th'[t] /\ th'[t][y] = th[t][y]
        /\ SameShape /\ mem'.node[n].m = t
        /\ \A y \in DOMAIN mem.node : y # n => mem'.node[y].m = mem.node[y].m
        /\ \A y \in NodesOf(c) : mem.node[y].m \in Thread \ {t} => mem'.node[y].m = mem.node[y].m
    <2>1. "walk" # "done" /\ "pc" \in DOMAIN own
      BY <1>7
    <2>2. t \in Thread \cup {Null} /\ mem.node[n].m \in {t, Null}
      BY <1>3
    <2>3. shared = [node |-> List!Hold(mem.node, n, t)]
      BY <1>2
    <2> QED
      BY ONLY ThreadsafeAssumption, <1>3, <1>4, <1>6, <1>7, <2>1, <2>2, <2>3, t \in Thread, WalkMoves
  <1>9. /\ th'[t].pc = "next" /\ "next" \in DOMAIN th'[t] /\ th'[t].next = n
        /\ "current" \in DOMAIN th'[t] /\ th'[t].current = x
    <2>1. \A y \in {"pc", "next"} : y \in DOMAIN th'[t] /\ th'[t][y] = own[y]
      BY <1>7, <1>8
    <2>2. "current" \in DOMAIN th'[t] /\ th'[t].current = th[t].current
      BY <1>5, <1>7, <1>8
    <2> QED
      BY <1>2, <1>7, <2>1, <2>2
  <1>10. WalkHolds(c, t)'
    <2>1. mem'.node[x].m = t /\ mem'.node[x].next = n
      BY <1>2, <1>5, <1>6, <1>8 DEF SameShape
    <2>2. NodesOf(c)' = NodesOf(c) /\ List!head' = List!head
      BY DEF NodesOf, List!head
    <2> QED
      BY <1>5, <1>8, <1>9, <2>1, <2>2 DEF WalkHolds, Walkers
  <1>11. WalkSafe(c, t)'
    <2>1. WalkSafe(c, t)
      BY <1>1 DEF WalkAll
    <2>2. {"seen", "before", "start"} \subseteq DOMAIN th[t]
      BY <1>3, <2>1 DEF WalkSafe, WalkSees, Walkers
    <2>3. \A y \in {"seen", "before", "start"} : y \in DOMAIN th'[t] /\ th'[t][y] = th[t][y]
      BY <1>7, <1>8, <2>2
    <2>4. PICK S \in SUBSET NodesOf(c) : S = RestOf(c, x)
      BY <1>5
    <2>5. Ahead(c, t)' = S
      BY <1>9, <2>4 DEF Ahead
    <2>6. DataIn(Ahead(c, t))' = DataIn(S)
      BY <1>4, <1>8, <2>5, AheadIs
    <2>7. DataIn(Ahead(c, t)) = DataIn(S)
      BY <1>5, <2>4
    <2>8. th[t].pc \in Walkers /\ th'[t].pc \in Walkers
      BY <1>3, <1>9 DEF Walkers
    <2>9. mem.removed \subseteq mem'.removed
      BY <1>8 DEF SameShape
    <2> QED
      BY <1>8, <1>10, <2>1, <2>3, <2>6, <2>7, <2>8, <2>9, WalkKeeps
  <1>12. WalkPrivate(t)' \subseteq WalkPrivate(t)
    BY <1>9 DEF WalkPrivate
  <1> QED
    BY <1>1, <1>4, <1>8, <1>11, <1>12, WalkSame

\* A walk begins at the head, with all values ahead.
LEMMA WalkBeginsSafe ==
  ASSUME ThreadsafeAssumption, WalkInv, NEW t \in Thread, NEW call \in {"for_each", "find_first_if", "remove_if"},
         List!WalkBegins(t, call)
  PROVE  WalkInv'
  <1>1. PICK c : WalkAll(c)
    BY DEF WalkInv
  <1>2. PICK n, shared, own :
            /\ n = List!head /\ shared = [node |-> List!Hold(mem.node, n, t)]
            /\ own = [pc |-> "walk", current |-> n, start |-> List!Values, seen |-> <<>>,
                      before |-> mem.removed]
    OBVIOUS
  <1>3. List!Step(t, call, shared, own) /\ mem.node[n].m = Null /\ th[t].pc = call
    BY <1>2 DEF List!WalkBegins, List!Step, List!At
  <1>4. Threading /\ WalkMemory /\ WalkList(c)
    BY <1>1 DEF WalkInv, WalkAll
  <1>5. n \in NodesOf(c) /\ List!Values = DataIn(RestOf(c, n))
    BY <1>2, <1>4, HeadIs, ValuesAre
  <1>6. n \in DOMAIN mem.node
    BY <1>4, <1>5, HeadIs
  <1>7. /\ DOMAIN own = {"pc", "current", "start", "seen", "before"} /\ own.pc = "walk"
        /\ own.current = n /\ own.start = List!Values /\ own.seen = <<>> /\ own.before = mem.removed
        /\ "todo" \notin DOMAIN own /\ own.pc \notin Operations \cup {"done"}
    BY <1>2 DEF Operations
  <1>8. /\ Threading' /\ Old \subseteq Old' /\ th'[t].todo = th[t].todo
        /\ \A u \in Thread : u # t => th'[u] = th[u]
        /\ \A y \in DOMAIN own : y \in DOMAIN th'[t] /\ th'[t][y] = own[y]
        /\ \A y \in DOMAIN th[t] : y \notin DOMAIN own => y \in DOMAIN th'[t] /\ th'[t][y] = th[t][y]
        /\ SameShape /\ mem'.node[n].m = t
        /\ \A y \in DOMAIN mem.node : y # n => mem'.node[y].m = mem.node[y].m
        /\ \A y \in NodesOf(c) : mem.node[y].m \in Thread \ {t} => mem'.node[y].m = mem.node[y].m
    <2>1. /\ call # "done" /\ "pc" \in DOMAIN own /\ "todo" \notin DOMAIN own
          /\ own.pc \notin Operations \cup {"done"}
      BY <1>7 DEF Operations
    <2>2. t \in Thread \cup {Null} /\ mem.node[n].m \in {t, Null}
      BY <1>3, <1>5
    <2>3. shared = [node |-> List!Hold(mem.node, n, t)]
      BY <1>2
    <2> QED
      BY ONLY ThreadsafeAssumption, <1>3, <1>4, <1>6, <2>1, <2>2, <2>3, t \in Thread, WalkMoves
  <1>9. /\ {"current", "start", "seen", "before"} \subseteq DOMAIN th'[t]
        /\ th'[t].pc = "walk" /\ th'[t].current = n /\ th'[t].start = List!Values
        /\ th'[t].seen = <<>> /\ th'[t].before = mem.removed
    <2>1. \A y \in {"pc", "current", "start", "seen", "before"} : y \in DOMAIN th'[t] /\ th'[t][y] = own[y]
      BY <1>7, <1>8
    <2> QED
      BY <1>7, <2>1
  <1>10. WalkHolds(c, t)'
    <2>1. NodesOf(c)' = NodesOf(c) /\ List!head' = List!head
      BY DEF NodesOf, List!head
    <2> QED
      BY <1>5, <1>8, <1>9, <2>1 DEF WalkHolds, Walkers
  <1>11. WalkSafe(c, t)'
    <2>1. <<>> \in Seq(Values) /\ ToSet(<<>>) = {} /\ Len(<<>>) = 0
      BY DEF ToSet
    <2>2. Cardinality({}) = 0 /\ mem'.removed = mem.removed /\ Values' = Values
      BY <1>8, FS_EmptySet DEF SameShape, Values
    <2>3. WalkSees(t)' /\ MatchesGone(t)'
      BY <1>9, <2>1, <2>2 DEF WalkSees, MatchesGone
    <2>4. Head(th'[t].todo) = call
      <3>1. call \in Operations
        BY DEF Operations
      <3> QED
        BY <1>3, <1>4, <1>8, <3>1 DEF Threading
    <2>5. DataIn(Ahead(c, t))' = List!Values
      <3>1. PICK S \in SUBSET NodesOf(c) : S = RestOf(c, n)
        BY DEF RestOf, NodesOf
      <3>2. Ahead(c, t)' = S
        BY <1>9, <3>1 DEF Ahead
      <3> QED
        BY <1>4, <1>5, <1>8, <3>1, <3>2, AheadIs
    <2> QED
      BY <1>9, <1>10, <2>1, <2>3, <2>4, <2>5 DEF WalkSafe, Walkers
  <1>12. WalkPrivate(t)' \subseteq WalkPrivate(t)
    BY <1>9 DEF WalkPrivate
  <1> QED
    BY <1>1, <1>4, <1>8, <1>11, <1>12, WalkSame

\* A walk that gets to the end has nothing ahead.
LEMMA WalkEndsSafe ==
  ASSUME ThreadsafeAssumption, WalkInv, NEW t \in Thread, List!WalkEnds(t)
  PROVE  WalkInv'
  <1>1. PICK c : WalkAll(c)
    BY DEF WalkInv
  <1>2. PICK x, shared, own :
            /\ x = th[t].current /\ shared = [node |-> List!Hold(mem.node, x, Null)]
            /\ own = [pc |-> "end", found |-> Null]
    OBVIOUS
  <1>3. List!Step(t, "walk", shared, own) /\ mem.node[x].next = Null /\ th[t].pc = "walk"
    BY <1>2 DEF List!WalkEnds, List!NextOf, List!At
  <1>4. Threading /\ WalkMemory /\ WalkList(c)
    BY <1>1 DEF WalkInv, WalkAll
  <1>5. /\ x \in NodesOf(c) /\ mem.node[x].m = t
        /\ Ahead(c, t) = {}
    <2>1. PICK n : n = mem.node[x].next
      OBVIOUS
    <2> QED
      BY <1>1, <1>2, <1>3, <2>1, WalkHas
  <1>6. x \in DOMAIN mem.node
    BY <1>4, <1>5, HeadIs
  <1>7. /\ DOMAIN own = {"pc", "found"} /\ own.pc = "end" /\ own.found = Null
        /\ "todo" \notin DOMAIN own /\ own.pc \notin Operations \cup {"done"}
    BY <1>2 DEF Operations
  <1>8. /\ Threading' /\ Old \subseteq Old' /\ th'[t].todo = th[t].todo
        /\ \A u \in Thread : u # t => th'[u] = th[u]
        /\ \A y \in DOMAIN own : y \in DOMAIN th'[t] /\ th'[t][y] = own[y]
        /\ \A y \in DOMAIN th[t] : y \notin DOMAIN own => y \in DOMAIN th'[t] /\ th'[t][y] = th[t][y]
        /\ SameShape /\ mem'.node[x].m = Null
        /\ \A y \in DOMAIN mem.node : y # x => mem'.node[y].m = mem.node[y].m
        /\ \A y \in NodesOf(c) : mem.node[y].m \in Thread \ {t} => mem'.node[y].m = mem.node[y].m
    <2>1. /\ "walk" # "done" /\ "pc" \in DOMAIN own /\ "todo" \notin DOMAIN own
          /\ own.pc \notin Operations \cup {"done"}
      BY <1>7 DEF Operations
    <2>2. Null \in Thread \cup {Null} /\ mem.node[x].m \in {t, Null}
      BY <1>3, <1>5
    <2>3. shared = [node |-> List!Hold(mem.node, x, Null)]
      BY <1>2
    <2> QED
      BY ONLY ThreadsafeAssumption, <1>3, <1>4, <1>6, <2>1, <2>2, <2>3, t \in Thread, WalkMoves
  <1>9. "found" \in DOMAIN th'[t] /\ th'[t].pc = "end"
    BY <1>7, <1>8
  <1>11. WalkSafe(c, t)'
    <2>1. WalkSafe(c, t)
      BY <1>1 DEF WalkAll
    <2>2. {"seen", "before", "start"} \subseteq DOMAIN th[t]
      BY <1>3, <2>1 DEF WalkSafe, WalkSees, Walkers
    <2>3. \A y \in {"seen", "before", "start"} : y \in DOMAIN th'[t] /\ th'[t][y] = th[t][y]
      BY <1>7, <1>8, <2>2
    <2>4. WalkSees(t) /\ MatchesGone(t) /\ DataIn(Ahead(c, t)) = {} /\ Values' = Values
      BY <1>3, <1>5, <2>1 DEF WalkSafe, Walkers, DataIn, Values
    <2>5. mem'.removed = mem.removed
      BY <1>8 DEF SameShape
    <2>6. WalkSees(t)'
      BY <2>3, <2>4, <2>5 DEF WalkSees
    <2>7. MatchesGone(t)'
      BY <1>8, <2>3, <2>4, <2>5 DEF MatchesGone
    <2>8. /\ th'[t].start \subseteq ToSet(th'[t].seen) \cup mem'.removed
          /\ Head(th'[t].todo) \in {"for_each", "find_first_if", "remove_if"}
      BY <1>3, <1>8, <2>1, <2>3, <2>4, <2>5 DEF WalkSafe, Walkers
    <2>9. WalkHolds(c, t)'
      BY <1>9 DEF WalkHolds, Walkers
    <2> QED
      BY <1>9, <2>6, <2>7, <2>8, <2>9 DEF WalkSafe, Walkers
  <1>12. WalkPrivate(t)' \subseteq WalkPrivate(t)
    BY <1>9 DEF WalkPrivate
  <1> QED
    BY <1>1, <1>4, <1>8, <1>11, <1>12, WalkSame

\* A walk lets go of the node it comes from.
LEMMA LeaveCurrentSafe ==
  ASSUME ThreadsafeAssumption, WalkInv, NEW t \in Thread, List!LeaveCurrent(t)
  PROVE  WalkInv'
  <1>1. PICK c : WalkAll(c)
    BY DEF WalkInv
  <1>2. PICK x, n, v, shared, own :
            /\ x = th[t].current /\ n = th[t].next /\ v = mem.node[n].data
            /\ shared = [node |-> List!Hold(mem.node, x, Null)] /\ own = [pc |-> "call"]
    OBVIOUS
  <1>3. List!Step(t, "next", shared, own) /\ th[t].pc = "next" /\ Head(th[t].todo) # "remove_if"
    BY <1>2 DEF List!LeaveCurrent, List!At
  <1>4. Threading /\ WalkMemory /\ WalkList(c)
    BY <1>1 DEF WalkInv, WalkAll
  <1>5. /\ "next" \in DOMAIN th[t]
        /\ n \in NodesOf(c) /\ n # List!head /\ mem.node[n].m = t
        /\ DataIn(Ahead(c, t)) = {v} \cup DataIn(RestOf(c, n))
        /\ v \in Old /\ v \in Values /\ v \notin mem.removed /\ v \notin ToSet(th[t].seen)
        /\ v \notin DataIn(RestOf(c, n)) /\ RestOf(c, n) \in SUBSET NodesOf(c)
        /\ x \in NodesOf(c) /\ mem.node[x].m = t /\ x # n
    BY <1>1, <1>2, <1>3, <1>4, NextHas
  <1>6. n \in DOMAIN mem.node /\ x \in DOMAIN mem.node
    BY <1>4, <1>5, HeadIs
  <1>7. /\ DOMAIN own = {"pc"} /\ own.pc = "call"
        /\ "todo" \notin DOMAIN own /\ own.pc \notin Operations \cup {"done"}
    BY <1>2 DEF Operations
  <1>8. /\ Threading' /\ Old \subseteq Old' /\ th'[t].todo = th[t].todo
        /\ \A u \in Thread : u # t => th'[u] = th[u]
        /\ \A y \in DOMAIN own : y \in DOMAIN th'[t] /\ th'[t][y] = own[y]
        /\ \A y \in DOMAIN th[t] : y \notin DOMAIN own => y \in DOMAIN th'[t] /\ th'[t][y] = th[t][y]
        /\ SameShape /\ mem'.node[x].m = Null
        /\ \A y \in DOMAIN mem.node : y # x => mem'.node[y].m = mem.node[y].m
        /\ \A y \in NodesOf(c) : mem.node[y].m \in Thread \ {t} => mem'.node[y].m = mem.node[y].m
    <2>1. /\ "next" # "done" /\ "pc" \in DOMAIN own /\ "todo" \notin DOMAIN own
          /\ own.pc \notin Operations \cup {"done"}
      BY <1>7 DEF Operations
    <2>2. Null \in Thread \cup {Null} /\ mem.node[x].m \in {t, Null}
      BY <1>3, <1>5
    <2>3. shared = [node |-> List!Hold(mem.node, x, Null)]
      BY <1>2
    <2> QED
      BY ONLY ThreadsafeAssumption, <1>3, <1>4, <1>6, <2>1, <2>2, <2>3, t \in Thread, WalkMoves
  <1>9. th'[t].pc = "call" /\ "next" \in DOMAIN th'[t] /\ th'[t].next = n
    <2>1. "next" \in DOMAIN th'[t] /\ th'[t].next = th[t].next
      BY <1>5, <1>7, <1>8
    <2> QED
      BY <1>2, <1>7, <1>8, <2>1
  <1>10. WalkHolds(c, t)'
    <2>1. mem'.node[n].m = t
      BY <1>5, <1>6, <1>8
    <2>2. NodesOf(c)' = NodesOf(c) /\ List!head' = List!head
      BY DEF NodesOf, List!head
    <2> QED
      BY <1>3, <1>5, <1>8, <1>9, <2>1, <2>2 DEF WalkHolds, Walkers
  <1>11. WalkSafe(c, t)'
    <2>1. WalkSafe(c, t)
      BY <1>1 DEF WalkAll
    <2>2. {"seen", "before", "start"} \subseteq DOMAIN th[t]
      BY <1>3, <2>1 DEF WalkSafe, WalkSees, Walkers
    <2>3. \A y \in {"seen", "before", "start"} : y \in DOMAIN th'[t] /\ th'[t][y] = th[t][y]
      BY <1>7, <1>8, <2>2
    <2>4. PICK S \in SUBSET NodesOf(c) : S = {n} \cup RestOf(c, n)
      BY <1>5
    <2>5. Ahead(c, t)' = S
      BY <1>9, <2>4 DEF Ahead
    <2>6. DataIn(Ahead(c, t))' = DataIn(S)
      BY <1>4, <1>8, <2>5, AheadIs
    <2>7. DataIn(Ahead(c, t)) = DataIn(S)
      <3>1. DataIn(S) = {v} \cup DataIn(RestOf(c, n))
        BY <1>2, <2>4 DEF DataIn
      <3> QED
        BY <1>5, <3>1
    <2>8. th[t].pc \in Walkers /\ th'[t].pc \in Walkers
      BY <1>3, <1>9 DEF Walkers
    <2>9. mem.removed \subseteq mem'.removed
      BY <1>8 DEF SameShape
    <2> QED
      BY <1>8, <1>10, <2>1, <2>3, <2>6, <2>7, <2>8, <2>9, WalkKeeps
  <1>12. WalkPrivate(t)' \subseteq WalkPrivate(t)
    BY <1>9 DEF WalkPrivate
  <1> QED
    BY <1>1, <1>4, <1>8, <1>11, <1>12, WalkSame

\* remove_if goes on to a node that it keeps.
LEMMA KeepSafe ==
  ASSUME ThreadsafeAssumption, WalkInv, NEW t \in Thread, List!Keep(t)
  PROVE  WalkInv'
  <1>1. PICK c : WalkAll(c)
    BY DEF WalkInv
  <1>2. PICK x, n, v, shared, own :
            /\ x = th[t].current /\ n = th[t].next /\ v = mem.node[n].data
            /\ shared = [node |-> List!Hold(mem.node, x, Null)]
            /\ own = List!Over([pc |-> "walk", current |-> n], [seen |-> Append(th[t].seen, v)])
    OBVIOUS
  <1>3. /\ List!Step(t, "next", shared, own) /\ th[t].pc = "next" /\ Head(th[t].todo) = "remove_if"
        /\ ~Match(v)
    BY <1>2 DEF List!Keep, List!At, List!Visits, List!Datum
  <1>4. Threading /\ WalkMemory /\ WalkList(c)
    BY <1>1 DEF WalkInv, WalkAll
  <1>5. /\ "next" \in DOMAIN th[t]
        /\ n \in NodesOf(c) /\ n # List!head /\ mem.node[n].m = t
        /\ DataIn(Ahead(c, t)) = {v} \cup DataIn(RestOf(c, n))
        /\ v \in Old /\ v \in Values /\ v \notin mem.removed /\ v \notin ToSet(th[t].seen)
        /\ v \notin DataIn(RestOf(c, n)) /\ RestOf(c, n) \in SUBSET NodesOf(c)
        /\ x \in NodesOf(c) /\ mem.node[x].m = t /\ x # n
    BY <1>1, <1>2, <1>3, <1>4, NextHas
  <1>6. n \in DOMAIN mem.node /\ x \in DOMAIN mem.node
    BY <1>4, <1>5, HeadIs
  <1>7. /\ DOMAIN own = {"pc", "current", "seen"} /\ own.pc = "walk" /\ own.current = n
        /\ own.seen = Append(th[t].seen, v)
        /\ "todo" \notin DOMAIN own /\ own.pc \notin Operations \cup {"done"}
    <2>1. PICK a, b : a = [pc |-> "walk", current |-> n] /\ b = [seen |-> Append(th[t].seen, v)]
      OBVIOUS
    <2>2. own = Threads!Over(a, b)
      BY <1>2, <2>1 DEF List!Over, Threads!Over
    <2>3. DOMAIN a = {"pc", "current"} /\ DOMAIN b = {"seen"} /\ a.pc = "walk" /\ a.current = n
      BY <2>1
    <2>4. /\ DOMAIN own = DOMAIN a \cup DOMAIN b /\ \A y \in DOMAIN a : own[y] = a[y]
          /\ \A y \in DOMAIN b : y \notin DOMAIN a => own[y] = b[y]
      <3>1. /\ DOMAIN Threads!Over(a, b) = DOMAIN a \cup DOMAIN b
            /\ \A y \in DOMAIN a : Threads!Over(a, b)[y] = a[y]
            /\ \A y \in DOMAIN b : y \notin DOMAIN a => Threads!Over(a, b)[y] = b[y]
        BY ONLY OverIs
      <3> QED
        BY <2>2, <3>1
    <2>5. own.pc = "walk" /\ own.current = n /\ own.seen = Append(th[t].seen, v)
      BY <2>1, <2>3, <2>4
    <2> QED
      BY <2>3, <2>4, <2>5 DEF Operations
  <1>8. /\ Threading' /\ Old \subseteq Old' /\ th'[t].todo = th[t].todo
        /\ \A u \in Thread : u # t => th'[u] = th[u]
        /\ \A y \in DOMAIN own : y \in DOMAIN th'[t] /\ th'[t][y] = own[y]
        /\ \A y \in DOMAIN th[t] : y \notin DOMAIN own => y \in DOMAIN th'[t] /\ th'[t][y] = th[t][y]
        /\ SameShape /\ mem'.node[x].m = Null
        /\ \A y \in DOMAIN mem.node : y # x => mem'.node[y].m = mem.node[y].m
        /\ \A y \in NodesOf(c) : mem.node[y].m \in Thread \ {t} => mem'.node[y].m = mem.node[y].m
    <2>1. /\ "next" # "done" /\ "pc" \in DOMAIN own /\ "todo" \notin DOMAIN own
          /\ own.pc \notin Operations \cup {"done"}
      BY <1>7 DEF Operations
    <2>2. Null \in Thread \cup {Null} /\ mem.node[x].m \in {t, Null}
      BY <1>3, <1>5
    <2>3. shared = [node |-> List!Hold(mem.node, x, Null)]
      BY <1>2
    <2> QED
      BY ONLY ThreadsafeAssumption, <1>3, <1>4, <1>6, <2>1, <2>2, <2>3, t \in Thread, WalkMoves
  <1>9. th'[t].pc = "walk" /\ "current" \in DOMAIN th'[t] /\ th'[t].current = n
    <2>1. \A y \in {"pc", "current"} : y \in DOMAIN th'[t] /\ th'[t][y] = own[y]
      BY <1>7, <1>8
    <2> QED
      BY <1>7, <2>1
  <1>10. WalkHolds(c, t)'
    <2>1. mem'.node[n].m = t
      BY <1>5, <1>6, <1>8
    <2>2. NodesOf(c)' = NodesOf(c) /\ List!head' = List!head
      BY DEF NodesOf, List!head
    <2> QED
      BY <1>5, <1>8, <1>9, <2>1, <2>2 DEF WalkHolds, Walkers
  <1>11. WalkSafe(c, t)'
    <2>1. WalkSafe(c, t)
      BY <1>1 DEF WalkAll
    <2>2. {"seen", "before", "start"} \subseteq DOMAIN th[t]
      BY <1>3, <2>1 DEF WalkSafe, WalkSees, Walkers
    <2>3. /\ {"seen", "before", "start"} \subseteq DOMAIN th'[t] /\ th'[t].seen = Append(th[t].seen, v)
          /\ th'[t].before = th[t].before /\ th'[t].start = th[t].start
      <3>1. \A y \in {"before", "start"} : y \in DOMAIN th'[t] /\ th'[t][y] = th[t][y]
        BY <1>7, <1>8, <2>2
      <3>2. "seen" \in DOMAIN th'[t] /\ th'[t].seen = own.seen
        BY <1>7, <1>8
      <3> QED
        BY <1>7, <3>1, <3>2
    <2>4. PICK S \in SUBSET NodesOf(c) : S = RestOf(c, n)
      BY <1>5
    <2>5. Ahead(c, t)' = S
      BY <1>9, <2>4 DEF Ahead
    <2>6. DataIn(Ahead(c, t))' = DataIn(S)
      BY <1>4, <1>8, <2>5, AheadIs
    <2>7. DataIn(Ahead(c, t)) = {v} \cup DataIn(S) /\ v \notin DataIn(S)
      BY <1>5, <2>4
    <2>8. th[t].pc \in Walkers /\ th'[t].pc \in Walkers
      BY <1>3, <1>9 DEF Walkers
    <2>9. mem.removed \subseteq mem'.removed
      BY <1>8 DEF SameShape
    <2>10. Match(v) => \/ Head(th[t].todo) = "for_each"
                       \/ Head(th[t].todo) = "remove_if" /\ v \in mem'.removed
      BY <1>3, <2>1, <2>8 DEF WalkSafe
    <2> QED
      BY <1>5, <1>8, <1>10, <2>1, <2>3, <2>6, <2>7, <2>8, <2>9, <2>10, WalkVisits
  <1>12. WalkPrivate(t)' \subseteq WalkPrivate(t)
    BY <1>9 DEF WalkPrivate
  <1> QED
    BY <1>1, <1>4, <1>8, <1>11, <1>12, WalkSame

\* find_first_if has found what it looks for.
LEMMA FoundSafe ==
  ASSUME ThreadsafeAssumption, WalkInv, NEW t \in Thread, List!CallF(t),
         Head(th[t].todo) = "find_first_if", Match(List!Datum(t))
  PROVE  WalkInv'
  <1>1. PICK c : WalkAll(c)
    BY DEF WalkInv
  <1>2. PICK x, n, v, shared, own :
            /\ x = th[t].current /\ n = th[t].next /\ v = mem.node[n].data
            /\ shared = [node |-> List!Hold(mem.node, n, Null)]
            /\ own = List!Over([pc |-> "end", found |-> v], [seen |-> Append(th[t].seen, v)])
    OBVIOUS
  <1>3. List!Step(t, "call", shared, own) /\ th[t].pc = "call"
    BY <1>2 DEF List!CallF, List!At, List!Visits, List!Datum
  <1>4. Threading /\ WalkMemory /\ WalkList(c)
    BY <1>1 DEF WalkInv, WalkAll
  <1>5. /\ "next" \in DOMAIN th[t]
        /\ n \in NodesOf(c) /\ n # List!head /\ mem.node[n].m = t
        /\ DataIn(Ahead(c, t)) = {v} \cup DataIn(RestOf(c, n))
        /\ v \in Old /\ v \in Values /\ v \notin mem.removed /\ v \notin ToSet(th[t].seen)
        /\ v \notin DataIn(RestOf(c, n)) /\ RestOf(c, n) \in SUBSET NodesOf(c)
    BY <1>1, <1>2, <1>3, <1>4, NextHas
  <1>6. n \in DOMAIN mem.node
    BY <1>4, <1>5, HeadIs
  <1>7. /\ DOMAIN own = {"pc", "found", "seen"} /\ own.pc = "end" /\ own.found = v
        /\ own.seen = Append(th[t].seen, v)
        /\ "todo" \notin DOMAIN own /\ own.pc \notin Operations \cup {"done"}
    <2>1. PICK a, b : a = [pc |-> "end", found |-> v] /\ b = [seen |-> Append(th[t].seen, v)]
      OBVIOUS
    <2>2. own = Threads!Over(a, b)
      BY <1>2, <2>1 DEF List!Over, Threads!Over
    <2>3. DOMAIN a = {"pc", "found"} /\ DOMAIN b = {"seen"} /\ a.pc = "end" /\ a.found = v
      BY <2>1
    <2>4. /\ DOMAIN own = DOMAIN a \cup DOMAIN b /\ \A y \in DOMAIN a : own[y] = a[y]
          /\ \A y \in DOMAIN b : y \notin DOMAIN a => own[y] = b[y]
      <3>1. /\ DOMAIN Threads!Over(a, b) = DOMAIN a \cup DOMAIN b
            /\ \A y \in DOMAIN a : Threads!Over(a, b)[y] = a[y]
            /\ \A y \in DOMAIN b : y \notin DOMAIN a => Threads!Over(a, b)[y] = b[y]
        BY ONLY OverIs
      <3> QED
        BY <2>2, <3>1
    <2>5. own.pc = "end" /\ own.found = v /\ own.seen = Append(th[t].seen, v)
      BY <2>1, <2>3, <2>4
    <2> QED
      BY <2>3, <2>4, <2>5 DEF Operations
  <1>8. /\ Threading' /\ Old \subseteq Old' /\ th'[t].todo = th[t].todo
        /\ \A u \in Thread : u # t => th'[u] = th[u]
        /\ \A y \in DOMAIN own : y \in DOMAIN th'[t] /\ th'[t][y] = own[y]
        /\ \A y \in DOMAIN th[t] : y \notin DOMAIN own => y \in DOMAIN th'[t] /\ th'[t][y] = th[t][y]
        /\ SameShape /\ mem'.node[n].m = Null
        /\ \A y \in DOMAIN mem.node : y # n => mem'.node[y].m = mem.node[y].m
        /\ \A y \in NodesOf(c) : mem.node[y].m \in Thread \ {t} => mem'.node[y].m = mem.node[y].m
    <2>1. /\ "call" # "done" /\ "pc" \in DOMAIN own /\ "todo" \notin DOMAIN own
          /\ own.pc \notin Operations \cup {"done"}
      BY <1>7 DEF Operations
    <2>2. Null \in Thread \cup {Null} /\ mem.node[n].m \in {t, Null}
      BY <1>3, <1>5
    <2>3. shared = [node |-> List!Hold(mem.node, n, Null)]
      BY <1>2
    <2> QED
      BY ONLY ThreadsafeAssumption, <1>3, <1>4, <1>6, <2>1, <2>2, <2>3, t \in Thread, WalkMoves
  <1>9. th'[t].pc = "end" /\ "found" \in DOMAIN th'[t] /\ th'[t].found # Null
    <2>1. \A y \in {"pc", "found"} : y \in DOMAIN th'[t] /\ th'[t][y] = own[y]
      BY <1>7, <1>8
    <2>2. v # Null
      BY <1>5 DEF Values, ThreadsafeAssumption
    <2> QED
      BY <1>7, <2>1, <2>2
  <1>11. WalkSafe(c, t)'
    <2>1. WalkSafe(c, t)
      BY <1>1 DEF WalkAll
    <2>2. {"seen", "before", "start"} \subseteq DOMAIN th[t]
      BY <1>3, <2>1 DEF WalkSafe, WalkSees, Walkers
    <2>3. /\ {"seen", "before", "start"} \subseteq DOMAIN th'[t] /\ th'[t].seen = Append(th[t].seen, v)
          /\ th'[t].before = th[t].before /\ th'[t].start = th[t].start
      <3>1. \A y \in {"before", "start"} : y \in DOMAIN th'[t] /\ th'[t][y] = th[t][y]
        BY <1>7, <1>8, <2>2
      <3>2. "seen" \in DOMAIN th'[t] /\ th'[t].seen = own.seen
        BY <1>7, <1>8
      <3> QED
        BY <1>7, <3>1, <3>2
    <2>4. WalkSees(t)'
      <3>1. mem.removed \subseteq mem'.removed
        BY <1>8 DEF SameShape
      <3>2. WalkSees(t)
        BY <1>3, <2>1 DEF WalkSafe, Walkers
      <3> QED
        BY <1>5, <2>3, <3>1, <3>2, VisitIs
    <2>5. WalkHolds(c, t)'
      BY <1>9 DEF WalkHolds, Walkers
    <2>6. Head(th'[t].todo) \in {"for_each", "find_first_if", "remove_if"}
      BY <1>8
    <2> QED
      BY <1>9, <2>4, <2>5, <2>6 DEF WalkSafe, Walkers
  <1>12. WalkPrivate(t)' \subseteq WalkPrivate(t)
    BY <1>9 DEF WalkPrivate
  <1> QED
    BY <1>1, <1>4, <1>8, <1>11, <1>12, WalkSame

\* A walk goes on to the next node.
LEMMA VisitedSafe ==
  ASSUME ThreadsafeAssumption, WalkInv, NEW t \in Thread, List!CallF(t),
         ~(Head(th[t].todo) = "find_first_if" /\ Match(List!Datum(t)))
  PROVE  WalkInv'
  <1>1. PICK c : WalkAll(c)
    BY DEF WalkInv
  <1>2. PICK x, n, v, shared, own :
            /\ x = th[t].current /\ n = th[t].next /\ v = mem.node[n].data
            /\ shared = List!Same
            /\ own = List!Over([pc |-> "walk", current |-> n], [seen |-> Append(th[t].seen, v)])
    OBVIOUS
  <1>3. /\ List!Step(t, "call", shared, own) /\ th[t].pc = "call"
        /\ Match(v) => Head(th[t].todo) = "for_each"
    <2>1. List!Datum(t) = v /\ List!Step(t, "call", shared, own) /\ th[t].pc = "call"
      BY <1>2 DEF List!CallF, List!At, List!Visits, List!Datum
    <2>2. WalkSafe(c, t)
      BY <1>1 DEF WalkAll
    <2>3. Head(th[t].todo) \in {"for_each", "find_first_if", "remove_if"} /\ Head(th[t].todo) # "remove_if"
      BY <2>1, <2>2 DEF WalkSafe, WalkHolds, Walkers
    <2> QED
      BY <2>1, <2>3
  <1>4. Threading /\ WalkMemory /\ WalkList(c)
    BY <1>1 DEF WalkInv, WalkAll
  <1>5. /\ "next" \in DOMAIN th[t]
        /\ n \in NodesOf(c) /\ n # List!head /\ mem.node[n].m = t
        /\ DataIn(Ahead(c, t)) = {v} \cup DataIn(RestOf(c, n))
        /\ v \in Old /\ v \in Values /\ v \notin mem.removed /\ v \notin ToSet(th[t].seen)
        /\ v \notin DataIn(RestOf(c, n)) /\ RestOf(c, n) \in SUBSET NodesOf(c)
    BY <1>1, <1>2, <1>3, <1>4, NextHas
  <1>6. n \in DOMAIN mem.node
    BY <1>4, <1>5, HeadIs
  <1>7. /\ DOMAIN own = {"pc", "current", "seen"} /\ own.pc = "walk" /\ own.current = n
        /\ own.seen = Append(th[t].seen, v)
        /\ "todo" \notin DOMAIN own /\ own.pc \notin Operations \cup {"done"}
    <2>1. PICK a, b : a = [pc |-> "walk", current |-> n] /\ b = [seen |-> Append(th[t].seen, v)]
      OBVIOUS
    <2>2. own = Threads!Over(a, b)
      BY <1>2, <2>1 DEF List!Over, Threads!Over
    <2>3. DOMAIN a = {"pc", "current"} /\ DOMAIN b = {"seen"} /\ a.pc = "walk" /\ a.current = n
      BY <2>1
    <2>4. /\ DOMAIN own = DOMAIN a \cup DOMAIN b /\ \A y \in DOMAIN a : own[y] = a[y]
          /\ \A y \in DOMAIN b : y \notin DOMAIN a => own[y] = b[y]
      <3>1. /\ DOMAIN Threads!Over(a, b) = DOMAIN a \cup DOMAIN b
            /\ \A y \in DOMAIN a : Threads!Over(a, b)[y] = a[y]
            /\ \A y \in DOMAIN b : y \notin DOMAIN a => Threads!Over(a, b)[y] = b[y]
        BY ONLY OverIs
      <3> QED
        BY <2>2, <3>1
    <2>5. own.pc = "walk" /\ own.current = n /\ own.seen = Append(th[t].seen, v)
      BY <2>1, <2>3, <2>4
    <2> QED
      BY <2>3, <2>4, <2>5 DEF Operations
  <1>8. /\ Threading' /\ Old \subseteq Old' /\ th'[t].todo = th[t].todo
        /\ \A u \in Thread : u # t => th'[u] = th[u]
        /\ \A y \in DOMAIN own : y \in DOMAIN th'[t] /\ th'[t][y] = own[y]
        /\ \A y \in DOMAIN th[t] : y \notin DOMAIN own => y \in DOMAIN th'[t] /\ th'[t][y] = th[t][y]
        /\ SameShape /\ mem'.node = mem.node
    <2>1. "call" # "done" /\ "pc" \in DOMAIN own
      BY <1>7
    <2>2. /\ Threading' /\ Old' = Old /\ th'[t].todo = th[t].todo /\ mem' = Threads!Over(shared, mem)
          /\ \A u \in Thread : u # t => th'[u] = th[u]
          /\ \A y \in DOMAIN own : y \in DOMAIN th'[t] /\ th'[t][y] = own[y]
          /\ \A y \in DOMAIN th[t] : y \notin DOMAIN own => y \in DOMAIN th'[t] /\ th'[t][y] = th[t][y]
      BY ONLY <1>3, <1>4, <1>7, <2>1, t \in Thread, WalkGoesOn
    <2>3. SameShape /\ mem'.node = mem.node
      BY <1>2, <1>4, <2>2, SameIs
    <2> QED
      BY <2>2, <2>3
  <1>9. th'[t].pc = "walk" /\ "current" \in DOMAIN th'[t] /\ th'[t].current = n
    <2>1. \A y \in {"pc", "current"} : y \in DOMAIN th'[t] /\ th'[t][y] = own[y]
      BY <1>7, <1>8
    <2> QED
      BY <1>7, <2>1
  <1>10. WalkHolds(c, t)'
    <2>1. mem'.node[n].m = t
      BY <1>5, <1>6, <1>8
    <2>2. NodesOf(c)' = NodesOf(c) /\ List!head' = List!head
      BY DEF NodesOf, List!head
    <2> QED
      BY <1>5, <1>8, <1>9, <2>1, <2>2 DEF WalkHolds, Walkers
  <1>11. WalkSafe(c, t)'
    <2>1. WalkSafe(c, t)
      BY <1>1 DEF WalkAll
    <2>2. {"seen", "before", "start"} \subseteq DOMAIN th[t]
      BY <1>3, <2>1 DEF WalkSafe, WalkSees, Walkers
    <2>3. /\ {"seen", "before", "start"} \subseteq DOMAIN th'[t] /\ th'[t].seen = Append(th[t].seen, v)
          /\ th'[t].before = th[t].before /\ th'[t].start = th[t].start
      <3>1. \A y \in {"before", "start"} : y \in DOMAIN th'[t] /\ th'[t][y] = th[t][y]
        BY <1>7, <1>8, <2>2
      <3>2. "seen" \in DOMAIN th'[t] /\ th'[t].seen = own.seen
        BY <1>7, <1>8
      <3> QED
        BY <1>7, <3>1, <3>2
    <2>4. PICK S \in SUBSET NodesOf(c) : S = RestOf(c, n)
      BY <1>5
    <2>5. Ahead(c, t)' = S
      BY <1>9, <2>4 DEF Ahead
    <2>6. DataIn(Ahead(c, t))' = DataIn(S)
      BY <1>4, <1>8, <2>5, AheadIs
    <2>7. DataIn(Ahead(c, t)) = {v} \cup DataIn(S) /\ v \notin DataIn(S)
      BY <1>5, <2>4
    <2>8. th[t].pc \in Walkers /\ th'[t].pc \in Walkers
      BY <1>3, <1>9 DEF Walkers
    <2>9. mem.removed \subseteq mem'.removed
      BY <1>8 DEF SameShape
    <2>10. Match(v) => \/ Head(th[t].todo) = "for_each"
                       \/ Head(th[t].todo) = "remove_if" /\ v \in mem'.removed
      BY <1>3, <2>1, <2>8 DEF WalkSafe
    <2> QED
      BY <1>5, <1>8, <1>10, <2>1, <2>3, <2>6, <2>7, <2>8, <2>9, <2>10, WalkVisits
  <1>12. WalkPrivate(t)' \subseteq WalkPrivate(t)
    BY <1>9 DEF WalkPrivate
  <1> QED
    BY <1>1, <1>4, <1>8, <1>11, <1>12, WalkSame

\* remove_if unlocks the node it has taken out.
LEMMA UnlockRemovedSafe ==
  ASSUME ThreadsafeAssumption, WalkInv, NEW t \in Thread, List!UnlockRemoved(t)
  PROVE  WalkInv'
  <1>1. PICK c : WalkAll(c)
    BY DEF WalkInv
  <1>2. PICK x, n, shared, own :
            /\ x = th[t].current /\ n = th[t].next
            /\ shared = [node |-> List!Hold(mem.node, n, Null)] /\ own = [pc |-> "free"]
    OBVIOUS
  <1>3. List!Step(t, "unlock", shared, own) /\ th[t].pc = "unlock"
    BY <1>2 DEF List!UnlockRemoved, List!Step, List!At
  <1>4. Threading /\ WalkMemory /\ WalkList(c) /\ WalkSafe(c, t) /\ WalkHolds(c, t)
    BY <1>1 DEF WalkInv, WalkAll, WalkSafe
  <1>5. /\ "next" \in DOMAIN th[t] /\ "current" \in DOMAIN th[t]
        /\ x \in NodesOf(c) /\ mem.node[x].m = t
    BY <1>2, <1>3, <1>4 DEF WalkHolds, Walkers
  <1>6. n \in DOMAIN mem.node /\ n \notin NodesOf(c) /\ NodesOf(c) \subseteq DOMAIN mem.node
    <2>1. WalkPrivate(t) = {n} /\ WalkPrivate(t) \subseteq DOMAIN mem.node \ NodesOf(c)
      BY <1>1, <1>2, <1>3 DEF WalkAll, WalkPrivate
    <2> QED
      BY <1>4, <2>1, HeadIs
  <1>7. /\ DOMAIN own = {"pc"} /\ own.pc = "free"
        /\ "todo" \notin DOMAIN own /\ own.pc \notin Operations \cup {"done"}
    BY <1>2 DEF Operations
  <1>8. /\ Threading' /\ Old \subseteq Old' /\ th'[t].todo = th[t].todo
        /\ \A u \in Thread : u # t => th'[u] = th[u]
        /\ \A y \in DOMAIN own : y \in DOMAIN th'[t] /\ th'[t][y] = own[y]
        /\ \A y \in DOMAIN th[t] : y \notin DOMAIN own => y \in DOMAIN th'[t] /\ th'[t][y] = th[t][y]
        /\ SameShape /\ \A y \in NodesOf(c) : mem'.node[y].m = mem.node[y].m
    <2>1. "unlock" # "done" /\ "pc" \in DOMAIN own
      BY <1>7
    <2>2. /\ Threading' /\ Old' = Old /\ th'[t].todo = th[t].todo /\ mem' = Threads!Over(shared, mem)
          /\ \A u \in Thread : u # t => th'[u] = th[u]
          /\ \A y \in DOMAIN own : y \in DOMAIN th'[t] /\ th'[t][y] = own[y]
          /\ \A y \in DOMAIN th[t] : y \notin DOMAIN own => y \in DOMAIN th'[t] /\ th'[t][y] = th[t][y]
      BY ONLY <1>3, <1>4, <1>7, <2>1, t \in Thread, WalkGoesOn
    <2>3. SameShape /\ \A y \in DOMAIN mem.node : y # n => mem'.node[y].m = mem.node[y].m
      BY <1>2, <1>4, <1>6, <2>2, HoldIs
    <2> QED
      BY <1>6, <2>2, <2>3
  <1>9. /\ th'[t].pc = "free" /\ "next" \in DOMAIN th'[t] /\ th'[t].next = n
        /\ "current" \in DOMAIN th'[t] /\ th'[t].current = x
    <2>1. /\ "next" \in DOMAIN th'[t] /\ th'[t].next = th[t].next
          /\ "current" \in DOMAIN th'[t] /\ th'[t].current = th[t].current
      BY <1>5, <1>7, <1>8
    <2> QED
      BY <1>2, <1>7, <1>8, <2>1
  <1>10. WalkHolds(c, t)'
    <2>1. NodesOf(c)' = NodesOf(c)
      BY DEF NodesOf
    <2> QED
      BY <1>5, <1>8, <1>9, <2>1 DEF WalkHolds, Walkers
  <1>11. WalkSafe(c, t)'
    <2>2. {"seen", "before", "start"} \subseteq DOMAIN th[t]
      BY <1>3, <1>4 DEF WalkSafe, WalkSees, Walkers
    <2>3. \A y \in {"seen", "before", "start"} : y \in DOMAIN th'[t] /\ th'[t][y] = th[t][y]
      BY <1>7, <1>8, <2>2
    <2>4. PICK S \in SUBSET NodesOf(c) : S = RestOf(c, x)
      BY DEF RestOf, NodesOf
    <2>5. Ahead(c, t)' = S /\ Ahead(c, t) = S
      BY <1>2, <1>3, <1>9, <2>4 DEF Ahead
    <2>6. DataIn(Ahead(c, t))' = DataIn(S)
      BY <1>4, <1>8, <2>5, AheadIs
    <2>7. DataIn(Ahead(c, t)) = DataIn(S)
      BY <2>5
    <2>8. th[t].pc \in Walkers /\ th'[t].pc \in Walkers
      BY <1>3, <1>9 DEF Walkers
    <2>9. mem.removed \subseteq mem'.removed
      BY <1>8 DEF SameShape
    <2> QED
      BY <1>4, <1>8, <1>10, <2>3, <2>6, <2>7, <2>8, <2>9, WalkKeeps
  <1>12. WalkPrivate(t)' \subseteq WalkPrivate(t)
    BY <1>2, <1>3, <1>9 DEF WalkPrivate
  <1> QED
    BY <1>1, <1>4, <1>8, <1>11, <1>12, WalkSame

\* remove_if frees it.
LEMMA FreeRemovedSafe ==
  ASSUME ThreadsafeAssumption, WalkInv, NEW t \in Thread, List!FreeRemoved(t)
  PROVE  WalkInv'
  <1>1. PICK c : WalkAll(c)
    BY DEF WalkInv
  <1>2. PICK x, n, shared, own :
            /\ x = th[t].current /\ n = th[t].next
            /\ shared = [node |-> List!Without(mem.node, n)] /\ own = [pc |-> "walk"]
    OBVIOUS
  <1>3. List!Step(t, "free", shared, own) /\ th[t].pc = "free"
    BY <1>2 DEF List!FreeRemoved, List!Step, List!At
  <1>4. Threading /\ WalkMemory /\ WalkList(c) /\ WalkSafe(c, t) /\ WalkHolds(c, t)
    BY <1>1 DEF WalkInv, WalkAll, WalkSafe
  <1>5. "current" \in DOMAIN th[t] /\ x \in NodesOf(c) /\ mem.node[x].m = t
    BY <1>2, <1>3, <1>4 DEF WalkHolds, Walkers
  <1>6. /\ n \in DOMAIN mem.node /\ n \notin NodesOf(c) /\ NodesOf(c) \subseteq DOMAIN mem.node
        /\ List!head \in NodesOf(c) /\ Linked(c, mem.node, List!head, Null) /\ WalkPrivate(t) = {n}
    <2>1. WalkPrivate(t) = {n} /\ WalkPrivate(t) \subseteq DOMAIN mem.node \ NodesOf(c)
      BY <1>1, <1>2, <1>3 DEF WalkAll, WalkPrivate
    <2> QED
      BY <1>4, <2>1, HeadIs
  <1>7. /\ DOMAIN own = {"pc"} /\ own.pc = "walk"
        /\ "todo" \notin DOMAIN own /\ own.pc \notin Operations \cup {"done"}
    BY <1>2 DEF Operations
  <1>8. /\ Threading' /\ Old' = Old /\ th'[t].todo = th[t].todo /\ mem' = Threads!Over(shared, mem)
        /\ \A u \in Thread : u # t => th'[u] = th[u]
        /\ \A y \in DOMAIN own : y \in DOMAIN th'[t] /\ th'[t][y] = own[y]
        /\ \A y \in DOMAIN th[t] : y \notin DOMAIN own => y \in DOMAIN th'[t] /\ th'[t][y] = th[t][y]
    <2>1. "free" # "done" /\ "pc" \in DOMAIN own
      BY <1>7
    <2> QED
      BY ONLY <1>3, <1>4, <1>7, <2>1, t \in Thread, WalkGoesOn
  <1>9. /\ th'[t].pc = "walk" /\ "current" \in DOMAIN th'[t] /\ th'[t].current = x
    <2>1. "current" \in DOMAIN th'[t] /\ th'[t].current = th[t].current
      BY <1>5, <1>7, <1>8
    <2> QED
      BY <1>2, <1>7, <1>8, <2>1
  <1>a. /\ {"node", "removed"} \subseteq DOMAIN mem' /\ mem'.removed = mem.removed
        /\ DOMAIN mem'.node = DOMAIN mem.node \ {n}
        /\ \A y \in DOMAIN mem.node \ {n} : mem'.node[y] = mem.node[y]
    <2>1. DOMAIN shared = {"node"} /\ shared.node = [y \in DOMAIN mem.node \ {n} |-> mem.node[y]]
      BY <1>2 DEF List!Without
    <2>2. /\ DOMAIN mem' = {"node"} \cup DOMAIN mem /\ mem'.node = shared.node
          /\ \A y \in DOMAIN mem : y # "node" => mem'[y] = mem[y]
      <3>1. mem' = Threads!Over(shared, mem)
        BY <1>8
      <3>2. /\ DOMAIN mem' = DOMAIN shared \cup DOMAIN mem
            /\ \A y \in DOMAIN shared : mem'[y] = shared[y]
            /\ \A y \in DOMAIN mem : y \notin DOMAIN shared => mem'[y] = mem[y]
        BY ONLY <3>1, MemIs
      <3> QED
        BY <2>1, <3>2
    <2>3. "removed" \in DOMAIN mem' /\ mem'.removed = mem.removed
      BY <1>4, <2>2 DEF WalkMemory
    <2> QED
      BY <2>1, <2>2, <2>3
  <1>b. \A y \in NodesOf(c) : y \in DOMAIN mem'.node /\ mem'.node[y] = mem.node[y]
    BY <1>6, <1>a
  <1>c. WalkMemory'
    <2>1. IsFiniteSet(DOMAIN mem.node \ {n})
      BY <1>4, FS_Subset DEF WalkMemory
    <2>2. Links' = Links
      BY DEF Links
    <2> QED
      BY <1>4, <1>8, <1>a, <2>1, <2>2 DEF WalkMemory
  <1>d. WalkList(c)'
    <2>1. PICK node, node2, h : node = mem.node /\ node2 = mem'.node /\ h = List!head
      OBVIOUS
    <2>2. \A i \in 1..Len(c) : c[i] \in DOMAIN node2 /\ node2[c[i]].next = node[c[i]].next
      BY <1>b, <2>1 DEF NodesOf
    <2>3. Linked(c, node, h, Null)
      BY <1>6, <2>1
    <2>4. Linked(c, node2, h, Null)
      BY ONLY <2>2, <2>3, LinkedStays
    <2>5. NodesOf(c)' = NodesOf(c) /\ List!head' = List!head
      BY DEF NodesOf, List!head
    <2> QED
      BY <1>4, <1>8, <1>a, <1>b, <2>1, <2>4, <2>5 DEF WalkList
  <1>e. ASSUME NEW S \in SUBSET NodesOf(c) PROVE DataIn(S)' = DataIn(S)
    BY <1>b DEF DataIn
  <1>f. ASSUME NEW y \in NodesOf(c) PROVE Kept(c, c, y)
    <2>1. RestOf(c, y) \in SUBSET NodesOf(c)
      BY DEF RestOf, NodesOf
    <2>2. DataIn(RestOf(c, y))' = DataIn(RestOf(c, y))
      BY <1>e, <2>1
    <2> QED
      BY <1>b, <2>2 DEF Kept
  <1>10. WalkHolds(c, t)'
    <2>1. NodesOf(c)' = NodesOf(c)
      BY DEF NodesOf
    <2> QED
      BY <1>5, <1>9, <1>b, <2>1 DEF WalkHolds, Walkers
  <1>11. WalkSafe(c, t)'
    <2>2. {"seen", "before", "start"} \subseteq DOMAIN th[t]
      BY <1>3, <1>4 DEF WalkSafe, WalkSees, Walkers
    <2>3. \A y \in {"seen", "before", "start"} : y \in DOMAIN th'[t] /\ th'[t][y] = th[t][y]
      BY <1>7, <1>8, <2>2
    <2>4. PICK S \in SUBSET NodesOf(c) : S = RestOf(c, x)
      BY DEF RestOf, NodesOf
    <2>5. Ahead(c, t)' = S /\ Ahead(c, t) = S
      BY <1>2, <1>3, <1>9, <2>4 DEF Ahead
    <2>6. DataIn(Ahead(c, t))' = DataIn(S)
      <3>1. DataIn(S)' = DataIn(S)
        BY <1>e
      <3>2. DataIn(Ahead(c, t))' = {mem'.node[y].data : y \in S} /\ DataIn(S)' = {mem'.node[y].data : y \in S}
        BY <2>5 DEF DataIn
      <3> QED
        BY <3>1, <3>2
    <2>7. DataIn(Ahead(c, t)) = DataIn(S)
      BY <2>5
    <2>8. th[t].pc \in Walkers /\ th'[t].pc \in Walkers
      BY <1>3, <1>9 DEF Walkers
    <2>9. mem.removed \subseteq mem'.removed
      BY <1>a
    <2> QED
      BY <1>4, <1>8, <1>10, <2>3, <2>6, <2>7, <2>8, <2>9, WalkKeeps
  <1>12. WalkPrivate(t)' = {}
    BY <1>9 DEF WalkPrivate
  <1>13. \A u \in Thread : u # t => /\ WalkPrivate(u) \subseteq DOMAIN mem'.node \ NodesOf(c)
                                    /\ WalkPrivate(t)' \cap WalkPrivate(u) = {}
    BY <1>1, <1>6, <1>12, <1>a DEF WalkAll
  <1>14. /\ \A y \in NodesOf(c) : mem.node[y].m \in Thread \ {t} => Kept(c, c, y)
         /\ mem.removed \subseteq mem'.removed /\ WalkPrivate(t)' \subseteq DOMAIN mem'.node \ NodesOf(c)
    BY <1>12, <1>a, <1>f
  <1> QED
    BY <1>1, <1>6, <1>8, <1>11, <1>13, <1>14, <1>c, <1>d, WalkStep

\* What a thread has when its call has returned.
LEMMA WalkReturns ==
  ASSUME Threading, NEW t \in Thread, NEW place, NEW shared, NEW got,
         List!ReturnGot(t, place, shared, got), place # "done"
  PROVE  /\ th[t].pc = place /\ Threading' /\ mem' = Threads!Over(shared, mem)
         /\ \A u \in Thread : u # t => th'[u] = th[u]
         /\ th'[t].pc \in Operations \cup {"done"} /\ th'[t].pc \notin Walkers \cup {"link", "end"}
         /\ Old \subseteq Old' /\ List!Item(t) \in Values /\ List!Item(t) \in Old' \ Old
         /\ WalkPrivate(t)' = {}
  <1>1. th[t].pc = place /\ Ends(t, shared, got)
    BY ReturnsAre DEF Threading
  <1>2. /\ Threading' /\ th'[t].pc \in Operations \cup {"done"}
        /\ th'[t].todo = Tail(th[t].todo) /\ th[t].todo # <<>>
    BY <1>1, EndsIs
  <1>3. mem' = Threads!Over(shared, mem) /\ \A u \in Thread : u # t => th'[u] = th[u]
    BY <1>1 DEF Ends, Changes
  <1>4. th'[t].pc \notin Walkers \cup {"link", "end"}
    BY <1>2 DEF Operations, Walkers
  <1>5. PICK n \in Nat : n = Len(th[t].todo)
    BY DEF Threading
  <1>6. n > 0 /\ Len(th'[t].todo) = n - 1
    BY <1>2, <1>5 DEF Threading
  <1>7. \A u \in Thread : u # t => Len(th'[u].todo) = Len(th[u].todo)
    BY <1>3
  <1>8. Old \subseteq Old'
    <2>1. ASSUME NEW v \in Old PROVE v \in Old'
      <3>1. v[1] \in Thread /\ v[2] \in Nat /\ v[2] > Len(th[v[1]].todo) /\ v \in Values
        BY <2>1 DEF Old, Values
      <3>2. PICK u \in Thread, k \in Nat : u = v[1] /\ k = v[2]
        BY <3>1
      <3>3. PICK l : l = Len(th[u].todo)
        OBVIOUS
      <3>4. k > l
        BY <3>1, <3>2, <3>3
      <3>5. k > Len(th'[u].todo)
        <4>1. CASE u = t
          BY <1>5, <1>6, <3>3, <3>4, <4>1
        <4>2. CASE u # t
          BY <1>7, <3>3, <3>4, <4>2
        <4> QED
          BY <4>1, <4>2
      <3> QED
        BY <3>1, <3>2, <3>5 DEF Old, Values
    <2> QED
      BY <2>1
  <1>9. List!Item(t) = <<t, n>>
    BY <1>5 DEF List!Item
  <1>10. <<t, n>> \in Values /\ <<t, n>> \in Old' /\ <<t, n>> \notin Old
    BY <1>5, <1>6 DEF Old, Values
  <1>11. WalkPrivate(t)' = {}
    BY <1>4 DEF WalkPrivate, Walkers
  <1> QED
    BY <1>1, <1>2, <1>3, <1>4, <1>8, <1>9, <1>10, <1>11

\* A walk returns.
LEMMA EndSafe ==
  ASSUME ThreadsafeAssumption, WalkInv, NEW t \in Thread, List!End(t)
  PROVE  WalkInv'
  <1>1. PICK c : WalkAll(c)
    BY DEF WalkInv
  <1>2. Threading /\ WalkMemory
    BY DEF WalkInv
  <1>3. List!ReturnGot(t, "end", List!Same, th[t].got)
    BY DEF List!End, List!Return
  <1>4. /\ Threading' /\ mem' = Threads!Over(List!Same, mem) /\ Old \subseteq Old'
        /\ \A u \in Thread : u # t => th'[u] = th[u]
        /\ th'[t].pc \in Operations \cup {"done"} /\ th'[t].pc \notin Walkers \cup {"link", "end"}
        /\ WalkPrivate(t)' = {}
    BY <1>2, <1>3, WalkReturns
  <1>5. SameShape /\ mem'.node = mem.node
    BY <1>2, <1>4, SameIs
  <1>6. WalkSafe(c, t)'
    BY <1>4 DEF WalkSafe, WalkHolds, Walkers
  <1> QED
    BY <1>1, <1>2, <1>4, <1>5, <1>6, WalkSame

\* remove_if takes a node out of the list.
LEMMA UnlinkSafe ==
  ASSUME ThreadsafeAssumption, WalkInv, NEW t \in Thread, List!Unlink(t)
  PROVE  WalkInv'
  <1>1. PICK c : WalkAll(c)
    BY DEF WalkInv
  <1>2. PICK x, n, v, node2, shared, own :
            /\ x = th[t].current /\ n = th[t].next /\ v = mem.node[n].data
            /\ node2 = [mem.node EXCEPT ![x].next = mem.node[n].next]
            /\ shared = [node |-> node2, removed |-> mem.removed \cup {v}]
            /\ own = List!Over([pc |-> "unlock"], [seen |-> Append(th[t].seen, v)])
    OBVIOUS
  <1>3. /\ List!Step(t, "next", shared, own) /\ th[t].pc = "next" /\ Head(th[t].todo) = "remove_if"
    BY <1>2 DEF List!Unlink, List!At, List!Visits, List!Datum
  <1>4. Threading /\ WalkMemory /\ WalkList(c) /\ WalkSafe(c, t)
    BY <1>1 DEF WalkInv, WalkAll
  <1>5. /\ "next" \in DOMAIN th[t] /\ "current" \in DOMAIN th[t]
        /\ n \in NodesOf(c) /\ n # List!head /\ mem.node[n].m = t
        /\ DataIn(Ahead(c, t)) = {v} \cup DataIn(RestOf(c, n)) /\ v \notin DataIn(RestOf(c, n))
        /\ v \in Old /\ v \in Values /\ v \notin mem.removed /\ v \notin ToSet(th[t].seen)
        /\ RestOf(c, n) \in SUBSET NodesOf(c) /\ n \notin RestOf(c, n)
        /\ x \in NodesOf(c) /\ mem.node[x].m = t /\ x # n /\ mem.node[x].next = n
        /\ RestOf(c, x) = {n} \cup RestOf(c, n)
    <2>1. th[t].pc \in {"next", "call"} /\ n = th[t].next /\ v = mem.node[n].data
      BY <1>2, <1>3
    <2>2. /\ "next" \in DOMAIN th[t] /\ n \in NodesOf(c) /\ n # List!head /\ mem.node[n].m = t
          /\ DataIn(Ahead(c, t)) = {v} \cup DataIn(RestOf(c, n))
          /\ v \in Old /\ v \in Values /\ v \notin mem.removed /\ v \notin ToSet(th[t].seen)
          /\ v \notin DataIn(RestOf(c, n)) /\ RestOf(c, n) \in SUBSET NodesOf(c) /\ n \notin RestOf(c, n)
          /\ th[t].pc = "next" => /\ th[t].current \in NodesOf(c) /\ mem.node[th[t].current].m = t
                                  /\ th[t].current # n /\ mem.node[th[t].current].next = n
                                  /\ RestOf(c, th[t].current) = {n} \cup RestOf(c, n)
                                  /\ "current" \in DOMAIN th[t]
      BY ONLY ThreadsafeAssumption, <1>1, <1>4, <2>1, t \in Thread, NextHas
    <2> QED
      BY <1>2, <1>3, <2>2
  <1>6. /\ NodesOf(c) \subseteq DOMAIN mem.node /\ List!head \in NodesOf(c)
        /\ Linked(c, mem.node, List!head, Null)
    BY <1>4, HeadIs
  <1>7. /\ DOMAIN own = {"pc", "seen"} /\ own.pc = "unlock" /\ own.seen = Append(th[t].seen, v)
        /\ "todo" \notin DOMAIN own /\ own.pc \notin Operations \cup {"done"}
    <2>1. PICK a, b : a = [pc |-> "unlock"] /\ b = [seen |-> Append(th[t].seen, v)]
      OBVIOUS
    <2>2. own = Threads!Over(a, b)
      BY <1>2, <2>1 DEF List!Over, Threads!Over
    <2>3. DOMAIN a = {"pc"} /\ DOMAIN b = {"seen"} /\ a.pc = "unlock"
      BY <2>1
    <2>4. /\ DOMAIN own = DOMAIN a \cup DOMAIN b /\ \A y \in DOMAIN a : own[y] = a[y]
          /\ \A y \in DOMAIN b : y \notin DOMAIN a => own[y] = b[y]
      <3>1. /\ DOMAIN Threads!Over(a, b) = DOMAIN a \cup DOMAIN b
            /\ \A y \in DOMAIN a : Threads!Over(a, b)[y] = a[y]
            /\ \A y \in DOMAIN b : y \notin DOMAIN a => Threads!Over(a, b)[y] = b[y]
        BY ONLY OverIs
      <3> QED
        BY <2>2, <3>1
    <2>5. own.pc = "unlock" /\ own.seen = Append(th[t].seen, v)
      BY <2>1, <2>3, <2>4
    <2> QED
      BY <2>3, <2>4, <2>5 DEF Operations
  <1>8. /\ Threading' /\ Old' = Old /\ th'[t].todo = th[t].todo /\ mem' = Threads!Over(shared, mem)
        /\ \A u \in Thread : u # t => th'[u] = th[u]
        /\ \A y \in DOMAIN own : y \in DOMAIN th'[t] /\ th'[t][y] = own[y]
        /\ \A y \in DOMAIN th[t] : y \notin DOMAIN own => y \in DOMAIN th'[t] /\ th'[t][y] = th[t][y]
    <2>1. "next" # "done" /\ "pc" \in DOMAIN own /\ "todo" \notin DOMAIN own
      BY <1>7
    <2>2. own.pc \notin Operations \cup {"done"}
      BY <1>7
    <2> QED
      BY ONLY <1>3, <1>4, <2>1, <2>2, t \in Thread, WalkGoesOn
  <1>9. /\ th'[t].pc = "unlock" /\ "next" \in DOMAIN th'[t] /\ th'[t].next = n
        /\ "current" \in DOMAIN th'[t] /\ th'[t].current = x
    <2>1. /\ "current" \in DOMAIN th'[t] /\ th'[t].current = th[t].current
          /\ "next" \in DOMAIN th'[t] /\ th'[t].next = th[t].next
      BY <1>5, <1>7, <1>8
    <2> QED
      BY <1>2, <1>7, <1>8, <2>1
  <1>a. /\ {"node", "removed"} \subseteq DOMAIN mem' /\ mem'.removed = mem.removed \cup {v}
        /\ mem'.node = node2
    <2>1. DOMAIN shared = {"node", "removed"} /\ shared.node = node2 /\ shared.removed = mem.removed \cup {v}
      BY <1>2
    <2>2. mem' = Threads!Over(shared, mem)
      BY <1>8
    <2>3. /\ DOMAIN mem' = DOMAIN shared \cup DOMAIN mem
          /\ \A y \in DOMAIN shared : mem'[y] = shared[y]
      BY ONLY <2>2, MemIs
    <2> QED
      BY <2>1, <2>3
  <1>b. /\ DOMAIN node2 = DOMAIN mem.node /\ node2[x].next = mem.node[n].next
        /\ \A y \in DOMAIN mem.node :
              /\ node2[y] \in Links /\ node2[y].data = mem.node[y].data /\ node2[y].m = mem.node[y].m
              /\ y # x => node2[y] = mem.node[y]
    <2>1. \A y \in DOMAIN mem.node : mem.node[y] \in Links
      BY <1>4 DEF WalkMemory
    <2>2. /\ DOMAIN node2 = DOMAIN mem.node /\ \A y \in DOMAIN mem.node : y # x => node2[y] = mem.node[y]
          /\ node2[x] = [mem.node[x] EXCEPT !.next = mem.node[n].next]
      BY <1>2, <1>5, <1>6
    <2>3. /\ node2[x] \in Links /\ node2[x].data = mem.node[x].data /\ node2[x].m = mem.node[x].m
          /\ node2[x].next = mem.node[n].next
      BY <1>5, <1>6, <2>1, <2>2 DEF Links
    <2> QED
      BY <2>1, <2>2, <2>3
  <1>c. PICK d : /\ Linked(d, node2, List!head, Null) /\ NodesOf(d) = NodesOf(c) \ {n}
                 /\ \A y \in NodesOf(d) : RestOf(d, y) = RestOf(c, y) \ {n}
    <2>1. PICK node, h : node = mem.node /\ h = List!head
      OBVIOUS
    <2>2. /\ Linked(c, node, h, Null) /\ x \in NodesOf(c) /\ n \in NodesOf(c) /\ node[x].next = n
          /\ NodesOf(c) \subseteq DOMAIN node2 /\ node2[x].next = node[n].next
          /\ \A z \in NodesOf(c) \ {x} : node2[z].next = node[z].next
      BY <1>5, <1>6, <1>b, <2>1
    <2>3. \E d : /\ Linked(d, node2, h, Null) /\ NodesOf(d) = NodesOf(c) \ {n}
                 /\ \A z \in NodesOf(d) : RestOf(d, z) = RestOf(c, z) \ {n}
      BY ONLY <2>2, LinkedRemove
    <2> QED
      BY <2>1, <2>3
  <1>d. WalkMemory'
    <2>1. Links' = Links
      BY DEF Links
    <2> QED
      BY <1>4, <1>5, <1>8, <1>a, <1>b, <2>1 DEF WalkMemory
  <1>e. WalkList(d)'
    <2>1. NodesOf(d)' = NodesOf(d) /\ List!head' = List!head
      BY DEF NodesOf, List!head
    <2>2. \A y \in NodesOf(d) : y \in NodesOf(c) /\ y # n /\ node2[y].data = mem.node[y].data
      BY <1>6, <1>b, <1>c
    <2>3. \A y \in NodesOf(d) \ {List!head} : node2[y].data \in Old \ (mem.removed \cup {v})
      BY <1>2, <1>4, <1>5, <2>2 DEF WalkList
    <2>4. \A y, z \in NodesOf(d) \ {List!head} : node2[y].data = node2[z].data => y = z
      BY <1>4, <2>2 DEF WalkList
    <2> QED
      BY <1>8, <1>a, <1>c, <2>1, <2>3, <2>4 DEF WalkList
  <1>f. ASSUME NEW S \in SUBSET NodesOf(c) PROVE DataIn(S)' = DataIn(S)
    BY <1>6, <1>a, <1>b DEF DataIn
  <1>g. ASSUME NEW y \in NodesOf(c), mem.node[y].m \in Thread \ {t} PROVE Kept(c, d, y)
    <2>1. y # x /\ (y # n => y \in NodesOf(d)) /\ y \in DOMAIN mem.node
      BY <1>5, <1>6, <1>c, <1>g
    <2>2. y # n
      BY <1>5, <1>g
    <2>3. PICK S \in SUBSET NodesOf(c) : S = RestOf(c, y)
      BY DEF RestOf, NodesOf
    <2> DEFINE T == S \ {n}
    <2>4. RestOf(d, y) = T
      <3>1. y \in NodesOf(d)
        BY <2>1, <2>2
      <3> QED
        BY <1>c, <2>3, <3>1
    <2>5. DataIn(T)' = DataIn(T)
      BY <1>f
    <2>6. DataIn(T) \subseteq DataIn(S) /\ DataIn(S) \subseteq DataIn(T) \cup {v}
      BY <1>2, <2>3 DEF DataIn
    <2>7. DataIn(RestOf(d, y))' = DataIn(T)'
      <3>1. RestOf(d, y)' = RestOf(d, y)
        BY DEF RestOf
      <3> QED
        BY <2>4, <3>1 DEF DataIn
    <2>8. mem'.node[y] = mem.node[y] /\ y \in NodesOf(d)
      BY <1>a, <1>b, <2>1, <2>2
    <2>9. /\ DataIn(RestOf(d, y))' \subseteq DataIn(RestOf(c, y))
          /\ DataIn(RestOf(c, y)) \subseteq DataIn(RestOf(d, y))' \cup mem'.removed
      BY <1>a, <2>3, <2>5, <2>6, <2>7
    <2> QED
      BY <2>8, <2>9 DEF Kept
  <1>10. WalkHolds(d, t)'
    <2>1. NodesOf(d)' = NodesOf(d)
      BY DEF NodesOf
    <2>2. x \in NodesOf(d) /\ mem'.node[x].m = t
      BY <1>5, <1>6, <1>a, <1>b, <1>c
    <2> QED
      BY <1>9, <2>1, <2>2 DEF WalkHolds, Walkers
  <1>11. WalkSafe(d, t)'
    <2>2. {"seen", "before", "start"} \subseteq DOMAIN th[t]
      BY <1>3, <1>4 DEF WalkSafe, WalkSees, Walkers
    <2>3. /\ {"seen", "before", "start"} \subseteq DOMAIN th'[t] /\ th'[t].seen = Append(th[t].seen, v)
          /\ th'[t].before = th[t].before /\ th'[t].start = th[t].start
      <3>1. \A y \in {"before", "start"} : y \in DOMAIN th'[t] /\ th'[t][y] = th[t][y]
        BY <1>7, <1>8, <2>2
      <3>2. "seen" \in DOMAIN th'[t] /\ th'[t].seen = own.seen
        BY <1>7, <1>8
      <3> QED
        BY <1>7, <3>1, <3>2
    <2>4. PICK S \in SUBSET NodesOf(c) : S = RestOf(c, n)
      BY <1>5
    <2>5. Ahead(d, t)' = S
      <3>1. RestOf(d, x) = S
        <4>1. x \in NodesOf(d)
          BY <1>5, <1>c
        <4>2. RestOf(d, x) = RestOf(c, x) \ {n}
          BY <1>c, <4>1
        <4> QED
          BY <1>5, <2>4, <4>2
      <3>2. Ahead(d, t)' = RestOf(d, x)
        BY <1>9 DEF Ahead, RestOf
      <3> QED
        BY <3>1, <3>2
    <2>6. DataIn(Ahead(d, t))' = DataIn(S)
      <3>1. DataIn(S)' = DataIn(S)
        BY <1>f
      <3>2. DataIn(Ahead(d, t))' = DataIn(S)'
        BY <2>5 DEF DataIn
      <3> QED
        BY <3>1, <3>2
    <2>7. DataIn(Ahead(c, t)) = {v} \cup DataIn(S) /\ v \notin DataIn(S)
      BY <1>5, <2>4
    <2>8. th[t].pc \in Walkers /\ th'[t].pc \in Walkers
      BY <1>3, <1>9 DEF Walkers
    <2>9. mem.removed \subseteq mem'.removed /\ v \in mem'.removed
      BY <1>a
    <2> QED
      BY <1>3, <1>4, <1>5, <1>8, <1>10, <2>3, <2>6, <2>7, <2>8, <2>9, WalkVisits
  <1>12. WalkPrivate(t)' = {n}
    BY <1>9 DEF WalkPrivate
  <1>13. /\ WalkPrivate(t)' \subseteq DOMAIN mem'.node \ NodesOf(d)
         /\ \A u \in Thread : u # t => /\ WalkPrivate(u) \subseteq DOMAIN mem'.node \ NodesOf(d)
                                       /\ WalkPrivate(t)' \cap WalkPrivate(u) = {}
    <2>1. \A u \in Thread : WalkPrivate(u) \subseteq DOMAIN mem.node \ NodesOf(c)
      BY <1>1 DEF WalkAll
    <2> QED
      BY <1>5, <1>6, <1>12, <1>a, <1>b, <1>c, <2>1
  <1>14. mem.removed \subseteq mem'.removed
    BY <1>a
  <1> QED
    BY <1>1, <1>6, <1>8, <1>11, <1>13, <1>14, <1>d, <1>e, <1>g, WalkStep

\* push_front puts a node behind the head.
LEMMA PushFrontSafe ==
  ASSUME ThreadsafeAssumption, WalkInv, NEW t \in Thread, List!PushLink(t)
  PROVE  WalkInv'
  <1>1. PICK c : WalkAll(c)
    BY DEF WalkInv
  <1>2. PICK h, new, v, more, node2, shared :
            /\ h = List!head /\ new = List!Fresh(mem.node) /\ v = List!Item(t)
            /\ more = List!Added(mem.node, new, [data |-> v, next |-> mem.node[h].next, m |-> Null])
            /\ node2 = [more EXCEPT ![h].next = new, ![h].m = Null]
            /\ shared = [node |-> node2]
    OBVIOUS
  <1>3. List!ReturnGot(t, "link", shared, th[t].got)
    BY <1>2 DEF List!PushLink, List!Return
  <1>4. Threading /\ WalkMemory /\ WalkList(c) /\ WalkHolds(c, t)
    BY <1>1 DEF WalkInv, WalkAll, WalkSafe
  <1>5. /\ th[t].pc = "link" /\ Threading' /\ mem' = Threads!Over(shared, mem)
        /\ \A u \in Thread : u # t => th'[u] = th[u]
        /\ th'[t].pc \in Operations \cup {"done"} /\ th'[t].pc \notin Walkers \cup {"link", "end"}
        /\ Old \subseteq Old' /\ v \in Values /\ v \in Old' \ Old
        /\ WalkPrivate(t)' = {}
    BY <1>2, <1>3, <1>4, WalkReturns
  <1>6. /\ h \in NodesOf(c) /\ NodesOf(c) \subseteq DOMAIN mem.node /\ Null \notin NodesOf(c)
        /\ Linked(c, mem.node, h, Null) /\ mem.node[h].m = t
    <2>1. mem.node[List!head].m = t
      BY <1>4, <1>5 DEF WalkHolds
    <2> QED
      BY <1>2, <1>4, <2>1, HeadIs
  <1>7. new \in Nat /\ new \notin DOMAIN mem.node /\ new # Null /\ new # h
    <2>1. new \in Nat /\ new \notin DOMAIN mem.node
      BY <1>2, <1>4, FreshIs DEF WalkMemory
    <2> QED
      BY <1>6, <2>1 DEF ThreadsafeAssumption
  <1>8. /\ DOMAIN node2 = DOMAIN mem.node \cup {new}
        /\ node2[new] \in Links /\ node2[new].data = v /\ node2[new].next = mem.node[h].next
        /\ node2[h] \in Links /\ node2[h].data = mem.node[h].data /\ node2[h].next = new
        /\ \A y \in DOMAIN mem.node : y # h => node2[y] = mem.node[y]
    <2>1. /\ DOMAIN more = DOMAIN mem.node \cup {new}
          /\ more[new] = [data |-> v, next |-> mem.node[h].next, m |-> Null]
          /\ \A y \in DOMAIN mem.node : more[y] = mem.node[y]
      BY <1>2, <1>7 DEF List!Added
    <2>2. /\ DOMAIN node2 = DOMAIN more /\ node2[h] = [[more[h] EXCEPT !.next = new] EXCEPT !.m = Null]
          /\ \A y \in DOMAIN more : y # h => node2[y] = more[y]
      BY <1>2, <1>6, <2>1
    <2>3. mem.node[h] \in Links /\ h \in DOMAIN mem.node
      BY <1>4, <1>6 DEF WalkMemory
    <2>4. node2[h] \in Links /\ node2[h].data = mem.node[h].data /\ node2[h].next = new
      <3>1. PICK r \in Links : r = mem.node[h]
        BY <2>3
      <3>2. PICK q : q = [r EXCEPT !.next = new]
        OBVIOUS
      <3>3. q \in Links /\ q.data = r.data /\ q.next = new
        BY <1>7, <3>2 DEF Links
      <3>4. node2[h] = [q EXCEPT !.m = Null]
        BY <2>1, <2>2, <2>3, <3>1, <3>2
      <3>5. node2[h] \in Links /\ node2[h].data = q.data /\ node2[h].next = q.next
        BY <3>3, <3>4 DEF Links
      <3> QED
        BY <3>1, <3>3, <3>5
    <2>5. node2[new] \in Links /\ node2[new].data = v /\ node2[new].next = mem.node[h].next
      BY <1>5, <1>7, <2>1, <2>2, <2>3 DEF Links
    <2> QED
      BY <2>1, <2>2, <2>4, <2>5
  <1>a. {"node", "removed"} \subseteq DOMAIN mem' /\ mem'.removed = mem.removed /\ mem'.node = node2
    <2>1. DOMAIN shared = {"node"} /\ shared.node = node2
      BY <1>2
    <2>2. mem' = Threads!Over(shared, mem)
      BY <1>5
    <2>3. /\ DOMAIN mem' = DOMAIN shared \cup DOMAIN mem
          /\ \A y \in DOMAIN shared : mem'[y] = shared[y]
          /\ \A y \in DOMAIN mem : y \notin DOMAIN shared => mem'[y] = mem[y]
      BY ONLY <2>2, MemIs
    <2> QED
      BY <1>4, <2>1, <2>3 DEF WalkMemory
  <1>b. \A y \in NodesOf(c) : y \in DOMAIN node2 /\ y # new /\ node2[y].data = mem.node[y].data
    BY <1>6, <1>7, <1>8
  <1>c. PICK d : /\ Linked(d, node2, h, Null) /\ NodesOf(d) = NodesOf(c) \cup {new}
                 /\ \A y \in NodesOf(c) \ {h} : RestOf(d, y) = RestOf(c, y)
    <2>1. PICK node : node = mem.node
      OBVIOUS
    <2>2. /\ Linked(c, node, h, Null) /\ h \in NodesOf(c)
          /\ new \in DOMAIN node2 /\ new \notin NodesOf(c) /\ new # Null /\ NodesOf(c) \subseteq DOMAIN node2
          /\ node2[h].next = new /\ node2[new].next = node[h].next
          /\ \A x \in NodesOf(c) \ {h} : node2[x].next = node[x].next
      BY <1>6, <1>7, <1>8, <2>1
    <2>3. \E d : /\ Linked(d, node2, h, Null) /\ NodesOf(d) = NodesOf(c) \cup {new}
                 /\ \A x \in NodesOf(c) \ {h} : RestOf(d, x) = RestOf(c, x)
      BY ONLY <2>2, LinkedInsert
    <2> QED
      BY <2>3
  <1>d. WalkMemory'
    <2>1. Links' = Links
      BY DEF Links
    <2>2. IsFiniteSet(DOMAIN node2) /\ DOMAIN node2 \subseteq Nat
      BY <1>4, <1>7, <1>8, FS_AddElement DEF WalkMemory
    <2>3. \A y \in DOMAIN node2 : node2[y] \in Links
      BY <1>4, <1>8 DEF WalkMemory
    <2>4. mem.removed \subseteq Old'
      BY <1>4, <1>5 DEF WalkMemory
    <2> QED
      BY <1>a, <2>1, <2>2, <2>3, <2>4 DEF WalkMemory
  <1>e. WalkList(d)'
    <2>1. NodesOf(d)' = NodesOf(d) /\ List!head' = List!head
      BY DEF NodesOf, List!head
    <2>2. \A y \in NodesOf(c) \ {h} : node2[y].data \in Old \ mem.removed
      BY <1>2, <1>4, <1>b DEF WalkList
    <2>3. v \notin mem.removed /\ v \in Old' /\ v \notin Old
      BY <1>4, <1>5 DEF WalkMemory
    <2>4. \A y \in NodesOf(d) \ {h} : node2[y].data \in Old' \ mem.removed
      BY <1>5, <1>8, <1>c, <2>2, <2>3
    <2>5. \A y, z \in NodesOf(c) \ {h} : node2[y].data = node2[z].data => y = z
      BY <1>2, <1>4, <1>b DEF WalkList
    <2>6. \A y, z \in NodesOf(d) \ {h} : node2[y].data = node2[z].data => y = z
      BY <1>8, <1>c, <2>2, <2>3, <2>5
    <2> QED
      BY <1>2, <1>a, <1>c, <2>1, <2>4, <2>6 DEF WalkList
  <1>f. ASSUME NEW S \in SUBSET NodesOf(c) PROVE DataIn(S)' = DataIn(S)
    BY <1>a, <1>b DEF DataIn
  <1>g. ASSUME NEW y \in NodesOf(c), mem.node[y].m \in Thread \ {t} PROVE Kept(c, d, y)
    <2>1. y # h /\ y \in DOMAIN mem.node
      BY <1>6, <1>g
    <2>2. mem'.node[y] = mem.node[y] /\ y \in NodesOf(d)
      BY <1>8, <1>a, <1>c, <2>1
    <2>3. PICK S \in SUBSET NodesOf(c) : S = RestOf(c, y)
      BY DEF RestOf, NodesOf
    <2>4. RestOf(d, y) = S
      BY <1>c, <2>1, <2>3
    <2>5. DataIn(S)' = DataIn(S)
      BY <1>f
    <2>6. DataIn(RestOf(d, y))' = DataIn(S)'
      <3>1. RestOf(d, y)' = RestOf(d, y)
        BY DEF RestOf
      <3> QED
        BY <2>4, <3>1 DEF DataIn
    <2>7. /\ DataIn(RestOf(d, y))' \subseteq DataIn(RestOf(c, y))
          /\ DataIn(RestOf(c, y)) \subseteq DataIn(RestOf(d, y))' \cup mem'.removed
      BY <2>3, <2>5, <2>6
    <2> QED
      BY <2>2, <2>7 DEF Kept
  <1>9. WalkSafe(d, t)'
    BY <1>5 DEF WalkSafe, WalkHolds, Walkers
  <1>10. /\ WalkPrivate(t)' \subseteq DOMAIN mem'.node \ NodesOf(d)
         /\ \A u \in Thread : u # t => /\ WalkPrivate(u) \subseteq DOMAIN mem'.node \ NodesOf(d)
                                       /\ WalkPrivate(t)' \cap WalkPrivate(u) = {}
    <2>1. \A u \in Thread : WalkPrivate(u) \subseteq DOMAIN mem.node \ NodesOf(c)
      BY <1>1 DEF WalkAll
    <2> QED
      BY <1>5, <1>7, <1>8, <1>a, <1>c, <2>1
  <1>11. mem.removed \subseteq mem'.removed /\ List!head \in NodesOf(c)
    BY <1>2, <1>6, <1>a
  <1> QED
    BY <1>1, <1>5, <1>9, <1>10, <1>11, <1>d, <1>e, <1>g, WalkStep

\* Every step of the list.
LEMMA WalkStepSafe ==
  ASSUME ThreadsafeAssumption, WalkInv, NEW t \in Thread, List!ListStep(t)
  PROVE  WalkInv'
  <1>1. CASE List!push_front(t)
    BY <1>1, PushHeadSafe, PushFrontSafe DEF List!push_front
  <1>2. CASE \E call \in {"for_each", "find_first_if", "remove_if"} : List!WalkBegins(t, call)
    BY <1>2, WalkBeginsSafe
  <1>3. CASE List!WalkEnds(t) \/ List!LockNext(t) \/ List!LeaveCurrent(t)
    BY <1>3, WalkEndsSafe, LockNextSafe, LeaveCurrentSafe
  <1>4. CASE List!CallF(t)
    <2>1. CASE Head(th[t].todo) = "find_first_if" /\ Match(List!Datum(t))
      BY <1>4, <2>1, FoundSafe
    <2>2. CASE ~(Head(th[t].todo) = "find_first_if" /\ Match(List!Datum(t)))
      BY <1>4, <2>2, VisitedSafe
    <2> QED
      BY <2>1, <2>2
  <1>5. CASE List!remove_if(t)
    BY <1>5, KeepSafe, UnlinkSafe, UnlockRemovedSafe, FreeRemovedSafe DEF List!remove_if
  <1>6. CASE List!End(t)
    BY <1>6, EndSafe
  <1> QED
    BY <1>1, <1>2, <1>3, <1>4, <1>5, <1>6 DEF List!ListStep

\* At first the list is its head.
LEMMA WalkFirst ==
  ASSUME ThreadsafeAssumption, Threading, mem = List!Init, \A t \in Thread : th[t].pc \in Operations \cup {"done"}
  PROVE  WalkInv
  <1>1. /\ {"node", "removed"} \subseteq DOMAIN mem /\ mem.removed = {} /\ DOMAIN mem.node = {List!head}
        /\ mem.node[List!head] = [data |-> Null, next |-> Null, m |-> Null]
    BY DEF List!Init
  <1>2. List!head \in Nat /\ IsFiniteSet({List!head})
    BY FS_Singleton DEF List!head
  <1>3. WalkMemory
    BY <1>1, <1>2 DEF WalkMemory, Links
  <1>4. PICK c : c = <<List!head>>
    OBVIOUS
  <1>5. /\ Len(c) = 1 /\ c[1] = List!head /\ c \in Seq({List!head}) /\ NodesOf(c) = {List!head}
    BY <1>4 DEF NodesOf
  <1>6. Linked(c, mem.node, List!head, Null)
    <2>1. List!head # Null
      BY <1>2 DEF ThreadsafeAssumption
    <2>2. After(c, 1, Null) = List!head /\ After(c, 2, Null) = Null
      BY <1>5 DEF After
    <2>3. \A i \in 1..Len(c) : i = 1 /\ i + 1 = 2
      BY <1>5
    <2> QED
      BY <1>1, <1>5, <2>1, <2>2, <2>3 DEF Linked
  <1>7. WalkList(c)
    BY <1>5, <1>6 DEF WalkList
  <1>8. ASSUME NEW t \in Thread PROVE WalkSafe(c, t) /\ WalkPrivate(t) = {}
    <2>1. th[t].pc \in Operations \cup {"done"} /\ th[t].pc \notin Walkers \cup {"link", "end"}
      BY DEF Operations, Walkers
    <2> QED
      BY <2>1 DEF WalkSafe, WalkHolds, WalkPrivate, Walkers
  <1> QED
    BY <1>3, <1>7, <1>8 DEF WalkInv, WalkAll

\* The invariant says what the readers of the list rely on.
LEMMA WalkersAre ==
  ASSUME ThreadsafeAssumption, WalkInv, NEW t \in Thread
  PROVE  List!Uses(t) \subseteq DOMAIN mem.node /\ List!WalkIsComplete(t)
  <1>1. PICK c : WalkAll(c)
    BY DEF WalkInv
  <1>2. WalkMemory /\ WalkList(c) /\ WalkSafe(c, t) /\ WalkHolds(c, t)
    BY <1>1 DEF WalkInv, WalkAll, WalkSafe
  <1>3. NodesOf(c) \subseteq DOMAIN mem.node
    BY <1>2, HeadIs
  <1>4. List!Uses(t) \subseteq DOMAIN mem.node
    <2>1. CASE th[t].pc = "walk"
      <3>1. PICK x, n : x = th[t].current /\ n = mem.node[x].next
        OBVIOUS
      <3>2. x \in NodesOf(c) /\ (n # Null => n \in NodesOf(c))
        BY <1>1, <2>1, <3>1, WalkHas
      <3>3. List!Uses(t) = {x} \cup ({n} \ {Null})
        BY <2>1, <3>1 DEF List!Uses, List!NextOf
      <3> QED
        BY <1>3, <3>2, <3>3
    <2>2. CASE th[t].pc = "next"
      <3>1. List!Uses(t) = {th[t].current, th[t].next}
        BY <2>2 DEF List!Uses
      <3>2. th[t].current \in NodesOf(c) /\ th[t].next \in NodesOf(c)
        BY <1>2, <2>2 DEF WalkHolds, Walkers
      <3> QED
        BY <1>3, <3>1, <3>2
    <2>3. CASE th[t].pc \in {"call", "unlock", "free"}
      <3>1. List!Uses(t) = {th[t].next}
        BY <2>3 DEF List!Uses
      <3>2. th[t].pc = "call" => th[t].next \in NodesOf(c)
        BY <1>2 DEF WalkHolds
      <3>3. th[t].pc # "call" => WalkPrivate(t) = {th[t].next} /\ WalkPrivate(t) \subseteq DOMAIN mem.node
        BY <1>1, <2>3 DEF WalkPrivate, WalkAll
      <3> QED
        BY <1>3, <3>1, <3>2, <3>3
    <2>4. CASE th[t].pc \notin {"walk", "next", "call", "unlock", "free"}
      BY <2>4 DEF List!Uses
    <2> QED
      BY <2>1, <2>2, <2>3, <2>4
  <1>5. List!WalkIsComplete(t)
    <2> SUFFICES ASSUME th[t].pc = "end"
                 PROVE  /\ Len(th[t].seen) = Cardinality(ToSet(th[t].seen))
                        /\ ToSet(th[t].seen) \cap th[t].before = {}
                        /\ th[t].found = Null => th[t].start \subseteq ToSet(th[t].seen) \cup mem.removed
                        /\ th[t].found = Null /\ Head(th[t].todo) # "for_each" =>
                               \A v \in th[t].start : Match(v) => v \in mem.removed
      <3>1. List!ToSet(th[t].seen) = ToSet(th[t].seen)
        BY DEF List!ToSet, ToSet
      <3>2. List!Cardinality(ToSet(th[t].seen)) = Cardinality(ToSet(th[t].seen))
        BY CardinalityIs
      <3> QED
        BY <3>1, <3>2 DEF List!WalkIsComplete, List!At
    <2>1. WalkSees(t) /\ (th[t].found = Null => MatchesGone(t) /\ th[t].start \subseteq ToSet(th[t].seen) \cup mem.removed)
      BY <1>2 DEF WalkSafe
    <2> QED
      BY <2>1 DEF WalkSees, MatchesGone
  <1> QED
    BY <1>4, <1>5
=============================================================================
