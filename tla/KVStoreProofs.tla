---------------------------- MODULE KVStoreProofs ----------------------------
(***************************************************************************)
(* The progressive resizing of HMap for every hash function, set of keys,  *)
(* amount of resizing work, load factor and initial size.                  *)
(***************************************************************************)
EXTENDS KVStore, FiniteSetTheorems, SequenceTheorems, TLAPS

------------------------------------------------------------------------------
(* What the operations of a hash table do to a table that is in order *)

\* In order: typed, every node in its chain, and the count exact.
WellFormed(h) == Table(h) /\ Placed(h) /\ h.size = Cardinality(Nodes(h))

\* The nodes of a table are finitely many keys.
LEMMA NodesFinite ==
  ASSUME NEW h, Table(h)
  PROVE  Nodes(h) \subseteq Key /\ IsFiniteSet(Nodes(h))
  <1>1. Nodes(h) \subseteq Key
    BY DEF Table, Nodes, ToSet
  <1> QED
    BY <1>1, KeyAssumption, FS_Subset

\* A key belongs to a chain of the table.
LEMMA BucketInRange ==
  ASSUME NEW h, NEW k \in Key, h.buckets \in Nat, h.buckets > 0
  PROVE  Bucket(h, k) \in 0..h.buckets-1
  <1>1. Hash[k] \in Nat
    BY HashAssumption
  <1> QED
    BY <1>1 DEF Bucket

\* HTab{} and a table fresh from h_init are in order and hold no node.
LEMMA EmptyTable ==
  /\ WellFormed(NoTable) /\ Nodes(NoTable) = {}
  /\ \A n \in Nat : WellFormed(h_init(n)) /\ Nodes(h_init(n)) = {}
  <1>1. \A n \in Nat : Table(h_init(n)) /\ Placed(h_init(n)) /\ Nodes(h_init(n)) = {}
    BY DEF h_init, Table, Placed, Nodes, ToSet
  <1>2. Table(NoTable) /\ Placed(NoTable) /\ Nodes(NoTable) = {}
    BY DEF NoTable, Table, Placed, Nodes, ToSet
  <1>3. Cardinality({}) = 0
    BY FS_EmptySet
  <1> QED
    BY <1>1, <1>2, <1>3 DEF WellFormed, h_init, NoTable

\* h_lookup finds exactly the nodes of the table.
LEMMA LookupFinds ==
  ASSUME NEW h, WellFormed(h), NEW k \in Key
  PROVE  h_lookup(h, k) <=> k \in Nodes(h)
  <1>1. ASSUME h_lookup(h, k) PROVE k \in Nodes(h)
    <2>1. Bucket(h, k) \in 0..h.buckets-1
      BY <1>1, BucketInRange DEF h_lookup, WellFormed, Table
    <2> QED
      BY <1>1, <2>1 DEF h_lookup, Nodes, ToSet, WellFormed, Table
  <1>2. ASSUME k \in Nodes(h) PROVE h_lookup(h, k)
    <2>1. PICK pos \in 0..h.buckets-1 : \E i \in DOMAIN h.tab[pos] : h.tab[pos][i] = k
      BY <1>2 DEF Nodes, ToSet
    <2>2. Bucket(h, k) = pos /\ h.buckets > 0
      BY <2>1 DEF WellFormed, Placed, Table
    <2> QED
      BY <2>1, <2>2 DEF h_lookup
  <1> QED
    BY <1>1, <1>2

\* new is the chain with k in front.
Pushed(new, k, chain) ==
    /\ new \in Seq(Key)
    /\ DOMAIN new = 1..Len(chain)+1
    /\ \A i \in DOMAIN new :
          (i = 1 /\ new[i] = k) \/ (i-1 \in DOMAIN chain /\ new[i] = chain[i-1])
    /\ ToSet(new) = ToSet(chain) \cup {k}

\* A node pushed to the front of a chain.
LEMMA PushFront ==
  ASSUME NEW chain \in Seq(Key), NEW k \in Key, NEW new, new = Cons(k, chain)
  PROVE  Pushed(new, k, chain)
  <1>0. new = <<k>> \o chain
    BY DEF Cons
  <1>1. new \in Seq(Key) /\ Len(new) = Len(chain) + 1
    BY <1>0
  <1>2. DOMAIN new = 1..Len(chain)+1 /\ DOMAIN chain = 1..Len(chain)
    BY <1>1
  <1>3. new[1] = k /\ \A i \in 1..Len(chain) : new[i+1] = chain[i]
    BY <1>0, <1>2
  <1>4. ToSet(new) \subseteq ToSet(chain) \cup {k}
    <2> SUFFICES ASSUME NEW i \in DOMAIN new, i # 1
                 PROVE  \E j \in DOMAIN chain : new[i] = chain[j]
      BY <1>3 DEF ToSet
    <2>1. i-1 \in DOMAIN chain /\ (i-1)+1 = i
      BY <1>2
    <2> QED
      BY <2>1, <1>2, <1>3
  <1>5. ToSet(chain) \cup {k} \subseteq ToSet(new)
    <2>1. 1 \in DOMAIN new /\ new[1] = k
      BY <1>2, <1>3
    <2>2. \A j \in DOMAIN chain : j+1 \in DOMAIN new /\ new[j+1] = chain[j]
      BY <1>2, <1>3
    <2> QED
      BY <2>1, <2>2 DEF ToSet
  <1>6. \A i \in DOMAIN new :
           (i = 1 /\ new[i] = k) \/ (i-1 \in DOMAIN chain /\ new[i] = chain[i-1])
    <2> SUFFICES ASSUME NEW i \in DOMAIN new, i # 1
                 PROVE  i-1 \in DOMAIN chain /\ new[i] = chain[i-1]
      BY <1>3
    <2>1. i-1 \in 1..Len(chain) /\ (i-1)+1 = i
      BY <1>2
    <2> QED
      BY <2>1, <1>2, <1>3
  <1> QED
    BY <1>1, <1>2, <1>3, <1>4, <1>5, <1>6 DEF Pushed

\* A node taken out of a chain.
LEMMA TakeOut ==
  ASSUME NEW chain \in Seq(Key), NEW i \in DOMAIN chain,
         NEW new, new = RemoveAt(chain, i)
  PROVE  /\ new \in Seq(Key)
         /\ DOMAIN new = 1..Len(chain)-1
         /\ \A j \in DOMAIN new : new[j] = IF j < i THEN chain[j] ELSE chain[j+1]
         /\ ToSet(new) = {chain[j] : j \in DOMAIN chain \ {i}}
  <1>0. i \in 1..Len(chain) /\ Len(chain) \in Nat
    OBVIOUS
  <1>1. PICK before : before = SubSeq(chain, 1, i-1)
    OBVIOUS
  <1>2. PICK after : after = SubSeq(chain, i+1, Len(chain))
    OBVIOUS
  <1>3. /\ before \in Seq(Key) /\ Len(before) = i-1
        /\ \A j \in 1..i-1 : before[j] = chain[j]
    BY <1>1, <1>0
  <1>b. /\ after \in Seq(Key) /\ Len(after) = Len(chain) - i
        /\ \A j \in 1..Len(chain)-i : after[j] = chain[j+i]
    BY <1>2, <1>0
  <1>c. new = before \o after
    BY <1>1, <1>2 DEF RemoveAt
  <1>4. new \in Seq(Key) /\ Len(new) = Len(chain)-1
    BY <1>0, <1>3, <1>b, <1>c
  <1>5. DOMAIN new = 1..Len(chain)-1 /\ DOMAIN chain = 1..Len(chain)
    BY <1>4
  <1>6. \A j \in DOMAIN new : new[j] = IF j < i THEN chain[j] ELSE chain[j+1]
    <2> SUFFICES ASSUME NEW j \in 1..Len(chain)-1
                 PROVE  new[j] = IF j < i THEN chain[j] ELSE chain[j+1]
      BY <1>5
    <2>1. CASE j < i
      BY <2>1, <1>0, <1>3, <1>b, <1>c
    <2>2. CASE j >= i
      <3>1. j - (i-1) \in 1..Len(chain)-i
        BY <2>2, <1>0
      <3>2. new[j] = after[j - (i-1)]
        <4>1. j \in 1..Len(before) + Len(after) /\ ~ j <= Len(before)
          BY <2>2, <1>0, <1>3, <1>b
        <4>2. \A x \in 1..Len(before) + Len(after) : (before \o after)[x] =
                 IF x <= Len(before) THEN before[x] ELSE after[x - Len(before)]
          BY ONLY <1>3, <1>b, ConcatProperties
        <4> QED
          BY ONLY <4>1, <4>2, <1>c, <1>3
      <3> QED
        BY <3>1, <3>2, <2>2, <1>0, <1>b
    <2> QED
      BY <2>1, <2>2, <1>0
  <1>7. ToSet(new) \subseteq {chain[j] : j \in DOMAIN chain \ {i}}
    <2> SUFFICES ASSUME NEW j \in DOMAIN new
                 PROVE  \E x \in DOMAIN chain \ {i} : new[j] = chain[x]
      BY DEF ToSet
    <2>1. CASE j < i
      BY <2>1, <1>0, <1>5, <1>6
    <2>2. CASE j >= i
      <3>1. j+1 \in DOMAIN chain \ {i}
        BY <2>2, <1>0, <1>5
      <3> QED
        BY <3>1, <2>2, <1>0, <1>5, <1>6
    <2> QED
      BY <2>1, <2>2, <1>0, <1>5
  <1>8. {chain[j] : j \in DOMAIN chain \ {i}} \subseteq ToSet(new)
    <2> SUFFICES ASSUME NEW x \in DOMAIN chain \ {i}
                 PROVE  \E j \in DOMAIN new : new[j] = chain[x]
      BY DEF ToSet
    <2>1. CASE x < i
      BY <2>1, <1>0, <1>5, <1>6
    <2>2. CASE x > i
      <3>1. x-1 \in DOMAIN new
        BY <2>2, <1>0, <1>5
      <3> QED
        BY <3>1, <2>2, <1>0, <1>5, <1>6
    <2> QED
      BY <2>1, <2>2, <1>0, <1>5
  <1> QED
    BY <1>4, <1>5, <1>6, <1>7, <1>8

\* h_insert adds a node that was not there.
LEMMA InsertAdds ==
  ASSUME NEW h, WellFormed(h), h.buckets > 0, NEW k \in Key, k \notin Nodes(h),
         NEW g, g = h_insert(h, k)
  PROVE  /\ WellFormed(g)
         /\ Nodes(g) = Nodes(h) \cup {k}
         /\ g.buckets = h.buckets
         /\ g.size = h.size + 1
  <1>1. PICK b : b = Bucket(h, k)
    OBVIOUS
  <1>2. b \in 0..h.buckets-1 /\ h.tab[b] \in Seq(Key)
    BY <1>1, BucketInRange DEF WellFormed, Table
  <1>3. PICK chain \in Seq(Key) : chain = h.tab[b]
    BY <1>2
  <1>4. PICK new : new = Cons(k, chain)
    OBVIOUS
  <1>5. /\ g.buckets = h.buckets /\ g.size = h.size + 1
        /\ g.tab = [h.tab EXCEPT ![b] = new]
        /\ g \in [buckets : {h.buckets}, tab : {g.tab}, size : {h.size+1}]
    BY <1>1, <1>3, <1>4 DEF h_insert, WellFormed, Table
  <1>6. /\ new \in Seq(Key)
        /\ DOMAIN new = 1..Len(chain)+1
        /\ \A i \in DOMAIN new :
              (i = 1 /\ new[i] = k) \/ (i-1 \in DOMAIN chain /\ new[i] = chain[i-1])
        /\ ToSet(new) = ToSet(chain) \cup {k}
    <2>1. Pushed(new, k, chain)
      BY <1>3, <1>4, PushFront
    <2> QED
      BY <2>1 DEF Pushed
  <1>7. \A pos \in 0..h.buckets-1 : g.tab[pos] = IF pos = b THEN new ELSE h.tab[pos]
    BY <1>2, <1>5 DEF WellFormed, Table
  <1>8. Table(g)
    <2>1. g.tab \in [0..h.buckets-1 -> Seq(Key)] /\ h.size + 1 \in Nat /\ h.buckets \in Nat
      BY <1>2, <1>5, <1>6 DEF WellFormed, Table
    <2> QED
      BY <2>1, <1>5 DEF Table
  <1>9. Nodes(g) = Nodes(h) \cup {k}
    <2>1. \A x : x \in Nodes(h) <=> \E pos \in 0..h.buckets-1 : x \in ToSet(h.tab[pos])
      BY DEF Nodes
    <2>2. \A x : x \in Nodes(g) <=> \E pos \in 0..h.buckets-1 : x \in ToSet(g.tab[pos])
      BY <1>5 DEF Nodes
    <2>3. \A pos \in 0..h.buckets-1 :
             ToSet(g.tab[pos]) = IF pos = b THEN ToSet(h.tab[pos]) \cup {k}
                                 ELSE ToSet(h.tab[pos])
      BY <1>3, <1>6, <1>7
    <2>4. \A x : x \in Nodes(g) <=> x \in Nodes(h) \/ x = k
      BY <1>2, <2>1, <2>2, <2>3
    <2> QED
      BY <2>4
  <1>10. Placed(g)
    <2> SUFFICES ASSUME NEW pos \in 0..h.buckets-1, NEW i \in DOMAIN g.tab[pos]
                 PROVE  /\ Bucket(h, g.tab[pos][i]) = pos
                        /\ \A j \in DOMAIN g.tab[pos] :
                              g.tab[pos][i] = g.tab[pos][j] => i = j
      BY <1>5 DEF Placed, Bucket
    <2>1. CASE pos # b
      BY <2>1, <1>7 DEF WellFormed, Placed
    <2>2. CASE pos = b
      <3>1. \A j \in 1..Len(chain) : /\ chain[j] # k
                                     /\ Bucket(h, chain[j]) = b
                                     /\ \A x \in 1..Len(chain) :
                                           chain[x] = chain[j] => x = j
        BY <1>2, <1>3 DEF Nodes, ToSet, WellFormed, Placed
      <3>2. g.tab[pos] = new
        BY <2>2, <1>7
      <3>3. \A j \in DOMAIN chain : j \in 1..Len(chain)
        OBVIOUS
      <3>4. i \in DOMAIN new /\ DOMAIN new \subseteq Nat
        BY <3>2, <1>6
      <3>5. Bucket(h, new[i]) = b
        <4>1. CASE new[i] = k
          BY <4>1, <1>1
        <4>2. CASE i-1 \in DOMAIN chain /\ new[i] = chain[i-1]
          BY <4>2, <3>1, <3>3
        <4> QED
          BY <4>1, <4>2, <3>4, <1>6
      <3>6. ASSUME NEW j \in DOMAIN new, new[i] = new[j]
            PROVE  i = j
        BY <3>1, <3>3, <3>4, <3>6, <1>6
      <3> QED
        BY <3>2, <3>5, <3>6, <2>2
    <2> QED
      BY <2>1, <2>2
  <1>11. g.size = Cardinality(Nodes(g))
    <2>1. IsFiniteSet(Nodes(h))
      BY NodesFinite DEF WellFormed
    <2>2. Cardinality(Nodes(h) \cup {k}) = Cardinality(Nodes(h)) + 1
      BY <2>1, FS_AddElement
    <2> QED
      BY <2>2, <1>5, <1>9 DEF WellFormed
  <1> QED
    BY <1>5, <1>8, <1>9, <1>10, <1>11 DEF WellFormed

\* h_detach removes the node it is given, and only that.
LEMMA DetachRemoves ==
  ASSUME NEW h, WellFormed(h), NEW b \in 0..h.buckets-1, NEW i \in DOMAIN h.tab[b],
         NEW g, g = h_detach(h, b, i)
  PROVE  /\ WellFormed(g)
         /\ Nodes(g) = Nodes(h) \ {h.tab[b][i]}
         /\ h.tab[b][i] \in Nodes(h)
         /\ g.buckets = h.buckets
         /\ g.size = h.size - 1
         /\ \A pos \in 0..h.buckets-1 : h.tab[pos] = <<>> => g.tab[pos] = <<>>
  <1>1. h.tab[b] \in Seq(Key) /\ h.tab[b][i] \in Nodes(h) /\ h.buckets \in Nat
    BY DEF WellFormed, Table, Nodes, ToSet
  <1>2. PICK chain \in Seq(Key) : chain = h.tab[b]
    BY <1>1
  <1>3. PICK new : new = RemoveAt(chain, i)
    OBVIOUS
  <1>4. /\ new \in Seq(Key)
        /\ DOMAIN new = 1..Len(chain)-1
        /\ \A j \in DOMAIN new : new[j] = IF j < i THEN chain[j] ELSE chain[j+1]
        /\ ToSet(new) = {chain[j] : j \in DOMAIN chain \ {i}}
    BY <1>2, <1>3, TakeOut
  <1>5. h.size - 1 \in Nat
    <2>1. h.size \in Nat /\ h.size # 0
      BY <1>1, NodesFinite, FS_EmptySet DEF WellFormed, Table
    <2> QED
      BY <2>1
  <1>6. /\ g.buckets = h.buckets /\ g.size = h.size - 1
        /\ g.tab = [h.tab EXCEPT ![b] = new]
        /\ g \in [buckets : {h.buckets}, tab : {g.tab}, size : {h.size-1}]
    BY <1>2, <1>3 DEF h_detach, WellFormed, Table
  <1>7. \A pos \in 0..h.buckets-1 : g.tab[pos] = IF pos = b THEN new ELSE h.tab[pos]
    BY <1>6 DEF WellFormed, Table
  <1>8. Table(g)
    BY <1>4, <1>5, <1>6 DEF WellFormed, Table
  <1>9. \A j, x \in DOMAIN chain : chain[j] = chain[x] => j = x
    BY <1>2 DEF WellFormed, Placed
  <1>10. Nodes(g) = Nodes(h) \ {chain[i]}
    <2>1. ToSet(new) = ToSet(chain) \ {chain[i]}
      <3>1. i \in DOMAIN chain
        BY <1>2
      <3>2. \A j \in DOMAIN chain \ {i} : chain[j] # chain[i]
        BY <3>1, <1>9
      <3> QED
        BY <3>1, <3>2, <1>4 DEF ToSet
    <2>2. \A pos \in 0..h.buckets-1 : pos # b => chain[i] \notin ToSet(h.tab[pos])
      BY <1>2 DEF WellFormed, Placed, ToSet
    <2> QED
      BY <1>2, <1>6, <1>7, <2>1, <2>2 DEF Nodes
  <1>11. Placed(g)
    <2> SUFFICES ASSUME NEW pos \in 0..h.buckets-1, NEW j \in DOMAIN g.tab[pos]
                 PROVE  /\ Bucket(h, g.tab[pos][j]) = pos
                        /\ \A x \in DOMAIN g.tab[pos] :
                              g.tab[pos][j] = g.tab[pos][x] => j = x
      BY <1>6 DEF Placed, Bucket
    <2>1. CASE pos # b
      BY <2>1, <1>7 DEF WellFormed, Placed
    <2>2. CASE pos = b
      <3>1. g.tab[pos] = new /\ DOMAIN chain = 1..Len(chain)
        BY <2>2, <1>7
      <3>2. \A x \in DOMAIN chain : Bucket(h, chain[x]) = b
        BY <1>2 DEF WellFormed, Placed
      <3>3. i \in 1..Len(chain)
        BY <1>2, <3>1
      <3> QED
        BY <3>1, <3>2, <3>3, <2>2, <1>4, <1>9
    <2> QED
      BY <2>1, <2>2
  <1>12. g.size = Cardinality(Nodes(g))
    <2>1. IsFiniteSet(Nodes(h))
      BY NodesFinite DEF WellFormed
    <2>2. Cardinality(Nodes(h) \ {chain[i]}) = Cardinality(Nodes(h)) - 1
      BY <2>1, <1>1, <1>2, FS_RemoveElement
    <2> QED
      BY <2>2, <1>6, <1>10 DEF WellFormed
  <1>13. \A pos \in 0..h.buckets-1 : h.tab[pos] = <<>> => g.tab[pos] = <<>>
    BY <1>7
  <1> QED
    BY <1>1, <1>2, <1>6, <1>8, <1>10, <1>11, <1>12, <1>13 DEF WellFormed

\* PlaceOf is a place where the key is.
LEMMA PlaceFound ==
  ASSUME NEW h, WellFormed(h), NEW k \in Key, h_lookup(h, k)
  PROVE  /\ Bucket(h, k) \in 0..h.buckets-1
         /\ PlaceOf(h, k) \in DOMAIN h.tab[Bucket(h, k)]
         /\ h.tab[Bucket(h, k)][PlaceOf(h, k)] = k
  <1>1. PICK b : b = Bucket(h, k)
    OBVIOUS
  <1>2. b \in 0..h.buckets-1 /\ h.tab[b] \in Seq(Key)
    BY <1>1, BucketInRange DEF WellFormed, Table, h_lookup
  <1>3. PICK i \in DOMAIN h.tab[b] : h.tab[b][i] = k
    BY <1>1 DEF h_lookup
  <1>4. \A j \in 1..i-1 : h.tab[b][j] # k
    BY <1>2, <1>3 DEF WellFormed, Placed
  <1> QED
    BY <1>1, <1>2, <1>3, <1>4 DEF PlaceOf

------------------------------------------------------------------------------
(* The two tables of an HMap *)

\* Both tables are in order and share no node.
Tables ==
    /\ WellFormed(ht1) /\ WellFormed(ht2)
    /\ Nodes(ht1) \cap Nodes(ht2) = {}
    /\ ht2.buckets > 0 => ht1.buckets > 0

\* The chains of ht2 the resizing has passed are empty.
Drained ==
    \A pos \in 0..ht2.buckets-1 : pos < resizing_pos => ht2.tab[pos] = <<>>

\* A node in a table belongs to an entry with a value.
AllNodes == Nodes(ht1) \cup Nodes(ht2)
Entries == \A k \in AllNodes : val[k] \in Value

\* What a command in execution is.
InCommand ==
    IF pc = "idle" THEN cmd = NoCommand
    ELSE /\ cmd \in [op : {"get", "set", "del"}, key : Key, val : Value \cup {Nil}]
         /\ cmd.op = "set" => cmd.val \in Value
         /\ pc = "insert" => cmd.op = "set"

\* A node that is still in ht2 counts twice: it has been inserted once and will
\* be once more.  An insertion adds one to the load, and the move of a node that
\* follows it takes one off.
Load == ht1.size + 2 * ht2.size
Capacity == k_max_load_factor * ht1.buckets
LoadInv ==
    /\ ht1.buckets > 0 /\ pc # "insert" => Load < Capacity
    /\ ht1.buckets > 0 /\ pc = "insert" =>
          /\ Load <= Capacity
          /\ Load = Capacity => nwork = 0 /\ ht2.size > 0
    /\ pc = "act" /\ ht2.buckets > 0 => ht2.size > 0

IInv == TypeOK /\ Tables /\ Drained /\ Entries /\ InCommand /\ LoadInv

------------------------------------------------------------------------------
\* A table with nodes in it has chains.
LEMMA SizePositive ==
  ASSUME NEW h, WellFormed(h), h.size > 0
  PROVE  \E pos \in 0..h.buckets-1 : h.tab[pos] # <<>>
  <1>1. Nodes(h) # {}
    BY FS_EmptySet DEF WellFormed
  <1>2. PICK k \in Nodes(h) : TRUE
    BY <1>1
  <1>3. PICK pos \in 0..h.buckets-1 : k \in ToSet(h.tab[pos])
    BY <1>2 DEF Nodes
  <1> QED
    BY <1>3 DEF ToSet

\* A table without chains holds no node.
LEMMA NoBuckets ==
  ASSUME NEW h, WellFormed(h), h.buckets = 0
  PROVE  Nodes(h) = {} /\ h.size = 0
  <1>1. 0..h.buckets-1 = {}
    OBVIOUS
  <1>2. Nodes(h) = {}
    BY <1>1 DEF Nodes
  <1> QED
    BY <1>2, FS_EmptySet DEF WellFormed

\* The loop of hm_help_resizing stays within ht2.
LEMMA InBounds ==
  ASSUME Tables, Drained, TypeOK, ht2.size > 0
  PROVE  resizing_pos \in 0..ht2.buckets-1 /\ ht1.buckets > 0
  <1>1. PICK pos \in 0..ht2.buckets-1 : ht2.tab[pos] # <<>>
    BY SizePositive DEF Tables
  <1>2. ~(pos < resizing_pos)
    BY <1>1 DEF Drained
  <1>3. ht2.buckets \in Nat /\ resizing_pos \in Nat
    BY DEF Tables, WellFormed, Table, TypeOK
  <1> QED
    BY <1>1, <1>2, <1>3 DEF Tables

\* The initial state satisfies the invariant.
LEMMA InitIInv == Init => IInv
  <1> SUFFICES ASSUME Init PROVE IInv
    OBVIOUS
  <1>1. /\ WellFormed(NoTable) /\ Nodes(NoTable) = {}
        /\ NoTable.buckets = 0 /\ NoTable.size = 0
    BY EmptyTable DEF NoTable
  <1>2. Table(NoTable)
    BY <1>1 DEF WellFormed
  <1>3. TypeOK
    BY <1>2, KVStoreAssumption DEF Init, TypeOK
  <1> QED
    BY <1>1, <1>3 DEF Init, IInv, Tables, Drained, Entries, AllNodes, InCommand, LoadInv

\* A new command.
LEMMA CommandIInv ==
  ASSUME IInv, Command
  PROVE  IInv'
  <1>1. ASSUME NEW op \in {"get", "set", "del"}, NEW k \in Key,
               NEW v \in Value \cup {Nil}, op = "set" => v \in Value, Start(op, k, v)
        PROVE  IInv'
    <2>1. TypeOK'
      BY <1>1, KVStoreAssumption DEF IInv, TypeOK, Start
    <2>2. Tables' /\ Drained' /\ Entries'
      BY <1>1 DEF IInv, Tables, Drained, Entries, AllNodes, Start
    <2>3. InCommand'
      BY <1>1 DEF IInv, InCommand, Start
    <2>4. LoadInv'
      BY <1>1 DEF IInv, LoadInv, Load, Capacity, Start
    <2> QED
      BY <2>1, <2>2, <2>3, <2>4 DEF IInv
  <1>2. CASE do_keys
    BY <1>2 DEF IInv, TypeOK, Tables, Drained, Entries, AllNodes, InCommand, LoadInv, Load,
                Capacity, do_keys
  <1>3. ASSUME NEW k \in Key, do_get(k) PROVE IInv'
    BY <1>1, <1>3 DEF do_get
  <1>4. ASSUME NEW k \in Key, do_del(k) PROVE IInv'
    BY <1>1, <1>4 DEF do_del
  <1>5. ASSUME NEW k \in Key, NEW v \in Value, do_set(k, v) PROVE IInv'
    BY <1>1, <1>5 DEF do_set
  <1> QED
    BY <1>2, <1>3, <1>4, <1>5 DEF Command

\* The node that MoveNode moves, and what the two tables then hold.
LEMMA MoveNodeEffect ==
  ASSUME IInv, MoveNode
  PROVE  /\ WellFormed(ht1') /\ WellFormed(ht2')
         /\ ht1'.buckets = ht1.buckets /\ ht1'.size = ht1.size + 1
         /\ ht2'.buckets = ht2.buckets /\ ht2'.size = ht2.size - 1
         /\ \E k \in Nodes(ht2) : /\ Nodes(ht1') = Nodes(ht1) \cup {k}
                                  /\ Nodes(ht2') = Nodes(ht2) \ {k}
         /\ \A pos \in 0..ht2.buckets-1 : ht2.tab[pos] = <<>> => ht2'.tab[pos] = <<>>
  <1>1. resizing_pos \in 0..ht2.buckets-1 /\ ht1.buckets > 0
    BY InBounds DEF IInv, MoveNode, Helping
  <1>2. PICK chain \in Seq(Key) : chain = ht2.tab[resizing_pos]
    BY <1>1 DEF IInv, Tables, WellFormed, Table
  <1>3. 1 \in DOMAIN chain /\ Head(chain) = chain[1] /\ chain[1] \in Key
    BY <1>2 DEF MoveNode
  <1>4. PICK k \in Key : k = chain[1]
    BY <1>3
  <1>5. ht1' = h_insert(ht1, k) /\ ht2' = h_detach(ht2, resizing_pos, 1)
    BY <1>2, <1>3, <1>4 DEF MoveNode
  <1>6. /\ WellFormed(ht2') /\ Nodes(ht2') = Nodes(ht2) \ {k} /\ k \in Nodes(ht2)
        /\ ht2'.buckets = ht2.buckets /\ ht2'.size = ht2.size - 1
        /\ \A pos \in 0..ht2.buckets-1 : ht2.tab[pos] = <<>> => ht2'.tab[pos] = <<>>
    BY <1>1, <1>2, <1>3, <1>4, <1>5, DetachRemoves DEF IInv, Tables
  <1>7. k \notin Nodes(ht1)
    BY <1>6 DEF IInv, Tables
  <1>8. /\ WellFormed(ht1') /\ Nodes(ht1') = Nodes(ht1) \cup {k}
        /\ ht1'.buckets = ht1.buckets /\ ht1'.size = ht1.size + 1
    BY <1>1, <1>5, <1>7, InsertAdds DEF IInv, Tables
  <1> QED
    BY <1>6, <1>8

\* An iteration of hm_help_resizing, and its return.
LEMMA HelpIInv ==
  ASSUME IInv, Help
  PROVE  IInv' /\ AllNodes' = AllNodes
  <1> USE KVStoreAssumption
  <1>0. /\ ht1.buckets \in Nat /\ ht1.size \in Nat /\ ht2.buckets \in Nat
        /\ ht2.size \in Nat /\ resizing_pos \in Nat /\ nwork \in Nat
        /\ Table(ht1) /\ Table(ht2)
    BY DEF IInv, TypeOK, Tables, WellFormed, Table
  <1>1. CASE SkipBucket
    <2>1. TypeOK'
      BY <1>1 DEF IInv, TypeOK, SkipBucket
    <2>2. Drained'
      BY <1>0, <1>1 DEF IInv, Drained, SkipBucket
    <2>3. AllNodes' = AllNodes
      BY <1>1 DEF SkipBucket, AllNodes
    <2>4. Tables' /\ Entries' /\ InCommand' /\ LoadInv'
      BY <1>1 DEF IInv, Tables, Entries, AllNodes, InCommand, LoadInv, Load, Capacity, SkipBucket
    <2> QED
      BY <2>1, <2>2, <2>3, <2>4 DEF IInv
  <1>2. CASE MoveNode
    <2>1. PICK k \in Nodes(ht2) : /\ Nodes(ht1') = Nodes(ht1) \cup {k}
                                  /\ Nodes(ht2') = Nodes(ht2) \ {k}
      BY <1>2, MoveNodeEffect
    <2>2. /\ WellFormed(ht1') /\ WellFormed(ht2')
          /\ ht1'.buckets = ht1.buckets /\ ht1'.size = ht1.size + 1
          /\ ht2'.buckets = ht2.buckets /\ ht2'.size = ht2.size - 1
          /\ \A pos \in 0..ht2.buckets-1 :
                ht2.tab[pos] = <<>> => ht2'.tab[pos] = <<>>
      BY <1>2, MoveNodeEffect
    <2>3. UNCHANGED <<resizing_pos, val, cmd, pc, reply>> /\ nwork' = nwork + 1
          /\ nwork < k_resizing_work /\ ht2.size > 0 /\ pc \in {"lookup", "insert"}
      BY <1>2 DEF MoveNode, Helping
    <2>4. TypeOK'
      BY <1>0, <2>2, <2>3 DEF IInv, TypeOK, WellFormed
    <2>5. Tables' /\ Entries'
      BY <2>1, <2>2, <2>3 DEF IInv, Tables, Entries, AllNodes
    <2>6. Drained' /\ InCommand'
      BY <2>2, <2>3 DEF IInv, Drained, InCommand
    <2>7. LoadInv'
      <3>1. PICK c : c = Capacity
        OBVIOUS
      <3>2. Capacity' = c /\ c \in Nat
        BY <2>2, <3>1, <1>0 DEF Capacity
      <3>3. Load' = Load - 1 /\ Load \in Nat
        <4>1. ht1'.size = ht1.size + 1 /\ ht2'.size = ht2.size - 1
          BY <2>2
        <4> QED
          BY <4>1, <1>0 DEF Load
      <3> QED
        BY <1>0, <2>2, <2>3, <3>1, <3>2, <3>3 DEF IInv, LoadInv
    <2>8. AllNodes' = AllNodes
      BY <2>1 DEF AllNodes
    <2> QED
      BY <2>4, <2>5, <2>6, <2>7, <2>8 DEF IInv
  <1>3. CASE HelpReturns
    <2>1. CASE ht2.size = 0
      <3>1. /\ ht2' = NoTable /\ NoTable.buckets = 0 /\ NoTable.size = 0
            /\ WellFormed(NoTable) /\ Nodes(NoTable) = {}
        BY <1>3, <2>1, EmptyTable DEF HelpReturns, NoTable
      <3>2. Nodes(ht2) = {}
        BY <2>1, NodesFinite, FS_EmptySet DEF IInv, Tables, WellFormed
      <3>3. UNCHANGED <<ht1, resizing_pos, nwork, val, reply>>
        BY <1>3 DEF HelpReturns
      <3>4. /\ pc \in {"lookup", "insert"}
            /\ pc' = IF pc = "lookup" THEN "act" ELSE "idle"
            /\ cmd' = IF pc = "lookup" THEN cmd ELSE NoCommand
        BY <1>3 DEF HelpReturns
      <3>5. TypeOK'
        BY <1>0, <3>1, <3>3, <3>4 DEF IInv, TypeOK, WellFormed
      <3>6. Tables' /\ Entries' /\ Drained'
        BY <3>1, <3>2, <3>3 DEF IInv, Tables, Entries, AllNodes, Drained
      <3>7. InCommand'
        BY <3>4 DEF IInv, InCommand
      <3>8. LoadInv'
        <4>1. PICK c : c = Capacity
          OBVIOUS
        <4>2. Capacity' = c
          BY <3>3, <4>1 DEF Capacity
        <4>3. Load' = Load
          BY <3>1, <3>3, <2>1, <1>0 DEF Load
        <4>4. c \in Nat /\ Load \in Nat
          BY <1>0, <4>1 DEF Capacity, Load
        <4> QED
          BY <1>0, <2>1, <3>1, <3>3, <3>4, <4>1, <4>2, <4>3, <4>4 DEF IInv, LoadInv
      <3>9. AllNodes' = AllNodes
        BY <3>1, <3>2, <3>3 DEF AllNodes
      <3> QED
        BY <3>5, <3>6, <3>7, <3>8, <3>9 DEF IInv
    <2>2. CASE ht2.size # 0
      <3>1. UNCHANGED <<ht1, ht2, resizing_pos, nwork, val, reply>>
        BY <1>3, <2>2 DEF HelpReturns
      <3>2. /\ pc \in {"lookup", "insert"}
            /\ pc' = IF pc = "lookup" THEN "act" ELSE "idle"
            /\ cmd' = IF pc = "lookup" THEN cmd ELSE NoCommand
        BY <1>3 DEF HelpReturns
      <3>3. TypeOK'
        BY <3>1, <3>2 DEF IInv, TypeOK
      <3>4. Tables' /\ Entries' /\ Drained'
        BY <3>1 DEF IInv, Tables, Entries, AllNodes, Drained
      <3>5. InCommand'
        BY <3>2 DEF IInv, InCommand
      <3>6. resizing_pos \in 0..ht2.buckets-1
        BY <2>2, <1>0, InBounds DEF IInv
      <3>7. nwork # 0
        BY <1>0, <1>3, <2>2, <3>6 DEF HelpReturns, Helping
      <3>8. LoadInv'
        <4>1. PICK c : c = Capacity
          OBVIOUS
        <4>2. Capacity' = c /\ Load' = Load
          BY <3>1, <4>1 DEF Capacity, Load
        <4>3. c \in Nat /\ Load \in Nat
          BY <1>0, <4>1 DEF Capacity, Load
        <4> QED
          BY <1>0, <2>2, <3>1, <3>2, <3>7, <4>1, <4>2, <4>3 DEF IInv, LoadInv
      <3>9. AllNodes' = AllNodes
        BY <3>1 DEF AllNodes
      <3> QED
        BY <3>3, <3>4, <3>5, <3>8, <3>9 DEF IInv
    <2> QED
      BY <2>1, <2>2
  <1> QED
    BY <1>1, <1>2, <1>3 DEF Help

\* A command that does not insert acts.
LEMMA ActIInv ==
  ASSUME IInv, GetAnswers \/ SetUpdates \/ hm_pop
  PROVE  IInv' /\ AllNodes' = IF hm_pop THEN AllNodes \ {cmd.key} ELSE AllNodes
  <1> USE KVStoreAssumption
  <1>0. /\ ht1.buckets \in Nat /\ ht1.size \in Nat /\ ht2.buckets \in Nat
        /\ ht2.size \in Nat /\ Table(ht1) /\ Table(ht2)
        /\ pc = "act" /\ cmd.key \in Key /\ cmd.op \in {"get", "set", "del"}
    BY DEF IInv, TypeOK, InCommand, Tables, WellFormed, Table, GetAnswers, SetUpdates,
           hm_pop
  <1>1. reply'.op = cmd.op /\ pc' = "idle" /\ cmd' = NoCommand
        /\ UNCHANGED <<resizing_pos, nwork>>
    BY DEF GetAnswers, SetUpdates, hm_pop, Answer, Finish
  <1>2. InCommand'
    BY <1>1 DEF InCommand
  <1>3. CASE GetAnswers \/ SetUpdates
    <2>1. UNCHANGED <<ht1, ht2>>
      BY <1>3 DEF GetAnswers, SetUpdates
    <2>2. \/ UNCHANGED val
          \/ cmd.val \in Value /\ val' = [val EXCEPT ![cmd.key] = cmd.val]
      BY <1>0, <1>3 DEF IInv, InCommand, GetAnswers, SetUpdates
    <2>3. val' \in [Key -> Value \cup {Nil}]
      BY <1>0, <2>2 DEF IInv, TypeOK
    <2>4. \A k \in Key : val[k] \in Value => val'[k] \in Value
      BY <1>0, <2>2 DEF IInv, TypeOK
    <2>5. TypeOK'
      BY <1>0, <1>1, <2>1, <2>3 DEF IInv, TypeOK
    <2>6. Tables' /\ Drained'
      BY <1>1, <2>1 DEF IInv, Tables, Drained
    <2>7. Entries'
      BY <1>0, <2>1, <2>4, NodesFinite DEF IInv, Entries, AllNodes
    <2>8. LoadInv'
      BY <1>0, <1>1, <2>1 DEF IInv, LoadInv, Load, Capacity
    <2>9. AllNodes' = AllNodes /\ ~hm_pop
      BY <1>3, <2>1 DEF AllNodes, GetAnswers, SetUpdates, hm_pop
    <2> QED
      BY <1>2, <2>5, <2>6, <2>7, <2>8, <2>9 DEF IInv
  <1>4. CASE hm_pop
    <2> DEFINE k == cmd.key
               pop(h) == h_detach(h, Bucket(h, k), PlaceOf(h, k))
    <2>1. \A h : WellFormed(h) /\ h_lookup(h, k) =>
             /\ WellFormed(pop(h)) /\ Nodes(pop(h)) = Nodes(h) \ {k} /\ k \in Nodes(h)
             /\ pop(h).buckets = h.buckets /\ pop(h).size = h.size - 1
             /\ \A pos \in 0..h.buckets-1 : h.tab[pos] = <<>> => pop(h).tab[pos] = <<>>
      <3> SUFFICES ASSUME NEW h, WellFormed(h), h_lookup(h, k)
                   PROVE  /\ WellFormed(pop(h)) /\ Nodes(pop(h)) = Nodes(h) \ {k}
                          /\ k \in Nodes(h)
                          /\ pop(h).buckets = h.buckets /\ pop(h).size = h.size - 1
                          /\ \A pos \in 0..h.buckets-1 :
                                h.tab[pos] = <<>> => pop(h).tab[pos] = <<>>
        OBVIOUS
      <3>1. PICK b : b = Bucket(h, k)
        OBVIOUS
      <3>2. PICK i : i = PlaceOf(h, k)
        OBVIOUS
      <3>3. b \in 0..h.buckets-1 /\ i \in DOMAIN h.tab[b] /\ h.tab[b][i] = k
        BY <1>0, <3>1, <3>2, PlaceFound
      <3>4. PICK g : g = pop(h)
        OBVIOUS
      <3>5. g = h_detach(h, b, i)
        BY <3>1, <3>2, <3>4
      <3> HIDE DEF pop
      <3>6. /\ WellFormed(g) /\ Nodes(g) = Nodes(h) \ {h.tab[b][i]}
            /\ h.tab[b][i] \in Nodes(h)
            /\ g.buckets = h.buckets /\ g.size = h.size - 1
            /\ \A pos \in 0..h.buckets-1 : h.tab[pos] = <<>> => g.tab[pos] = <<>>
        BY <3>3, <3>5, DetachRemoves
      <3> QED
        BY <3>3, <3>4, <3>6
    <2>2. /\ ht1' = IF h_lookup(ht1, k) THEN pop(ht1) ELSE ht1
          /\ ht2' = IF h_lookup(ht1, k) \/ ~h_lookup(ht2, k) THEN ht2 ELSE pop(ht2)
          /\ val' = [val EXCEPT ![k] = IF Found THEN Nil ELSE @]
      BY <1>4 DEF hm_pop
    <2>3. /\ h_lookup(ht1, k) <=> k \in Nodes(ht1)
          /\ h_lookup(ht2, k) <=> k \in Nodes(ht2)
      BY <1>0, LookupFinds DEF IInv, Tables
    <2> HIDE DEF k, pop
    <2>4. /\ WellFormed(ht1') /\ Nodes(ht1') = Nodes(ht1) \ {k}
          /\ ht1'.buckets = ht1.buckets /\ ht1'.size <= ht1.size
      BY <1>0, <2>1, <2>2, <2>3 DEF IInv, Tables
    <2>5. /\ WellFormed(ht2') /\ Nodes(ht2') = Nodes(ht2) \ {k}
          /\ ht2'.buckets = ht2.buckets /\ ht2'.size <= ht2.size
          /\ \A pos \in 0..ht2.buckets-1 :
                ht2.tab[pos] = <<>> => ht2'.tab[pos] = <<>>
      BY <1>0, <2>1, <2>2, <2>3 DEF IInv, Tables
    <2>6. ht1'.size \in Nat /\ ht2'.size \in Nat /\ Table(ht1') /\ Table(ht2')
      BY <2>4, <2>5 DEF WellFormed, Table
    <2>7. val' \in [Key -> Value \cup {Nil}]
      BY <2>2 DEF IInv, TypeOK
    <2>8. TypeOK'
      BY <1>0, <1>1, <2>6, <2>7 DEF IInv, TypeOK
    <2>9. Tables' /\ Drained'
      BY <1>1, <2>4, <2>5 DEF IInv, Tables, Drained
    <2>10. Entries'
      <3>1. \A x \in Key : x # k => val'[x] = val[x]
        BY <2>2 DEF IInv, TypeOK
      <3>2. Nodes(ht1) \subseteq Key /\ Nodes(ht2) \subseteq Key
        BY <1>0, NodesFinite
      <3> QED
        BY <2>4, <2>5, <3>1, <3>2 DEF IInv, Entries, AllNodes
    <2>11. LoadInv'
      <3>1. PICK c : c = Capacity
        OBVIOUS
      <3>2. c \in Nat /\ Capacity' = c
        BY <1>0, <2>4, <3>1 DEF Capacity
      <3>3. Load' <= Load /\ Load \in Nat /\ Load' \in Nat
        <4>1. ht1'.size <= ht1.size /\ ht2'.size <= ht2.size
          BY <2>4, <2>5
        <4>2. ht1'.size \in Nat /\ ht2'.size \in Nat
          BY <2>6
        <4> QED
          BY <1>0, <4>1, <4>2 DEF Load
      <3> QED
        BY <1>0, <1>1, <2>4, <3>1, <3>2, <3>3 DEF IInv, LoadInv
    <2>12. AllNodes' = AllNodes \ {cmd.key}
      BY <2>4, <2>5 DEF AllNodes, k
    <2> QED
      BY <1>2, <1>4, <2>8, <2>9, <2>10, <2>11, <2>12 DEF IInv
  <1> QED
    BY <1>3, <1>4
\* The load factor of the code, an integer quotient, as a product.
LEMMA LoadFactor ==
  ASSUME NEW a \in Nat, NEW b \in Nat \ {0}, NEW l \in Nat
  PROVE  a \div b >= l <=> a >= l * b
  <1>1. PICK d \in Nat : d = a \div b
    OBVIOUS
  <1>2. PICK r \in 0..b-1 : a = d * b + r
    BY <1>1
  <1>3. CASE d >= l
    <2>1. PICK x \in Nat : d = l + x
      <3>1. d - l \in Nat /\ d = l + (d - l)
        BY <1>3
      <3> QED
        BY <3>1
    <2>2. x * b \in Nat /\ l * b \in Nat /\ d * b = l * b + x * b
      BY <2>1
    <2> QED
      BY <1>1, <1>2, <1>3, <2>2
  <1>4. CASE d < l
    <2>1. PICK x \in Nat : l = (d + 1) + x
      <3>1. l - (d + 1) \in Nat /\ l = (d + 1) + (l - (d + 1))
        BY <1>4
      <3> QED
        BY <3>1
    <2>2. x * b \in Nat /\ l * b = d * b + b + x * b
      BY <2>1
    <2> QED
      BY <1>1, <1>2, <1>4, <2>2
  <1> QED
    BY <1>3, <1>4

\* hm_insert: a new node, and a new resizing when ht1 is full.
LEMMA InsertIInv ==
  ASSUME IInv, hm_insert
  PROVE  IInv' /\ AllNodes' = AllNodes \cup {cmd.key}
  <1> USE KVStoreAssumption
  <1>0. /\ ht1.buckets \in Nat /\ ht1.size \in Nat /\ ht2.buckets \in Nat
        /\ ht2.size \in Nat /\ Table(ht1) /\ Table(ht2)
        /\ pc = "act" /\ cmd.key \in Key /\ cmd.op = "set" /\ cmd.val \in Value
    BY DEF IInv, TypeOK, InCommand, Tables, WellFormed, Table, hm_insert
  <1>1. PICK k \in Key : k = cmd.key
    BY <1>0
  <1>2. k \notin Nodes(ht1) /\ k \notin Nodes(ht2)
    BY <1>1, LookupFinds DEF IInv, Tables, hm_insert, Found
  <1>3. PICK base : base = IF ht1.buckets = 0 THEN h_init(InitialBuckets) ELSE ht1
    OBVIOUS
  <1>4. ht1.buckets = 0 => ht1.size = 0 /\ Nodes(ht1) = {}
    BY NoBuckets DEF IInv, Tables
  <1>5. /\ WellFormed(base) /\ base.buckets > 0 /\ base.buckets \in Nat
        /\ Nodes(base) = Nodes(ht1) /\ base.size = ht1.size
    <2>1. CASE ht1.buckets = 0
      <3>1. base = h_init(InitialBuckets) /\ InitialBuckets \in Nat
        BY <2>1, <1>3
      <3>2. WellFormed(base) /\ Nodes(base) = {}
        BY <3>1, EmptyTable
      <3>3. base.buckets = InitialBuckets /\ base.size = 0
        BY <3>1 DEF h_init
      <3> QED
        BY <2>1, <1>4, <3>2, <3>3
    <2>2. CASE ht1.buckets # 0
      BY <2>2, <1>0, <1>3 DEF IInv, Tables
    <2> QED
      BY <2>1, <2>2
  <1>6. PICK filled : filled = h_insert(base, k)
    OBVIOUS
  <1>7. /\ WellFormed(filled) /\ Nodes(filled) = Nodes(ht1) \cup {k}
        /\ filled.buckets = base.buckets /\ filled.size = ht1.size + 1
    BY <1>2, <1>5, <1>6, InsertAdds
  <1>8. PICK full : full = (ht2.buckets = 0
                              /\ filled.size \div filled.buckets >= k_max_load_factor)
    OBVIOUS
  <1>9. /\ ht1' = IF full THEN h_init(filled.buckets * 2) ELSE filled
        /\ ht2' = IF full THEN filled ELSE ht2
        /\ resizing_pos' = IF full THEN 0 ELSE resizing_pos
        /\ nwork' = 0 /\ pc' = "insert" /\ cmd' = cmd /\ reply'.op = cmd.op
        /\ val' = [val EXCEPT ![k] = cmd.val]
    BY <1>1, <1>3, <1>6, <1>8 DEF hm_insert, hm_start_resizing, LoadReached, Answer
  <1>10. filled.buckets \in Nat \ {0} /\ filled.size \in Nat /\ Table(filled)
    BY <1>5, <1>7 DEF WellFormed, Table
  <1>11. /\ WellFormed(h_init(filled.buckets * 2)) /\ Nodes(h_init(filled.buckets * 2)) = {}
         /\ h_init(filled.buckets * 2).buckets = filled.buckets * 2
         /\ h_init(filled.buckets * 2).size = 0
         /\ filled.buckets * 2 \in Nat \ {0}
    <2>1. PICK n \in Nat \ {0} : n = filled.buckets * 2
      BY <1>10
    <2>2. WellFormed(h_init(n)) /\ Nodes(h_init(n)) = {}
      BY EmptyTable
    <2>3. h_init(n).buckets = n /\ h_init(n).size = 0
      BY DEF h_init
    <2> QED
      BY <2>1, <2>2, <2>3
  <1>12. full => ht2.buckets = 0 /\ Nodes(ht2) = {}
    BY <1>8, NoBuckets DEF IInv, Tables
  <1>13. TypeOK'
    <2>1. Table(ht1') /\ Table(ht2')
      BY <1>0, <1>9, <1>10, <1>11 DEF WellFormed
    <2>2. val' \in [Key -> Value \cup {Nil}]
      BY <1>0, <1>9 DEF IInv, TypeOK
    <2> QED
      BY <2>1, <2>2, <1>0, <1>9 DEF IInv, TypeOK
  <1>14. Tables'
    BY <1>2, <1>5, <1>7, <1>9, <1>10, <1>11, <1>12 DEF IInv, Tables
  <1>15. Drained'
    <2>1. CASE full
      BY <2>1, <1>9 DEF Drained
    <2>2. CASE ~full
      BY <2>2, <1>9 DEF IInv, Drained
    <2> QED
      BY <2>1, <2>2
  <1>16. Entries'
    <2>1. Nodes(ht1') \cup Nodes(ht2') = Nodes(ht1) \cup Nodes(ht2) \cup {k}
      BY <1>7, <1>9, <1>11, <1>12
    <2>2. \A x \in Key : val'[x] = IF x = k THEN cmd.val ELSE val[x]
      BY <1>9 DEF IInv, TypeOK
    <2>3. Nodes(ht1) \subseteq Key /\ Nodes(ht2) \subseteq Key
      BY <1>0, NodesFinite
    <2> QED
      BY <2>1, <2>2, <2>3, <1>0 DEF IInv, Entries, AllNodes
  <1>17. InCommand'
    BY <1>0, <1>9 DEF IInv, InCommand
  <1>18. LoadInv'
    <2>1. PICK c \in Nat : c = k_max_load_factor * filled.buckets
      BY <1>10
    <2>2. PICK s \in Nat : s = filled.size
      BY <1>10
    <2>3. s + 2 * ht2.size <= c
      <3>1. CASE ht1.buckets = 0
        <4>1. ht2.size = 0
          BY <3>1, <1>0, InBounds DEF IInv
        <4>2. s = 1
          BY <3>1, <1>4, <1>7, <2>2
        <4>3. c >= 1
          BY <1>10, <2>1
        <4> QED
          BY <4>1, <4>2, <4>3
      <3>2. CASE ht1.buckets # 0
        <4>1. c = Capacity
          BY <3>2, <1>3, <1>7, <2>1 DEF Capacity
        <4>2. Load < c
          BY <4>1, <3>2, <1>0 DEF IInv, LoadInv
        <4>3. s = ht1.size + 1
          BY <1>7, <2>2
        <4> QED
          BY <4>2, <4>3, <1>0, <2>1 DEF Load
      <3> QED
        BY <3>1, <3>2
    <2>4. CASE full
      <3>1. /\ ht1'.buckets = filled.buckets * 2 /\ ht1'.size = 0 /\ ht2'.size = s
            /\ nwork' = 0 /\ pc' = "insert"
        BY <2>2, <2>4, <1>9, <1>11
      <3>2. Capacity' = 2 * c
        BY <3>1, <2>1, <1>10 DEF Capacity
      <3>3. Load' = 2 * s
        BY <3>1, <2>2 DEF Load
      <3>4. s <= c /\ s > 0
        BY <1>0, <1>7, <2>1, <2>2, <2>3
      <3> QED
        BY <3>1, <3>2, <3>3, <3>4, <2>1, <2>2 DEF LoadInv
    <2>5. CASE ~full
      <3>1. /\ ht1'.buckets = filled.buckets /\ ht1'.size = s /\ ht2'.size = ht2.size
            /\ nwork' = 0 /\ pc' = "insert" /\ ht2' = ht2
        BY <2>2, <2>5, <1>9
      <3>2. Capacity' = c /\ Load' = s + 2 * ht2.size
        BY <3>1, <2>1 DEF Capacity, Load
      <3>3. ht2.size = 0 => s < c
        <4>1. ASSUME ht2.size = 0 PROVE ht2.buckets = 0
          BY <4>1, <1>0 DEF IInv, LoadInv
        <4>2. ASSUME ht2.buckets = 0 PROVE ~(s >= c)
          BY <4>2, <2>1, <2>2, <2>5, <1>8, <1>10, LoadFactor
        <4> QED
          BY <4>1, <4>2, <2>1, <2>2
      <3> QED
        BY <3>1, <3>2, <3>3, <2>1, <2>2, <2>3, <1>0 DEF LoadInv
    <2> QED
      BY <2>4, <2>5
  <1>19. AllNodes' = AllNodes \cup {cmd.key}
    BY <1>1, <1>7, <1>9, <1>11, <1>12 DEF AllNodes
  <1> QED
    BY <1>13, <1>14, <1>15, <1>16, <1>17, <1>18, <1>19 DEF IInv
\* The invariant holds in every state of every behaviour.
THEOREM Invariance == Spec => []IInv
  <1>1. IInv /\ [Next]_vars => IInv'
    <2> SUFFICES ASSUME IInv, [Next]_vars PROVE IInv'
      OBVIOUS
    <2>1. CASE Command
      BY <2>1, CommandIInv
    <2>2. CASE Help
      BY <2>2, HelpIInv
    <2>3. CASE Act
      BY <2>3, ActIInv, InsertIInv DEF Act
    <2>4. CASE UNCHANGED vars
      BY <2>4 DEF vars, IInv, TypeOK, Tables, Drained, Entries, AllNodes, InCommand,
                  LoadInv, Load, Capacity
    <2> QED
      BY <2>1, <2>2, <2>3, <2>4 DEF Next
  <1> QED
    BY <1>1, InitIInv, PTL DEF Spec

\* The variables of the store always have values of their types.
THEOREM TypeCorrect == Spec => []TypeOK
  <1>1. IInv => TypeOK
    BY DEF IInv
  <1> QED
    BY <1>1, Invariance, PTL

\* No step of a resizing loses, doubles or misplaces a node, and the counts of
\* the two tables are exact throughout.
THEOREM StructureSafe == Spec => []Structure
  <1>1. IInv => Structure
    BY DEF IInv, Tables, WellFormed, Structure, SizesExact
  <1> QED
    BY <1>1, Invariance, PTL

\* hm_help_resizing never reads beyond the array of chains of ht2.
THEOREM ResizingStaysInBounds == Spec => []ResizingPosInBounds
  <1>1. IInv => ResizingPosInBounds
    <2> SUFFICES ASSUME IInv, ht2.size > 0 PROVE resizing_pos < ht2.buckets
      BY DEF ResizingPosInBounds
    <2>1. resizing_pos \in 0..ht2.buckets-1 /\ ht2.buckets \in Nat
      BY InBounds DEF IInv, Tables, WellFormed, Table
    <2> QED
      BY <2>1
  <1> QED
    BY <1>1, Invariance, PTL

\* With any positive amount of work per call, a resizing is over before ht1
\* reaches the load factor again.
THEOREM ResizingKeepsUp == Spec => []LoadBounded
  <1>1. IInv => LoadBounded
    <2> SUFFICES ASSUME IInv, pc = "idle", ht1.buckets > 0
                 PROVE  ht1.size < Capacity
      BY DEF LoadBounded, Capacity
    <2>1. ht1.size \in Nat /\ ht2.size \in Nat /\ ht1.buckets \in Nat
      BY DEF IInv, Tables, WellFormed, Table
    <2>2. Load < Capacity
      BY DEF IInv, LoadInv
    <2>3. Capacity \in Nat
      BY <2>1, KVStoreAssumption DEF Capacity
    <2> QED
      BY <2>1, <2>2, <2>3 DEF Load
  <1> QED
    BY <1>1, Invariance, PTL

\* The two tables, with nodes on their way from one to the other, are to a
\* client the one map of KVMap.tla.
THEOREM ImplementsMap == Spec => MapSpec
  <1> USE KVStoreAssumption
  <1>1. Init => Map!Init
    <2> SUFFICES ASSUME Init PROVE Map!Init
      OBVIOUS
    <2>1. Nodes(ht1) = {} /\ Nodes(ht2) = {}
      BY EmptyTable DEF Init
    <2> QED
      BY <2>1 DEF Init, Map!Init, Contents
  <1>2. IInv /\ [Next]_vars => [Map!Next]_<<Contents, reply>>
    <2> SUFFICES ASSUME IInv, [Next]_vars
                 PROVE  [Map!Next]_<<Contents, reply>>
      OBVIOUS
    <2>0. \A k \in Key : Contents[k] = IF k \in AllNodes THEN val[k] ELSE Nil
      BY DEF Contents, AllNodes
    <2>1. ASSUME AllNodes' = AllNodes, val' = val PROVE Contents' = Contents
      BY <2>1 DEF Contents, AllNodes
    <2>2. CASE UNCHANGED vars
      BY <2>2 DEF vars, Contents
    <2>3. CASE Help
      <3>1. AllNodes' = AllNodes
        BY <2>3, HelpIInv
      <3>2. val' = val /\ reply' = reply
        BY <2>3 DEF Help, SkipBucket, MoveNode, HelpReturns
      <3> QED
        BY <2>1, <3>1, <3>2
    <2>4. CASE do_keys
      <3>1. UNCHANGED <<ht1, ht2, val>>
        BY <2>4 DEF do_keys
      <3>2. Contents' = Contents
        BY <3>1 DEF Contents
      <3>3. Nodes(ht1) \subseteq Key /\ Nodes(ht2) \subseteq Key
        BY NodesFinite DEF IInv, TypeOK
      <3>4. /\ ht1.size = 0 => Nodes(ht1) = {}
            /\ ht2.size = 0 => Nodes(ht2) = {}
        BY NodesFinite, FS_EmptySet DEF IInv, Tables, WellFormed
      <3>5. ScannedKeys(ht1) \cup ScannedKeys(ht2) = AllNodes
        BY <3>4 DEF ScannedKeys, AllNodes
      <3>6. AllNodes = {k \in Key : Contents[k] # Nil}
        BY <2>0, <3>3 DEF IInv, Entries, AllNodes
      <3>7. Map!Keys
        BY <2>4, <3>2, <3>5, <3>6 DEF do_keys, Map!Keys, Map!Reply
      <3> QED
        BY <3>7 DEF Map!Next
    <2>5. CASE Command /\ ~do_keys
      <3>1. UNCHANGED <<ht1, ht2, val, reply>>
        BY <2>5 DEF Command, Start, do_get, do_set, do_del
      <3> QED
        BY <3>1 DEF Contents
    <2>6. ASSUME Act PROVE cmd.key \in Key /\ (Found <=> cmd.key \in AllNodes)
      <3>1. pc = "act"
        BY <2>6 DEF Act, GetAnswers, SetUpdates, hm_insert, hm_pop
      <3>2. cmd.key \in Key
        BY <3>1 DEF IInv, InCommand
      <3> QED
        BY <3>2, LookupFinds DEF IInv, Tables, Found, AllNodes
    <2>7. CASE GetAnswers
      <3>1. cmd.key \in Key /\ (Found <=> cmd.key \in AllNodes)
        BY <2>6, <2>7 DEF Act
      <3>2. Contents' = Contents
        BY <2>7 DEF GetAnswers, Contents
      <3>3. Map!Get(cmd.key)
        BY <2>0, <2>7, <3>1, <3>2 DEF GetAnswers, Answer, Map!Get, Map!Reply
      <3> QED
        BY <3>1, <3>3 DEF Map!Next
    <2>8. CASE SetUpdates \/ hm_insert
      <3>1. cmd.key \in Key /\ (Found <=> cmd.key \in AllNodes)
        BY <2>6, <2>8 DEF Act
      <3>2. AllNodes' = AllNodes \cup {cmd.key}
        <4>1. CASE SetUpdates
          BY <4>1, <3>1, ActIInv DEF SetUpdates, hm_pop
        <4>2. CASE hm_insert
          BY <4>2, InsertIInv
        <4> QED
          BY <4>1, <4>2, <2>8
      <3>3. /\ val' = [val EXCEPT ![cmd.key] = cmd.val] /\ Answer(Nil)
            /\ pc = "act" /\ cmd.op = "set"
        BY <2>8 DEF SetUpdates, hm_insert
      <3>4. cmd.val \in Value
        BY <3>3 DEF IInv, InCommand
      <3>5. Contents' = [k \in Key |-> IF k \in AllNodes' THEN val'[k] ELSE Nil]
        BY DEF Contents, AllNodes
      <3>6. Contents' = [Contents EXCEPT ![cmd.key] = cmd.val]
        BY <3>1, <3>2, <3>3, <3>5 DEF IInv, TypeOK, Contents, AllNodes
      <3>7. Map!Set(cmd.key, cmd.val)
        BY <3>3, <3>6 DEF Answer, Map!Set, Map!Reply
      <3> QED
        BY <3>1, <3>4, <3>7 DEF Map!Next
    <2>9. CASE hm_pop
      <3>1. cmd.key \in Key /\ (Found <=> cmd.key \in AllNodes)
        BY <2>6, <2>9 DEF Act
      <3>2. AllNodes' = AllNodes \ {cmd.key}
        BY <2>9, ActIInv
      <3>3. /\ val' = [val EXCEPT ![cmd.key] = IF Found THEN Nil ELSE @]
            /\ Answer(IF Found THEN 1 ELSE 0) /\ cmd.op = "del"
        BY <2>9 DEF hm_pop
      <3>4. Contents' = [k \in Key |-> IF k \in AllNodes' THEN val'[k] ELSE Nil]
        BY DEF Contents, AllNodes
      <3>5. Contents' = [Contents EXCEPT ![cmd.key] = Nil]
        BY <3>1, <3>2, <3>3, <3>4 DEF IInv, TypeOK, Contents, AllNodes
      <3>6. Found <=> Contents[cmd.key] # Nil
        BY <2>0, <3>1 DEF IInv, Entries
      <3>7. Map!Del(cmd.key)
        BY <3>3, <3>5, <3>6 DEF Answer, Map!Del, Map!Reply
      <3> QED
        BY <3>1, <3>7 DEF Map!Next
    <2> QED
      BY <2>2, <2>3, <2>4, <2>5, <2>7, <2>8, <2>9 DEF Next, Act
  <1> QED
    BY <1>1, <1>2, Invariance, PTL DEF Spec, MapSpec, Map!Spec
==============================================================================
