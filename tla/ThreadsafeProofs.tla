-------------------------- MODULE ThreadsafeProofs --------------------------
(***************************************************************************)
(* Why no container of chapter 6 loses a value, uses a node that was freed *)
(* or shows a reader half of a change, for any threads with any calls: the *)
(* lookup table, the list of ListProofs and the queues of QueueProofs.     *)
(***************************************************************************)
EXTENDS ListProofs

------------------------------------------------------------------------------
(* The lookup table *)

\* Every key is in its bucket.
TableMemory ==
    /\ {"bucket", "writer", "readers"} \subseteq DOMAIN mem
    /\ DOMAIN mem.bucket = Table!Bucket /\ DOMAIN mem.writer = Table!Bucket
    /\ \A b \in Table!Bucket :
        /\ DOMAIN mem.bucket[b] \subseteq {k \in Key : Table!get_bucket(k) = b}
        /\ mem.bucket[b] = [k \in DOMAIN mem.bucket[b] |-> mem.bucket[b][k]]

\* The pairs in the first n buckets.
PairsOf(n) ==
    [k \in UNION {DOMAIN mem.bucket[b] : b \in 0..(n - 1)} |-> mem.bucket[Table!get_bucket(k)][k]]

\* A writer has its bucket's mutex; get_map has all of those it has come to, and
\* what it has copied is still so.
TableSafe(t) ==
    /\ th[t].pc \in Operations \cup {"done", "read", "add", "erase", "lock", "copy"}
    /\ th[t].pc \in {"read", "add", "erase"} => "key" \in DOMAIN th[t] /\ th[t].key \in Key
    /\ th[t].pc \in {"lock", "copy"} => "i" \in DOMAIN th[t] /\ th[t].i \in 0..num_buckets
    /\ th[t].pc \in {"add", "erase"} => mem.writer[Table!get_bucket(th[t].key)] = t
    /\ th[t].pc = "lock" => \A b \in 0..(th[t].i - 1) : mem.writer[b] = t
    /\ th[t].pc = "copy" => /\ \A b \in Table!Bucket : mem.writer[b] = t
                            /\ "res" \in DOMAIN th[t] /\ th[t].res = PairsOf(th[t].i)

TableInv == Threading /\ TableMemory /\ \A t \in Thread : TableSafe(t)

\* A key's bucket is one of the table's.
LEMMA BucketIs ==
  ASSUME ThreadsafeAssumption, NEW k \in Key
  PROVE  Table!get_bucket(k) \in Table!Bucket
  <1>1. k \in Nat /\ num_buckets \in Nat /\ num_buckets > 0
    BY DEF ThreadsafeAssumption
  <1>2. k % num_buckets \in 0..(num_buckets - 1)
    BY <1>1
  <1> QED
    BY <1>2 DEF Table!get_bucket, Table!Bucket, hasher

\* Who has a bucket's mutex finds the bucket as it was.
LEMMA TableOthers ==
  ASSUME ThreadsafeAssumption, TableMemory, NEW u \in Thread, TableSafe(u), th'[u] = th[u],
         \A b \in Table!Bucket :
            mem.writer[b] = u => mem'.writer[b] = u /\ mem'.bucket[b] = mem.bucket[b]
  PROVE  TableSafe(u)'
  <1>1. th[u].pc \in {"add", "erase"} => Table!get_bucket(th[u].key) \in Table!Bucket
    BY BucketIs DEF TableSafe
  <1>2. ASSUME NEW i \in 0..num_buckets PROVE 0..(i - 1) \subseteq Table!Bucket
    BY DEF ThreadsafeAssumption, Table!Bucket
  <1>3. ASSUME th[u].pc = "copy" PROVE PairsOf(th[u].i)' = PairsOf(th[u].i)
    <2>1. PICK n \in 0..num_buckets : n = th[u].i
      BY <1>3 DEF TableSafe
    <2>2. \A b \in Table!Bucket : mem'.bucket[b] = mem.bucket[b]
      BY <1>3 DEF TableSafe
    <2>3. \A b \in 0..(n - 1) : mem'.bucket[b] = mem.bucket[b]
      BY <1>2, <2>2
    <2>4. ASSUME NEW b \in 0..(n - 1), NEW k \in DOMAIN mem.bucket[b]
          PROVE  mem'.bucket[Table!get_bucket(k)][k] = mem.bucket[Table!get_bucket(k)][k]
      <3>1. b \in Table!Bucket
        BY <1>2
      <3>2. Table!get_bucket(k) = b
        BY <3>1 DEF TableMemory
      <3> QED
        BY <3>1, <3>2, <2>2
    <2>5. {DOMAIN mem'.bucket[b] : b \in 0..(n - 1)} = {DOMAIN mem.bucket[b] : b \in 0..(n - 1)}
      BY <2>3
    <2> DEFINE K == UNION {DOMAIN mem.bucket[b] : b \in 0..(n - 1)}
    <2>6. \A k \in K : mem'.bucket[Table!get_bucket(k)][k] = mem.bucket[Table!get_bucket(k)][k]
      BY <2>4
    <2>7. UNION {DOMAIN mem'.bucket[b] : b \in 0..(n - 1)} = K
      BY <2>5
    <2>8. PairsOf(n) = [k \in K |-> mem.bucket[Table!get_bucket(k)][k]]
      BY DEF PairsOf
    <2>9. PairsOf(n)' = [k \in K |-> mem'.bucket[Table!get_bucket(k)][k]]
      BY <2>7 DEF PairsOf, Table!get_bucket
    <2> HIDE DEF K
    <2>10. PairsOf(n)' = PairsOf(n)
      BY <2>6, <2>8, <2>9
    <2> QED
      BY <1>3, <2>1, <2>10
  <1> QED
    BY <1>1, <1>2, <1>3 DEF TableSafe

\* A step that changes no bucket and takes no mutex but a free one.
LEMMA TableQuiet ==
  ASSUME ThreadsafeAssumption, TableInv, NEW t \in Thread, NEW shared, NEW own,
         Changes(t, shared, own), DOMAIN shared \subseteq {"readers", "writer"},
         "writer" \in DOMAIN shared =>
            /\ DOMAIN shared.writer = Table!Bucket
            /\ \A b \in Table!Bucket :
                  shared.writer[b] # mem.writer[b] => mem.writer[b] \in {t, Null}
  PROVE  /\ TableMemory' /\ mem'.bucket = mem.bucket
         /\ mem'.writer = IF "writer" \in DOMAIN shared THEN shared.writer ELSE mem.writer
         /\ \A u \in Thread : u # t => TableSafe(u)'
  <1>1. /\ mem'.bucket = mem.bucket
        /\ mem'.writer = IF "writer" \in DOMAIN shared THEN shared.writer ELSE mem.writer
        /\ {"bucket", "writer", "readers"} \subseteq DOMAIN mem'
    <2>1. /\ DOMAIN mem' = DOMAIN shared \cup DOMAIN mem
          /\ \A x \in DOMAIN shared : mem'[x] = shared[x]
          /\ \A x \in DOMAIN mem : x \notin DOMAIN shared => mem'[x] = mem[x]
      BY MemIs DEF Changes
    <2>2. {"bucket", "writer", "readers"} \subseteq DOMAIN mem
      BY DEF TableInv, TableMemory
    <2> QED
      BY <2>1, <2>2
  <1>2. TableMemory'
    BY <1>1 DEF TableInv, TableMemory, Table!get_bucket
  <1>3. ASSUME NEW u \in Thread, u # t PROVE TableSafe(u)'
    <2>1. th'[u] = th[u]
      BY <1>3 DEF Changes
    <2>2. \A b \in Table!Bucket : mem.writer[b] = u => mem'.writer[b] = u /\ mem'.bucket[b] = mem.bucket[b]
      BY <1>1, <1>3 DEF ThreadsafeAssumption
    <2> QED
      BY <2>1, <2>2, TableOthers DEF TableInv
  <1> QED
    BY <1>1, <1>2, <1>3

\* value_for takes and gives up the shared mutex.
LEMMA ValueForSafe ==
  ASSUME ThreadsafeAssumption, TableInv, NEW t \in Thread, Table!value_for(t)
  PROVE  TableInv'
  <1> USE DEF TableInv
  <1>1. ASSUME NEW key \in Key,
               Table!LockShared(t, Table!get_bucket(key), "value_for", [pc |-> "read", key |-> key])
        PROVE  TableInv'
    <2> DEFINE b == Table!get_bucket(key)
               own == [pc |-> "read", key |-> key]
               shared == [readers |-> [mem.readers EXCEPT ![b] = @ \cup {t}]]
    <2>1. th[t].pc = "value_for" /\ GoesOn(t, shared, own)
      BY <1>1, StepsAre DEF Table!LockShared, Threading
    <2>2. Threading' /\ th'[t].pc = "read" /\ "key" \in DOMAIN th'[t] /\ th'[t].key = key
      BY <2>1, GoesOnIs DEF Operations
    <2>3. TableMemory' /\ \A u \in Thread : u # t => TableSafe(u)'
      BY <2>1, TableQuiet DEF GoesOn
    <2>4. TableSafe(t)'
      BY <2>2 DEF TableSafe, Operations
    <2> QED
      BY <2>2, <2>3, <2>4
  <1>2. ASSUME Table!At(t, "read"), NEW shared, NEW got, DOMAIN shared = {"readers"},
               Table!ReturnGot(t, "read", shared, got)
        PROVE  TableInv'
    <2>1. th[t].pc = "read" /\ Ends(t, shared, got)
      BY <1>2, ReturnsAre DEF Threading
    <2>2. Threading' /\ th'[t].pc \in Operations \cup {"done"}
      BY <2>1, EndsIs
    <2>3. TableMemory' /\ \A u \in Thread : u # t => TableSafe(u)'
      BY <1>2, <2>1, TableQuiet DEF Ends
    <2>4. TableSafe(t)'
      BY <2>2 DEF TableSafe, Operations
    <2> QED
      BY <2>2, <2>3, <2>4
  <1>3. ASSUME NEW R, NEW answer, Table!At(t, "read"),
               Table!Answer(t, "read", [readers |-> R], answer)
        PROVE  TableInv'
    <2>1. DOMAIN [readers |-> R] = {"readers"}
      OBVIOUS
    <2> QED
      BY <2>1, <1>2, <1>3 DEF Table!Answer
  <1> QED
    BY <1>1, <1>3 DEF Table!value_for

\* A thread takes the mutex of one bucket, to add or to remove.
LEMMA WriterLocks ==
  ASSUME ThreadsafeAssumption, TableInv, NEW t \in Thread, NEW key \in Key,
         NEW call \in Operations, NEW next \in {"add", "erase"},
         Table!LockUnique(t, Table!get_bucket(key), call, [pc |-> next, key |-> key])
  PROVE  TableInv'
  <1> DEFINE b == Table!get_bucket(key)
             own == [pc |-> next, key |-> key]
             shared == [writer |-> [mem.writer EXCEPT ![b] = t]]
  <1>1. th[t].pc = call /\ GoesOn(t, shared, own) /\ mem.writer[b] = Null
    BY StepsAre DEF Table!LockUnique, TableInv, Threading
  <1>2. Threading' /\ th'[t].pc = next /\ "key" \in DOMAIN th'[t] /\ th'[t].key = key
    BY <1>1, GoesOnIs DEF Operations, TableInv
  <1>3. /\ DOMAIN shared = {"writer"} /\ DOMAIN shared.writer = Table!Bucket
        /\ shared.writer[b] = t
        /\ \A a \in Table!Bucket : shared.writer[a] # mem.writer[a] => mem.writer[a] \in {t, Null}
    BY <1>1, BucketIs DEF TableInv, TableMemory
  <1>4. TableMemory' /\ mem'.writer[b] = t /\ \A u \in Thread : u # t => TableSafe(u)'
    BY <1>1, <1>3, TableQuiet DEF GoesOn
  <1>5. TableSafe(t)'
    BY <1>2, <1>4 DEF TableSafe, Operations, Table!get_bucket
  <1> QED
    BY <1>2, <1>4, <1>5 DEF TableInv

\* It writes the bucket and gives up the mutex; nobody else has it.
LEMMA WriterWrites ==
  ASSUME ThreadsafeAssumption, TableInv, NEW t \in Thread, NEW place \in {"add", "erase"},
         NEW pairs, DOMAIN pairs \subseteq DOMAIN mem.bucket[Table!BucketOf(t)] \cup {th[t].key},
         pairs = [k \in DOMAIN pairs |-> pairs[k]],
         Table!Return(t, place, [bucket |-> [mem.bucket EXCEPT ![Table!BucketOf(t)] = pairs],
                                 writer |-> Table!Unlocked(t)])
  PROVE  TableInv'
  <1> DEFINE b == Table!get_bucket(th[t].key)
             shared == [bucket |-> [mem.bucket EXCEPT ![b] = pairs],
                        writer |-> [mem.writer EXCEPT ![b] = Null]]
  <1>1. th[t].pc = place /\ Ends(t, shared, th[t].got)
    BY ReturnsAre DEF Table!Return, Table!Unlocked, Table!BucketOf, Table!KeyOf, TableInv, Threading
  <1>2. Threading' /\ th'[t].pc \in Operations \cup {"done"}
    BY <1>1, EndsIs DEF TableInv
  <1>3. b \in Table!Bucket /\ mem.writer[b] = t /\ th[t].key \in Key
    BY <1>1, BucketIs DEF TableInv, TableSafe
  <1>4. mem'.bucket = shared.bucket /\ mem'.writer = shared.writer /\ DOMAIN mem \subseteq DOMAIN mem'
    <2>1. DOMAIN shared = {"bucket", "writer"}
      OBVIOUS
    <2> HIDE DEF shared
    <2>2. /\ DOMAIN mem' = DOMAIN shared \cup DOMAIN mem
          /\ \A x \in DOMAIN shared : mem'[x] = shared[x]
      BY <1>1, MemIs DEF Ends, Changes
    <2> QED
      BY <2>1, <2>2
  <1>5. TableMemory'
    <2>1. DOMAIN pairs \subseteq {k \in Key : Table!get_bucket(k) = b}
      BY <1>3 DEF TableInv, TableMemory, Table!BucketOf, Table!KeyOf
    <2>2. mem'.bucket[b] = pairs /\ \A a \in Table!Bucket : a # b => mem'.bucket[a] = mem.bucket[a]
      BY <1>3, <1>4 DEF TableInv, TableMemory
    <2>3. DOMAIN mem'.bucket = Table!Bucket /\ DOMAIN mem'.writer = Table!Bucket
      BY <1>4 DEF TableInv, TableMemory
    <2>4. ASSUME NEW a \in Table!Bucket
          PROVE  /\ DOMAIN mem'.bucket[a] \subseteq {k \in Key : Table!get_bucket(k) = a}
                 /\ mem'.bucket[a] = [k \in DOMAIN mem'.bucket[a] |-> mem'.bucket[a][k]]
      <3>1. CASE a = b
        BY <3>1, <2>1, <2>2
      <3>2. CASE a # b
        BY <3>2, <2>2 DEF TableInv, TableMemory
      <3> QED
        BY <3>1, <3>2
    <2> QED
      BY <1>4, <2>3, <2>4 DEF TableInv, TableMemory, Table!get_bucket
  <1>6. ASSUME NEW u \in Thread, u # t PROVE TableSafe(u)'
    <2>1. th'[u] = th[u]
      BY <1>1, <1>6 DEF Ends, Changes
    <2>2. \A a \in Table!Bucket : mem.writer[a] = u => mem'.writer[a] = u /\ mem'.bucket[a] = mem.bucket[a]
      BY <1>3, <1>4, <1>6 DEF TableInv, TableMemory
    <2> QED
      BY <2>1, <2>2, TableOthers DEF TableInv
  <1>7. TableSafe(t)'
    BY <1>2 DEF TableSafe, Operations
  <1> QED
    BY <1>2, <1>5, <1>6, <1>7 DEF TableInv

LEMMA AddSafe ==
  ASSUME ThreadsafeAssumption, TableInv, NEW t \in Thread, Table!add_or_update_mapping(t)
  PROVE  TableInv'
  <1>1. ASSUME NEW key \in Key,
               Table!LockUnique(t, Table!get_bucket(key), "add_or_update", [pc |-> "add", key |-> key])
        PROVE  TableInv'
    BY <1>1, WriterLocks DEF Operations
  <1>2. ASSUME Table!Return(t, "add", [bucket |-> [mem.bucket EXCEPT ![Table!BucketOf(t)] =
                                          Table!Added(@, Table!KeyOf(t), Table!Item(t))],
                                       writer |-> Table!Unlocked(t)])
        PROVE  TableInv'
    <2> DEFINE pairs == Table!Added(mem.bucket[Table!BucketOf(t)], Table!KeyOf(t), Table!Item(t))
    <2>1. /\ DOMAIN pairs \subseteq DOMAIN mem.bucket[Table!BucketOf(t)] \cup {th[t].key}
          /\ pairs = [k \in DOMAIN pairs |-> pairs[k]]
      BY DEF Table!Added, Table!KeyOf
    <2>2. Table!Return(t, "add", [bucket |-> [mem.bucket EXCEPT ![Table!BucketOf(t)] = pairs],
                                  writer |-> Table!Unlocked(t)])
      BY <1>2
    <2> HIDE DEF pairs
    <2> QED
      BY <2>1, <2>2, WriterWrites
  <1> QED
    BY <1>1, <1>2 DEF Table!add_or_update_mapping

LEMMA RemoveSafe ==
  ASSUME ThreadsafeAssumption, TableInv, NEW t \in Thread, Table!remove_mapping(t)
  PROVE  TableInv'
  <1>1. ASSUME NEW key \in Key,
               Table!LockUnique(t, Table!get_bucket(key), "remove", [pc |-> "erase", key |-> key])
        PROVE  TableInv'
    BY <1>1, WriterLocks DEF Operations
  <1>2. ASSUME Table!Return(t, "erase", [bucket |-> [mem.bucket EXCEPT ![Table!BucketOf(t)] =
                                            Table!Without(@, Table!KeyOf(t))],
                                         writer |-> Table!Unlocked(t)])
        PROVE  TableInv'
    <2> DEFINE pairs == Table!Without(mem.bucket[Table!BucketOf(t)], Table!KeyOf(t))
    <2>1. /\ DOMAIN pairs \subseteq DOMAIN mem.bucket[Table!BucketOf(t)] \cup {th[t].key}
          /\ pairs = [k \in DOMAIN pairs |-> pairs[k]]
      BY DEF Table!Without, Table!KeyOf
    <2>2. Table!Return(t, "erase", [bucket |-> [mem.bucket EXCEPT ![Table!BucketOf(t)] = pairs],
                                    writer |-> Table!Unlocked(t)])
      BY <1>2
    <2> HIDE DEF pairs
    <2> QED
      BY <2>1, <2>2, WriterWrites
  <1> QED
    BY <1>1, <1>2 DEF Table!remove_mapping

\* get_map takes the next mutex.
LEMMA GetMapTakes ==
  ASSUME ThreadsafeAssumption, TableInv, NEW t \in Thread, NEW i \in 0..(num_buckets - 1),
         NEW place, NEW own, Table!LockUnique(t, i, place, own),
         \/ place = "get_map" /\ i = 0 /\ own = [pc |-> "lock", i |-> 1]
         \/ place = "lock" /\ i = th[t].i /\ own = [i |-> th[t].i + 1]
  PROVE  TableInv'
  <1> DEFINE shared == [writer |-> [mem.writer EXCEPT ![i] = t]]
  <1>2. th[t].pc = place /\ GoesOn(t, shared, own) /\ mem.writer[i] = Null /\ i \in Table!Bucket
    BY StepsAre DEF Table!LockUnique, TableInv, Threading, Table!Bucket, ThreadsafeAssumption
  <1>3. /\ Threading' /\ th'[t].pc = "lock" /\ "i" \in DOMAIN th'[t] /\ th'[t].i = i + 1
    <2>1. "i" \in DOMAIN own /\ own.i = i + 1 /\ "todo" \notin DOMAIN own
      OBVIOUS
    <2>2. "pc" \in DOMAIN own => own.pc = "lock"
      OBVIOUS
    <2>3. "pc" \notin DOMAIN own => place = "lock"
      OBVIOUS
    <2>4. "pc" \in DOMAIN th[t] /\ Threading
      BY DEF TableInv, Threading
    <2>5. "lock" \notin Operations \cup {"done"} /\ place # "done"
      BY DEF Operations
    <2> HIDE DEF shared
    <2> QED
      BY <1>2, <2>1, <2>2, <2>3, <2>4, <2>5, GoesOnIs
  <1>4. /\ DOMAIN shared = {"writer"} /\ DOMAIN shared.writer = Table!Bucket
        /\ shared.writer[i] = t /\ \A a \in Table!Bucket : a # i => shared.writer[a] = mem.writer[a]
        /\ \A a \in Table!Bucket : shared.writer[a] # mem.writer[a] => mem.writer[a] \in {t, Null}
    BY <1>2 DEF TableInv, TableMemory
  <1>5. TableMemory' /\ mem'.writer = shared.writer /\ \A u \in Thread : u # t => TableSafe(u)'
    BY <1>2, <1>4, TableQuiet DEF GoesOn
  <1>6. TableSafe(t)'
    <2>1. \A a \in 0..(i - 1) : mem.writer[a] = t /\ a \in Table!Bucket
      BY <1>2 DEF TableInv, TableSafe, Table!Bucket, ThreadsafeAssumption
    <2>2. \A a \in 0..i : mem'.writer[a] = t
      BY <1>4, <1>5, <2>1
    <2>3. i + 1 \in 0..num_buckets /\ (i + 1) - 1 = i
      BY DEF ThreadsafeAssumption
    <2> HIDE DEF shared
    <2> QED
      BY <1>3, <2>2, <2>3 DEF TableSafe, Operations
  <1> QED
    BY <1>3, <1>5, <1>6 DEF TableInv

LEMMA GetMapLocksSafe ==
  ASSUME ThreadsafeAssumption, TableInv, NEW t \in Thread, Table!GetMapLocks(t)
  PROVE  TableInv'
  <1>1. CASE Table!LockUnique(t, 0, "get_map", [pc |-> "lock", i |-> 1])
    BY <1>1, GetMapTakes DEF ThreadsafeAssumption
  <1>2. CASE /\ Table!At(t, "lock") /\ th[t].i < num_buckets
             /\ Table!LockUnique(t, th[t].i, "lock", [i |-> th[t].i + 1])
    <2>1. th[t].i \in 0..(num_buckets - 1)
      BY <1>2 DEF Table!At, TableInv, TableSafe, ThreadsafeAssumption
    <2> QED
      BY <1>2, <2>1, GetMapTakes
  <1> QED
    BY <1>1, <1>2 DEF Table!GetMapLocks

\* get_map copies the next bucket, while it has all the mutexes.
LEMMA GetMapCopiesSafe ==
  ASSUME ThreadsafeAssumption, TableInv, NEW t \in Thread, Table!GetMapCopies(t)
  PROVE  TableInv'
  <1>1. ASSUME NEW place \in {"lock", "copy"}, NEW own, th[t].pc = place,
               Table!Step(t, place, Table!Same, own),
               DOMAIN own \in {{"pc", "i", "res"}, {"i", "res"}}, "pc" \in DOMAIN own => own.pc = "copy",
               place = "copy" \/ "pc" \in DOMAIN own,
               own.i \in 0..num_buckets, own.res = PairsOf(own.i),
               \A b \in Table!Bucket : mem.writer[b] = t
        PROVE  TableInv'
    <2>1. GoesOn(t, Table!Same, own)
      BY <1>1, StepsAre DEF TableInv, Threading
    <2>2. /\ Threading' /\ th'[t].pc = "copy" /\ "i" \in DOMAIN th'[t] /\ th'[t].i = own.i
          /\ "res" \in DOMAIN th'[t] /\ th'[t].res = own.res
      <3>1. "copy" \notin Operations \cup {"done"} /\ place # "done"
        BY DEF Operations
      <3>2. "pc" \in DOMAIN th[t] /\ Threading
        BY DEF TableInv, Threading
      <3>3. "todo" \notin DOMAIN own /\ "i" \in DOMAIN own /\ "res" \in DOMAIN own
        BY <1>1
      <3> QED
        BY <1>1, <2>1, <3>1, <3>2, <3>3, GoesOnIs
    <2>3. DOMAIN Table!Same = {}
      BY DEF Table!Same
    <2>4. TableMemory' /\ mem'.bucket = mem.bucket /\ mem'.writer = mem.writer
          /\ \A u \in Thread : u # t => TableSafe(u)'
      BY <2>1, <2>3, TableQuiet DEF GoesOn
    <2>5. PairsOf(own.i)' = PairsOf(own.i)
      BY <2>4 DEF PairsOf, Table!get_bucket
    <2>6. TableSafe(t)'
      BY <1>1, <2>2, <2>4, <2>5 DEF TableSafe, Operations
    <2> QED
      BY <2>2, <2>4, <2>6 DEF TableInv
  <1>2. CASE /\ Table!At(t, "lock") /\ th[t].i = num_buckets
             /\ Table!Step(t, "lock", Table!Same, [pc |-> "copy", i |-> 0, res |-> <<>>])
    <2>1. \A b \in Table!Bucket : mem.writer[b] = t
      BY <1>2 DEF Table!At, TableInv, TableSafe, Table!Bucket
    <2>2. PairsOf(0) = <<>>
      <3>1. 0..(0 - 1) = {}
        OBVIOUS
      <3>2. UNION {DOMAIN mem.bucket[b] : b \in 0..(0 - 1)} = {}
        BY <3>1
      <3> QED
        BY <3>2 DEF PairsOf
    <2> DEFINE own == [pc |-> "copy", i |-> 0, res |-> <<>>]
    <2>3. DOMAIN own = {"pc", "i", "res"} /\ own.pc = "copy" /\ own.i = 0 /\ own.res = <<>>
      OBVIOUS
    <2>4. Table!Step(t, "lock", Table!Same, own) /\ th[t].pc = "lock" /\ 0 \in 0..num_buckets
      BY <1>2 DEF Table!At, ThreadsafeAssumption
    <2> HIDE DEF own
    <2> QED
      BY <1>1, <2>1, <2>2, <2>3, <2>4
  <1>3. CASE /\ Table!At(t, "copy") /\ th[t].i < num_buckets
             /\ Table!Step(t, "copy", Table!Same,
                           [i |-> th[t].i + 1, res |-> Table!Over(th[t].res, mem.bucket[th[t].i])])
    <2>1. PICK n \in 0..(num_buckets - 1) : n = th[t].i
      BY <1>3 DEF Table!At, TableInv, TableSafe, ThreadsafeAssumption
    <2>2. /\ th[t].pc = "copy" /\ th[t].res = PairsOf(n)
          /\ \A b \in Table!Bucket : mem.writer[b] = t
      BY <1>3, <2>1 DEF Table!At, TableInv, TableSafe
    <2>3. Table!Over(PairsOf(n), mem.bucket[n]) = PairsOf(n + 1)
      <3> DEFINE K == UNION {DOMAIN mem.bucket[b] : b \in 0..(n - 1)}
                 L == UNION {DOMAIN mem.bucket[b] : b \in 0..n}
                 M == DOMAIN mem.bucket[n]
                 val(k) == mem.bucket[Table!get_bucket(k)][k]
      <3>1. L = K \cup M
        <4>1. 0..n = 0..(n - 1) \cup {n}
          BY DEF ThreadsafeAssumption
        <4> QED
          BY <4>1
      <3>2. PairsOf(n) = [k \in K |-> val(k)]
        BY DEF PairsOf
      <3>3. PairsOf(n + 1) = [k \in L |-> val(k)]
        <4>1. 0..((n + 1) - 1) = 0..n
          BY DEF ThreadsafeAssumption
        <4> QED
          BY <4>1 DEF PairsOf
      <3>4. \A k \in M : mem.bucket[n][k] = val(k)
        <4>1. n \in Table!Bucket
          BY DEF Table!Bucket
        <4> QED
          BY <4>1 DEF TableInv, TableMemory
      <3> HIDE DEF K, L, M, val
      <3>5. Table!Over(PairsOf(n), mem.bucket[n]) =
               [k \in K \cup M |-> IF k \in K THEN val(k) ELSE mem.bucket[n][k]]
        BY <3>2 DEF Table!Over, M
      <3>6. [k \in K \cup M |-> IF k \in K THEN val(k) ELSE mem.bucket[n][k]] = [k \in K \cup M |-> val(k)]
        BY <3>4
      <3> QED
        BY <3>1, <3>3, <3>5, <3>6
    <2> DEFINE own == [i |-> n + 1, res |-> Table!Over(PairsOf(n), mem.bucket[n])]
    <2>4. DOMAIN own = {"i", "res"} /\ own.i = n + 1 /\ own.res = PairsOf(n + 1)
      BY <2>3
    <2>5. Table!Step(t, "copy", Table!Same, own) /\ n + 1 \in 0..num_buckets
      BY <1>3, <2>1, <2>2 DEF ThreadsafeAssumption
    <2> HIDE DEF own
    <2> QED
      BY <1>1, <2>2, <2>4, <2>5
  <1> QED
    BY <1>2, <1>3 DEF Table!GetMapCopies

\* get_map gives all the mutexes up.
LEMMA GetMapUnlocksSafe ==
  ASSUME ThreadsafeAssumption, TableInv, NEW t \in Thread, Table!GetMapUnlocks(t)
  PROVE  TableInv'
  <1> DEFINE shared == [writer |-> [b \in Table!Bucket |-> Null]]
  <1>1. th[t].pc = "copy" /\ Ends(t, shared, th[t].got)
    BY ReturnsAre DEF Table!GetMapUnlocks, Table!Return, TableInv, Threading
  <1>2. Threading' /\ th'[t].pc \in Operations \cup {"done"}
    BY <1>1, EndsIs DEF TableInv
  <1>3. /\ DOMAIN shared = {"writer"} /\ DOMAIN shared.writer = Table!Bucket
        /\ \A a \in Table!Bucket : mem.writer[a] \in {t, Null}
    BY <1>1 DEF TableInv, TableSafe
  <1>4. TableMemory' /\ \A u \in Thread : u # t => TableSafe(u)'
    BY <1>1, <1>3, TableQuiet DEF Ends
  <1>5. TableSafe(t)'
    BY <1>2 DEF TableSafe, Operations
  <1> QED
    BY <1>2, <1>4, <1>5 DEF TableInv

LEMMA TableStepSafe ==
  ASSUME ThreadsafeAssumption, TableInv, NEW t \in Thread, Table!TableStep(t)
  PROVE  TableInv'
  BY ValueForSafe, AddSafe, RemoveSafe, GetMapLocksSafe, GetMapCopiesSafe, GetMapUnlocksSafe
     DEF Table!TableStep, Table!get_map

\* At first the table is empty and nobody has a mutex.
LEMMA TableInit ==
  ASSUME ThreadsafeAssumption, Threading, mem = Table!Init,
         \A t \in Thread : th[t].pc \in Operations \cup {"done"}
  PROVE  TableInv
  <1>1. TableMemory
    BY DEF TableMemory, Table!Init
  <1>2. \A t \in Thread : TableSafe(t)
    BY DEF TableSafe, Operations
  <1> QED
    BY <1>1, <1>2 DEF TableInv

\* A get_map that has come to the end has what is in the table.
LEMMA TableCurrent ==
  ASSUME TableInv, NEW t \in Thread
  PROVE  Table!SnapshotIsCurrent(t)
  <1> SUFFICES ASSUME th[t].pc = "copy", th[t].i = num_buckets
               PROVE  th[t].res = [k \in Table!Mapped |-> mem.bucket[Table!get_bucket(k)][k]]
    BY DEF Table!SnapshotIsCurrent, Table!At
  <1>1. th[t].res = PairsOf(num_buckets)
    BY DEF TableInv, TableSafe
  <1> QED
    BY <1>1 DEF PairsOf, Table!Mapped, Table!Bucket


------------------------------------------------------------------------------
(* The containers *)

\* Each container has its invariant.
KindInv ==
    /\ kind = "fine" => FineInv
    /\ kind = "coarse" => CoarseInv
    /\ kind = "list_queue" => ListInv
    /\ kind = "dummy_queue" => DummyInv
    /\ kind = "list" => WalkInv
    /\ kind = "table" => TableInv

\* At first every thread is at its first call, and nothing is pushed.
LEMMA InitCalling ==
  ASSUME ThreadsafeAssumption, Init
  PROVE  Calling /\ \A t \in Thread : th[t].pc \in Operations \cup {"done"} /\ Pushed(t) = {}
  <1>1. Threading /\ calls \in [Thread -> Seq(Operations)]
    BY InitThreading DEF Init, ThreadsafeAssumption
  <1>2. ASSUME NEW t \in Thread
        PROVE  /\ th[t].got \in Seq(Answers) /\ Remaining(t)
               /\ th[t].pc \in Operations \cup {"done"} /\ Pushed(t) = {}
    <2>1. PICK s \in Seq(Operations) : s = calls[t]
      BY <1>1
    <2>2. th[t] = Threads!Started(s)
      BY <2>1 DEF Init
    <2>3. th[t].todo = s /\ th[t].got = <<>> /\ th[t].pc = Head(Append(s, "done"))
      BY <2>2 DEF Threads!Started
    <2>4. Head(Append(s, "done")) = IF s = <<>> THEN "done" ELSE Head(s)
      OBVIOUS
    <2>5. s # <<>> => Head(s) \in Operations
      OBVIOUS
    <2>6. PICK n \in Nat : n = Len(s)
      BY <2>1
    <2>7. Remaining(t)
      <3>1. \A i \in 1..n : n - n + i = i
        BY <2>6
      <3> QED
        BY <2>1, <2>3, <2>6, <3>1 DEF Remaining
    <2>8. Pushed(t) = {}
      <3>1. (n + 1)..n = {}
        BY <2>6
      <3> QED
        BY <2>1, <2>3, <2>6, <3>1 DEF Pushed
    <2> QED
      BY <2>3, <2>4, <2>5, <2>7, <2>8
  <1> QED
    BY <1>1, <1>2 DEF Calling

LEMMA KindFirst ==
  ASSUME ThreadsafeAssumption, Init
  PROVE  KindInv
  <1>1. Calling /\ Threading /\ \A t \in Thread : th[t].pc \in Operations \cup {"done"} /\ Pushed(t) = {}
    BY InitCalling DEF Calling
  <1>2. ASSUME kind = "fine" PROVE FineInv
    BY <1>1, <1>2, FineFirst DEF Init
  <1>3. ASSUME kind = "coarse" PROVE CoarseInv
    BY <1>1, <1>3, CoarseFirst DEF Init
  <1>4. ASSUME kind = "list_queue" PROVE ListInv
    BY <1>1, <1>4, ListFirst DEF Init
  <1>5. ASSUME kind = "dummy_queue" PROVE DummyInv
    BY <1>1, <1>5, DummyFirst DEF Init
  <1>6. ASSUME kind = "table" PROVE TableInv
    BY <1>1, <1>6, TableInit DEF Init
  <1>7. ASSUME kind = "list" PROVE WalkInv
    BY <1>1, <1>7, WalkFirst DEF Init
  <1> QED
    BY <1>2, <1>3, <1>4, <1>5, <1>6, <1>7 DEF KindInv

LEMMA KindStays ==
  ASSUME KindInv, UNCHANGED vars
  PROVE  KindInv'
  <1>1. mem' = mem /\ th' = th /\ calls' = calls /\ kind' = kind
    BY DEF vars
  <1>2. Calling => Calling'
    BY <1>1 DEF Calling, Threading, Remaining
  <1>3. \A t \in Thread : Pushed(t)' = Pushed(t) /\ Queues!Item(t)' = Queues!Item(t)
    BY <1>1 DEF Pushed, Queues!Item
  <1>4. Returned' = Returned
    BY <1>1 DEF Returned
  <1>5. ASSUME NEW K, Keeps(K) PROVE Keeps(K)'
    BY <1>1, <1>3, <1>5 DEF Keeps
  <1>6. ASSUME NEW c PROVE DataOf(c)' = DataOf(c)
    BY <1>1 DEF DataOf
  <1>7. ASSUME NEW c, Keeps(DataOf(c) \cup Returned) PROVE Keeps(DataOf(c) \cup Returned)'
    <2>1. PICK K : K = DataOf(c) \cup Returned
      OBVIOUS
    <2>2. Keeps(K)'
      BY <1>5, <1>7, <2>1
    <2> QED
      BY <1>4, <1>6, <2>1, <2>2 DEF Keeps
  <1>8. FineInv => FineInv'
    <2>1. FineMemory => FineMemory'
      BY <1>1 DEF FineMemory
    <2>2. \A t \in Thread : FineSafe(t) => FineSafe(t)'
      BY <1>1 DEF FineSafe, Queues!Item
    <2>3. ASSUME NEW c, FineList(c) PROVE FineList(c)'
      BY <1>1, <1>7, <2>3 DEF FineList, FinePrivate
    <2> QED
      BY <1>2, <2>1, <2>2, <2>3 DEF FineInv
  <1>9. CoarseInv => CoarseInv'
    <2>1. CoarseMemory => CoarseMemory'
      BY <1>1 DEF CoarseMemory
    <2>2. \A t \in Thread : CoarseSafe(t) => CoarseSafe(t)'
      BY <1>1 DEF CoarseSafe
    <2>3. Servers' = Servers
      BY <1>1 DEF Servers, Serving
    <2>4. ASSUME Keeps(ToSet(mem.queue) \cup Returned) PROVE Keeps(ToSet(mem.queue) \cup Returned)'
      <3>1. PICK K : K = ToSet(mem.queue) \cup Returned
        OBVIOUS
      <3>2. Keeps(K)'
        BY <1>5, <2>4, <3>1
      <3> QED
        BY <1>1, <1>4, <3>1, <3>2 DEF Keeps
    <2> QED
      BY <1>1, <1>2, <2>1, <2>2, <2>3, <2>4 DEF CoarseInv
  <1>10. (ListInv => ListInv') /\ (DummyInv => DummyInv')
    <2>1. (ListMemory => ListMemory') /\ (Between => Between')
      BY <1>1 DEF ListMemory, Between
    <2>2. ASSUME NEW c PROVE (ListList(c) => ListList(c)') /\ (DummyList(c) => DummyList(c)')
      BY <1>1, <1>7 DEF ListList, DummyList
    <2> QED
      BY <1>2, <2>1, <2>2 DEF ListInv, DummyInv
  <1>11. TableInv => TableInv'
    <2>1. TableMemory => TableMemory'
      BY <1>1 DEF TableMemory
    <2>2. \A i : PairsOf(i)' = PairsOf(i)
      BY <1>1 DEF PairsOf
    <2>3. \A t \in Thread : TableSafe(t) => TableSafe(t)'
      BY <1>1, <2>2 DEF TableSafe
    <2>4. Threading => Threading'
      BY <1>1 DEF Threading
    <2> QED
      BY <2>1, <2>3, <2>4 DEF TableInv
  <1>12. WalkInv => WalkInv'
    <2>1. (Threading => Threading') /\ (WalkMemory => WalkMemory')
      BY <1>1 DEF Threading, WalkMemory, Old, Values, Links
    <2>2. ASSUME NEW c PROVE WalkAll(c) => WalkAll(c)'
      <3>1. WalkList(c) => WalkList(c)'
        BY <1>1 DEF WalkList, Old, Values, NodesOf, List!head
      <3>2. ASSUME NEW t \in Thread PROVE (WalkSafe(c, t) => WalkSafe(c, t)') /\ WalkPrivate(t)' = WalkPrivate(t)
        <4>1. WalkHolds(c, t) => WalkHolds(c, t)'
          BY <1>1 DEF WalkHolds, NodesOf, List!head
        <4>2. (WalkSees(t) => WalkSees(t)') /\ (MatchesGone(t) => MatchesGone(t)')
          BY <1>1 DEF WalkSees, MatchesGone, Values
        <4>3. DataIn(Ahead(c, t))' = DataIn(Ahead(c, t))
          BY <1>1 DEF DataIn, Ahead, RestOf
        <4>4. WalkSafe(c, t) => WalkSafe(c, t)'
          BY <1>1, <4>1, <4>2, <4>3 DEF WalkSafe
        <4> QED
          BY <1>1, <4>4 DEF WalkPrivate
      <3>3. NodesOf(c)' = NodesOf(c)
        BY DEF NodesOf
      <3> QED
        BY <1>1, <3>1, <3>2, <3>3 DEF WalkAll
    <2> QED
      BY <2>1, <2>2 DEF WalkInv
  <1> QED
    BY <1>1, <1>8, <1>9, <1>10, <1>11, <1>12 DEF KindInv

\* A step of a container keeps its invariant.
LEMMA KindNext ==
  ASSUME ThreadsafeAssumption, KindInv, NEW t \in Thread, Steps(t), UNCHANGED <<kind, calls>>
  PROVE  KindInv'
  <1>1. ASSUME kind = "fine" PROVE FineInv'
    BY <1>1, FineStepSafe DEF KindInv, Steps
  <1>2. ASSUME kind = "coarse" PROVE CoarseInv'
    BY <1>2, CoarseStepSafe DEF KindInv, Steps
  <1>3. ASSUME kind = "list_queue" PROVE ListInv'
    BY <1>3, ListPushSafe, ListPopSafe DEF KindInv, Steps, Queues!ListStep
  <1>4. ASSUME kind = "dummy_queue" PROVE DummyInv'
    BY <1>4, DummyPushSafe, DummyPopSafe DEF KindInv, Steps, Queues!DummyStep
  <1>5. ASSUME kind = "table" PROVE TableInv'
    BY <1>5, TableStepSafe DEF KindInv, Steps
  <1>6. ASSUME kind = "list" PROVE WalkInv'
    BY <1>6, WalkStepSafe DEF KindInv, Steps
  <1> QED
    BY <1>1, <1>2, <1>3, <1>4, <1>5, <1>6 DEF KindInv

\* The inductive invariant.
THEOREM KindHolds == Spec => []KindInv
  <1>1. Init => KindInv
    BY ThreadsafeAssumption, KindFirst
  <1>2. KindInv /\ [Next]_vars => KindInv'
    BY ThreadsafeAssumption, KindNext, KindStays DEF Next, Rest
  <1> QED
    BY <1>1, <1>2, PTL DEF Spec

\* What it says of the queues.
LEMMA QueuesHold ==
  ASSUME ThreadsafeAssumption, KindInv
  PROVE  NothingForgotten
  <1>1. \A t \in Thread : Got(t) = th[t].got
    BY DEF Got
  <1>2. Returned = UNION {ToSet(Got(t)) : t \in Thread}
    BY <1>1 DEF Returned
  <1>3. ASSUME kind = "fine"
        PROVE  UNION {Pushed(t) : t \in Thread} \subseteq ToSet(Items) \cup Returned
    BY <1>3, FineHolds DEF KindInv, Items, Returned
  <1>4. ASSUME kind = "coarse"
        PROVE  /\ UNION {Pushed(t) : t \in Thread} \subseteq ToSet(Items) \cup Returned
               /\ Threads!Asleep # {} =>
                     Len(mem.queue) <= Cardinality({t \in Thread : th[t].pc \in {"woken", "locked", "notify"}})
    BY <1>4, CoarseHolds DEF KindInv, Items, Returned
  <1>5. ASSUME kind = "list_queue"
        PROVE  UNION {Pushed(t) : t \in Thread} \subseteq ToSet(Items) \cup Returned
    BY <1>5, OneHolds DEF KindInv, Items
  <1>6. ASSUME kind = "dummy_queue"
        PROVE  UNION {Pushed(t) : t \in Thread} \subseteq ToSet(Items) \cup Returned
    BY <1>6, OneHolds DEF KindInv, Items
  <1> QED
    BY <1>2, <1>3, <1>4, <1>5, <1>6 DEF NothingForgotten, LockedQueue

\* However many threads make however many calls, no push into one of the queues of
\* chapter 6 is lost.  In the queue with one mutex, moreover, nobody sleeps while it
\* holds more values than threads are on their way to pop one; of the fine-grained
\* queue, which notifies without the mutex of the poppers, that would be false.
THEOREM NothingForgottenHolds == Spec => []NothingForgotten
  <1>1. KindInv => NothingForgotten
    BY ThreadsafeAssumption, QueuesHold
  <1> QED
    BY <1>1, KindHolds, PTL

\* What the invariant says of the nodes the threads use.
LEMMA NodesHold ==
  ASSUME ThreadsafeAssumption, KindInv
  PROVE  NoUseAfterFree
  <1>1. ASSUME kind = "fine"
        PROVE  /\ \A t \in Thread : Queues!FineUses(t) \subseteq DOMAIN mem.node
               /\ {mem.head, mem.tail} \ {Null} \subseteq DOMAIN mem.node
    BY <1>1, FineHolds DEF KindInv
  <1>2. ASSUME kind = "list" PROVE \A t \in Thread : List!Uses(t) \subseteq DOMAIN mem.node
    BY <1>2, WalkersAre DEF KindInv
  <1>3. ASSUME kind = "list_queue" PROVE {mem.head, mem.tail} \ {Null} \subseteq DOMAIN mem.node
    BY <1>3, OneHolds DEF KindInv
  <1>4. ASSUME kind = "dummy_queue" PROVE {mem.head, mem.tail} \ {Null} \subseteq DOMAIN mem.node
    BY <1>4, OneHolds DEF KindInv
  <1> QED
    BY <1>1, <1>2, <1>3, <1>4 DEF NoUseAfterFree

\* No thread of the fine-grained queue or of the list uses a node that another has
\* freed, and no queue holds on to one, whatever the threads, their calls and the order.
THEOREM NoUseAfterFreeHolds == Spec => []NoUseAfterFree
  <1>1. KindInv => NoUseAfterFree
    BY ThreadsafeAssumption, NodesHold
  <1> QED
    BY <1>1, KindHolds, PTL

\* A walk of the list misses and repeats nothing while others push and remove, and
\* get_map takes all buckets at one moment.
THEOREM ReadersSeeAllHolds == Spec => []ReadersSeeAll
  <1>1. KindInv => ReadersSeeAll
    BY ThreadsafeAssumption, WalkersAre, TableCurrent DEF KindInv, ReadersSeeAll
  <1> QED
    BY <1>1, KindHolds, PTL

------------------------------------------------------------------------------
(* The queues with mutexes are atomic queues *)

\* What the calls of a queue have returned, as the atomic queue sees it.
Answered == [t \in Thread |-> IF kind \in LockedQueue \cup {"lock_free"} THEN Got(t) ELSE <<>>]

\* Of a queue with mutexes every thread makes MaxCalls calls at most.
QueueInv == KindInv /\ kind \in LockedQueue /\ \A t \in Thread : Len(calls[t]) <= MaxCalls

\* A push, a pop, a look or nothing is a step of the atomic queue or none.
LEMMA DoesIs ==
  ASSUME MaxCalls \in Nat, QueueInv, Calling, kind' = kind, NEW t \in Thread, NEW old, NEW new,
         old = Items, new = Items', Does(t, old, new)
  PROVE  [AtomicQueue!Next]_<<Items, Answered>>
  <1>1. PICK g : g = Answered
    OBVIOUS
  <1>2. PICK h : h = Answered'
    OBVIOUS
  <1>3. /\ g = [u \in Thread |-> th[u].got] /\ h = [u \in Thread |-> th'[u].got]
    BY <1>1, <1>2 DEF Answered, Got, QueueInv
  <1>4. \A u \in Thread : u # t => th'[u].got = th[u].got
    BY DEF Does
  <1>5. ASSUME new = old, th'[t].got = th[t].got
        PROVE  UNCHANGED <<Items, Answered>>
    BY <1>1, <1>2, <1>3, <1>4, <1>5
  <1>6. ASSUME NEW a, th'[t].got = Append(th[t].got, a)
        PROVE  AtomicQueue!Answers(t, a)
    <2>1. h = [g EXCEPT ![t] = Append(@, a)]
      BY <1>3, <1>4, <1>6
    <2> QED
      BY <1>1, <1>2, <2>1 DEF AtomicQueue!Answers, Answered
  <1>7. ASSUME new = Append(old, Queues!Item(t)), th[t].todo # <<>>, th'[t].got = th[t].got
        PROVE  AtomicQueue!Next
    <2>1. Queues!Item(t) \in Thread \X (1..MaxCalls)
      <3>1. PICK n \in Nat, N \in Nat : n = Len(th[t].todo) /\ N = Len(calls[t])
        BY DEF Calling, Threading
      <3>2. n # 0
        BY <1>7, <3>1 DEF Calling, Threading
      <3>3. n <= N /\ N <= MaxCalls
        BY <3>1 DEF Calling, Remaining, QueueInv
      <3>4. n \in 1..MaxCalls
        BY <3>1, <3>2, <3>3
      <3> QED
        BY <3>1, <3>4 DEF Queues!Item
    <2>2. h = g
      BY <1>3, <1>4, <1>7
    <2>3. AtomicQueue!Push(Queues!Item(t))
      BY <1>1, <1>2, <1>7, <2>2 DEF AtomicQueue!Push, Answered
    <2> QED
      BY <2>1, <2>3 DEF AtomicQueue!Next
  <1>8. ASSUME old # <<>>, new = Tail(old), th'[t].got = Append(th[t].got, Head(old))
        PROVE  AtomicQueue!Next
    <2>1. AtomicQueue!Answers(t, Head(Items))
      BY <1>6, <1>8
    <2>2. AtomicQueue!Pop(t)
      BY <1>8, <2>1 DEF AtomicQueue!Pop
    <2> QED
      BY <2>2 DEF AtomicQueue!Next
  <1>9. ASSUME new = old,
               th'[t].got = Append(th[t].got, IF old = <<>> THEN Null ELSE Queues!NotEmpty)
        PROVE  AtomicQueue!Next
    <2>1. AtomicQueue!Answers(t, IF Items = <<>> THEN Null ELSE <<>>)
      BY <1>6, <1>9 DEF Queues!NotEmpty
    <2>2. AtomicQueue!Looks(t)
      BY <1>9, <2>1 DEF AtomicQueue!Looks
    <2> QED
      BY <2>2 DEF AtomicQueue!Next
  <1> QED
    BY <1>5, <1>7, <1>8, <1>9 DEF Does

\* At first the queue is empty, and nothing has been returned.
LEMMA QueueFirst ==
  ASSUME ThreadsafeAssumption, CallsAssumption, Init, kind \in LockedQueue
  PROVE  QueueInv /\ AtomicQueue!Init
  <1>1. KindInv
    BY KindFirst
  <1>2. \A t \in Thread : Len(calls[t]) <= MaxCalls
    BY DEF Init, CallsAssumption
  <1>3. Answered = [t \in Thread |-> <<>>]
    <2>1. \A t \in Thread : th[t].got = <<>>
      BY DEF Init, Threads!Started
    <2> QED
      BY <2>1 DEF Answered, Got
  <1>4. Items = <<>>
    <2>1. ASSUME NEW node, NEW n, IsFiniteSet(DOMAIN node) PROVE Queues!Chain(node, n, n) = <<>>
      <3>1. Linked(<<>>, node, n, n)
        BY DEF Linked, After
      <3> QED
        BY <2>1, <3>1, ChainIs
    <2>2. CASE kind = "fine"
      <3>1. mem.node = [n \in {0} |-> Queues!Blank] /\ mem.head = mem.tail
        BY <2>2 DEF Init, Queues!FineInit
      <3>2. Queues!Chain(mem.node, mem.head, mem.tail) = <<>>
        BY <2>1, <3>1, FS_Singleton
      <3> QED
        BY <2>2, <3>2 DEF Items, Queues!FineItems, Queues!ValuesTo
    <2>3. CASE kind = "coarse"
      BY <2>3 DEF Init, Items, Queues!CoarseInit
    <2>4. CASE kind = "list_queue"
      <3>1. mem.node = <<>> /\ mem.head = Null
        BY <2>4 DEF Init, Queues!ListInit
      <3>2. Queues!Chain(mem.node, mem.head, Null) = <<>>
        BY <2>1, <3>1, FS_EmptySet
      <3> QED
        BY <2>4, <3>2 DEF Items, Queues!ListItems, Queues!ValuesTo
    <2>5. CASE kind = "dummy_queue"
      <3>1. mem.node = [n \in {0} |-> Queues!Blank] /\ mem.head = mem.tail
        BY <2>5 DEF Init, Queues!DummyInit
      <3>2. Queues!Chain(mem.node, mem.head, mem.tail) = <<>>
        BY <2>1, <3>1, FS_Singleton
      <3> QED
        BY <2>5, <3>2 DEF Items, Queues!DummyItems, Queues!ValuesTo
    <2> QED
      BY <2>2, <2>3, <2>4, <2>5 DEF LockedQueue
  <1> QED
    BY <1>1, <1>2, <1>3, <1>4 DEF QueueInv, AtomicQueue!Init, Answered

\* A step of a queue with mutexes is a step of the atomic queue.
LEMMA QueueNext ==
  ASSUME ThreadsafeAssumption, CallsAssumption, QueueInv, NEW t \in Thread, Steps(t),
         UNCHANGED <<kind, calls>>
  PROVE  QueueInv' /\ [AtomicQueue!Next]_<<Items, Answered>>
  <1>1. QueueInv'
    BY KindNext DEF QueueInv
  <1>2. Calling /\ \E old, new : old = Items /\ new = Items' /\ Does(t, old, new)
    <2>1. CASE kind = "fine"
      <3>1. Calling /\ FineActs(t)
        BY <2>1, FineStepSafe DEF QueueInv, KindInv, Steps, FineInv
      <3> QED
        BY <2>1, <3>1 DEF Items, FineActs
    <2>2. CASE kind = "coarse"
      <3>1. Calling /\ CoarseActs(t)
        BY <2>2, CoarseStepSafe DEF QueueInv, KindInv, Steps, CoarseInv
      <3> QED
        BY <2>2, <3>1 DEF Items, CoarseActs
    <2>3. CASE kind = "list_queue"
      <3>1. Calling /\ ListActs(t)
        BY <2>3, ListPushSafe, ListPopSafe DEF QueueInv, KindInv, Steps, ListInv, Queues!ListStep
      <3> QED
        BY <2>3, <3>1 DEF Items, ListActs
    <2>4. CASE kind = "dummy_queue"
      <3>1. Calling /\ DummyActs(t)
        BY <2>4, DummyPushSafe, DummyPopSafe DEF QueueInv, KindInv, Steps, DummyInv, Queues!DummyStep
      <3> QED
        BY <2>4, <3>1 DEF Items, DummyActs
    <2> QED
      BY <2>1, <2>2, <2>3, <2>4 DEF QueueInv, LockedQueue
  <1>3. [AtomicQueue!Next]_<<Items, Answered>>
    <2>1. MaxCalls \in Nat
      BY DEF CallsAssumption
    <2> QED
      BY <1>2, <2>1, DoesIs
  <1> QED
    BY <1>1, <1>3

\* Nothing else changes what the atomic queue sees.
LEMMA QueueStays ==
  ASSUME QueueInv, UNCHANGED vars
  PROVE  QueueInv' /\ UNCHANGED <<Items, Answered>>
  <1>1. mem' = mem /\ th' = th /\ calls' = calls /\ kind' = kind
    BY DEF vars
  <1>2. QueueInv'
    BY <1>1, KindStays DEF QueueInv
  <1>3. Items' = Items
    BY <1>1 DEF QueueInv, LockedQueue, Items, Queues!FineItems, Queues!ListItems,
                Queues!DummyItems, Queues!ValuesTo
  <1>4. Answered' = Answered
    BY <1>1 DEF Answered, Got
  <1> QED
    BY <1>2, <1>3, <1>4

\* Every queue with mutexes is an atomic queue: whoever calls what, each call takes effect
\* at one moment, a pop returns the oldest value, no value comes out twice, and an
\* answer that there is none was true at a moment of the call.
THEOREM QueuesAreAtomic == Spec /\ kind \in LockedQueue => QueueSpec
  <1>1. Init /\ kind \in LockedQueue => QueueInv /\ AtomicQueue!Init
    BY ThreadsafeAssumption, CallsAssumption, QueueFirst
  <1>2. QueueInv /\ [Next]_vars => QueueInv' /\ [AtomicQueue!Next]_<<Items, Answered>>
    BY ThreadsafeAssumption, CallsAssumption, QueueNext, QueueStays DEF Next, Rest
  <1> QED
    BY <1>1, <1>2, PTL DEF Spec, QueueSpec, AtomicQueue!Spec, Answered
=============================================================================
