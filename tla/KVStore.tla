------------------------------- MODULE KVStore -------------------------------
(***************************************************************************)
(* HTab and HMap of build_redis/chapter9/hashtable.hpp, with the commands  *)
(* of commands.hpp that use them.  An HTab is an array of chains and a     *)
(* count; a node is the key of its entry, and its hcode is Hash[key].      *)
(* buckets is mask + 1, and 0 stands for a table whose tab is NULL; the    *)
(* number of buckets is a power of two, and hcode & mask Hash[key] %       *)
(* buckets.  When ht1 of an HMap gets full it becomes ht2, and every       *)
(* later operation moves up to k_resizing_work nodes from ht2 to a new ht1 *)
(* twice as big.  The loop of hm_help_resizing is modelled one iteration   *)
(* at a time, the rest of a command in the steps between its calls.        *)
(***************************************************************************)
EXTENDS Integers, Sequences, SequencesExt, FiniteSets

CONSTANTS
    Key,                 \* the keys clients use
    Hash,                \* the hash code of each key
    Value,               \* the values clients store
    Nil,                 \* no key, no value
    k_resizing_work,     \* 128
    k_max_load_factor,   \* 8
    InitialBuckets       \* 4: the first table hm_insert allocates

ASSUME HashAssumption == Hash \in [Key -> Nat]
ASSUME KeyAssumption == IsFiniteSet(Key)
ASSUME KVStoreAssumption ==
    /\ Nil \notin Key \cup Value
    /\ k_resizing_work \in Nat \ {0}
    /\ k_max_load_factor \in Nat \ {0}
    /\ InitialBuckets \in Nat \ {0}

VARIABLES
    ht1, ht2,       \* the two tables of the HMap
    resizing_pos,   \* the chain of ht2 that is moved next
    nwork,          \* nodes moved by the running hm_help_resizing
    val,            \* Entry::val, of the entries whose node is in a table
    cmd,            \* the command being executed
    pc,             \* where it is
    reply           \* the last command and what it answered

vars == <<ht1, ht2, resizing_pos, nwork, val, cmd, pc, reply>>

NoCommand == [op |-> "none", key |-> Nil, val |-> Nil]

------------------------------------------------------------------------------
(* HTab *)

\* HTab{}
NoTable == [buckets |-> 0, tab |-> [pos \in {} |-> <<>>], size |-> 0]

h_init(n) == [buckets |-> n, tab |-> [pos \in 0..n-1 |-> <<>>], size |-> 0]

Bucket(h, k) == Hash[k] % h.buckets

\* Mutant of h_insert: htab->size++ is missing.
h_insert_Uncounted(h, k) == [h EXCEPT !.tab[Bucket(h, k)] = Cons(k, @)]

h_insert(h, k) ==
    [h EXCEPT !.tab[Bucket(h, k)] = Cons(k, @), !.size = @ + 1]

\* Does h_lookup find the key?  It gives up at once when there is no table.
h_lookup(h, k) == h.buckets > 0 /\ \E i \in DOMAIN h.tab[Bucket(h, k)] :
                                      h.tab[Bucket(h, k)][i] = k

\* h_detach takes the node at place i out of a chain.
h_detach(h, pos, i) == [h EXCEPT !.tab[pos] = RemoveAt(@, i), !.size = @ - 1]

\* The place in its chain where h_lookup finds the key: the first one.
PlaceOf(h, k) ==
    LET chain == h.tab[Bucket(h, k)]
    IN  CHOOSE i \in DOMAIN chain :
            chain[i] = k /\ \A j \in 1..i-1 : chain[j] # k

\* The nodes that are somewhere in a table.
Nodes(h) == UNION {ToSet(h.tab[pos]) : pos \in 0..h.buckets-1}

(* When a table is in order *)

Table(h) ==
    h \in [buckets : Nat, tab : [0..h.buckets-1 -> Seq(Key)], size : Nat]

\* Every node is in the chain its hash code selects, and there once.
Placed(h) ==
    \A pos \in 0..h.buckets-1 : \A i \in DOMAIN h.tab[pos] :
        /\ Bucket(h, h.tab[pos][i]) = pos
        /\ \A j \in DOMAIN h.tab[pos] : h.tab[pos][i] = h.tab[pos][j] => i = j

------------------------------------------------------------------------------
(* Commands arrive one at a time: the server has a single thread. *)

Start(op, k, v) ==
    /\ pc = "idle"
    /\ cmd' = [op |-> op, key |-> k, val |-> v]
    /\ nwork' = 0
    /\ pc' = "lookup"
    /\ UNCHANGED <<ht1, ht2, resizing_pos, val, reply>>

do_get(k) == Start("get", k, Nil)
do_set(k, v) == Start("set", k, v)
do_del(k) == Start("del", k, Nil)

\* hm_size() and a scan of both tables; h_scan passes over a table whose size
\* is 0.
ScannedKeys(h) == IF h.size = 0 THEN {} ELSE Nodes(h)

do_keys ==
    /\ pc = "idle"
    /\ reply' = [op |-> "keys", key |-> Nil,
                 answer |-> ScannedKeys(ht1) \cup ScannedKeys(ht2)]
    /\ UNCHANGED <<ht1, ht2, resizing_pos, nwork, val, cmd, pc>>

------------------------------------------------------------------------------
(* hm_help_resizing, called by hm_lookup and hm_pop (pc = "lookup") and at  *)
(* the end of hm_insert (pc = "insert")                                     *)

Helping ==
    /\ pc \in {"lookup", "insert"}
    /\ ht2.buckets > 0
    /\ nwork < k_resizing_work
    /\ ht2.size > 0

\* Mutant of SkipBucket: resizing_pos is not advanced.
SkipBucket_Stuck ==
    /\ Helping
    /\ ht2.tab[resizing_pos] = <<>>
    /\ UNCHANGED <<ht1, ht2, resizing_pos, nwork, val, cmd, pc, reply>>

\* The chain at resizing_pos is empty: go to the next one.
SkipBucket ==
    /\ Helping
    /\ ht2.tab[resizing_pos] = <<>>
    /\ resizing_pos' = resizing_pos + 1
    /\ UNCHANGED <<ht1, ht2, nwork, val, cmd, pc, reply>>

\* Its first node moves to ht1.
MoveNode ==
    /\ Helping
    /\ ht2.tab[resizing_pos] # <<>>
    /\ ht1' = h_insert(ht1, Head(ht2.tab[resizing_pos]))
    /\ ht2' = h_detach(ht2, resizing_pos, 1)
    /\ nwork' = nwork + 1
    /\ UNCHANGED <<resizing_pos, val, cmd, pc, reply>>

\* Mutant of HelpReturns: ht2 is freed when the work of a call is done.
HelpReturns_FreesEarly ==
    /\ pc \in {"lookup", "insert"}
    /\ ~Helping
    /\ ht2' = NoTable
    /\ pc' = IF pc = "lookup" THEN "act" ELSE "idle"
    /\ cmd' = IF pc = "lookup" THEN cmd ELSE NoCommand
    /\ UNCHANGED <<ht1, resizing_pos, nwork, val, reply>>

\* The loop is over; an empty ht2 is freed.
HelpReturns ==
    /\ pc \in {"lookup", "insert"}
    /\ ~Helping
    /\ ht2' = IF ht2.size = 0 THEN NoTable ELSE ht2
    /\ pc' = IF pc = "lookup" THEN "act" ELSE "idle"
    /\ cmd' = IF pc = "lookup" THEN cmd ELSE NoCommand
    /\ UNCHANGED <<ht1, resizing_pos, nwork, val, reply>>

------------------------------------------------------------------------------
(* The rest of the commands, hm_help_resizing having returned *)

Answer(a) == reply' = [op |-> cmd.op, key |-> cmd.key, answer |-> a]

\* Mutant of Found: hm_lookup does not go on to ht2.
Found_InFirstTable == h_lookup(ht1, cmd.key)

Found == h_lookup(ht1, cmd.key) \/ h_lookup(ht2, cmd.key)

Finish ==
    /\ pc' = "idle"
    /\ cmd' = NoCommand
    /\ UNCHANGED <<resizing_pos, nwork>>

GetAnswers ==
    /\ pc = "act" /\ cmd.op = "get"
    /\ Answer(IF Found THEN val[cmd.key] ELSE Nil)
    /\ Finish
    /\ UNCHANGED <<ht1, ht2, val>>

\* The key is there: its entry gets the new value.
SetUpdates ==
    /\ pc = "act" /\ cmd.op = "set"
    /\ Found
    /\ val' = [val EXCEPT ![cmd.key] = cmd.val]
    /\ Answer(Nil)
    /\ Finish
    /\ UNCHANGED <<ht1, ht2>>

\* Mutant of LoadReached: the load factor may be exceeded by one node a bucket.
LoadReached_OffByOne(h) == h.size \div h.buckets > k_max_load_factor

LoadReached(h) == h.size \div h.buckets >= k_max_load_factor

\* Mutant of hm_start_resizing: it goes on where the last resizing ended.
hm_start_resizing_KeepsPos(filled) ==
    /\ ht2' = filled
    /\ ht1' = h_init(filled.buckets * 2)
    /\ UNCHANGED resizing_pos

hm_start_resizing(filled) ==
    /\ ht2' = filled
    /\ ht1' = h_init(filled.buckets * 2)
    /\ resizing_pos' = 0

\* hm_insert up to its call of hm_help_resizing: ht1 is allocated if need be
\* and takes the node; a resizing begins unless one is going on.
hm_insert ==
    /\ pc = "act" /\ cmd.op = "set"
    /\ ~Found
    /\ val' = [val EXCEPT ![cmd.key] = cmd.val]
    /\ LET filled == h_insert(IF ht1.buckets = 0 THEN h_init(InitialBuckets) ELSE ht1,
                              cmd.key)
       IN  IF ht2.buckets = 0 /\ LoadReached(filled)
           THEN hm_start_resizing(filled)
           ELSE ht1' = filled /\ UNCHANGED <<ht2, resizing_pos>>
    /\ nwork' = 0
    /\ Answer(Nil)
    /\ pc' = "insert"
    /\ UNCHANGED cmd

\* hm_pop looks into ht1 first, and only then into ht2.
hm_pop ==
    /\ pc = "act" /\ cmd.op = "del"
    /\ LET pop(h) == h_detach(h, Bucket(h, cmd.key), PlaceOf(h, cmd.key))
       IN  IF h_lookup(ht1, cmd.key)
           THEN ht1' = pop(ht1) /\ UNCHANGED ht2
           ELSE /\ UNCHANGED ht1
                /\ ht2' = IF h_lookup(ht2, cmd.key) THEN pop(ht2) ELSE ht2
    /\ val' = [val EXCEPT ![cmd.key] = IF Found THEN Nil ELSE @]
    /\ Answer(IF Found THEN 1 ELSE 0)
    /\ Finish

------------------------------------------------------------------------------
Init ==
    /\ ht1 = NoTable
    /\ ht2 = NoTable
    /\ resizing_pos = 0
    /\ nwork = 0
    /\ val = [k \in Key |-> Nil]
    /\ cmd = NoCommand
    /\ pc = "idle"
    /\ reply = [op |-> "none", key |-> Nil, answer |-> Nil]

Command ==
    \/ \E k \in Key : do_get(k) \/ do_del(k) \/ \E v \in Value : do_set(k, v)
    \/ do_keys

Help == SkipBucket \/ MoveNode \/ HelpReturns

Act == GetAnswers \/ SetUpdates \/ hm_insert \/ hm_pop

Next == Command \/ Help \/ Act

\* A command that has begun runs on; nobody has to send one.
Spec == Init /\ [][Next]_vars /\ WF_vars(Help \/ Act)

------------------------------------------------------------------------------
(* Properties *)

TypeOK ==
    /\ Table(ht1)
    /\ Table(ht2)
    /\ resizing_pos \in Nat
    /\ nwork \in 0..k_resizing_work
    /\ val \in [Key -> Value \cup {Nil}]
    /\ cmd \in [op : {"get", "set", "del"}, key : Key, val : Value \cup {Nil}]
               \cup {NoCommand}
    /\ pc \in {"idle", "lookup", "act", "insert"}
    /\ reply.op \in {"none", "get", "set", "del", "keys"}

\* HTab::size counts the nodes of the table, on which the loop of
\* hm_help_resizing, hm_size and h_scan rely.
SizesExact == ht1.size = Cardinality(Nodes(ht1)) /\ ht2.size = Cardinality(Nodes(ht2))

\* Every node is in the chain its hash code selects, once, and in one of the two
\* tables only, and the sizes are right: no step of a resizing loses a node,
\* doubles it, miscounts it or puts it where h_lookup does not look.
Structure ==
    /\ Placed(ht1) /\ Placed(ht2)
    /\ Nodes(ht1) \cap Nodes(ht2) = {}
    /\ SizesExact

\* The loop of hm_help_resizing never reads past the end of ht2.tab: while nodes
\* are left there, a chain at or after resizing_pos holds one.
ResizingPosInBounds == ht2.size > 0 => resizing_pos < ht2.buckets

\* Between commands ht1 is below the load factor, resizing or not: a resizing is
\* always over before the next one is due, though nothing in hm_insert waits
\* for it.
LoadBounded ==
    pc = "idle" /\ ht1.buckets > 0 => ht1.size < k_max_load_factor * ht1.buckets

\* To a client the two tables are one map, in every state of a resizing.
Contents == [k \in Key |-> IF k \in Nodes(ht1) \cup Nodes(ht2) THEN val[k] ELSE Nil]
Map == INSTANCE KVMap WITH map <- Contents
MapSpec == Map!Spec

\* Every command is answered: the loop of hm_help_resizing ends.
CommandsEnd == pc # "idle" ~> pc = "idle"
==============================================================================
