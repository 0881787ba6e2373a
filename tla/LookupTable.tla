---------------------------- MODULE LookupTable ----------------------------
(***************************************************************************)
(* threadsafe_lookup_table.cpp: buckets, each a list of pairs under a      *)
(* shared mutex.  A list is a function here: find_entry_for keeps its keys *)
(* apart.                                                                  *)
(***************************************************************************)
EXTENDS Threads

CONSTANTS
    Key, num_buckets,
    hasher(_)

Bucket == 0..(num_buckets - 1)
get_bucket(key) == hasher(key) % num_buckets

Init ==
    [bucket |-> [b \in Bucket |-> <<>>],
     writer |-> [b \in Bucket |-> Null],
     readers |-> [b \in Bucket |-> {}]]

LockShared(t, b, place, own) ==
    /\ mem.writer[b] = Null
    /\ Step(t, place, [readers |-> [mem.readers EXCEPT ![b] = @ \cup {t}]], own)

\* Mutant of LockUnique: it does not wait for readers and writers to leave.
LockUnique_Ignored(t, b, place, own) ==
    Step(t, place, [writer |-> [mem.writer EXCEPT ![b] = t]], own)

LockUnique(t, b, place, own) ==
    /\ mem.writer[b] = Null /\ mem.readers[b] = {}
    /\ Step(t, place, [writer |-> [mem.writer EXCEPT ![b] = t]], own)

KeyOf(t) == th[t].key
BucketOf(t) == get_bucket(KeyOf(t))

\* value_for: what find_entry_for finds, or the default value.
value_for(t) ==
    \/ \E key \in Key : LockShared(t, get_bucket(key), "value_for", [pc |-> "read", key |-> key])
    \/ LET data == mem.bucket[BucketOf(t)]
       IN  /\ At(t, "read")
           /\ Answer(t, "read", [readers |-> [mem.readers EXCEPT ![BucketOf(t)] = @ \ {t}]],
                     IF KeyOf(t) \in DOMAIN data THEN data[KeyOf(t)] ELSE Null)

Unlocked(t) == [mem.writer EXCEPT ![BucketOf(t)] = Null]

add_or_update_mapping(t) ==
    \/ \E key \in Key :
        LockUnique(t, get_bucket(key), "add_or_update", [pc |-> "add", key |-> key])
    \/ /\ At(t, "add")
       /\ Return(t, "add", [bucket |-> [mem.bucket EXCEPT ![BucketOf(t)] = Added(@, KeyOf(t), Item(t))],
                            writer |-> Unlocked(t)])

remove_mapping(t) ==
    \/ \E key \in Key : LockUnique(t, get_bucket(key), "remove", [pc |-> "erase", key |-> key])
    \/ /\ At(t, "erase")
       /\ Return(t, "erase", [bucket |-> [mem.bucket EXCEPT ![BucketOf(t)] = Without(@, KeyOf(t))],
                              writer |-> Unlocked(t)])

\* get_map locks the buckets one after another, then copies them one after
\* another into res (which it does not return) and gives them all up.
GetMapLocks(t) ==
    \/ LockUnique(t, 0, "get_map", [pc |-> "lock", i |-> 1])
    \/ /\ At(t, "lock") /\ th[t].i < num_buckets
       /\ LockUnique(t, th[t].i, "lock", [i |-> th[t].i + 1])

GetMapCopies(t) ==
    \/ /\ At(t, "lock") /\ th[t].i = num_buckets
       /\ Step(t, "lock", Same, [pc |-> "copy", i |-> 0, res |-> <<>>])
    \/ /\ At(t, "copy") /\ th[t].i < num_buckets
       /\ Step(t, "copy", Same, [i |-> th[t].i + 1, res |-> Over(th[t].res, mem.bucket[th[t].i])])

GetMapUnlocks(t) ==
    /\ At(t, "copy") /\ th[t].i = num_buckets
    /\ Return(t, "copy", [writer |-> [b \in Bucket |-> Null]])

get_map(t) == GetMapLocks(t) \/ GetMapCopies(t) \/ GetMapUnlocks(t)

TableStep(t) == value_for(t) \/ add_or_update_mapping(t) \/ remove_mapping(t) \/ get_map(t)

------------------------------------------------------------------------------
Mapped == UNION {DOMAIN mem.bucket[b] : b \in Bucket}

\* What get_map has gathered when it is done is the whole table at one moment:
\* no bucket was changed after it was copied.
SnapshotIsCurrent(t) ==
    At(t, "copy") /\ th[t].i = num_buckets => th[t].res = [key \in Mapped |-> mem.bucket[get_bucket(key)][key]]
=============================================================================
