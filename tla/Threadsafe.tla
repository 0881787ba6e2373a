----------------------------- MODULE Threadsafe -----------------------------
(***************************************************************************)
(* Threads that share one of the containers of chapters 6 and 7, and what  *)
(* the containers promise them.                                            *)
(***************************************************************************)
EXTENDS Integers, Sequences, FiniteSets, SequencesExt

CONSTANTS
    Thread, Null,
    Jobs,       \* for each kind of container, the calls its threads may make
    MaxCalls,   \* how many calls a thread makes at most
    Key, num_buckets, MaxRefs

\* The calls of the containers.
Operations ==
    {"push", "try_pop", "wait_and_pop", "empty", "push_front", "for_each", "find_first_if",
     "remove_if", "value_for", "add_or_update", "remove", "get_map"}

\* Null is no thread, address or value.
ASSUME ThreadsafeAssumption ==
    /\ \A k \in DOMAIN Jobs : Jobs[k] \subseteq [Thread -> Seq(Operations)]
    /\ IsFiniteSet(Thread)
    /\ Null \notin Thread /\ Null \notin Nat /\ Null \notin Thread \X Nat
    /\ Key \subseteq Nat /\ num_buckets \in Nat \ {0}

ASSUME CallsAssumption ==
    MaxCalls \in Nat /\ \A k \in DOMAIN Jobs : \A c \in Jobs[k] : \A t \in Thread : Len(c[t]) <= MaxCalls

VARIABLES
    kind,       \* the container
    calls,      \* the calls of each thread
    mem, th     \* see Threads

vars == <<kind, calls, mem, th>>

\* A value is <<thread, number>>; the predicates look for those with number 2.
Match(v) == v[2] = 2
hasher(key) == key

Threads == INSTANCE Threads
Queues == INSTANCE Queues
List == INSTANCE ThreadsafeList
Table == INSTANCE LookupTable
LockFree == INSTANCE LockFreeQueue

Init ==
    /\ kind \in DOMAIN Jobs
    /\ calls \in Jobs[kind]
    /\ th = [t \in Thread |-> Threads!Started(calls[t])]
    /\ mem = CASE kind = "fine" -> Queues!FineInit
               [] kind = "coarse" -> Queues!CoarseInit
               [] kind = "list_queue" -> Queues!ListInit
               [] kind = "dummy_queue" -> Queues!DummyInit
               [] kind = "lock_free" -> LockFree!Init
               [] kind = "list" -> List!Init
               [] kind = "table" -> Table!Init

Steps(t) ==
    \/ kind = "fine" /\ Queues!FineStep(t)
    \/ kind = "coarse" /\ Queues!CoarseStep(t)
    \/ kind = "list_queue" /\ Queues!ListStep(t)
    \/ kind = "dummy_queue" /\ Queues!DummyStep(t)
    \/ kind = "lock_free" /\ LockFree!LockFreeStep(t)
    \/ kind = "list" /\ List!ListStep(t)
    \/ kind = "table" /\ Table!TableStep(t)

\* Nothing is left to do, or what is left waits for a push, or the lock-free
\* queue is at its bound or broken; any other end is a deadlock.
Rest ==
    /\ Threads!AllDone \/ kind = "lock_free"
    /\ UNCHANGED vars

Next ==
    \/ Rest
    \/ \E t \in Thread : Steps(t) /\ UNCHANGED <<kind, calls>>

Spec == Init /\ [][Next]_vars

------------------------------------------------------------------------------
(* Properties *)

Got(t) == th[t].got

LockedQueue == {"fine", "coarse", "list_queue", "dummy_queue"}

Items ==
    CASE kind = "fine" -> Queues!FineItems
      [] kind = "coarse" -> mem.queue
      [] kind = "list_queue" -> Queues!ListItems
      [] kind = "dummy_queue" -> Queues!DummyItems
      [] kind = "lock_free" -> LockFree!LockFreeItems
      [] OTHER -> <<>>

AtomicQueue == INSTANCE AtomicQueue WITH
    items <- Items,
    got <- [t \in Thread |-> IF kind \in LockedQueue \cup {"lock_free"} THEN Got(t) ELSE <<>>],
    Value <- Thread \X (1..MaxCalls)

\* Every queue is an atomic queue: a pop returns the oldest value, no value
\* comes out twice, and an answer that there is none was true at a moment of the
\* call.  Of the lock-free queue this is so until a node is used after its delete.
QueueSpec == AtomicQueue!Spec

\* What the calls of t that have returned have pushed.
Pushed(t) ==
    {<<t, n>> : n \in {n \in (Len(th[t].todo) + 1)..Len(calls[t]) :
                          calls[t][Len(calls[t]) + 1 - n] = "push"}}

\* No push into one of the queues of chapter 6 is lost: the value is in the queue
\* or was returned by a pop.  And in the queue with one mutex nobody sleeps in
\* wait_and_pop while it holds more values than threads are on their way to pop
\* one; the fine-grained queue, which notifies without that mutex, promises no
\* such thing.
NothingForgotten ==
    /\ kind \in LockedQueue =>
        UNION {Pushed(t) : t \in Thread}
            \subseteq ToSet(Items) \cup UNION {ToSet(Got(t)) : t \in Thread}
    /\ kind = "coarse" /\ Threads!Asleep # {} =>
        Len(mem.queue) <= Cardinality({t \in Thread : th[t].pc \in {"woken", "locked", "notify"}})

\* No thread uses a node that another has freed, and the list a container holds
\* on to does not lead to one.
NoUseAfterFree ==
    /\ kind = "fine" => \A t \in Thread : Queues!FineUses(t) \subseteq DOMAIN mem.node
    /\ kind = "list" => \A t \in Thread : List!Uses(t) \subseteq DOMAIN mem.node
    /\ kind \in {"fine", "list_queue", "dummy_queue"} => {mem.head, mem.tail} \ {Null} \subseteq DOMAIN mem.node

\* Readers see what there is while others change it: a walk of the list misses
\* and repeats nothing, and get_map takes the whole table at one moment.
ReadersSeeAll ==
    \A t \in Thread :
        /\ kind = "list" => List!WalkIsComplete(t)
        /\ kind = "table" => Table!SnapshotIsCurrent(t)
=============================================================================
