---------------------------- MODULE LockFreeQueue ----------------------------
(***************************************************************************)
(* lockfree_queue.cpp, one access to shared memory at a time and as        *)
(* sequentially consistent as its atomics are by default.  head and tail   *)
(* count the references taken through them; a node counts those given back *)
(* and which of the two still point to it.  (increase_external_count is    *)
(* only called here, and is taken to be increase_head_count of             *)
(* lockfree_stack.cpp; a compare-exchange loop that changes one counter is *)
(* one step, the one in which it succeeds.)  Memory is not used again, so   *)
(* that a node that is used after its delete shows.                        *)
(***************************************************************************)
EXTENDS Threads

CONSTANT MaxRefs   \* bound: external counts

Pointer(count, n) == [external_count |-> count, ptr |-> n]
Node == [data |-> Null, internal_count |-> 0, external_counters |-> 2, next |-> Pointer(0, Null)]

\* deleted: the addresses given back; broken: one of them was used.
Init ==
    [node |-> 0 :> Node, head |-> Pointer(1, 0), tail |-> Pointer(1, 0),
     deleted |-> {}, broken |-> FALSE]

\* A step that uses a node; with a node that is gone anything may happen.
Using(t, place, n, shared, own) ==
    IF n \in mem.deleted THEN Step(t, place, [broken |-> TRUE], Same)
    ELSE Step(t, place, shared, own)

Put(n, node) == [node |-> [mem.node EXCEPT ![n] = node]]

\* The node with new counts, deleted when nothing refers to it.
Counts(n, internal, external) ==
    Put(n, [mem.node[n] EXCEPT !.internal_count = internal % (2 ^ 30),
                               !.external_counters = external % 4]) @@
    [deleted |-> mem.deleted \cup (IF internal % (2 ^ 30) = 0 /\ external % 4 = 0 THEN {n} ELSE {})]

release_ref(t, place, n, own) ==
    Using(t, place, n,
          Counts(n, mem.node[n].internal_count - 1, mem.node[n].external_counters), own)

\* (The internal count becomes count_increase, whatever it was.)
free_external_counter(t, place, old, own) ==
    Using(t, place, old.ptr,
          Counts(old.ptr, old.external_count - 2, mem.node[old.ptr].external_counters - 1), own)

More(pointer) == [pointer EXCEPT !.external_count = @ + 1]
increase_external_count(t, place, end, own) ==
    mem[end].external_count < MaxRefs /\ Step(t, place, end :> More(mem[end]), own)

------------------------------------------------------------------------------
(* push *)

New == Fresh(mem.node)

PushBegins(t) ==
    Step(t, "push", [node |-> New :> Node @@ mem.node], [pc |-> "refer", new_next |-> Pointer(1, New)])

PushRefers(t) ==
    increase_external_count(t, "refer", "tail", [pc |-> "data", old_tail |-> More(mem.tail)])

Old(t) == th[t].old_tail.ptr

PushData(t) ==
    IF mem.node[Old(t)].data = Null
    THEN Using(t, "data", Old(t), Put(Old(t), [mem.node[Old(t)] EXCEPT !.data = Item(t)]), [pc |-> "link"])
    ELSE Using(t, "data", Old(t), Same, [pc |-> "help"])

NextIsFree(t) == mem.node[Old(t)].next = Pointer(0, Null)
Link(t) == Put(Old(t), [mem.node[Old(t)] EXCEPT !.next = th[t].new_next])

\* The value is in: link the new node, or take the one another has linked.
PushLinks(t) ==
    IF NextIsFree(t)
    THEN Using(t, "link", Old(t), Link(t), [pc |-> "set_tail", next |-> th[t].new_next, last |-> TRUE])
    ELSE Using(t, "link", Old(t), [deleted |-> mem.deleted \cup {th[t].new_next.ptr}],
               [pc |-> "set_tail", next |-> mem.node[Old(t)].next, last |-> TRUE])

\* Another value is in: link the new node for it, and get one more.
PushHelps(t) ==
    IF NextIsFree(t)
    THEN Using(t, "help", Old(t), [node |-> New :> Node @@ Link(t).node],
               [pc |-> "set_tail", next |-> th[t].new_next, new_next |-> Pointer(1, New), last |-> FALSE])
    ELSE Using(t, "help", Old(t), Same,
               [pc |-> "set_tail", next |-> mem.node[Old(t)].next, last |-> FALSE])

\* set_new_tail: a compare-exchange that may fail though it need not, and then
\* the reference is given back in one way or the other.
TailExchanged(t) ==
    /\ At(t, "set_tail") /\ mem.tail = th[t].old_tail
    /\ Step(t, "set_tail", [tail |-> th[t].next], [pc |-> "free_tail"])
TailDiffers(t) ==
    /\ At(t, "set_tail") /\ mem.tail # th[t].old_tail
    /\ IF mem.tail.ptr = Old(t) THEN Step(t, "set_tail", Same, [old_tail |-> mem.tail])
       ELSE Step(t, "set_tail", Same, [pc |-> "leave_tail"])

AfterTail(t) == IF th[t].last THEN [pc |-> "pushed"] ELSE [pc |-> "refer"]

set_new_tail(t) ==
    \/ TailExchanged(t) \/ TailDiffers(t)
    \/ At(t, "free_tail") /\ free_external_counter(t, "free_tail", th[t].old_tail, AfterTail(t))
    \/ At(t, "leave_tail") /\ release_ref(t, "leave_tail", Old(t), AfterTail(t))

push(t) ==
    \/ PushBegins(t) \/ PushRefers(t)
    \/ At(t, "data") /\ PushData(t)
    \/ At(t, "link") /\ PushLinks(t)
    \/ At(t, "help") /\ PushHelps(t)
    \/ set_new_tail(t)
    \/ Return(t, "pushed", Same)

------------------------------------------------------------------------------
(* pop *)

PopRefers(t, place) ==
    increase_external_count(t, place, "head", [pc |-> "compare", old_head |-> More(mem.head)])

\* (An empty queue: the reference is not given back.)
PopCompares(t) ==
    /\ At(t, "compare")
    /\ IF th[t].old_head.ptr = mem.tail.ptr THEN Answer(t, "compare", Same, Null)
       ELSE Step(t, "compare", Same, [pc |-> "next"])

PopReadsNext(t) ==
    /\ At(t, "next")
    /\ Using(t, "next", th[t].old_head.ptr, Same,
             [pc |-> "exchange", next |-> mem.node[th[t].old_head.ptr].next])

\* Mutant of PopExchanges: the new head is stored whatever has become of the old.
PopExchanges_Stores(t) ==
    Step(t, "exchange", [head |-> th[t].next],
         [pc |-> "value", got |-> With(t, mem.node[th[t].old_head.ptr].data)])

PopExchanges(t) ==
    /\ At(t, "exchange")
    /\ IF mem.head = th[t].old_head
       THEN Step(t, "exchange", [head |-> th[t].next],
                 [pc |-> "value", got |-> With(t, mem.node[th[t].old_head.ptr].data)])
       ELSE Step(t, "exchange", Same, [pc |-> "retry"])

\* data.exchange(nullptr), of which the value is known since the head moved.
PopTakes(t) ==
    LET n == th[t].old_head.ptr
    IN  Using(t, "value", n, Put(n, [mem.node[n] EXCEPT !.data = Null]),
              [pc |-> "free_head", got |-> Append(Front(th[t].got), mem.node[n].data)])

pop(t) ==
    \/ PopRefers(t, "try_pop") \/ PopRefers(t, "again")
    \/ PopCompares(t) \/ PopReadsNext(t) \/ PopExchanges(t)
    \/ At(t, "value") /\ PopTakes(t)
    \/ At(t, "free_head") /\ free_external_counter(t, "free_head", th[t].old_head, [pc |-> "popped"])
    \/ At(t, "retry") /\ release_ref(t, "retry", th[t].old_head.ptr, [pc |-> "again"])
    \/ Return(t, "popped", Same)

LockFreeStep(t) == ~mem.broken /\ (push(t) \/ pop(t))

\* The values in the queue: those of the nodes before the tail.
LockFreeItems ==
    LET from[n \in DOMAIN mem.node] ==
            IF n = mem.tail.ptr THEN <<>> ELSE <<mem.node[n].data>> \o from[mem.node[n].next.ptr]
    IN  from[mem.head.ptr]
=============================================================================
