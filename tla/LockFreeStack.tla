---------------------------- MODULE LockFreeStack ----------------------------
(***************************************************************************)
(* lock_free_stack of concurrent/chapter7/lockfree_stack.cpp, with split   *)
(* reference counts: the head counts, in external_count, the poppers that  *)
(* have taken a reference to the node it points to; internal_count counts  *)
(* those that have given one up.  Each action makes one access to what the *)
(* threads share; an access to memory that is deleted is undefined.        *)
(***************************************************************************)
EXTENDS Integers, Sequences, FiniteSets

CONSTANTS
    Thread,
    Node,     \* the places in memory new may return
    Value,
    Null,
    MaxOps,   \* bound: the calls of push and pop, of all threads together
    MaxCount  \* bound: external_count, which two poppers that keep making each
              \* other's compare_exchange fail increase for ever

ASSUME StackAssumption ==
    /\ Null \notin Node \cup Value
    /\ IsFiniteSet(Thread) /\ IsFiniteSet(Node)
    /\ MaxOps \in Nat /\ MaxCount \in Nat

VARIABLES
    head,        \* the counted_node_ptr the threads share
    mem,         \* what is at each place in memory
    allocated,   \* the nodes made and not deleted
    pc,          \* the statement each thread is at
    old,         \* old_head of its pop
    ptr,         \* ptr of its pop, new_node.ptr of its push
    next,        \* the ptr->next its pop has read
    got,         \* what its last pop returned
    nops         \* calls made

local == <<pc, old, ptr, next, got>>
vars == <<head, mem, allocated, local, nops>>

Counted(count, p) == [external_count |-> count, ptr |-> p]

Call == nops < MaxOps /\ nops' = nops + 1

At(t, place) == pc[t] = place
Goto(t, place) == pc' = [pc EXCEPT ![t] = place]

------------------------------------------------------------------------------
(* push *)

\* A new node, whose next is the head there is.
Push(t, v) ==
    /\ At(t, "idle")
    /\ Call
    /\ \E n \in Node \ allocated :
        /\ allocated' = allocated \cup {n}
        /\ mem' = [mem EXCEPT ![n] = [data |-> v, internal_count |-> 0, next |-> head]]
        /\ ptr' = [ptr EXCEPT ![t] = n]
    /\ Goto(t, "push")
    /\ UNCHANGED <<head, old, next, got>>

\* Mutant of PushExchange: the head is not compared.
PushExchange_Store(t) ==
    /\ At(t, "push")
    /\ head' = Counted(1, ptr[t])
    /\ Goto(t, "idle")
    /\ UNCHANGED <<mem, allocated, old, ptr, next, got, nops>>

PushExchange(t) ==
    /\ At(t, "push")
    /\ IF head = mem[ptr[t]].next
       THEN head' = Counted(1, ptr[t]) /\ Goto(t, "idle") /\ UNCHANGED mem
       ELSE mem' = [mem EXCEPT ![ptr[t]].next = head] /\ UNCHANGED <<head, pc>>
    /\ UNCHANGED <<allocated, old, ptr, next, got, nops>>

------------------------------------------------------------------------------
(* pop *)

Pop(t) ==
    /\ At(t, "idle")
    /\ Call
    /\ old' = [old EXCEPT ![t] = head]
    /\ Goto(t, "increase")
    /\ UNCHANGED <<head, mem, allocated, ptr, next, got>>

\* increase_head_count, once round its loop; then an empty stack is left.
increase_head_count(t) ==
    /\ At(t, "increase")
    /\ head = old[t] => head.external_count < MaxCount
    /\ IF head = old[t]
       THEN LET new == Counted(head.external_count + 1, head.ptr)
            IN  /\ head' = new
                /\ old' = [old EXCEPT ![t] = new]
                /\ ptr' = [ptr EXCEPT ![t] = new.ptr]
                /\ Goto(t, IF new.ptr = Null THEN "idle" ELSE "next")
                /\ got' = IF new.ptr = Null THEN [got EXCEPT ![t] = Null] ELSE got
       ELSE old' = [old EXCEPT ![t] = head] /\ UNCHANGED <<head, ptr, pc, got>>
    /\ UNCHANGED <<mem, allocated, next, nops>>

ReadNext(t) ==
    /\ At(t, "next")
    /\ next' = [next EXCEPT ![t] = mem[ptr[t]].next]
    /\ Goto(t, "take")
    /\ UNCHANGED <<head, mem, allocated, old, ptr, got, nops>>

\* The node is taken off the stack, or the new head is what the next round
\* begins with.
Take(t) ==
    /\ At(t, "take")
    /\ IF head = old[t]
       THEN head' = next[t] /\ Goto(t, "swap") /\ UNCHANGED old
       ELSE old' = [old EXCEPT ![t] = head] /\ Goto(t, "release") /\ UNCHANGED head
    /\ UNCHANGED <<mem, allocated, ptr, next, got, nops>>

Swap(t) ==
    /\ At(t, "swap")
    /\ got' = [got EXCEPT ![t] = mem[ptr[t]].data]
    /\ mem' = [mem EXCEPT ![ptr[t]].data = Null]
    /\ Goto(t, "count")
    /\ UNCHANGED <<head, allocated, old, ptr, next, nops>>

\* fetch_add to internal_count; the thread that finds it there deletes the node.
FetchAdd(t, n, finds) ==
    /\ mem' = [mem EXCEPT ![ptr[t]].internal_count = @ + n]
    /\ allocated' = IF mem[ptr[t]].internal_count = finds
                    THEN allocated \ {ptr[t]} ELSE allocated

\* Mutant of CountRefs: the reference of the head is not taken off.
CountRefs_OffByOne(t) ==
    /\ At(t, "count")
    /\ LET count_increase == old[t].external_count - 1
       IN  FetchAdd(t, count_increase, -count_increase)
    /\ Goto(t, "idle")
    /\ UNCHANGED <<head, old, ptr, next, got, nops>>

\* The references taken through the head, but for the head's and its own.
CountRefs(t) ==
    /\ At(t, "count")
    /\ LET count_increase == old[t].external_count - 2
       IN  FetchAdd(t, count_increase, -count_increase)
    /\ Goto(t, "idle")
    /\ UNCHANGED <<head, old, ptr, next, got, nops>>

\* Mutant of Release: the thread that finds no other reference left deletes.
Release_Early(t) ==
    /\ At(t, "release")
    /\ FetchAdd(t, -1, 0)
    /\ Goto(t, "increase")
    /\ UNCHANGED <<head, old, ptr, next, got, nops>>

\* Somebody else has taken the node.
Release(t) ==
    /\ At(t, "release")
    /\ FetchAdd(t, -1, 1)
    /\ Goto(t, "increase")
    /\ UNCHANGED <<head, old, ptr, next, got, nops>>

------------------------------------------------------------------------------
Nothing == [data |-> Null, internal_count |-> 0, next |-> Counted(0, Null)]

Init ==
    /\ head = Counted(0, Null)
    /\ mem = [n \in Node |-> Nothing]
    /\ allocated = {}
    /\ pc = [t \in Thread |-> "idle"]
    /\ old = [t \in Thread |-> head]
    /\ ptr = [t \in Thread |-> Null]
    /\ next = [t \in Thread |-> head]
    /\ got = [t \in Thread |-> Null]
    /\ nops = 0

Step(t) ==
    \/ \E v \in Value : Push(t, v)
    \/ PushExchange(t)
    \/ Pop(t) \/ increase_head_count(t) \/ ReadNext(t) \/ Take(t)
    \/ Swap(t) \/ CountRefs(t) \/ Release(t)

Next == \E t \in Thread : Step(t)

Spec == Init /\ [][Next]_vars

------------------------------------------------------------------------------
(* Properties *)

\* The nodes that can be reached from the head, the top first: the next of the
\* last of them is followed as often as there are nodes.
Extend(s, h, m) ==
    LET p == IF s = <<>> THEN h.ptr ELSE m[s[Len(s)]].next.ptr
    IN  IF p = Null THEN s ELSE Append(s, p)

ChainOf(h, m) ==
    LET first[k \in 0..Cardinality(Node)] ==
          IF k = 0 THEN <<>> ELSE Extend(first[k - 1], h, m)
    IN  first[Cardinality(Node)]

Chain == ChainOf(head, mem)

InChain == {Chain[i] : i \in DOMAIN Chain}

\* A popper between taking and giving up its reference may use the node.
Holds(t) == pc[t] \in {"next", "take", "swap", "count", "release"}

\* No node is deleted that a popper holds a reference to or that is on the
\* stack; none is deleted twice.  (Memory that is reused is in the hands of a
\* push first.)
NoUseAfterDelete ==
    /\ InChain \subseteq allocated
    /\ \A t \in Thread : Holds(t) =>
        /\ ptr[t] \in allocated
        /\ \A u \in Thread : At(u, "push") => ptr[u] # ptr[t]

\* When nobody is in the middle of an operation the nodes in memory are those on
\* the stack: the last of the poppers that meet in a node deletes it.
NoLeak == (\A t \in Thread : At(t, "idle")) => allocated = InChain

\* push and pop are atomic: they happen at the compare_exchange that succeeds,
\* a pop of an empty stack where it counts itself in; the data a pop swaps out
\* later is still the value it took.
Items == [i \in DOMAIN Chain |-> mem[Chain[i]].data]
Got == [t \in Thread |-> IF At(t, "swap") THEN mem[ptr[t]].data ELSE got[t]]

Atomic == INSTANCE Stack WITH items <- Items, got <- Got
StackSpec == Atomic!Spec
==============================================================================
