------------------------------- MODULE Queues -------------------------------
(***************************************************************************)
(* The queues of chapter6: linked lists with a mutex at each end           *)
(* (threadsafe_queue.cpp, threadsafe_finegrained_queue.cpp), one mutex      *)
(* around a std::queue (threadsafe_single_queue.cpp and, with pointers in   *)
(* it, threadsafe_pointer_queue.cpp), and the lists for one thread they    *)
(* begin with.                                                             *)
(***************************************************************************)
EXTENDS Threads

Blank == [data |-> Null, next |-> Null]
New == Fresh(mem.node)

\* The values from a node to the one whose address is end.
ValuesTo(n, end) ==
    LET chain == Chain(mem.node, n, end)
    IN  [i \in DOMAIN chain |-> mem.node[chain[i]].data]

------------------------------------------------------------------------------
(* A list with a dummy node at its end, head_mutex and tail_mutex *)

FineInit == [node |-> [n \in {0} |-> Blank], head |-> 0, tail |-> 0, head_mutex |-> Null, tail_mutex |-> Null]

PushLock(t) ==
    /\ mem.tail_mutex = Null
    /\ Step(t, "push", [tail_mutex |-> t, node |-> Added(mem.node, New, Blank)],
                       [pc |-> "data", new_tail |-> New])
PushData(t) ==
    Step(t, "data", [node |-> [mem.node EXCEPT ![mem.tail].data = Item(t)]], [pc |-> "next"])
PushNext(t) ==
    Step(t, "next", [node |-> [mem.node EXCEPT ![mem.tail].next = th[t].new_tail]], [pc |-> "tail"])
PushTail(t) ==
    Step(t, "tail", [tail |-> th[t].new_tail, tail_mutex |-> Null], [pc |-> "pushed"])

fine_push(t) == PushLock(t) \/ PushData(t) \/ PushNext(t) \/ PushTail(t)

\* No mutex is held here.
PushNotifies(t) == At(t, "pushed") /\ notify_one(t, Returned(t, th[t].got)) /\ UNCHANGED mem

HeadLock(t, call) ==
    mem.head_mutex = Null /\ Step(t, call, [head_mutex |-> t], [pc |-> "compare"])

\* head.get() == get_tail(), which takes tail_mutex for a moment.
Compare(t) ==
    /\ At(t, "compare") /\ mem.tail_mutex = Null
    /\ LET call == Head(th[t].todo)
       IN  CASE mem.head # mem.tail /\ call # "empty" -> Step(t, "compare", Same, [pc |-> "value"])
             [] mem.head = mem.tail /\ call = "wait_and_pop" ->
                    Step(t, "compare", Same, [pc |-> "sleep"])
             [] OTHER ->
                    Answer(t, "compare", [head_mutex |-> Null],
                           IF mem.head = mem.tail THEN Null ELSE NotEmpty)

\* pop_head, and the data in it.
Value(t) == Step(t, "value", Same, [pc |-> "move", value |-> mem.node[mem.head].data])
pop_head(t) ==
    Step(t, "move", [head |-> mem.node[mem.head].next, head_mutex |-> Null],
                    [pc |-> "free", old_head |-> mem.head, got |-> With(t, th[t].value)])

\* unique_ptr: the node goes with the function that has taken it.
FreeHead(t) == Return(t, "free", [node |-> Without(mem.node, th[t].old_head)])

fine_try_pop(t) ==
    HeadLock(t, "try_pop") \/ Compare(t) \/ Value(t) \/ pop_head(t) \/ FreeHead(t)

\* wait_for_data: the predicate is evaluated again after each wakeup.
Sleep(t) == Step(t, "sleep", [head_mutex |-> Null], [pc |-> "asleep"])
WaitForData(t) ==
    HeadLock(t, "wait_and_pop") \/ Sleep(t) \/ SpuriousWakeup(t) \/ HeadLock(t, "woken")

FineStep(t) ==
    fine_push(t) \/ PushNotifies(t) \/ fine_try_pop(t) \/ WaitForData(t) \/ HeadLock(t, "empty")

FineItems == ValuesTo(mem.head, mem.tail)

\* The nodes a thread is about to read or to write.
FineUses(t) ==
    CASE th[t].pc \in {"data", "next"} -> {mem.tail}
      [] th[t].pc \in {"value", "move"} -> {mem.head}
      [] th[t].pc = "free" -> {th[t].old_head}
      [] OTHER -> {}

------------------------------------------------------------------------------
(* One mutex and a std::queue *)

CoarseInit == [queue |-> <<>>, mut |-> Null]

Locks(t, call) == mem.mut = Null /\ Step(t, call, [mut |-> t], [pc |-> "locked"])
Calls(t, call) == At(t, "locked") /\ Head(th[t].todo) = call

\* Mutant of coarse_push: it notifies only when the queue was empty.
coarse_push_Sparing(t) ==
    \/ Locks(t, "push")
    \/ Calls(t, "push") /\ Step(t, "locked", [queue |-> Append(mem.queue, Item(t))], [pc |-> "notify"])
    \/ /\ At(t, "notify")
       /\ IF Len(mem.queue) = 1 THEN notify_one(t, Returned(t, th[t].got))
                                ELSE th' = [th EXCEPT ![t] = Returned(t, th[t].got)]
       /\ mem' = [mem EXCEPT !.mut = Null]

coarse_push(t) ==
    \/ Locks(t, "push")
    \/ Calls(t, "push") /\ Step(t, "locked", [queue |-> Append(mem.queue, Item(t))], [pc |-> "notify"])
    \/ /\ At(t, "notify")
       /\ notify_one(t, Returned(t, th[t].got))
       /\ mem' = [mem EXCEPT !.mut = Null]

TakeFront(t) ==
    /\ mem.queue # <<>>
    /\ Answer(t, "locked", [queue |-> Tail(mem.queue), mut |-> Null], Head(mem.queue))

coarse_wait_and_pop(t) ==
    \/ Locks(t, "wait_and_pop") \/ Locks(t, "woken") \/ SpuriousWakeup(t)
    \/ Calls(t, "wait_and_pop") /\ TakeFront(t)
    \/ /\ Calls(t, "wait_and_pop") /\ mem.queue = <<>>
       /\ Step(t, "locked", [mut |-> Null], [pc |-> "asleep"])

coarse_try_pop(t) ==
    \/ Locks(t, "try_pop")
    \/ Calls(t, "try_pop") /\ TakeFront(t)
    \/ Calls(t, "try_pop") /\ mem.queue = <<>> /\ Answer(t, "locked", [mut |-> Null], Null)

coarse_empty(t) ==
    \/ Locks(t, "empty")
    \/ /\ Calls(t, "empty")
       /\ Answer(t, "locked", [mut |-> Null], IF mem.queue = <<>> THEN Null ELSE NotEmpty)

CoarseStep(t) == coarse_push(t) \/ coarse_wait_and_pop(t) \/ coarse_try_pop(t) \/ coarse_empty(t)

------------------------------------------------------------------------------
(* list_queue.cpp and list_queue_with_dummy.cpp, for one thread *)

ListInit == [node |-> <<>>, head |-> Null, tail |-> Null]

list_push(t) ==
    LET p == New
        node == Added(mem.node, p, [data |-> Item(t), next |-> Null])
    IN  Return(t, "push",
               IF mem.tail = Null THEN [node |-> node, head |-> p, tail |-> p]
               ELSE [node |-> [node EXCEPT ![mem.tail].next = p], tail |-> p])

list_try_pop(t) ==
    IF mem.head = Null THEN Answer(t, "try_pop", Same, Null)
    ELSE LET rest == mem.node[mem.head].next
         IN  Answer(t, "try_pop",
                    [node |-> Without(mem.node, mem.head), head |-> rest,
                     tail |-> IF rest = Null THEN Null ELSE mem.tail], mem.node[mem.head].data)

ListStep(t) == list_push(t) \/ list_try_pop(t)
ListItems == ValuesTo(mem.head, Null)

DummyInit == [node |-> [n \in {0} |-> Blank], head |-> 0, tail |-> 0]

dummy_push(t) ==
    LET node == [mem.node EXCEPT ![mem.tail] = [data |-> Item(t), next |-> New]]
    IN  Return(t, "push", [node |-> Added(node, New, Blank), tail |-> New])

dummy_try_pop(t) ==
    IF mem.head = mem.tail THEN Answer(t, "try_pop", Same, Null)
    ELSE Answer(t, "try_pop",
                [node |-> Without(mem.node, mem.head), head |-> mem.node[mem.head].next],
                mem.node[mem.head].data)

DummyStep(t) == dummy_push(t) \/ dummy_try_pop(t)
DummyItems == ValuesTo(mem.head, mem.tail)
==============================================================================
