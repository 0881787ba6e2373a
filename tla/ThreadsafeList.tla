--------------------------- MODULE ThreadsafeList ---------------------------
(***************************************************************************)
(* threadsafe_list.cpp: every node has a mutex, and who walks the list     *)
(* locks the next node before it unlocks the one it comes from.  A value   *)
(* is <<pusher, number>>, and the predicate of a call is Match.            *)
(***************************************************************************)
EXTENDS Threads

CONSTANT Match(_)   \* the predicate given to find_first_if and remove_if

head == 0

\* removed is only there for the properties: the values remove_if has unlinked.
Init == [node |-> [n \in {head} |-> [data |-> Null, next |-> Null, m |-> Null]], removed |-> {}]

Values ==
    LET chain == Chain(mem.node, mem.node[head].next, Null)
    IN  {mem.node[chain[i]].data : i \in DOMAIN chain}

\* mem.node after some nodes' mutexes are set or released.
Hold(node, n, t) == [node EXCEPT ![n].m = t]

PushLock(t) ==
    /\ mem.node[head].m = Null
    /\ Step(t, "push_front", [node |-> Hold(mem.node, head, t)], [pc |-> "link"])

PushLink(t) ==
    LET new_node == Fresh(mem.node)
        node == Added(mem.node, new_node, [data |-> Item(t), next |-> mem.node[head].next, m |-> Null])
    IN  Return(t, "link", [node |-> [node EXCEPT ![head].next = new_node, ![head].m = Null]])

push_front(t) == PushLock(t) \/ PushLink(t)

\* start and seen are only there for the properties: the values in the list
\* when the walk began, and those it has come to.
WalkBegins(t, call) ==
    /\ mem.node[head].m = Null
    /\ Step(t, call, [node |-> Hold(mem.node, head, t)],
            [pc |-> "walk", current |-> head, start |-> Values, seen |-> <<>>,
             before |-> mem.removed])

NextOf(t) == mem.node[th[t].current].next

WalkEnds(t) ==
    /\ At(t, "walk") /\ NextOf(t) = Null
    /\ Step(t, "walk", [node |-> Hold(mem.node, th[t].current, Null)], [pc |-> "end", found |-> Null])

\* Mutant of LockNext: the node is taken without its mutex.
LockNext_Ignored(t) ==
    /\ At(t, "walk") /\ NextOf(t) # Null
    /\ Step(t, "walk", [node |-> Hold(mem.node, NextOf(t), t)], [pc |-> "next", next |-> NextOf(t)])

LockNext(t) ==
    /\ At(t, "walk") /\ NextOf(t) # Null /\ mem.node[NextOf(t)].m = Null
    /\ Step(t, "walk", [node |-> Hold(mem.node, NextOf(t), t)], [pc |-> "next", next |-> NextOf(t)])

Datum(t) == mem.node[th[t].next].data

\* for_each and find_first_if give up the node they come from, then call f or p.
LeaveCurrent(t) ==
    /\ At(t, "next") /\ Head(th[t].todo) # "remove_if"
    /\ Step(t, "next", [node |-> Hold(mem.node, th[t].current, Null)], [pc |-> "call"])

Visits(t) == [seen |-> Append(th[t].seen, Datum(t))]

CallF(t) ==
    /\ At(t, "call")
    /\ IF Head(th[t].todo) = "find_first_if" /\ Match(Datum(t))
       THEN Step(t, "call", [node |-> Hold(mem.node, th[t].next, Null)],
                 Over([pc |-> "end", found |-> Datum(t)], Visits(t)))
       ELSE Step(t, "call", Same, Over([pc |-> "walk", current |-> th[t].next], Visits(t)))

Keep(t) ==
    /\ At(t, "next") /\ Head(th[t].todo) = "remove_if" /\ ~Match(Datum(t))
    /\ Step(t, "next", [node |-> Hold(mem.node, th[t].current, Null)],
            Over([pc |-> "walk", current |-> th[t].next], Visits(t)))

Unlink(t) ==
    /\ At(t, "next") /\ Head(th[t].todo) = "remove_if" /\ Match(Datum(t))
    /\ Step(t, "next", [node |-> [mem.node EXCEPT ![th[t].current].next = mem.node[th[t].next].next],
                        removed |-> mem.removed \cup {Datum(t)}], Over([pc |-> "unlock"], Visits(t)))

\* next_lk.unlock(), then the node goes with old_next.
UnlockRemoved(t) ==
    Step(t, "unlock", [node |-> Hold(mem.node, th[t].next, Null)], [pc |-> "free"])
FreeRemoved(t) == Step(t, "free", [node |-> Without(mem.node, th[t].next)], [pc |-> "walk"])

remove_if(t) == Keep(t) \/ Unlink(t) \/ UnlockRemoved(t) \/ FreeRemoved(t)

End(t) == Return(t, "end", Same)

ListStep(t) ==
    \/ push_front(t)
    \/ \E call \in {"for_each", "find_first_if", "remove_if"} : WalkBegins(t, call)
    \/ WalkEnds(t) \/ LockNext(t) \/ LeaveCurrent(t) \/ CallF(t) \/ remove_if(t) \/ End(t)

------------------------------------------------------------------------------
\* The nodes a thread is about to use.
Uses(t) ==
    CASE th[t].pc = "walk" -> {th[t].current} \cup ({NextOf(t)} \ {Null})
      [] th[t].pc = "next" -> {th[t].current, th[t].next}
      [] th[t].pc \in {"call", "unlock", "free"} -> {th[t].next}
      [] OTHER -> {}

\* A walk has come to no value twice and to none that was removed before it
\* began; if it got to the end, it has come to every value that was in the list when
\* it began, save those that were removed, and no value that matched
\* then is left by a remove_if, or by a find_first_if that found nothing.
WalkIsComplete(t) ==
    At(t, "end") =>
        LET seen == ToSet(th[t].seen)
            call == Head(th[t].todo)
        IN  /\ Len(th[t].seen) = Cardinality(seen)
            /\ seen \cap th[t].before = {}
            /\ th[t].found = Null => th[t].start \subseteq seen \cup mem.removed
            /\ th[t].found = Null /\ call # "for_each" =>
                   \A v \in th[t].start : Match(v) => v \in mem.removed
=============================================================================
