----------------------------- MODULE AtomicQueue -----------------------------
(* An atomic queue: what a queue shared by threads promises them.            *)
EXTENDS Sequences

CONSTANTS Thread, Value, Null

VARIABLES
    items,   \* the values in the queue, the oldest first
    got      \* what the calls of each thread have returned

Answers(t, answer) == got' = [got EXCEPT ![t] = Append(@, answer)]

Push(v) == items' = Append(items, v) /\ UNCHANGED got

Pop(t) ==
    /\ items # <<>>
    /\ Answers(t, Head(items))
    /\ items' = Tail(items)

\* try_pop of an empty queue, and empty, which says <<>> of one that is not.
Looks(t) ==
    /\ Answers(t, IF items = <<>> THEN Null ELSE <<>>)
    /\ UNCHANGED items

Init == items = <<>> /\ got = [t \in Thread |-> <<>>]

Next == (\E v \in Value : Push(v)) \/ (\E t \in Thread : Pop(t) \/ Looks(t))

Spec == Init /\ [][Next]_<<items, got>>
==============================================================================
