-------------------------------- MODULE Stack --------------------------------
(* An atomic stack: what a stack shared by threads promises them.            *)
EXTENDS Sequences

CONSTANTS Thread, Value, Null

VARIABLES
    items,   \* the values, the top first
    got      \* what the last pop of each thread returned

Push(v) == items' = <<v>> \o items /\ UNCHANGED got

Pop(t) ==
    /\ items # <<>>
    /\ got' = [got EXCEPT ![t] = Head(items)]
    /\ items' = Tail(items)

PopEmpty(t) ==
    /\ items = <<>>
    /\ got' = [got EXCEPT ![t] = Null]
    /\ UNCHANGED items

Init == items = <<>> /\ got = [t \in Thread |-> Null]

Next == (\E v \in Value : Push(v)) \/ (\E t \in Thread : Pop(t) \/ PopEmpty(t))

Spec == Init /\ [][Next]_<<items, got>>
==============================================================================
