------------------------------- MODULE Threads -------------------------------
(***************************************************************************)
(* Threads that call the operations of an object they share.  mem holds    *)
(* the fields of the object.  A thread works through its list of calls;    *)
(* pc is its place in the call it makes (at its beginning, the call's      *)
(* name), got what its calls have returned, and a step changes some fields *)
(* of mem and some of the thread's own variables.                          *)
(***************************************************************************)
EXTENDS Integers, Sequences, SequencesExt

CONSTANTS Thread, Null

VARIABLES mem, th

Started(calls) == [pc |-> Head(Append(calls, "done")), todo |-> calls, got |-> <<>>]

\* f where it says something, g elsewhere.
Over(f, g) == [x \in DOMAIN f \cup DOMAIN g |-> IF x \in DOMAIN f THEN f[x] ELSE g[x]]

\* f with v at x, a new place or an old one.
Added(f, x, v) == [y \in DOMAIN f \cup {x} |-> IF y = x THEN v ELSE f[y]]

At(t, place) == th[t].pc = place
Same == <<>>

\* Thread t goes on from a place; shared and own are what it assigns.
Step(t, place, shared, own) ==
    /\ At(t, place)
    /\ mem' = Over(shared, mem)
    /\ th' = [th EXCEPT ![t] = Over(own, @)]

\* What the calls of t have returned when this one returns an answer.
With(t, answer) == Append(th[t].got, answer)

\* The thread after its call has returned; its variables are gone.
Returned(t, got) == [Started(Tail(th[t].todo)) EXCEPT !.got = got]

ReturnGot(t, place, shared, got) ==
    /\ At(t, place)
    /\ mem' = Over(shared, mem)
    /\ th' = [th EXCEPT ![t] = Returned(t, got)]

\* The call returns an answer, or has none or has it already.
Answer(t, place, shared, answer) == ReturnGot(t, place, shared, With(t, answer))
Return(t, place, shared) == ReturnGot(t, place, shared, th[t].got)

\* What empty returns of an object that is not empty.
NotEmpty == <<>>

\* What a push of t pushes: no two calls push the same.
Item(t) == <<t, Len(th[t].todo)>>

Asleep == {t \in Thread : At(t, "asleep")}

\* condition_variable::notify_one, by a thread that goes on as own.
notify_one(t, own) ==
    IF Asleep = {} THEN th' = [th EXCEPT ![t] = own]
    ELSE \E w \in Asleep : th' = [th EXCEPT ![w].pc = "woken", ![t] = own]

SpuriousWakeup(t) == Step(t, "asleep", Same, [pc |-> "woken"])

\* An address that is free.
Fresh(node) == CHOOSE n \in 0..Cardinality(DOMAIN node) : n \notin DOMAIN node
Without(f, x) == [y \in DOMAIN f \ {x} |-> f[y]]

\* The nodes from n on, along next, up to and without end.
Chain(node, n, end) ==
    LET following(s) == IF s = <<>> THEN n ELSE node[s[Len(s)]].next
        first[k \in 0..Cardinality(DOMAIN node)] ==
            IF k = 0 THEN <<>>
            ELSE IF following(first[k - 1]) = end THEN first[k - 1]
                 ELSE Append(first[k - 1], following(first[k - 1]))
    IN  first[Cardinality(DOMAIN node)]

\* Nothing is left to do, or what is left has to wait for a push.
AllDone == \A t \in Thread : th[t].pc \in {"done", "asleep"}
==============================================================================
