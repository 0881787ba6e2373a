------------------------------ MODULE FifoQueue ------------------------------
(***************************************************************************)
(* What messaging::queue promises the actors that share it: a FIFO to      *)
(* which a push and from which a pop are single, indivisible steps.  ATM   *)
(* uses its queues as this module describes them.                          *)
(***************************************************************************)
EXTENDS Integers, Sequences

CONSTANTS
    Pushers,    \* threads that hold a sender of the queue
    Poppers,    \* threads that wait on the receiver
    MaxPushes   \* bound: messages each pusher sends

VARIABLES
    q,          \* the messages in the queue, a message being <<pusher, number>>
    pushed,     \* how many messages each pusher has sent
    popped      \* everything that was popped, in order

vars == <<q, pushed, popped>>

Init ==
    /\ q = <<>>
    /\ pushed = [p \in Pushers |-> 0]
    /\ popped = <<>>

Push(p) ==
    /\ pushed[p] < MaxPushes
    /\ pushed' = [pushed EXCEPT ![p] = @ + 1]
    /\ q' = Append(q, <<p, pushed'[p]>>)
    /\ UNCHANGED popped

Pop ==
    /\ q # <<>>
    /\ popped' = Append(popped, Head(q))
    /\ q' = Tail(q)
    /\ UNCHANGED pushed

Next == Pop \/ \E p \in Pushers : Push(p)

\* A message that is in the queue while a thread waits is delivered.
Spec == Init /\ [][Next]_vars /\ WF_vars(Pop)
==============================================================================
