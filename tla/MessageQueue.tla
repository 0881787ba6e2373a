----------------------------- MODULE MessageQueue -----------------------------
(***************************************************************************)
(* messaging::queue of concurrent/appendixc: a std::queue, a mutex and a   *)
(* condition variable.  push() and wait_and_pop() are modelled statement   *)
(* by statement; std::queue is not thread safe, so q.push() is a read and  *)
(* a write, and front() and pop() are two steps.                           *)
(*                                                                         *)
(* The condition variable is the set of threads asleep on it.  A sleeper   *)
(* leaves it when notified, or spuriously, and must then get the mutex     *)
(* back before it looks at the queue again.                                *)
(***************************************************************************)
EXTENDS Integers, Sequences

CONSTANTS
    Pushers,      \* threads that hold a sender of the queue
    Poppers,      \* threads that wait on the receiver
    NoThread,     \* the owner of a free mutex
    MaxPushes,    \* bound: messages each pusher sends
    MaxSpurious   \* bound: spurious wakeups

ASSUME MessageQueueAssumption ==
    /\ Pushers \cap Poppers = {}
    /\ NoThread \notin Pushers \cup Poppers
    /\ MaxPushes \in Nat
    /\ MaxSpurious \in Nat

VARIABLES
    m,         \* the owner of the mutex
    c,         \* the threads asleep on the condition variable
    q,         \* the contents of the std::queue
    pc,        \* the statement each thread is at
    seen,      \* what each pusher read of q, each popper's front()
    pushed,    \* how many messages each pusher has sent
    popped,    \* everything wait_and_pop took, in order
    spurious   \* spurious wakeups so far

vars == <<m, c, q, pc, seen, pushed, popped, spurious>>

Threads == Pushers \cup Poppers

Goto(t, label) == pc' = [pc EXCEPT ![t] = label]

------------------------------------------------------------------------------
(* The mutex *)

\* lock_guard and unique_lock, and a woken thread taking the mutex back.
Lock(t, from, to) ==
    /\ pc[t] = from
    /\ m = NoThread
    /\ m' = t
    /\ Goto(t, to)
    /\ UNCHANGED <<c, q, seen, pushed, popped, spurious>>

Unlock(t, from) ==
    /\ pc[t] = from
    /\ m' = NoThread
    /\ Goto(t, "idle")
    /\ UNCHANGED <<c, q, seen, pushed, popped, spurious>>

------------------------------------------------------------------------------
(* push *)

PushLock(p) == pushed[p] < MaxPushes /\ Lock(p, "idle", "read")

\* q.push(): the container is read ...
PushRead(p) ==
    /\ pc[p] = "read"
    /\ seen' = [seen EXCEPT ![p] = q]
    /\ Goto(p, "write")
    /\ UNCHANGED <<m, c, q, pushed, popped, spurious>>

\* Mutant of PushWrite: the message carries the number of the one before it.
PushWrite_OffByOne(p) ==
    /\ pc[p] = "write"
    /\ pushed' = [pushed EXCEPT ![p] = @ + 1]
    /\ q' = Append(seen[p], <<p, pushed[p]>>)
    /\ Goto(p, "notify")
    /\ UNCHANGED <<m, c, seen, popped, spurious>>

\* ... and written back with the message at its end.
PushWrite(p) ==
    /\ pc[p] = "write"
    /\ pushed' = [pushed EXCEPT ![p] = @ + 1]
    /\ q' = Append(seen[p], <<p, pushed'[p]>>)
    /\ Goto(p, "notify")
    /\ UNCHANGED <<m, c, seen, popped, spurious>>

\* Mutant of NotifyAll: nobody is woken.
NotifyAll_Forgotten(p) ==
    /\ pc[p] = "notify"
    /\ Goto(p, "unlock")
    /\ UNCHANGED <<m, c, q, seen, pushed, popped, spurious>>

\* c.notify_all(), with the mutex still held.
NotifyAll(p) ==
    /\ pc[p] = "notify"
    /\ c' = {}
    /\ pc' = [t \in Threads |-> IF t = p THEN "unlock"
                                ELSE IF t \in c THEN "woken" ELSE pc[t]]
    /\ UNCHANGED <<m, q, seen, pushed, popped, spurious>>

PushUnlock(p) == p \in Pushers /\ Unlock(p, "unlock")

------------------------------------------------------------------------------
(* wait_and_pop *)

PopLock(r) == Lock(r, "idle", "test")

\* The predicate of c.wait() holds: go on with the mutex held.
PredicateTrue(r) ==
    /\ pc[r] = "test"
    /\ q # <<>>
    /\ Goto(r, "front")
    /\ UNCHANGED <<m, c, q, seen, pushed, popped, spurious>>

\* Mutant of Sleep: wait() without its predicate.
Sleep_WithoutPredicate(r) ==
    /\ pc[r] = "test"
    /\ c' = c \cup {r}
    /\ m' = NoThread
    /\ Goto(r, "asleep")
    /\ UNCHANGED <<q, seen, pushed, popped, spurious>>

\* It does not: releasing the mutex and falling asleep are one step.
Sleep(r) ==
    /\ pc[r] = "test"
    /\ q = <<>>
    /\ c' = c \cup {r}
    /\ m' = NoThread
    /\ Goto(r, "asleep")
    /\ UNCHANGED <<q, seen, pushed, popped, spurious>>

SpuriousWakeup(r) ==
    /\ r \in c
    /\ spurious < MaxSpurious
    /\ spurious' = spurious + 1
    /\ c' = c \ {r}
    /\ Goto(r, "woken")
    /\ UNCHANGED <<m, q, seen, pushed, popped>>

Relock(r) == Lock(r, "woken", "test")

\* auto res = q.front();
PopFront(r) ==
    /\ pc[r] = "front"
    /\ seen' = [seen EXCEPT ![r] = Head(q)]
    /\ Goto(r, "pop")
    /\ UNCHANGED <<m, c, q, pushed, popped, spurious>>

\* q.pop();
PopPop(r) ==
    /\ pc[r] = "pop"
    /\ q' = Tail(q)
    /\ popped' = Append(popped, seen[r])
    /\ Goto(r, "unlock")
    /\ UNCHANGED <<m, c, seen, pushed, spurious>>

PopUnlock(r) == r \in Poppers /\ Unlock(r, "unlock")

------------------------------------------------------------------------------
Init ==
    /\ m = NoThread
    /\ c = {}
    /\ q = <<>>
    /\ pc = [t \in Threads |-> "idle"]
    /\ seen = [t \in Threads |-> <<>>]
    /\ pushed = [p \in Pushers |-> 0]
    /\ popped = <<>>
    /\ spurious = 0

PushStep(p) ==
    PushLock(p) \/ PushRead(p) \/ PushWrite(p) \/ NotifyAll(p) \/ PushUnlock(p)

\* What a popper does of its own accord; a spurious wakeup is not its doing.
PopStep(r) ==
    PopLock(r) \/ PredicateTrue(r) \/ Sleep(r) \/ Relock(r) \/ PopFront(r)
        \/ PopPop(r) \/ PopUnlock(r)

\* The only state in which nothing more happens: all is pushed, all poppers
\* sleep.
Quiet ==
    /\ \A p \in Pushers : pushed[p] = MaxPushes /\ pc[p] = "idle"
    /\ c = Poppers
    /\ UNCHANGED vars

Next ==
    \/ \E p \in Pushers : PushStep(p)
    \/ \E r \in Poppers : PopStep(r) \/ SpuriousWakeup(r)
    \/ Quiet

\* Every thread is scheduled when it can run.  Weak fairness is enough, a
\* mutex promises no more: nobody can take the mutex again and again forever,
\* as pushes and spurious wakeups are finitely many and poppers fall asleep.
Fairness ==
    /\ \A p \in Pushers : WF_vars(PushStep(p))
    /\ \A r \in Poppers : WF_vars(PopStep(r))

Spec == Init /\ [][Next]_vars /\ Fairness

------------------------------------------------------------------------------
(* Properties *)

Messages == Pushers \X (1..MaxPushes)

TypeOK ==
    /\ m \in Threads \cup {NoThread}
    /\ c \subseteq Poppers
    /\ q \in Seq(Messages)
    /\ pc \in [Threads -> {"idle", "read", "write", "notify", "unlock", "test",
                           "asleep", "woken", "front", "pop"}]
    /\ seen \in [Threads -> Seq(Messages) \cup Messages]
    /\ pushed \in [Pushers -> 0..MaxPushes]
    /\ popped \in Seq(Messages)
    /\ spurious \in 0..MaxSpurious

\* A thread sleeps while there is a message only in the short time in which the
\* pusher of that message holds the mutex and is about to notify: push()
\* notifies under the lock, so no wakeup falls between test and sleep.
NoLostWakeup ==
    q # <<>> /\ c # {} => \E p \in Pushers : m = p /\ pc[p] = "notify"

\* The queue does what FifoQueue says: push and pop look indivisible, in one
\* order for all threads, and what is pushed is popped in the end.
Fifo == INSTANCE FifoQueue
FifoSpec == Fifo!Spec
==============================================================================
