-------------------------- MODULE MessageQueueProofs --------------------------
(***************************************************************************)
(* messaging::queue for any number of pushers and poppers: its type        *)
(* invariant, that no wakeup is lost, and that it implements the FIFO of   *)
(* FifoQueue.tla step by step.                                             *)
(***************************************************************************)
EXTENDS MessageQueue, TLAPS

\* The statements between taking the mutex and releasing it.
Critical == {"read", "write", "notify", "unlock", "test", "front", "pop"}

\* A thread inside push() or wait_and_pop() holds the mutex.
Holds == \A t \in Threads : pc[t] \in Critical => m = t

\* Each thread is at a statement of its own function.
OwnCode ==
    /\ \A p \in Pushers : pc[p] \in {"idle", "read", "write", "notify", "unlock"}
    /\ \A r \in Poppers : pc[r] \in {"idle", "test", "asleep", "woken", "front",
                                     "pop", "unlock"}

\* The sleepers of the condition variable are the threads at c.wait().
Sleepers == c = {r \in Poppers : pc[r] = "asleep"}

\* What a thread has read of the container is still so when it uses it.
Fresh ==
    /\ \A p \in Pushers : pc[p] = "write" => seen[p] = q
    /\ \A p \in Pushers : pushed[p] < MaxPushes \/ pc[p] \notin {"read", "write"}
    /\ \A r \in Poppers : pc[r] = "front" => q # <<>>
    /\ \A r \in Poppers : pc[r] = "pop" => q # <<>> /\ seen[r] = Head(q)

IInv == TypeOK /\ Holds /\ OwnCode /\ Sleepers /\ Fresh /\ NoLostWakeup

\* The initial state satisfies the invariant.
LEMMA InitIInv == Init => IInv
  <1> SUFFICES ASSUME Init PROVE IInv
    OBVIOUS
  <1> USE MessageQueueAssumption
  <1>1. TypeOK
    BY DEF Init, TypeOK, Threads
  <1>2. Holds /\ OwnCode /\ Sleepers /\ Fresh /\ NoLostWakeup
    BY DEF Init, Holds, OwnCode, Sleepers, Fresh, NoLostWakeup, Critical, Threads
  <1> QED
    BY <1>1, <1>2 DEF IInv
\* Every step of a pusher keeps the invariant.
LEMMA PushStepIInv ==
  ASSUME IInv, NEW p \in Pushers, PushStep(p)
  PROVE  IInv'
  <1> USE MessageQueueAssumption
  <1>1. CASE PushLock(p)
    <2>1. TypeOK'
      BY <1>1 DEF IInv, TypeOK, PushLock, Lock, Goto, Threads
    <2>2. Holds' /\ OwnCode' /\ Sleepers'
      BY <1>1 DEF IInv, TypeOK, Holds, OwnCode, Sleepers, Critical, PushLock, Lock,
                  Goto, Threads
    <2>3. Fresh' /\ NoLostWakeup'
      BY <1>1 DEF IInv, TypeOK, Fresh, OwnCode, NoLostWakeup, PushLock, Lock, Goto,
                  Threads
    <2> QED
      BY <2>1, <2>2, <2>3 DEF IInv
  <1>2. CASE PushRead(p)
    <2>1. TypeOK'
      BY <1>2 DEF IInv, TypeOK, PushRead, Goto, Threads
    <2>2. Holds' /\ OwnCode' /\ Sleepers'
      BY <1>2 DEF IInv, TypeOK, Holds, OwnCode, Sleepers, Critical, PushRead, Goto,
                  Threads
    <2>3. Fresh' /\ NoLostWakeup'
      BY <1>2 DEF IInv, TypeOK, Fresh, OwnCode, NoLostWakeup, Holds, Critical,
                  PushRead, Goto, Threads
    <2> QED
      BY <2>1, <2>2, <2>3 DEF IInv
  <1>3. CASE PushWrite(p)
    <2>1. m = p /\ seen[p] = q /\ pushed[p] < MaxPushes /\ pushed[p] \in Nat
      BY <1>3 DEF IInv, TypeOK, Holds, Fresh, Critical, PushWrite, Threads
    <2>2. pushed'[p] = pushed[p] + 1 /\ <<p, pushed'[p]>> \in Messages
      BY <1>3, <2>1 DEF IInv, TypeOK, PushWrite, Messages
    <2>3. q' = Append(q, <<p, pushed'[p]>>) /\ q' # <<>>
      BY <1>3, <2>1, <2>2 DEF IInv, TypeOK, PushWrite
    <2>4. q' \in Seq(Messages) /\ pushed' \in [Pushers -> 0..MaxPushes]
      BY <1>3, <2>1, <2>2, <2>3 DEF IInv, TypeOK, PushWrite
    <2>5. TypeOK'
      BY <1>3, <2>4 DEF IInv, TypeOK, PushWrite, Goto, Threads
    <2>6. Holds' /\ OwnCode' /\ Sleepers'
      BY <1>3 DEF IInv, TypeOK, Holds, OwnCode, Sleepers, Critical, PushWrite, Goto,
                  Threads
    <2>7. \A t \in Threads \ {p} : pc[t] \notin Critical
      BY <2>1 DEF IInv, Holds
    <2>8. Fresh'
      BY <1>3, <2>1, <2>2, <2>7 DEF IInv, TypeOK, Fresh, OwnCode, Critical,
                                    PushWrite, Goto, Threads
    <2>9. NoLostWakeup'
      BY <1>3, <2>1 DEF IInv, TypeOK, NoLostWakeup, PushWrite, Goto, Threads
    <2> QED
      BY <2>5, <2>6, <2>8, <2>9 DEF IInv
  <1>4. CASE NotifyAll(p)
    <2>1. TypeOK'
      BY <1>4 DEF IInv, TypeOK, NotifyAll, Threads
    <2>2. Holds' /\ OwnCode' /\ Sleepers'
      BY <1>4 DEF IInv, TypeOK, Holds, OwnCode, Sleepers, Critical, NotifyAll,
                  Threads
    <2>3. Fresh' /\ NoLostWakeup'
      BY <1>4 DEF IInv, TypeOK, Fresh, OwnCode, NoLostWakeup, NotifyAll, Threads
    <2> QED
      BY <2>1, <2>2, <2>3 DEF IInv
  <1>5. CASE PushUnlock(p)
    <2>1. TypeOK'
      BY <1>5 DEF IInv, TypeOK, PushUnlock, Unlock, Goto, Threads
    <2>2. Holds' /\ OwnCode' /\ Sleepers'
      BY <1>5 DEF IInv, TypeOK, Holds, OwnCode, Sleepers, Critical, PushUnlock,
                  Unlock, Goto, Threads
    <2>3. Fresh' /\ NoLostWakeup'
      BY <1>5 DEF IInv, TypeOK, Fresh, OwnCode, NoLostWakeup, Holds, Critical,
                  PushUnlock, Unlock, Goto, Threads
    <2> QED
      BY <2>1, <2>2, <2>3 DEF IInv
  <1> QED
    BY <1>1, <1>2, <1>3, <1>4, <1>5 DEF PushStep

\* So does every step of a popper, and a spurious wakeup.
LEMMA PopStepIInv ==
  ASSUME IInv, NEW r \in Poppers, PopStep(r) \/ SpuriousWakeup(r)
  PROVE  IInv'
  <1> USE MessageQueueAssumption
  <1>1. CASE PopLock(r) \/ Relock(r)
    <2>1. TypeOK'
      BY <1>1 DEF IInv, TypeOK, PopLock, Relock, Lock, Goto, Threads
    <2>2. Holds' /\ OwnCode' /\ Sleepers'
      BY <1>1 DEF IInv, TypeOK, Holds, OwnCode, Sleepers, Critical, PopLock, Relock,
                  Lock, Goto, Threads
    <2>3. Fresh' /\ NoLostWakeup'
      BY <1>1 DEF IInv, TypeOK, Fresh, OwnCode, NoLostWakeup, PopLock, Relock, Lock,
                  Goto, Threads
    <2> QED
      BY <2>1, <2>2, <2>3 DEF IInv
  <1>2. CASE PredicateTrue(r)
    <2>1. TypeOK'
      BY <1>2 DEF IInv, TypeOK, PredicateTrue, Goto, Threads
    <2>2. Holds' /\ OwnCode' /\ Sleepers'
      BY <1>2 DEF IInv, TypeOK, Holds, OwnCode, Sleepers, Critical, PredicateTrue,
                  Goto, Threads
    <2>3. Fresh' /\ NoLostWakeup'
      BY <1>2 DEF IInv, TypeOK, Fresh, OwnCode, NoLostWakeup, PredicateTrue, Goto,
                  Threads
    <2> QED
      BY <2>1, <2>2, <2>3 DEF IInv
  <1>3. CASE Sleep(r)
    <2>1. TypeOK'
      BY <1>3 DEF IInv, TypeOK, Sleep, Goto, Threads
    <2>2. Holds' /\ OwnCode' /\ Sleepers'
      BY <1>3 DEF IInv, TypeOK, Holds, OwnCode, Sleepers, Critical, Sleep, Goto,
                  Threads
    <2>3. Fresh' /\ NoLostWakeup'
      BY <1>3 DEF IInv, TypeOK, Fresh, OwnCode, NoLostWakeup, Sleep, Goto, Threads
    <2> QED
      BY <2>1, <2>2, <2>3 DEF IInv
  <1>4. CASE SpuriousWakeup(r)
    <2>1. TypeOK'
      BY <1>4 DEF IInv, TypeOK, SpuriousWakeup, Goto, Threads
    <2>2. Holds' /\ OwnCode' /\ Sleepers'
      BY <1>4 DEF IInv, TypeOK, Holds, OwnCode, Sleepers, Critical, SpuriousWakeup,
                  Goto, Threads
    <2>3. Fresh' /\ NoLostWakeup'
      BY <1>4 DEF IInv, TypeOK, Fresh, OwnCode, Sleepers, NoLostWakeup,
                  SpuriousWakeup, Goto, Threads
    <2> QED
      BY <2>1, <2>2, <2>3 DEF IInv
  <1>5. CASE PopFront(r)
    <2>1. q # <<>> /\ Head(q) \in Messages
      BY <1>5 DEF IInv, TypeOK, Fresh, PopFront
    <2>2. TypeOK'
      BY <1>5, <2>1 DEF IInv, TypeOK, PopFront, Goto, Threads
    <2>3. Holds' /\ OwnCode' /\ Sleepers'
      BY <1>5 DEF IInv, TypeOK, Holds, OwnCode, Sleepers, Critical, PopFront, Goto,
                  Threads
    <2>4. Fresh' /\ NoLostWakeup'
      BY <1>5, <2>1 DEF IInv, TypeOK, Fresh, OwnCode, NoLostWakeup, PopFront, Goto,
                  Threads
    <2> QED
      BY <2>2, <2>3, <2>4 DEF IInv
  <1>6. CASE PopPop(r)
    <2>1. m = r /\ q # <<>> /\ seen[r] = Head(q) /\ Head(q) \in Messages
      BY <1>6 DEF IInv, TypeOK, Holds, Fresh, Critical, PopPop, Threads
    <2>2. q' \in Seq(Messages) /\ popped' \in Seq(Messages)
      BY <1>6, <2>1 DEF IInv, TypeOK, PopPop
    <2>3. TypeOK'
      BY <1>6, <2>2 DEF IInv, TypeOK, PopPop, Goto, Threads
    <2>4. Holds' /\ OwnCode' /\ Sleepers'
      BY <1>6 DEF IInv, TypeOK, Holds, OwnCode, Sleepers, Critical, PopPop, Goto,
                  Threads
    <2>5. \A t \in Threads \ {r} : pc[t] \notin Critical
      BY <2>1 DEF IInv, Holds
    <2>6. Fresh'
      BY <1>6, <2>5 DEF IInv, TypeOK, Fresh, Critical, PopPop, Goto, Threads
    <2>7. c = {}
      BY <2>1 DEF IInv, NoLostWakeup
    <2>8. NoLostWakeup'
      BY <1>6, <2>7 DEF NoLostWakeup, PopPop
    <2> QED
      BY <2>3, <2>4, <2>6, <2>8 DEF IInv
  <1>7. CASE PopUnlock(r)
    <2>1. TypeOK'
      BY <1>7 DEF IInv, TypeOK, PopUnlock, Unlock, Goto, Threads
    <2>2. Holds' /\ OwnCode' /\ Sleepers'
      BY <1>7 DEF IInv, TypeOK, Holds, OwnCode, Sleepers, Critical, PopUnlock,
                  Unlock, Goto, Threads
    <2>3. Fresh' /\ NoLostWakeup'
      BY <1>7 DEF IInv, TypeOK, Fresh, OwnCode, NoLostWakeup, Holds, Critical,
                  PopUnlock, Unlock, Goto, Threads
    <2> QED
      BY <2>1, <2>2, <2>3 DEF IInv
  <1> QED
    BY <1>1, <1>2, <1>3, <1>4, <1>5, <1>6, <1>7 DEF PopStep

\* A step that changes nothing keeps the invariant.
LEMMA StutterIInv ==
  ASSUME IInv, UNCHANGED vars
  PROVE  IInv'
  BY DEF IInv, vars, TypeOK, Holds, OwnCode, Sleepers, Fresh, NoLostWakeup

\* The invariant holds in every state of every behaviour.
THEOREM Invariance == Spec => []IInv
  <1>1. IInv /\ [Next]_vars => IInv'
    BY PushStepIInv, PopStepIInv, StutterIInv DEF Next, Quiet
  <1> QED
    BY <1>1, InitIInv, PTL DEF Spec

\* The variables of messaging::queue always have values of their types.
THEOREM TypeCorrect == Spec => []TypeOK
  <1>1. IInv => TypeOK
    BY DEF IInv
  <1> QED
    BY <1>1, Invariance, PTL

\* No thread ever sleeps on the condition variable beside a message that nobody
\* is about to announce.
THEOREM WakeupsAreNotLost == Spec => []NoLostWakeup
  <1>1. IInv => NoLostWakeup
    BY DEF IInv
  <1> QED
    BY <1>1, Invariance, PTL

\* Statement by statement, push() and wait_and_pop() are the indivisible pushes
\* and pops of FifoQueue: its safety part.
THEOREM ImplementsFifo == Spec => Fifo!Init /\ [][Fifo!Next]_Fifo!vars
  <1>1. Init => Fifo!Init
    BY DEF Init, Fifo!Init
  <1>2. ASSUME IInv, [Next]_vars
        PROVE  [Fifo!Next]_Fifo!vars
    <2>1. CASE UNCHANGED vars
      BY <2>1 DEF vars, Fifo!vars
    <2>2. ASSUME NEW p \in Pushers, PushWrite(p)
          PROVE  Fifo!Push(p)
      BY <1>2, <2>2 DEF IInv, Fresh, PushWrite, Fifo!Push
    <2>3. ASSUME NEW p \in Pushers, PushStep(p), ~PushWrite(p)
          PROVE  UNCHANGED Fifo!vars
      BY <2>3 DEF PushStep, PushLock, PushRead, NotifyAll, PushUnlock, Lock, Unlock,
                  Fifo!vars
    <2>4. ASSUME NEW r \in Poppers, PopPop(r)
          PROVE  Fifo!Pop
      BY <1>2, <2>4 DEF IInv, Fresh, PopPop, Fifo!Pop
    <2>5. ASSUME NEW r \in Poppers, PopStep(r) \/ SpuriousWakeup(r), ~PopPop(r)
          PROVE  UNCHANGED Fifo!vars
      BY <2>5 DEF PopStep, PopLock, PredicateTrue, Sleep, SpuriousWakeup, Relock,
                  PopFront, PopUnlock, Lock, Unlock, Fifo!vars
    <2> QED
      BY <1>2, <2>1, <2>2, <2>3, <2>4, <2>5 DEF Next, Quiet, PushStep, PopStep,
         Fifo!Next
  <1> QED
    BY <1>1, <1>2, Invariance, PTL DEF Spec
===============================================================================
