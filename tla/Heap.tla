-------------------------------- MODULE Heap --------------------------------
(***************************************************************************)
(* The heap of algorithms/sort/heap.c: data[1..size] under the sentinel    *)
(* data[0], which is INT_MAX and above every value.                        *)
(***************************************************************************)
EXTENDS Integers, FiniteSets

CONSTANTS
    Value,
    MaxSize,    \* MAX_HEAP_SIZE - 1
    IntMax

VARIABLES
    data, size,
    top       \* what the last call returned

vars == <<data, size, top>>

Init ==
    /\ size = 0
    /\ data = [i \in 0..MaxSize |-> IF i = 0 THEN IntMax ELSE 0]
    /\ top = -1

\* value rises from index past the parents that are smaller.
RECURSIVE upheap(_, _, _)
upheap(d, index, value) ==
    IF d[index \div 2] < value
    THEN upheap([d EXCEPT ![index] = d[index \div 2]], index \div 2, value)
    ELSE [d EXCEPT ![index] = value]

\* Mutant of LargerChild: the second child is looked at when it is the last.
LargerChild_OffByOne(d, index, n) ==
    LET child == 2 * index
    IN  IF child + 1 < n /\ d[child] < d[child + 1] THEN child + 1 ELSE child

LargerChild(d, index, n) ==
    LET child == 2 * index
    IN  IF child < n /\ d[child] < d[child + 1] THEN child + 1 ELSE child

\* value goes down from index past the children that are larger.
RECURSIVE downheap(_, _, _, _)
downheap(d, index, n, value) ==
    LET child == LargerChild(d, index, n)
    IN  IF 2 * index > n \/ value >= d[child] THEN [d EXCEPT ![index] = value]
        ELSE downheap([d EXCEPT ![index] = d[child]], child, n, value)

\* A full heap takes nothing.
insert(value) ==
    IF size >= MaxSize THEN top' = -1 /\ UNCHANGED <<data, size>>
    ELSE /\ size' = size + 1
         /\ data' = upheap([data EXCEPT ![size + 1] = value], size + 1, value)
         /\ top' = -1

remove_top ==
    IF size = 0 THEN top' = -1 /\ UNCHANGED <<data, size>>
    ELSE /\ top' = data[1]
         /\ size' = size - 1
         /\ data' = downheap([data EXCEPT ![1] = data[size]], 1, size - 1, data[size])

replace(value) ==
    IF size = 0 THEN top' = -1 /\ UNCHANGED <<data, size>>
    ELSE /\ top' = data[1]
         /\ data' = downheap([data EXCEPT ![1] = value], 1, size, value)
         /\ UNCHANGED size

Next ==
    \/ \E value \in Value : insert(value) \/ replace(value)
    \/ remove_top

Spec == Init /\ [][Next]_vars

------------------------------------------------------------------------------
\* How often a value is in the heap.
Count(v) == Cardinality({i \in 1..size : data[i] = v})
Largest == CHOOSE v \in Value : Count(v) > 0 /\ \A w \in Value : Count(w) > 0 => w <= v

\* The heap is a bag that gives its largest value: an insert adds one
\* value unless the heap is full, remove_top and replace return the largest and
\* take it out once, and nothing else in the heap changes or gets lost.
Gains(added, removed) ==
    \A v \in Value : Count(v)' = Count(v) + (IF v = added THEN 1 ELSE 0)
                                          - (IF v = removed THEN 1 ELSE 0)
ServesLargest ==
    [][ \/ \E v \in Value : insert(v) /\ (IF size < MaxSize THEN Gains(v, -1) ELSE Gains(-1, -1))
        \/ remove_top /\ (IF size > 0 THEN top' = Largest /\ Gains(-1, Largest) ELSE Gains(-1, -1))
        \/ \E v \in Value : replace(v) /\
              (IF size > 0 THEN top' = Largest /\ Gains(v, Largest) ELSE Gains(-1, -1)) ]_vars
==============================================================================
