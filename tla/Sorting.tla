------------------------------- MODULE Sorting -------------------------------
(***************************************************************************)
(* The sorting programs of algorithms/sort.  Most of them read numbers     *)
(* into a[1], a[2], ... behind a sentinel a[0] = -1 and count them from 1, *)
(* so that N is one more than the numbers read: the routine also sorts     *)
(* a[N], which nothing has written.  A program is a function from the      *)
(* numbers it reads, and what it finds in a[N], to the numbers it prints.  *)
(***************************************************************************)
EXTENDS Integers, Sequences, SequencesExt

CONSTANTS
    Undefined,    \* what a routine returns that has left its array
    SentinelKey   \* the key of the node z of mergesort.c

\* from, from + 1, ..., to
Upto(from, to) == [k \in 1..(to - from + 1) |-> from + k - 1]

\* What the mains do around the routine: scan, and print a[1] to a[N - 1].
Array(numbers, garbage) ==
    [k \in 0..(Len(numbers) + 1) |-> IF k = 0 THEN -1 ELSE Append(numbers, garbage)[k]]
Printed(a, n) == IF a = Undefined THEN Undefined ELSE [k \in 1..n |-> a[k]]

------------------------------------------------------------------------------
(* insertion_sort.c, insertion_sort_pointers.c, shellsort.c: a number sinks *)
(* from j to where the one before it is not larger.                        *)

\* Mutant of Sink: the number that sinks overtakes its equals and the sentinel.
RECURSIVE Sink_TooFar(_, _, _)
Sink_TooFar(a, v, j) ==
    IF j = 0 THEN Undefined
    ELSE IF a[j - 1] >= v THEN Sink_TooFar([a EXCEPT ![j] = a[j - 1]], v, j - 1)
    ELSE [a EXCEPT ![j] = v]

RECURSIVE Sink(_, _, _)
Sink(a, v, j) ==
    IF j = 0 THEN Undefined
    ELSE IF a[j - 1] > v THEN Sink([a EXCEPT ![j] = a[j - 1]], v, j - 1)
    ELSE [a EXCEPT ![j] = v]

insertion(numbers, garbage) ==
    LET N == Len(numbers) + 1
        Insert(a, i) == IF a = Undefined THEN a ELSE Sink(a, a[i], i)
    IN  Printed(FoldLeft(Insert, Array(numbers, garbage), Upto(2, N)), N - 1)

\* The array stays as it is; the pointers p are sorted.
RECURSIVE SinkPointer(_, _, _, _)
SinkPointer(p, a, v, j) ==
    IF j = 0 THEN Undefined
    ELSE IF a[p[j - 1]] > a[v] THEN SinkPointer([p EXCEPT ![j] = p[j - 1]], a, v, j - 1)
    ELSE [p EXCEPT ![j] = v]

insertion_pointers(numbers, garbage) ==
    LET N == Len(numbers) + 1
        a == Array(numbers, garbage)
        Insert(p, i) == IF p = Undefined THEN p ELSE SinkPointer(p, a, p[i], i)
        p == FoldLeft(Insert, [i \in 0..N |-> i], Upto(2, N))
    IN  IF p = Undefined THEN p ELSE [k \in 1..(N - 1) |-> a[p[k]]]

RECURSIVE SinkBy(_, _, _, _)
SinkBy(h, a, v, j) ==
    IF j > h /\ a[j - h] > v THEN SinkBy(h, [a EXCEPT ![j] = a[j - h]], v, j - h)
    ELSE [a EXCEPT ![j] = v]

\* The increments of shellsort: 1, 4, 13, ... as far as N / 9 asks, then back.
RECURSIVE FirstIncrement(_, _)
FirstIncrement(h, N) == IF h <= N \div 9 THEN FirstIncrement(3 * h + 1, N) ELSE h

RECURSIVE ShellPasses(_, _, _)
ShellPasses(a, h, N) ==
    IF h = 0 THEN a
    ELSE LET Insert(b, i) == SinkBy(h, b, b[i], i)
         IN  ShellPasses(FoldLeft(Insert, a, Upto(h + 1, N)), h \div 3, N)

shellsort(numbers, garbage) ==
    LET N == Len(numbers) + 1
    IN  Printed(ShellPasses(Array(numbers, garbage), FirstIncrement(1, N), N), N - 1)

------------------------------------------------------------------------------
(* quicksort.c *)

\* The loop of the partition, and the place it gives the pivot a[r].
RECURSIVE Partition(_, _, _, _)
Partition(a, i0, j0, r) ==
    LET v == a[r]
        i == Min({k \in (i0 + 1)..r : a[k] >= v})
        left == {k \in 0..(j0 - 1) : a[k] <= v}
        j == Max(left)
    IN  IF left = {} THEN Undefined
        ELSE IF i >= j THEN [a |-> [a EXCEPT ![i] = v, ![r] = a[i]], i |-> i]
        ELSE Partition([a EXCEPT ![i] = a[j], ![j] = a[i]], i, j, r)

RECURSIVE QuickRange(_, _, _)
QuickRange(a, l, r) ==
    IF a = Undefined \/ r <= l THEN a
    ELSE LET p == Partition(a, l - 1, r, r)
         IN  IF p = Undefined THEN p
             ELSE QuickRange(QuickRange(p.a, l, p.i - 1), p.i + 1, r)

quicksort(numbers, garbage) ==
    LET N == Len(numbers) + 1
    IN  Printed(QuickRange(Array(numbers, garbage), 1, N), N - 1)

------------------------------------------------------------------------------
(* selection_sort.c: no sentinel, and N is what was read. *)

Exchange(a, i, j) == [a EXCEPT ![i] = a[j], ![j] = a[i]]

selection(numbers) ==
    LET N == Len(numbers)
        Select(a, i) == Exchange(a, i,
            Min({k \in i..N : \A m \in i..N : a[k] <= a[m]}))
    IN  FoldLeft(Select, numbers, Upto(1, N - 1))

------------------------------------------------------------------------------
(* sort3.c: main sorts a[1], a[2] and a[3] after each number it reads.  What it *)
(* has not read yet is what it finds in a[2] and a[3], the two garbage values,  *)
(* and the next number overwrites what the sort has moved to its place.         *)

Order3(a) ==
    LET Order(b, pair) == IF b[pair[1]] > b[pair[2]] THEN Exchange(b, pair[1], pair[2]) ELSE b
    IN  FoldLeft(Order, a, << <<1, 2>>, <<1, 3>>, <<2, 3>> >>)

sort3(numbers, garbage) ==
    LET N == Len(numbers)
        found == [k \in 1..Max({N, 3}) |-> IF k \in {2, 3} THEN garbage[k - 1] ELSE 0]
        Read(a, i) == Order3([a EXCEPT ![i] = numbers[i]])
    IN  Printed(FoldLeft(Read, found, Upto(1, N)), N)

------------------------------------------------------------------------------
(* mergesort.c: lists that end in z, whose key is above all others. *)

Key(list) == IF list = <<>> THEN SentinelKey ELSE Head(list)

\* merge: it ends when it links z, which a equal key of b would be too late for.
RECURSIVE merge(_, _)
merge(a, b) ==
    IF Key(a) <= Key(b)
    THEN IF a = <<>> THEN <<>> ELSE <<Head(a)>> \o merge(Tail(a), b)
    ELSE <<Head(b)>> \o merge(a, Tail(b))

\* b goes twice as fast as c, which ends where the first half does.
RECURSIVE mergesort(_)
mergesort(c) ==
    LET half == Len(c) \div 2
    IN  IF Len(c) < 2 THEN c
        ELSE merge(mergesort(SubSeq(c, 1, half)), mergesort(SubSeq(c, half + 1, Len(c))))

\* One pass of bottomup_mergesort: blocks of N are merged in pairs.
RECURSIVE MergePass(_, _)
MergePass(todo, N) ==
    LET Upfront(n) == Min({n, Len(todo)})
    IN  IF todo = <<>> THEN <<>>
        ELSE merge(SubSeq(todo, 1, Upfront(N)), SubSeq(todo, N + 1, Upfront(2 * N)))
                 \o MergePass(SubSeq(todo, 2 * N + 1, Len(todo)), N)

\* (A pass over one block that moves its first node is followed by another,
\* which finds the list in order.)
RECURSIVE MergePasses(_, _)
MergePasses(c, N) ==
    LET merged == MergePass(c, N)
    IN  IF Len(c) <= 2 * N THEN merged ELSE MergePasses(merged, 2 * N)

bottomup_mergesort(c) == MergePasses(c, 1)
==============================================================================
