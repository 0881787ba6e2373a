------------------------------ MODULE Programs ------------------------------
(***************************************************************************)
(* The sequential programs of the repository, each started on an input of  *)
(* its own: those that read their input, compute and print (Sorting,       *)
(* Numbers, Kernels and the encoding of requests in Commands), and three   *)
(* that hold a state between calls (Heap, Commands and Container).         *)
(***************************************************************************)
EXTENDS Integers, Sequences, SequencesExt

CONSTANTS
    Input,        \* what each program is started on: a function to sets
    Unprinted, Undefined, BadReq,
    SentinelKey, Value, MaxSize, IntMax, Block, BLUR_SIZE, k_max_msg, k_max_args,
    DbKey, Text, Name, Score, Limit, Offset, NotANumber, Denormal,
    Node, Null, Val

ASSUME HeapAssumption ==
    Value \subseteq Nat /\ MaxSize \in Nat \ {0} /\ \A v \in Value : v <= IntMax

ASSUME CommandsAssumption ==
    Name \subseteq 0..255 /\ Score \subseteq 0..2559 /\ Limit \cup Offset \subseteq Int

ASSUME ContainerAssumption == Null \notin Node /\ Val \in [Node -> Nat]

VARIABLES
    program, input,
    output,              \* what it has printed, or Unprinted
    data, size, top,     \* of Heap
    db, cmd, out,        \* of Commands
    tree, root, pc, cur, calls, allocated, deleting   \* of Container

Sorting == INSTANCE Sorting
Numbers == INSTANCE Numbers
Kernels == INSTANCE Kernels
Heap == INSTANCE Heap
Redis == INSTANCE Commands
AvlTree == INSTANCE Container

job == <<program, input, output>>
heap == <<data, size, top>>
redis == <<db, cmd, out>>
container == <<tree, root, pc, cur, calls, allocated, deleting>>
vars == <<job, heap, redis, container>>

Init ==
    /\ program \in DOMAIN Input
    /\ input \in Input[program]
    /\ output = Unprinted
    /\ Heap!Init
    /\ Redis!Init
    /\ AvlTree!Init

------------------------------------------------------------------------------
Runs(name, result) ==
    /\ program = name
    /\ output = Unprinted
    /\ output' = result
    /\ UNCHANGED <<program, input, heap, redis, container>>

Sorts ==
    \/ Runs("insertion", Sorting!insertion(input.numbers, input.garbage))
    \/ Runs("pointers", Sorting!insertion_pointers(input.numbers, input.garbage))
    \/ Runs("shellsort", Sorting!shellsort(input.numbers, input.garbage))
    \/ Runs("quicksort", Sorting!quicksort(input.numbers, input.garbage))
    \/ Runs("selection", Sorting!selection(input))
    \/ Runs("sort3", Sorting!sort3(input.numbers, input.garbage))
    \/ Runs("mergesort", Sorting!mergesort(input))
    \/ Runs("bottomup", Sorting!bottomup_mergesort(input))

Computes ==
    \/ Runs("gcd", <<Numbers!gcd(input.u, input.v), Numbers!my_gcd(input.u, input.v)>>)
    \/ Runs("sieve", <<Numbers!sieve(input), Numbers!sieve_multi(input)>>)
    \/ Runs("josephus", Numbers!josephus(input.N, input.M))
    \/ Runs("postfix", Numbers!postfix(input.tokens))
    \/ Runs("list_array", Numbers!list_array(input))
    \/ Runs("list_node", Numbers!list_node(input))
    \/ Runs("counts", <<Numbers!count_procedural(input), Numbers!count_lines_in_files(input),
                        Numbers!count_transform(input)>>)

Launches ==
    \/ Runs("vec_add", Kernels!vecAddKernel(input.A, input.B, input.n))
    \/ Runs("grayscale", Kernels!colortoGrayscaleConvertion(input.A, input.w, input.h))
    \/ Runs("blur", Kernels!blurKernel(input.A, input.w, input.h))
    \/ Runs("matmul", Kernels!MatrixMulKernel(input.A, input.B, input.n))

Requests == Runs("requests", Redis!parse_req(input.data))

\* A program that has printed is done.
Ended == output # Unprinted /\ UNCHANGED vars

Next ==
    \/ Sorts \/ Computes \/ Launches \/ Requests \/ Ended
    \/ program = "heap" /\ Heap!Next /\ UNCHANGED <<job, redis, container>>
    \/ program = "redis" /\ Redis!do_request /\ UNCHANGED <<job, heap, container>>
    \/ program = "container" /\ AvlTree!Next /\ UNCHANGED <<job, heap, redis>>

Spec == Init /\ [][Next]_vars

------------------------------------------------------------------------------
(* Properties *)

Printed(name) == program = name /\ output # Unprinted

HowMany(s, v) == Len(SelectSeq(s, LAMBDA x : x = v))
Permutes(s, t) ==
    /\ Len(s) = Len(t)
    /\ \A v \in ToSet(s) \cup ToSet(t) : HowMany(s, v) = HowMany(t, v)
Ordered(s) == \A i, j \in DOMAIN s : i < j => s[i] <= s[j]

SortedOf(s) == CHOOSE t \in [DOMAIN s -> ToSet(s)] : Permutes(s, t) /\ Ordered(t)

\* A number that goes to the front of the others and past the sentinel.
BelowSentinel(s) ==
    \E i \in DOMAIN s : i > 1 /\ s[i] < -1 /\ \A j \in 1..(i - 1) : s[i] < s[j]

\* sort3 keeps the numbers it has read: those it has found there stay behind them.
Sort3Keeps(numbers, garbage) ==
    /\ \A k \in 1..2 : numbers[1] <= garbage[k]
    /\ Len(numbers) > 1 => \E k \in 1..2 : numbers[2] <= garbage[k]

\* The sorts that read everything first print their input in order; those that
\* sort a[N] too together with what they found in a[N], so that the numbers printed
\* are those read exactly if that is not the smaller one; and the programs that trust
\* the sentinel stay in their array unless a number is below it.  sort3, which sorts
\* after each number, prints the first three in order exactly if what it
\* found in a[2] and a[3] was not in the way.
SortsCorrect ==
    /\ \A name \in {"insertion", "pointers", "shellsort", "quicksort"} :
        Printed(name) =>
            LET all == Append(input.numbers, input.garbage)
            IN  IF output = Undefined
                THEN name # "shellsort" /\ \E i \in DOMAIN all : all[i] < -1
                ELSE /\ output = Front(SortedOf(all))
                     /\ name \in {"insertion", "pointers"} => ~BelowSentinel(all)
    /\ \A name \in {"selection", "mergesort", "bottomup"} :
        Printed(name) => output = SortedOf(input)
    /\ Printed("sort3") /\ input.numbers # <<>> =>
        LET n == Len(input.numbers)
            first == Min({n, 3})
        IN  output = SortedOf(SubSeq(input.numbers, 1, first)) \o SubSeq(input.numbers, first + 1, n)
                <=> Sort3Keeps(input.numbers, input.garbage)

\* A heap gives its largest value whatever the calls before were.
ServesLargest == Heap!ServesLargest

\* A balanced search tree of what is allocated after every operation on the
\* Container, see there.
Verified == AvlTree!Verified
HoldsAllocated == AvlTree!HoldsAllocated

Divides(d, n) == n % d = 0

\* The order of elimination, by counting along those that are left.
RECURSIVE Eliminated(_, _, _)
Eliminated(left, at, M) ==
    IF Len(left) = 1 THEN left
    ELSE LET i == (at + M - 1) % Len(left)
         IN  <<left[i + 1]>> \o Eliminated(RemoveAt(left, i + 1), i, M)

\* What a list is after an edit; deletenext at its end takes z out of list_node.
EditedSeq(s, e) ==
    IF s = Undefined THEN s
    ELSE CASE e.op = "insert" -> InsertAt(s, e.place + 1, e.v)
           [] e.op = "clear" -> <<>>
           [] e.op = "delete" /\ e.place < Len(s) -> RemoveAt(s, e.place + 1)
           [] OTHER -> IF program = "list_node" THEN Undefined ELSE s

Dot(A, B, n, row, col) ==
    FoldLeft(LAMBDA x, k : x + A[row * n + k] * B[k * n + col], 0, [k \in 1..n |-> k - 1])

\* The writes of a kernel: each element of the output once, nothing else.
Writes(n, Is(_)) ==
    /\ \A t, u \in DOMAIN output : output[t].at = output[u].at => t = u
    /\ {output[t].at : t \in DOMAIN output} = 0..(n - 1)
    /\ \A t \in DOMAIN output : output[t].is = Is(output[t].at)

\* The sorts are correct.  Both ways to the greatest common divisor and both sieves agree with the
\* definition; josephus kills in the order of counting; postfix turns an
\* expression in brackets around; linked lists hold what was put into them;
\* the first results of the line counters are those of the files; and kernels
\* write every element of their output once, whatever the size of the grid.
ProgramsCorrect ==
    /\ SortsCorrect
    /\ Printed("gcd") => \A d \in ToSet(output) :
        /\ Divides(d, input.u) /\ Divides(d, input.v)
        /\ \A e \in 1..input.u : Divides(e, input.u) /\ Divides(e, input.v) => e <= d
    /\ Printed("sieve") => \A primes \in ToSet(output) :
        primes = {p \in 2..input : \A d \in 2..(p - 1) : ~Divides(d, p)}
    /\ Printed("josephus") => output = Eliminated([i \in 1..input.N |-> i], 0, input.M)
    /\ Printed("postfix") => output = input.postfix
    /\ Printed("list_array") \/ Printed("list_node") =>
        output = FoldLeft(EditedSeq, <<>>, input)
    /\ Printed("counts") => \A results \in ToSet(output) : \A f \in DOMAIN input :
        results[f] = HowMany(input[f], "\n")
    /\ Printed("vec_add") => Writes(input.n, LAMBDA i : input.A[i] + input.B[i])
    /\ Printed("grayscale") => Writes(input.w * input.h,
        LAMBDA i : 21 * input.A[3 * i] + 71 * input.A[3 * i + 1] + 7 * input.A[3 * i + 2])
    /\ Printed("blur") => Writes(input.w * input.h,
        LAMBDA i : LET w == input.w
                       near == {p \in 0..(w * input.h - 1) :
                                   /\ (p % w) - (i % w) \in (-BLUR_SIZE)..BLUR_SIZE
                                   /\ (p \div w) - (i \div w) \in (-BLUR_SIZE)..BLUR_SIZE}
                   IN  MapThenSumSet(LAMBDA p : input.A[p], near) \div Cardinality(near))
    /\ Printed("matmul") => Writes(input.n * input.n,
        LAMBDA i : Dot(input.A, input.B, input.n, i \div input.n, i % input.n))

\* The server understands a request exactly as the client has written it, and
\* takes nothing for a request that the client cannot have written; and
\* every answer reads back but for its doubles, see AnswersReadBack of Commands.
RoundTrip ==
    /\ Printed("requests") =>
        LET Body(strings) == Redis!After(Redis!send_req(strings), 4)
        IN  IF output = BadReq THEN input.data # Body(input.cmd) ELSE input.data = Body(output)
    /\ Redis!AnswersReadBack

\* The client reads the scores the server holds, see Commands.
ScoresReadBack == Redis!ScoresReadBack
=============================================================================
