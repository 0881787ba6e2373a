------------------------------ MODULE Parallel ------------------------------
(***************************************************************************)
(* The programs that compute with several threads: the parallel algorithms *)
(* of chapter8, the thread pools of chapter9 with the quicksorts that run   *)
(* on them, and the tiled matrix product of cuda/chapter5.  Each is started *)
(* on an input of its own; thread 0 is the one that calls.                 *)
(***************************************************************************)
EXTENDS Threads

CONSTANTS
    Input,             \* what each program is started on: a function to sets
    min_per_thread,    \* also max_chunk_size of the asynchronous accumulate
    TILE_WIDTH,
    Throws,            \* an element whose addition or function throws
    Exception, last,
    Terminated,        \* std::terminate has ended the program
    Undefined          \* two threads have raced for the same data

VARIABLES
    program, input     \* mem, th: see Threads

vars == <<program, input, mem, th>>

Sum(s) == FoldLeft(LAMBDA x, y : x + y, 0, s)
Ended == {t \in Thread : th[t].pc \in {"none", "ended"}}

\* Thread 0 gives its caller the outcome, when the other threads are joined.
Joined(outcome) ==
    /\ Ended = Thread \ {0}
    /\ mem' = [mem EXCEPT !.outcome = outcome]
    /\ th' = [th EXCEPT ![0].pc = "ended"]

Terminates == mem' = [mem EXCEPT !.outcome = Terminated] /\ UNCHANGED th

------------------------------------------------------------------------------
(* Blocks of an array, the last one for the caller *)

a == input.a
max_threads == (Len(a) + min_per_thread - 1) \div min_per_thread
num_threads == Min({IF input.hardware # 0 THEN input.hardware ELSE 2, max_threads})
block_size == Len(a) \div num_threads

\* Thread t > 0 has the t-th block, thread 0 what is left.
First(t) == IF t = 0 THEN (num_threads - 1) * block_size + 1 ELSE (t - 1) * block_size + 1
Last_(t) == IF t = 0 THEN Len(a) ELSE t * block_size
BlockOf(t) == First(t)..Last_(t)
Worker == 1..(num_threads - 1)

EmptyRange == At(0, "start") /\ Len(a) = 0 /\ Joined(input.empty)

\* The caller starts the threads, then goes to its own block.
StartThread ==
    /\ At(0, "start") /\ Len(a) > 0
    /\ LET waiting == {t \in Worker : At(t, "none")}
           t == IF waiting = {} THEN 0 ELSE Min(waiting)
       IN  th' = [th EXCEPT ![t].pc = "block"]
    /\ UNCHANGED mem

\* Where in the block an element throws; what the block gives.
Throwing(t) == {i \in BlockOf(t) : a[i] = Throws}
BlockResult(t) ==
    IF Throwing(t) # {} THEN Exception ELSE Sum([i \in 1..Len(SubSeq(a, First(t), Last_(t))) |-> a[First(t) + i - 1]])
Visited(t) == {i \in BlockOf(t) : \A j \in Throwing(t) : i <= j}

\* accumulate_block or for_each over the block.  A worker's exception is kept
\* in its packaged_task, if it has one; the caller's ends the program if there are
\* threads that nobody joins.
AccumulateBlock(t) ==
    /\ At(t, "block")
    /\ IF BlockResult(t) = Exception /\
            (IF t # 0 THEN input.version = "unsafe"
                      ELSE input.version \in {"unsafe", "packaged"} /\ num_threads > 1)
       THEN Terminates
       ELSE Step(t, "block", [results |-> [mem.results EXCEPT ![t] = BlockResult(t)],
                              visits |-> Append(mem.visits, Visited(t))],
                 [pc |-> IF t = 0 THEN "collect" ELSE "ended"])

\* join and get, in the order of the version.
Collect ==
    /\ At(0, "collect")
    /\ LET results == [i \in 1..num_threads |-> mem.results[i - 1]]
       IN  Joined(IF Exception \in ToSet(results) THEN Exception ELSE input.init + Sum(results))

Accumulates(t) ==
    \/ t = 0 /\ (EmptyRange \/ StartThread \/ Collect)
    \/ AccumulateBlock(t)

\* parallel_accumulate_async.cpp and parallel_for_each_async.cpp: halves.
accumulate_async[s \in Seq(Int), init \in Int] ==
    IF Len(s) <= min_per_thread THEN init + Sum(s)
    ELSE LET half == Len(s) \div 2
         IN  accumulate_async[SubSeq(s, 1, half), init]
                 + accumulate_async[SubSeq(s, half + 1, Len(s)), 0]

for_each_async[s \in Seq(Int)] ==
    IF Len(s) < 2 * min_per_thread THEN s
    ELSE LET half == Len(s) \div 2
         IN  for_each_async[SubSeq(s, 1, half)] \o for_each_async[SubSeq(s, half + 1, Len(s))]

Asyncs(t) ==
    /\ t = 0 /\ At(0, "start")
    /\ Joined(<<accumulate_async[a, input.init], for_each_async[a]>>)

------------------------------------------------------------------------------
(* parallel_find.cpp *)

\* One turn of the loop of find_element; done_flag is read in each.
FindLooks(t) ==
    \/ /\ At(t, "block")
       /\ Step(t, "block", Same, [pc |-> "find", begin |-> First(t)])
    \/ /\ At(t, "find")
       /\ IF th[t].begin > Last_(t) \/ mem.done_flag
          THEN Step(t, "find", Same, [pc |-> IF t = 0 THEN "check" ELSE "ended"])
          ELSE IF a[th[t].begin] \in {input.match, Throws} THEN Step(t, "find", Same, [pc |-> "set"])
          ELSE Step(t, "find", Same, [begin |-> th[t].begin + 1])

\* The iterator, or the exception of the comparison.  A promise is set once: the
\* second set_value throws, and so does set_exception in the handler, and
\* done_flag is left alone.
FindSets(t) ==
    IF mem.promise = Null
    THEN Step(t, "set",
              [promise |-> IF a[th[t].begin] = Throws THEN Exception ELSE th[t].begin],
              [pc |-> "flag"])
    ELSE Step(t, "set", Same, [pc |-> IF t = 0 THEN "check" ELSE "ended"])

FindFlags(t) ==
    Step(t, "flag", [done_flag |-> TRUE], [pc |-> IF t = 0 THEN "check" ELSE "ended"])

\* The caller decides before the other threads are joined.
FindChecks ==
    Step(0, "check", Same,
         [pc |-> "joining", found |-> IF mem.done_flag THEN mem.promise ELSE last])

FindReturns == At(0, "joining") /\ Joined(th[0].found)

Finds(t) ==
    \/ t = 0 /\ (EmptyRange \/ StartThread \/ FindChecks \/ FindReturns)
    \/ FindLooks(t) \/ FindSets(t) \/ FindFlags(t)

------------------------------------------------------------------------------
(* parallel_partial_sum.cpp: each thread needs the last sum of the one before *)

Before(t) == IF t = 0 THEN num_threads - 1 ELSE t - 1
HasPrevious(t) == IF t = 0 THEN num_threads > 1 ELSE t > 1

\* The handler hands the exception on to the next thread, the last one to the caller.
Catch(t, place) ==
    IF t = 0 THEN Step(t, place, Same, [pc |-> "joining", got |-> Exception])
    ELSE Step(t, place, [end_value |-> [mem.end_value EXCEPT ![t] = Exception]], [pc |-> "ended"])

\* std::partial_sum within the block.
PartialSums(t) ==
    /\ At(t, "block")
    /\ IF Throwing(t) # {} THEN Catch(t, "block")
       ELSE LET sums == [i \in 1..Len(a) |->
                            IF i \in BlockOf(t) THEN Sum(SubSeq(a, First(t), i)) ELSE mem.a[i]]
            IN  Step(t, "block", [a |-> sums], [pc |-> IF HasPrevious(t) THEN "previous" ELSE "publish"])

\* get() of the future of the block before, and the last element.
TakePrevious(t) ==
    /\ At(t, "previous") /\ mem.end_value[Before(t)] # Null
    /\ IF mem.end_value[Before(t)] = Exception THEN Catch(t, "previous")
       ELSE Step(t, "previous",
                 [a |-> [mem.a EXCEPT ![Last_(t)] = @ + mem.end_value[Before(t)]]],
                 [pc |-> "publish", addend |-> mem.end_value[Before(t)]])

Publish(t) ==
    Step(t, "publish",
         IF t = 0 THEN Same ELSE [end_value |-> [mem.end_value EXCEPT ![t] = mem.a[Last_(t)]]],
         [pc |-> IF HasPrevious(t) THEN "add" ELSE IF t = 0 THEN "joining" ELSE "ended"])

AddToRest(t) ==
    LET added == [i \in 1..Len(a) |->
                     IF i \in BlockOf(t) /\ i # Last_(t) THEN mem.a[i] + th[t].addend ELSE mem.a[i]]
    IN  Step(t, "add", [a |-> added], [pc |-> IF t = 0 THEN "joining" ELSE "ended"])

SumsReturn == At(0, "joining") /\ Joined(IF th[0].got = Exception THEN Exception ELSE mem.a)

SumsUp(t) ==
    \/ t = 0 /\ (EmptyRange \/ StartThread \/ SumsReturn)
    \/ PartialSums(t) \/ TakePrevious(t) \/ Publish(t) \/ AddToRest(t)

------------------------------------------------------------------------------
(* The threads of one block of the tiled product, each at its place (ty, tx) *)

ty(t) == t \div TILE_WIDTH
tx(t) == t % TILE_WIDTH
Row(t) == input.by * TILE_WIDTH + ty(t)
Col(t) == input.bx * TILE_WIDTH + tx(t)
Width == input.Width
Phases == (Width + TILE_WIDTH - 1) \div TILE_WIDTH

\* An element of a matrix, 0 outside.
Element(m, row, col) == IF row < Width /\ col < Width THEN m[row * Width + col] ELSE 0

\* Mutant of Barrier: there is no __syncthreads.
Barrier_None(t) == TRUE

\* __syncthreads: nobody goes on before all have come as often.
Barrier(t) == \A u \in Thread : th[u].arrived >= th[t].arrived

LoadTiles(t) ==
    /\ At(t, "start") /\ th[t].ph < Phases /\ Barrier(t)
    /\ Step(t, "start",
            [Mds |-> [mem.Mds EXCEPT ![t] = Element(input.M, Row(t), th[t].ph * TILE_WIDTH + tx(t))],
             Nds |-> [mem.Nds EXCEPT ![t] = Element(input.N, th[t].ph * TILE_WIDTH + ty(t), Col(t))]],
            [pc |-> "multiply", arrived |-> th[t].arrived + 1])

Multiply(t) ==
    /\ At(t, "multiply") /\ Barrier(t)
    /\ Step(t, "multiply", Same,
            [pc |-> "start", ph |-> th[t].ph + 1, arrived |-> th[t].arrived + 1,
             Pvalue |-> th[t].Pvalue + Sum([k \in 1..TILE_WIDTH |->
                 mem.Mds[ty(t) * TILE_WIDTH + k - 1] * mem.Nds[(k - 1) * TILE_WIDTH + tx(t)]])])

StoreProduct(t) ==
    /\ At(t, "start") /\ th[t].ph = Phases /\ Barrier(t)
    /\ Step(t, "start",
            IF Row(t) < Width /\ Col(t) < Width
            THEN [P |-> (Row(t) * Width + Col(t)) :> th[t].Pvalue @@ mem.P] ELSE Same,
            [pc |-> "stored"])

KernelEnds ==
    /\ \A t \in Thread : At(t, "stored")
    /\ mem' = [mem EXCEPT !.outcome = mem.P]
    /\ th' = [t \in Thread |-> [th[t] EXCEPT !.pc = "ended"]]

Multiplies(t) ==
    \/ LoadTiles(t) \/ Multiply(t) \/ StoreProduct(t)
    \/ t = 0 /\ KernelEnds

------------------------------------------------------------------------------
(* Pools and the sorters that use them.  A thread has a stack of frames: the  *)
(* calls of do_sort, one begun for a task on top of one that waits.           *)

Frame(at, chunk, promise) ==
    [at |-> at, chunk |-> chunk, promise |-> promise, lower |-> 0, result |-> <<>>]
Task(at, chunk) == Frame(at, chunk, Len(mem.future) + 1)
NoPromise == 0

Top(t) == Last(th[t].stack)
On(t, at) == th[t].stack # <<>> /\ Top(t).at = at
Under(t) == Front(th[t].stack)
Stack(t, stack) == th' = [th EXCEPT ![t].stack = stack]

submit(task) ==
    [mem EXCEPT !.work = Append(@, task), !.future = Append(@, Null)]

\* The queue of the pool gives the oldest task, the stack of chunks the newest.
OnStack == program = "chunks"
TaskTaken == IF OnStack THEN Last(mem.work) ELSE Head(mem.work)
WorkLeft == IF OnStack THEN Front(mem.work) ELSE Tail(mem.work)

\* run_pending_task, try_sort_chunk, the body of worker_thread: a task is begun.
Begin(t) ==
    /\ mem.work # <<>>
    /\ mem' = [mem EXCEPT !.work = WorkLeft, !.ran = Append(@, TaskTaken.promise)]

\* A call returns: into the future of its task, or to the call that made it.
Returns(t, value) ==
    LET under == Under(t)
        caller == Last(under)
    IN  /\ IF Top(t).promise # NoPromise
           THEN /\ mem' = [mem EXCEPT !.future[Top(t).promise] = value]
                /\ th' = [th EXCEPT ![t].stack = under, ![t].pc = IF under = <<>> THEN "worker" ELSE @]
           ELSE IF under = <<>>
           THEN th' = [th EXCEPT ![t].stack = <<>>, ![t].pc = "destroy", ![t].got = value] /\ UNCHANGED mem
           ELSE /\ Stack(t, Append(Front(under),
                        [caller EXCEPT !.at = "poll", !.result = <<Head(caller.chunk)>> \o value]))
                /\ UNCHANGED mem

\* A task that is just a function, of the pools themselves.
CallTask(t) == On(t, "call") /\ Returns(t, Top(t).chunk)

Part(chunk, lower) == SelectSeq(Tail(chunk), LAMBDA v : (v < Head(chunk)) = lower)

\* do_sort: nothing to sort, or the lower part becomes a task.
SortEmpty(t) == On(t, "sort") /\ Top(t).chunk = <<>> /\ Returns(t, <<>>)

SortDivides(t) ==
    /\ On(t, "sort") /\ Top(t).chunk # <<>>
    /\ mem' = submit(Task("sort", Part(Top(t).chunk, TRUE)))
    /\ Stack(t, Append(Under(t), [Top(t) EXCEPT !.lower = Len(mem.future) + 1,
                                                !.at = IF OnStack THEN "size" ELSE "higher"]))

\* An unsigned 0 - 1 is more than there are threads.
max_thread_count == IF input.hardware = 0 THEN Cardinality(Thread) ELSE input.hardware - 1

\* quciksort.cpp starts another thread as long as there are not max_thread_count.
\* Its vector of threads is not locked: a thread that looks at its size
\* while another is in its push_back may do anything.
SortLooksAtSize(t) ==
    /\ On(t, "size")
    /\ LET new == {u \in Thread \cap (1..max_thread_count) : At(u, "none")}
           At_(at) == Append(Under(t), [Top(t) EXCEPT !.at = at])
       IN  IF \E u \in Thread \ {t} : On(u, "push_back")
           THEN mem' = [mem EXCEPT !.outcome = Undefined] /\ UNCHANGED th
           ELSE /\ IF new = {} THEN Stack(t, At_("higher"))
                   ELSE th' = [th EXCEPT ![t].stack = At_("push_back"), ![Min(new)].pc = "worker"]
                /\ UNCHANGED mem

SortPushedBack(t) ==
    On(t, "push_back") /\ Stack(t, Append(Under(t), [Top(t) EXCEPT !.at = "higher"])) /\ UNCHANGED mem

SortHigher(t) ==
    /\ On(t, "higher")
    /\ Stack(t, Under(t) \o <<[Top(t) EXCEPT !.at = "calls"],
                              Frame("sort", Part(Top(t).chunk, FALSE), NoPromise)>>)
    /\ UNCHANGED mem

\* Until the lower part is sorted the thread does what else there is to do.
SortPolls(t) ==
    /\ On(t, "poll")
    /\ IF mem.future[Top(t).lower] # Null
       THEN Returns(t, mem.future[Top(t).lower] \o Top(t).result)
       ELSE Begin(t) /\ Stack(t, Append(th[t].stack, TaskTaken))

\* worker_thread, sort_thread.
WorkerLooks(t) ==
    /\ At(t, "worker")
    /\ Step(t, "worker", Same, [pc |-> IF mem.done THEN "ended" ELSE "pop"])

WorkerPops(t) ==
    /\ At(t, "pop")
    /\ IF mem.work = <<>> THEN Step(t, "pop", Same, [pc |-> "worker"])
       ELSE Begin(t) /\ th' = [th EXCEPT ![t].stack = <<TaskTaken>>, ![t].pc = "run"]

\* The constructor of a pool starts the threads; if one cannot be started,
\* those there are have to end and be joined.
Construct ==
    /\ At(0, "start") /\ (program = "pool" \/ Len(a) > 0)
    /\ LET new == {u \in 1..input.hardware : At(u, "none")}
           first == Frame("sort", a, NoPromise)
       IN  IF new # {} /\ ~OnStack
           THEN \/ th' = [th EXCEPT ![Min(new)].pc = "worker"] /\ UNCHANGED mem
                \/ /\ input.may_fail
                   /\ Step(0, "start", [done |-> TRUE], [pc |-> "join", got |-> Exception])
           ELSE /\ UNCHANGED mem
                /\ IF program = "pool" THEN th' = [th EXCEPT ![0].pc = "submit"]
                   ELSE th' = [th EXCEPT ![0].pc = "run", ![0].stack = <<first>>]

\* A user of a pool submits tasks, and may wait for their futures before the
\* pool is destroyed.
SubmitTasks ==
    /\ At(0, "submit")
    /\ IF Len(mem.future) < Len(input.a)
       THEN mem' = submit(Task("call", <<input.a[Len(mem.future) + 1]>>)) /\ UNCHANGED th
       ELSE Step(0, "submit", Same, [pc |-> IF input.waits THEN "get" ELSE "destroy"])

GetFutures ==
    Null \notin ToSet(mem.future) /\ Step(0, "get", Same, [pc |-> "destroy"])

\* Mutant of Destroy: the destructor leaves done alone.
Destroy_KeepsRunning == Step(0, "destroy", Same, [pc |-> "join"])

\* done, then the joiner waits for the workers.
Destroy == Step(0, "destroy", [done |-> TRUE], [pc |-> "join"])
JoinWorkers == At(0, "join") /\ Joined(IF th[0].got = Null THEN mem.future ELSE th[0].got)

SortFrame(t) ==
    \/ CallTask(t) \/ SortEmpty(t) \/ SortDivides(t) \/ SortHigher(t) \/ SortPolls(t)
    \/ SortLooksAtSize(t) \/ SortPushedBack(t)

Pools(t) ==
    \/ t = 0 /\ (Construct \/ SubmitTasks \/ GetFutures \/ Destroy \/ JoinWorkers)
    \/ t = 0 /\ program # "pool" /\ EmptyRange
    \/ SortFrame(t) \/ WorkerLooks(t) \/ WorkerPops(t)

------------------------------------------------------------------------------

Shared ==
    CASE program = "accumulate" -> [results |-> [t \in Thread |-> Null], visits |-> <<>>, outcome |-> Null]
      [] program = "async" -> [outcome |-> Null]
      [] program = "find" -> [promise |-> Null, done_flag |-> FALSE, outcome |-> Null]
      [] program = "partial_sum" -> [a |-> a, end_value |-> [t \in Thread |-> Null], outcome |-> Null]
      [] program = "matmul" ->
            [Mds |-> [t \in Thread |-> 0], Nds |-> [t \in Thread |-> 0], P |-> <<>>, outcome |-> Null]
      [] OTHER -> [work |-> <<>>, future |-> <<>>, ran |-> <<>>, done |-> FALSE, outcome |-> Null]

Own(t) ==
    [pc |-> IF t = 0 \/ program = "matmul" THEN "start" ELSE "none",
     got |-> Null, stack |-> <<>>, ph |-> 0, arrived |-> 0, Pvalue |-> 0]

Init ==
    /\ program \in DOMAIN Input
    /\ input \in Input[program]
    /\ mem = Shared
    /\ th = [t \in Thread |-> Own(t)]

ThreadStep(t) ==
    /\ mem.outcome = Null
    /\ UNCHANGED <<program, input>>
    /\ \/ program = "accumulate" /\ Accumulates(t)
       \/ program = "async" /\ Asyncs(t)
       \/ program = "find" /\ Finds(t)
       \/ program = "partial_sum" /\ SumsUp(t)
       \/ program = "matmul" /\ Multiplies(t)
       \/ program \in {"pool", "pool_sort", "chunks"} /\ Pools(t)

Next == \E t \in Thread : ThreadStep(t)
Spec == Init /\ [][Next]_vars /\ \A t \in Thread : WF_vars(ThreadStep(t))

------------------------------------------------------------------------------
(* Properties *)

outcome == mem.outcome
Threw == Throws \in ToSet(a)

\* std::accumulate and std::for_each over the range.  Exceptions end the versions
\* that leave threads unjoined; no element is visited twice.
AccumulateRight ==
    /\ outcome = Terminated => Threw /\ input.version \in {"unsafe", "packaged"}
    /\ outcome = Exception => Threw
    /\ outcome \notin {Terminated, Exception} =>
        /\ ~Threw /\ outcome = input.init + Sum(a)
        /\ UNION ToSet(mem.visits) = 1..Len(a)
    /\ \A i, j \in 1..Len(mem.visits) : i # j => mem.visits[i] \cap mem.visits[j] = {}

\* What is found matches, and a match that only the caller's block has is found.
\* (The caller decides before the others are joined, so it can miss theirs.)
FindRight ==
    LET Matches == {i \in 1..Len(a) : a[i] = input.match}
    IN  /\ outcome = Exception => Threw
        /\ outcome \notin {last, Exception} => outcome \in Matches
        /\ outcome = last /\ Matches # {} =>
            \E t \in Worker : \E i \in BlockOf(t) : a[i] \in {input.match, Throws}

PartialSumsRight ==
    outcome = IF Threw THEN Exception ELSE [i \in 1..Len(a) |-> Sum(SubSeq(a, 1, i))]

\* matmul of matmul.h, in the tile of the block.
ProductRight ==
    LET Product(i, j) == Sum([k \in 1..Width |-> input.M[i * Width + k - 1] * input.N[(k - 1) * Width + j]])
        Tile == {p \in (0..(Width - 1)) \X (0..(Width - 1)) :
                    p[1] \div TILE_WIDTH = input.by /\ p[2] \div TILE_WIDTH = input.bx}
    IN  /\ DOMAIN outcome = {p[1] * Width + p[2] : p \in Tile}
        /\ \A p \in Tile : outcome[p[1] * Width + p[2]] = Product(p[1], p[2])

\* Tasks begin in the order they were submitted, each at most once; who waits
\* for the futures has the result of every task.
PoolRight ==
    /\ mem.ran = [i \in 1..Len(mem.ran) |-> i]
    /\ outcome # Exception /\ input.waits => mem.future = [i \in 1..Len(a) |-> <<a[i]>>]

Sorted == SortSeq(a, LAMBDA x, y : x < y)

\* What each program gives its caller is what the algorithm it distributes over
\* threads gives, however the threads take turns.
ResultsRight ==
    outcome # Null =>
        CASE program = "accumulate" -> AccumulateRight
          [] program = "async" -> outcome = <<input.init + Sum(a), a>>
          [] program = "find" -> FindRight
          [] program = "partial_sum" -> PartialSumsRight
          [] program = "matmul" -> ProductRight
          [] program = "pool" -> PoolRight
          [] OTHER -> outcome \in {Sorted, Exception, Undefined}

\* Every call comes to its end: no worker waits for ever for the sum before it,
\* no sorter for a chunk nobody sorts, no destructor for a worker.  Only a pool without
\* workers (hardware_concurrency() may be 0) keeps those that wait for it for ever.
EveryCallEnds ==
    (program = "pool" /\ input.waits => input.hardware > 0) => <>(outcome # Null)
=============================================================================
