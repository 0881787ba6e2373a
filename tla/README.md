# Clearning: models and proofs

TLA+ modules, TLC runs and TLAPS proofs for the C and C++ programs of this
repository. `PROJECT.json` lists components, runs, mutants, hazards and
theorems, and maps each definition to the source lines it stands for.

    tlc -workers 2 -config ATM.cfg ATM     # a model-checking run
    tlapm KVStoreProofs.tla                # a proof module

## 1. The system

The repository holds the author's programs from several books. Two families
have interacting parts and state worth checking; the rest are sequential
exercises.

### Cash machine (`concurrent/appendixc/main.cpp`)

Four threads, each but `main` the owner of one `messaging::queue`, share nothing
but those queues.

| part | state | operations |
|---|---|---|
| `messaging::queue` | mutex, condition variable, `std::queue` | `push`, `wait_and_pop` |
| dispatcher | none | hands a message to its handler, drops one without, throws on `close_queue` |
| `atm` | `state` (a member function), `pin`, `account`, `withdrawal_amount` | a handler for each state and message |
| `bank_machine` | `balance` | `verify_pin`, `withdraw`, `get_balance`, two empty handlers |
| `interface_machine` | the screen | nine display handlers |
| `main` | `quit_pressed` | turns keys into messages; closes the queues and joins |

Calls are messages: main → atm (keys), atm → bank (requests, notices), bank → atm
(answers), atm → interface (displays), main → all (`close_queue`).

*Hard*: the queue under interleaving and spurious wakeups; answers that arrive
when the customer has cancelled; the bank answering before it subtracts; keys
typed ahead; `close_queue` overtaking or losing messages at shutdown.
*Correct when*: the queue is an atomic FIFO and loses no wakeup; no session runs
on another session's authorisation; money is neither created nor, before
shutdown, lost; a balance on the screen is true; the dialogue is kept; shutdown
ends from every state.

### Redis servers (`build_redis/chapter3` to `chapter11`)

Each chapter extends the server of the one before: blocking (3, 4), a poll loop
with buffers (6), commands on a `std::map` (7), on a hash table of its own (8),
with typed answers (9), an AVL tree (10), sorted sets (11).

| part | state | operations |
|---|---|---|
| connection (6, 7, 8, 9, 11) | `Conn`: `state`, `rbuf`, `wbuf`, `wbuf_sent` | `accept_new_conn`, `connection_io`, `try_fill_buffer`, `try_one_request`, `try_flush_buffer` |
| key-value store (8, 9, 11) | `HMap`: `ht1`, `ht2`, `resizing_pos`; the entries | `do_get`, `do_set`, `do_del`, `do_keys`; `hm_lookup`, `hm_insert`, `hm_pop`, `hm_help_resizing` |
| AVL tree, sorted set (10, 11) | tree with depths and counts; tree and map by name | `avl_fix`, `avl_del`, `avl_offset`; `add`, `del`; `zset_lookup`, `zset_add`, `zset_query` |

The loop calls a connection's function when poll() reports its socket; that
calls the command, which calls the table; there is one thread.

*Hard*: reads and writes that take part of a message; a client that does not
read, or leaves; a hash table in which every command does a part of the
resizing; a tree whose nodes are moved, while they are deleted, by the
rebalancing below them. *Correct when*: bytes are conserved and in order, every complete query
is answered once, no client holds the loop for ever, the two tables look like one map at
every moment, a resizing stays in bounds and ends in time, and a sorted set
answers as a sorted sequence would.

### Concurrent data structures and algorithms (`concurrent/chapter6` to `chapter9`)

| part | state | operations |
|---|---|---|
| queues (6) | `std::queue` and one mutex; or a linked list with a dummy node and a mutex at each end | `push`, `try_pop`, `wait_and_pop`, `empty` |
| list (6) | nodes, each with a mutex | `push_front`, `for_each`, `find_first_if`, `remove_if` |
| lookup table (6) | buckets, each a list under a shared mutex | `value_for`, `add_or_update_mapping`, `remove_mapping`, `get_map` |
| lock-free stack and queue (7) | counted pointers, nodes with counts of their own | `push`, `pop` |
| parallel algorithms (8) | blocks of a range, futures, a promise, a flag | `parallel_accumulate` (four), `parallel_for_each` (two), `parallel_find`, `parallel_partial_sum`, `parallel_quick_sort` |
| thread pools (9) | a queue of tasks, `done`, the workers | constructor, `submit`, destructor, `run_pending_task`, another `parallel_quick_sort` |

*Hard*: every interleaving; nodes freed while others read them; notifications
without the mutex; threads that wait for what other threads compute; exceptions
in the middle. *Correct when*: each container is atomic to its users, no memory
is used after it is freed, or lost; a parallel algorithm gives what the sequential
one gives, and ends. As listed most do not compile, for spelling (in
`parallel_accumulate_exception_unsafe.cpp` two statements stand inside the
parentheses of a call); what is meant is clear in each, and that is what is
modelled.

### The rest

`algorithms/` (sorts, a heap, lists in arrays, sieves, postfix, Josephus),
`functional/`, `modern_approach/`: sequential programs that read, compute and
print. *Hard*: sentinels, elements nobody has initialised, ends of arrays. *Correct
when*: what is printed is what the definition says. `cuda/`: kernels in which each
thread writes its own element; in the tiled matrix product threads load tiles for
one another between barriers.

## 2. Modules

| module | models | abstract specification |
|---|---|---|
| `MessageQueue` | `messaging::queue`, one action per statement | `FifoQueue`, by refinement |
| `ATM` | the four threads over atomic FIFOs | `Dialogue`: what a customer sees |
| `KVStore` | `HTab` and its pure operations; `HMap`, `hm_help_resizing` one iteration a step, the commands | `KVMap`: a map |
| `AVL` | `AVLNode`s in memory, `avl_fix`, `avl_del` | |
| `Container` (extends `AVL`) | chapter 10 and 11 `Container`: `add`, `del` | |
| `ZSet` (extends `AVL`) | chapter 11 sorted set | `SortedSet`: names with scores, by rank |
| `Connection` | client, kernel buffers, `Conn`, poll loop | |
| `EchoServer` (extends `Connection`) | chapter 6 `try_one_request` | |
| `RedisServer` (extends `Connection`) | chapter 9 `try_one_request` | |
| `LockFreeStack` | chapter 7 stack, one shared access a step | `Stack`: an atomic stack |
| `Threads` | threads that call the operations of a shared object, condition variables, memory | |
| `Queues` (extends `Threads`) | the queues of chapter 6 | `AtomicQueue` |
| `LockFreeQueue` (extends `Threads`) | chapter 7 queue, one shared access a step | `AtomicQueue`, while no deleted node is used |
| `ThreadsafeList`, `LookupTable` (extend `Threads`) | chapter 6 list and table | |
| `Threadsafe` | the threads and their calls, over one of these containers | |
| `Parallel` (extends `Threads`) | chapters 8 and 9, `cuda/chapter5` | |
| `Sorting`, `Numbers`, `Kernels` | sequential programs as functions | definitions in `Programs` |
| `Heap`, `Commands` | `heap.c`; the commands of the chapter 11 server, with the bytes of requests and answers | |
| `Programs` | one of these programs started on an input | |
| `MC*` | constants for TLC, where a .cfg cannot say them | |
| `*Proofs` | theorems; `ThreadsafeProofs` extends `ListProofs` (the list), which extends `QueueProofs` (threads and queues) | |

**MessageQueue.** `pc[t]` is the statement thread `t` is at, `m` the owner of
the mutex, `c` the sleepers of the condition variable. `std::queue` is not thread
safe, so `q.push` is a read and a write and `front`/`pop` are two steps: without
the mutex the model loses messages, as the program would.

**ATM.** A handler touches only its own thread's data, so taking a message and
running the handler is one step, but each `send` is a step of its own:
`outbox[t]` holds the sends a handler still has to make, in order, and the thread
does nothing else until it is empty. The bank's `withdraw_ok` before
`balance -= amount` is the pair `Withdraw`, `Debit`. A state function that sends
before it waits does so in `Entry`. A digit is TRUE when it is the expected one;
the account is always the same. `case 'c'` has no `break`: `PressCancel` sends
`cancel_pressed` and then quits. `withdrawal_amount` is always `Amount`.

**KVStore.** A node is its key; a chain is a sequence; `buckets` is
`mask + 1`, 0 for a NULL `tab`. Commands run in three parts: the loop of
`hm_help_resizing` (`SkipBucket`, `MoveNode`, `HelpReturns`, `pc = "lookup"`), the
command proper (`pc = "act"`), and for an insertion the loop again
(`pc = "insert"`). A table is a power of two in size in the code, for `& mask`;
here that is `%`, and nothing depends on the power of two.

**AVL, Container, ZSet.** `tree` is the memory: what each AVLNode holds, linked or
not. One iteration of `avl_fix` is a step; so is each call of the recursion of
`avl_del`, whose callers wait in `calls`, because the node a caller is about to
replace may be rotated by `avl_fix` while it waits. `rot(t, n, side)` is
`rot_right` for the left side and `rot_left` for the right, `avl_fix_side` the
two `avl_fix_` functions. In `Container` each node has a fixed `val` and `new`
returns any free one; `Return` makes freed memory look like new, which is not
read again. In `ZSet` the node of a name is the name, the hash map is the set of
names that `KVStore` shows it to be, `avl_offset` is `WalkDown`, `WalkUp`,
`WalkEnds`, and a score is a number. `znode_new` has no return statement:
`zset_add` of a new name either goes on with the node or with something about
which nothing can be said (`pc = "undefined"`, `ReturnsNothing`).

**LockFreeStack.** `Node` is memory: `new` returns any place that is free, also one
that was deleted a moment ago. `head` and `old` are counted pointers; the other
fields of a popper are its locals. A `fetch_add` and the `delete` that may follow are
one step, which deletes as early as the code could. Memory is sequentially
consistent. `compare_exchange_weak` may fail for no reason, which changes nothing
and is no step.

**Connection, EchoServer, RedisServer.** A byte is a pair (query, position), so
that a lost, doubled or misplaced byte is seen. `c2s` and `s2c` are the kernel
buffers. One `read` or `write` is one step; `read` takes all there is that fits,
`write` any part the kernel has room for. The client writes byte by byte, which
covers every way of cutting the stream. `pc = "aborted"` is a failed assertion,
`"killed"` a SIGPIPE. EINTR is a retry with no effect and not a step. Other
connections do not appear: they share nothing with this one but the thread, and
`BackToPoll` says when it comes back. The client has finitely many queries but need
not end: when it has all its answers `ClientStartsOver` lets it send the same again,
under the same numbers, so that a client that writes for ever is a cycle of the
model. `RedisServer` refuses the queries in `Malformed`; an `AnswerLen` is the length
of what is sent, the error's if the answer would be too big.

**Threads, Queues, ThreadsafeList, LookupTable, LockFreeQueue, Threadsafe.** `mem` holds
the fields of the container, `th[t]` the locals of thread `t` and its place in the
call it makes. `Step(t, place, shared, own)` goes on from a place and assigns some
of each. Taking a mutex is a step; the statements under it are as many steps as
another thread could tell apart: in the queue with two mutexes `push` and the
pops run at the same time and each assignment is a step, under a single mutex the
body is one. An asleep thread may wake for no reason. A node that is freed leaves
the domain of `mem.node` and its address is given out again; in `LockFreeQueue`
it is not, so that a use after the delete is seen (`broken`, after which that
queue does nothing). `got` is what the calls of a thread have returned, and
`removed`, `start`, `seen`, `before` in the list are only there for properties.

**Parallel.** Thread 0 is the caller, `outcome` what its caller gets: a value, an
exception, `Terminated` (`std::terminate`) or `Undefined` (a data race). A block
of `parallel_accumulate` or `parallel_for_each` is one step, because nobody else
touches it; `find_element` is an iteration a step, for `done_flag`, and
`set_value` and the flag are two; `process_chunk` is the sums, the wait, the
publication and the rest. A pool thread has a stack of frames, as a sorter that
waits runs the tasks it finds on top of its own call; tasks and the promises they
fulfil have the same numbers. `program = "chunks"` is `quciksort.cpp`, whose stack
of chunks is taken to return null when it is empty (`threadsafe_stack::pop` of
chapter 6 would throw). A thread of the kernel is at its place `(ty, tx)`, and
`arrived` counts its barriers.

**Programs.** Each program is a function from what it reads to what it prints,
with a step that prints, after which it stays (`Ended`); `garbage` is the element nobody has initialised, over
several values, and `Undefined` leaving an array. `Heap`, `Commands` and `Container`
(`test_avl.cpp`) have a state and an action for every call. Strings are short sequences of bytes, a number
of four bytes is four of them. An answer is a sequence of values, `Bytes` what goes
over the socket, and `on_response` what the client makes of that. A score is in tenths;
`out_dbl` drops them and writes an integer, and `AsDouble` is the double with the bytes
of that integer: 0 or `Denormal`. So `RoundTrip` is about everything but the doubles,
and `ScoresReadBack` about them. `sort3` sorts after each number it reads, over the two
garbage values in `a[2]` and `a[3]`.

## 3. Runs

| run | bounds | states | shows |
|---|---|---|---|
| `ATM` | 2-digit PIN, money for one withdrawal and a half, 2 keys ahead | 110,737 | money, authorisation, dialogue, shutdown |
| `MessageQueue` | 2 pushers, 2 poppers, 2 messages each, 1 spurious wakeup | 43,705 | FIFO by refinement, no lost wakeup |
| `MCKVStore` | 4 keys, 2 values, work 1, load factor 1, 1 bucket to start | 161,653 | a map by refinement; sizes, bounds, load |
| `MCEchoServer` | queries of 1, 0, 2 and too many bytes, kernel buffers of 3, any number of rounds | 2,173 | bytes conserved, answers, no blocking but by endless writing |
| `ZSet` | 4 names, 2 scores, offsets -4 to 4 | 34,203 | map and tree agree; a sorted sequence by refinement |
| `MCLockFreeStack` | 3 threads, 2 places in memory, 2 values, 5 calls, counts to 5 | 227,536 | an atomic stack by refinement, no use after delete, no leak |
| `MCPrograms` | arrays of up to four numbers (nine for shellsort, five for the merges), a heap of up to six, requests of up to two strings of two bytes, whole and damaged; a `Container` of 8 nodes, two of them equal | 90,775 | results against definitions, the heap, a balanced search tree of what is allocated; requests and answers, doubles excepted, read back |
| `MCThreadsafe` | 3 threads, up to 3 calls each (6 for the lists of one thread) | 148,740 | queues by refinement; nothing forgotten, nothing used after it is freed, complete walks and snapshots |
| `MCParallel` | up to 4 threads, ranges of up to 9 elements, lists of up to 4, matrices of 3 by 3 in tiles of 2 | 90,193 | the results of the sequential algorithms, exceptions included; every call ends |
| `EchoLong` | one message of more than half of `rbuf` | | violation, see 5 |
| `RedisServer` | three queries, one malformed, an answer larger than the kernel's buffer | | violation, see 5 |
| `Scores` | one key, three names, scores 1.0 and 1.1 | | violation, see 5 |

*Why the bounds are enough.* ATM: a two-digit PIN has a first, a middle and a
last digit press in the code's sense (short, full), wrong in either place; with 3 on
the account and 2 a withdrawal, one is approved and the next refused; sessions
repeat without bound, as only the keys waiting are bounded, not the keys typed.
MessageQueue: two of each side make every pair of statements race; the proofs
cover any number. KVStore: keys collide in tables of 1, 2 and 4 chains and part
later; one move per command leaves ht2 alive over several commands; the proofs
cover all parameters. Container: eight nodes make trees of depth four, in which
a deletion rotates and a node with two children moves before it is replaced; a
deletion that rotates on two levels needs a tree of about twelve nodes and is not
among them. ZSet: four names are the least with a path that turns twice; scores
tie and part; offsets pass either end from every place. LockFreeStack: three
threads hold one node at once, and five calls are enough to delete it and push it
again under a popper that read it before; `MaxCount` cuts off the rounds in which
two poppers make each other fail, which have no end in the code either. Echo: kernel buffers shorter than a message cut every
message; `k_max_msg` is 18 so that all answered queries together fit in half of
rbuf, as the messages of `client.cpp` do (longer ones are `EchoLong`).

Programs: four numbers give every order, ties, and numbers below the sentinel; a
heap of six has inner nodes with one child and with two. Threadsafe: the calls of a
run are chosen so that they meet: pops race for the last value, a value is pushed
between a test and a sleep, a `remove_if` follows a walk through the list. The
lock-free queue stops at `MaxRefs` references. Parallel: blocks that do not divide
evenly, with the match or the exception in every position, a matrix that does not fill its
tiles (so that both barriers matter and edges are padded), pools with no, one and
two workers and one that cannot start its second.

*Deadlock* is checked in `ATM` (only `Terminated` may stop), `MessageQueue`
(only `Quiet`), `MCKVStore` (never), `MCPrograms` (only a program that has printed, which
`Ended` lets stay), `MCThreadsafe` (only when
calls are done or wait for a push, or the lock-free queue is at its bound). `ZSet` stops in
`"undefined"`, `MCLockFreeStack` when its calls are made, `MCParallel` when a call has returned or waits for a pool
without workers (`EveryCallEnds` says that nothing else does). A server waits for ever for a silent
client, so the connection runs do not check it.

*Fairness.* Weak fairness of each thread: the operating system schedules a thread
that can run, and a mutex promises no more. Weak fairness is enough for the
queue because a thread can take the mutex only finitely often while another
waits. Nothing makes a user press a key, a client send a command, hang up or start
over. The clients of `Connection` are fair. `BackToPoll` does not depend on it: it
holds of a client that stops writing, does not read or leaves, as a blocked write
returns and so does a read of nothing. It excepts the client that goes on writing
for ever, and has to: `state_req` reads until EAGAIN, and a client whose next bytes
are always there in time keeps the only thread (see 5).

*Liveness checked*: `QuitTerminates`, `WaitsEnd` (ATM), the fairness part of
`FifoSpec`, `CommandsEnd` (KVStore), `BackToPoll`, `EveryQueryAnswered` (echo),
`EveryCallEnds` (Parallel: weak fairness of each thread; a worker that spins on
`try_pop` and `yield` does not keep the others from running).

Each property has a mutant, an operator `<Definition>_<What>` next to the
definition it replaces: a forgotten debit, a dropped reset, a notification left
out. TLC finds the property violated with it.

## 4. Proofs

For every value of the constants, under their named assumptions:

- **MessageQueueProofs.** `IInv`: a thread inside a critical section owns the
  mutex, what it read of the container is still so when it writes it back, and
  the sleepers are the threads at `c.wait()`. `TypeOK` and `NoLostWakeup` alone
  are not inductive: that `PushWrite` puts back what nobody else has changed
  needs the mutex. From it `TypeCorrect`, `WakeupsAreNotLost`, and
  `ImplementsFifo`: each step is a push, a pop or a stutter of `FifoQueue`.
- **KVStoreProofs.** First what `h_insert` and `h_detach` do to a well-formed
  table: its nodes, its count, its order. `IInv`: both tables well-formed and disjoint, the chains
  before `resizing_pos` empty, each node with a value, and `LoadInv`. The last is
  why a resizing is over in time: with a node of ht2 counted twice the load is
  below the capacity between commands; an insertion adds one, and the move of a
  node that follows takes one off. From it `TypeCorrect`, `StructureSafe`,
  `ResizingStaysInBounds`, `ResizingKeepsUp` and `ImplementsMap`.
- **ATMProofs.** The properties relate what a thread remembers to messages that
  are still queued, and say nothing of messages that would contradict it later;
  so none of them is inductive. `Flow` says which messages each queue may hold
  and which sends each thread may still have to make, given its state
  (`cancel_pressed` is the last of the user's). `OneOfEach`: until the user has
  quit, `InFlight` of the request and its answers is one while the state that
  waits for them is there, and zero otherwise. `PinAsked`: a PIN on its way to
  the bank is the one of this session, and an answer on its way back is the
  answer to it. `MoneyInv`: what has been handed out, what is on its way and
  what is `Lost` add up to what was debited. The lemmas are about counting
  messages in queues and outboxes when one is taken or sent (`CountIn`,
  `InFlightTotal`, `TotalChange`). From these `TypeCorrect`, `OneRequest`,
  `OnlyVerified`, `NothingForFree` and `NothingLost`.
  The second part is about the display. `DialogueInv` is `MoneyInv` with
  `AnswersTrue` (while a balance is on its way to the atm it is the account's, and
  nothing waits to be debited; while a refusal is, the account cannot pay) and
  `Shows`: the messages in the terminal's queue, and those the atm will still send
  in this state, lead from the screen that is shown along the dialogue, `InOrder`
  for the queue and `GoesOn` for what follows it. The dialogue alone is not
  inductive because a screen is decided on several messages before it is shown.
  The lemmas are about what is left when the head of the queue is shown or a
  message is put behind (`Left`, `LastShown`, `Read`). From it `BalanceTrue` and
  `KeepsDialogue`, the refinement of `Dialogue`, step by step.
- **LockFreeStackProofs.** `IInv` is `TypeOK` and: there is a sequence `c` of nodes,
  the chain from `head`, such that (`Safe(c)`) the chain is linked, a node that is
  being pushed belongs to its pusher alone, every popper holds a reference to a
  node that exists, and the two counts add up: on the chain (`StackCount`) and for the
  thread that has just taken a node off (`TakersCount`) the references held are
  the external count, less one, plus `internal_count`; for any other node
  (`RestCount`) they are `internal_count`, and there is at least one. `NoUseAfterDelete` alone is not inductive: that a node with
  count zero is used by nobody follows only from the counting. `ChainIs` shows
  `c` to be the chain of the model. From it `UseAfterDelete`, `Leak` and
  `Linearizable`: the exchange of `head` is the push or the pop, everything else
  a stutter.
- **EchoServerProofs.** `IInv` is `TypeOK`, `Control` (state and place in the code
  against the buffers) and: there is a number `k` of answered queries such that
  `rbuf` and then `c2s` are what the client has sent behind the `k`-th query and,
  until it hangs up, what it received, `s2c` and the unsent part of `wbuf` are what
  it sent up to there. `BytesConserved` and `WholeQueriesOnly` alone do not say that
  `rbuf` begins where a query begins, without which `try_one_request` takes any
  four bytes for a length. The lemmas are about the places of the queries in the
  stream (`FlattenSeq`) and about cutting sequences. From it `Conservation`,
  `OnlyWhole` and `StateSaysWork`. `AssertionsHold` cannot follow: it is true of
  messages that fit in half of `rbuf` and false of others (`EchoLong`). `NoAbort`
  is what is true of every server: the assertions hold while the client has at
  most half of `rbuf` sent and not answered (`ShortWindow`, a hypothesis about the
  client that `client.cpp` with its three short messages meets). A bound on each
  message would not do, because complete queries can stay in `rbuf` after an answer
  that had to wait. `AssertInv` adds that what the server still has is no more than
  what has been sent and not come back, also after the client has hung up.
- **QueueProofs, ListProofs, ThreadsafeProofs.** `KindInv` is the invariant of the
  container the threads share, and none of the three properties is inductive
  without it.
  *Queues* (`FineInv`, `CoarseInv`, `ListInv`, `DummyInv`): `Calling` says which
  calls a thread still has to make, so that the value of a push is new; `Keeps`
  that a value pushed is in the container or returned. `FineList(c)`: the nodes
  from `head` to `tail` are a sequence `c` without repetition, linked one to the
  next; `FineSafe(t)`: a thread between its lock and its unlock holds the mutex,
  what it read of `head` and `tail` is still so, and the node it has allocated or
  taken off is outside `c` and its own. In `CoarseInv`, while somebody sleeps there
  are as many `Servers`, who will pop or will wake one who pops, as values.
  *List* (`WalkInv`): the nodes from `head` are such a sequence; of the
  nodes a thread has pointers to it holds the mutexes the code takes hand over
  hand, so nobody passes it and nobody unlinks what it stands on; a node unlinked
  belongs to the thread that frees it; what a walk has seen is not ahead of it, and
  each value that was there when it began is seen, removed or ahead.
  *Table* (`TableInv`): a writer has the mutex of its bucket, `get_map` those of
  all buckets below the one it is at, and what it has copied is still so.
  From these `NothingForgottenHolds`, `NoUseAfterFreeHolds`, `ReadersSeeAllHolds`,
  and `QueuesAreAtomic`: each step of a queue is a push, a pop, an answer
  or a stutter of `AtomicQueue` (`Does`). Pushes take effect where `tail`
  moves on, pops where `head` does, an answer that there is nothing where
  `head` is compared with `tail`. The lemmas are about linked lists: what is left
  when the first or an inner node is taken out, or one is put in (`LinkedRest`,
  `LinkedRemove`, `LinkedInsert`, `LinkedMore`).

Assumptions: finitely many keys with natural hash codes, a positive amount of
work, load factor and first size; disjoint pushers and poppers; positive PIN
length and amount; finitely many threads and nodes of the stack; for the
containers finitely many threads, each with a sequence of the container's calls,
natural keys, a bucket at least, and a null pointer that is no address and no
value (for `QueuesAreAtomic` some bound on the calls, as `AtomicQueue` has a
set of values); for the echo
server a header and kernel buffers of at least a byte, queries of any lengths, and
answers as long as they. TLC evaluates each of them in the runs. Induction over numbers, where
a lemma needs it, is `SetInduction` of that module, proved from cardinalities of
finite sets.

*Only model-checked*: liveness and fairness; the trees
(`Container`, `ZSet`); `QueueSpec` for the lock-free queue, which is true of it only
up to the first use of a deleted node; the parallel
algorithms; the sequential programs. The last are written with RECURSIVE
operators, about which the prover cannot reason; what a tree or a list is defined
by recursion on its nodes, which needs induction over data. That the loops of
`avl_fix` and `avl_offset` end is not checked as such: neither run has fairness.

## 5. Findings

- `EchoLong`: `assert(conn->rbuf_size <= sizeof(conn->rbuf) - conn->rbuf_size)`
  (chapter6/server.cpp:198) ends the server when a legal message fills more than
  half of `rbuf`.
- `RedisServer`: `return (conn->state = STATE_REQ);` (chapter9/server.cpp:96)
  assigns. An answer sent in part waits, and the next one overwrites it.
- `Scores`: `out_dbl(std::string &out, int64_t val)` (chapter11/serialization.hpp:37)
  truncates the score it is given and writes the bytes of an integer, which the client
  copies into a double (line 126) and reads as a denormal number, or 0; so `test_cmds.py:16-17`
  (`zscore zset n1`, `(dbl) 1.1`) cannot be met. It then prints the double with
  `"(double) %ld"`, which is undefined.

Beside these, the models reach the following, of which no document of the
repository says otherwise; they are told with the hazards:

- `threadsafe_queue.cpp:15`: `notify_one` without `head_mutex` can fall between
  the test of a popper and its sleep; the popper then sleeps at a queue that is
  not empty until the next push.
- `lockfree_queue.cpp:62`: `= +count_increase` loses references that were
  released before; nodes are used after they are deleted within two pushes and two
  pops. `:119`: a push whose `old_tail` has been popped in the meantime puts its
  value where no pop looks. `:94`: a pop of an empty queue keeps its reference.
- `parallel_find.cpp:79`: the caller looks at `done_flag` before the others are
  joined, and another thread may be between `set_value` and the flag: `last` is
  returned though there is a match, even one in the caller's own block.
- `quciksort.cpp:54`: the vector of threads is used by several threads without a lock.
- `thread_pool.cpp:26`: with `hardware_concurrency()` 0 no task is ever run.
- `chapter6/server.cpp:207`: `state_req` calls `try_fill_buffer` until there is nothing
  to read. A client that sends its next query as soon as it has an answer, or before,
  can keep the server from its poll loop for as long as it likes: without its first
  disjunct `BackToPoll` is violated by the cycle through `ClientStartsOver`.
- `sort3.c:21`: the three numbers are sorted after each `scanf`, together with what was
  in `a[2]` and `a[3]`; the next `scanf` overwrites a number that was moved. 5 3 7 over
  zeros is printed as 0 3 7.
- `insertion_sort.c:25`, `shellsort.c`, `quicksort.c`: `a[N]`, which was not read,
  takes part in the sort; if it is not the largest, it is printed and the largest
  number is not.

## 6. Not modelled

`clear_last_pressed` (no key sends it), the end of input in `main`'s `getchar`
loop, the copies of the cash machine's parts beside `main.cpp`, failures of
`accept`, `malloc` and `poll`, memory orders weaker than sequential consistency,
exceptions of a comparison in the sorts, the reading and writing of images, and the
components PROJECT.json lists as `not_modelled`: the blocking servers of
chapters 3 and 4, which serve one connection at a time and are superseded by
chapter 6, and the listings beside `main.cpp`. `threadsafe_stack.cpp` appears only as the
stack of chunks of `Parallel`.

## 7. Plan

Done: every safety property of the cash machine, of its queue, of the hash table,
of the lock-free stack, of the containers of chapter 6 and of the echo server is a
theorem (the assertions of the last under a hypothesis about the client), with the refinements of `FifoQueue`, `KVMap`,
`Dialogue`, `Stack` and `AtomicQueue`.

1. Connections: a passing run of `RedisServer` for queries that arrive whole;
   its refinement to one answer per query.
2. `HoldsAllocated` of `Container`: the nodes reachable from the root are those in
   use.
3. The blocking servers of chapters 3 and 4.
