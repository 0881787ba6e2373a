------------------------------- MODULE Numbers -------------------------------
(***************************************************************************)
(* The programs of algorithms/intro and functional/chapter1, as functions  *)
(* from what they read to what they print.                                 *)
(***************************************************************************)
EXTENDS Integers, Sequences, SequencesExt

CONSTANT Undefined   \* the outcome of using memory that is gone

------------------------------------------------------------------------------
(* gcd.c and my_gcd.c, of two numbers above zero *)

RECURSIVE gcd(_, _)
gcd(u, v) ==
    IF u > 0
    THEN IF u < v THEN gcd(v - u, u) ELSE gcd(u - v, v)
    ELSE v

RECURSIVE my_gcd(_, _)
my_gcd(u, v) == IF v = 0 THEN u ELSE my_gcd(v, u % v)

------------------------------------------------------------------------------
(* sieve.c and sieve_multi.c: the numbers whose flag is left *)

sieve(N) ==
    (2..N) \ {i * j : i \in 2..(N \div 2), j \in 2..N}

Multiples(i, N) == {j \in (i * i)..N : j % i = 0}

sieve_multi(N) ==
    LET Strike(a, i) == IF i * i <= N /\ i \in a THEN a \ Multiples(i, N) ELSE a
    IN  FoldLeft(Strike, 2..N, [k \in 1..(N - 1) |-> k + 1])

------------------------------------------------------------------------------
(* josephus.c: a circle of nodes 1..N, whose t begins at the last *)

RECURSIVE Walk(_, _, _)
Walk(next, t, steps) == IF steps = 0 THEN t ELSE Walk(next, next[t], steps - 1)

\* Mutant of Eliminate: t goes M steps, not M - 1.
RECURSIVE Eliminate_OffByOne(_, _, _)
Eliminate_OffByOne(next, t, M) ==
    IF next[t] = t THEN <<t>>
    ELSE LET u == Walk(next, t, M)
         IN  <<next[u]>> \o Eliminate_OffByOne([next EXCEPT ![u] = next[next[u]]], u, M)

RECURSIVE Eliminate(_, _, _)
Eliminate(next, t, M) ==
    IF next[t] = t THEN <<t>>
    ELSE LET u == Walk(next, t, M - 1)
         IN  <<next[u]>> \o Eliminate([next EXCEPT ![u] = next[next[u]]], u, M)

josephus(N, M) == Eliminate([t \in 1..N |-> (t % N) + 1], N, M)

------------------------------------------------------------------------------
(* postfix.c.  A token is a character, or a number together with the       *)
(* character behind it, which the loop over the digits reads and drops.    *)
(* (A ")" that finds nothing on the stack would free z.)                   *)

postfix(tokens) ==
    LET Read(s, c) ==
          CASE c = ")" -> [stack |-> Front(s.stack), out |-> Append(s.out, Last(s.stack))]
            [] c \in {"+", "*"} -> [s EXCEPT !.stack = Append(s.stack, c)]
            [] c = "(" -> s
            [] OTHER -> [s EXCEPT !.out = Append(s.out, c)]
    IN  FoldLeft(Read, [stack |-> <<>>, out |-> <<>>], tokens).out

------------------------------------------------------------------------------
(* list_array.c and list_node.c: a list between head and z.  An edit is an *)
(* insertafter or a deletenext at the place of a node, 0 for head, or a    *)
(* deletelist; the cells of list_node are numbered as those of list_array. *)

head == 0
z == 1

listinitialize == [next |-> [c \in {head, z} |-> z], key |-> [c \in {head, z} |-> 0], x |-> 2]

RECURSIVE NodeAt(_, _)
NodeAt(l, place) == IF place = 0 THEN head ELSE l.next[NodeAt(l, place - 1)]

deletenext(l, t) == [l EXCEPT !.next[t] = l.next[l.next[t]]]

insertafter(l, v, t) ==
    [next |-> [l.next EXCEPT ![t] = l.x] @@ (l.x :> l.next[t]),
     key |-> l.key @@ (l.x :> v),
     x |-> l.x + 1]

ArrayEdit(l, e) ==
    LET t == NodeAt(l, e.place)
    IN  IF e.op = "delete" THEN deletenext(l, t) ELSE insertafter(l, e.v, t)

\* deletenext of list_node gives the node back, z like any other.
NodeEdit(l, e) ==
    IF l = Undefined THEN l
    ELSE CASE e.op = "clear" -> [l EXCEPT !.next[head] = z]
           [] e.op = "delete" /\ l.next[NodeAt(l, e.place)] = z -> Undefined
           [] OTHER -> ArrayEdit(l, e)

RECURSIVE KeysFrom(_, _)
KeysFrom(l, c) == IF c = z THEN <<>> ELSE <<l.key[c]>> \o KeysFrom(l, l.next[c])

Listed(l) == IF l = Undefined THEN l ELSE KeysFrom(l, l.next[head])

list_array(edits) == Listed(FoldLeft(ArrayEdit, listinitialize, edits))
list_node(edits) == Listed(FoldLeft(NodeEdit, listinitialize, edits))

------------------------------------------------------------------------------
(* counts.cpp: the lines of each file, in four ways *)

count_lines(file) == Len(SelectSeq(file, LAMBDA c : c = "\n"))

count_procedural(files) ==
    LET Count(results, file) ==
          Append(results, FoldLeft(LAMBDA n, c : IF c = "\n" THEN n + 1 ELSE n, 0, file))
    IN  FoldLeft(Count, <<>>, files)

\* (The loop over the files is written twice.)
count_lines_in_files(files) ==
    FlattenSeq([f \in DOMAIN files |-> [g \in DOMAIN files |-> count_lines(files[g])]])

count_transform(files) == [f \in DOMAIN files |-> count_lines(files[f])]
==============================================================================
