----------------------------- MODULE MCPrograms -----------------------------
(* Inputs for each program: numbers on both sides of the sentinel, arrays   *)
(* that make shellsort take two increments, odd and even lists, expressions *)
(* of depth two, grids that do not divide the image, damaged requests.      *)
EXTENDS Programs

Numbers0 == {-2, -1, 1, 2}
SeqsUpTo(S, n) == UNION {[1..k -> S] : k \in 0..n}

ReadAll == [numbers : SeqsUpTo(Numbers0, 4), garbage : Numbers0]
LongRuns == [numbers : [1..9 -> {-2, 3}], garbage : {0}]

Num(digit) == <<digit>>
Leaves == {[tokens |-> <<d>>, postfix |-> <<d>>] : d \in {"1", "2"}}
Trees(of) ==
    {[tokens |-> <<"(">> \o l.tokens \o <<op>> \o r.tokens \o <<")">>,
      postfix |-> l.postfix \o r.postfix \o <<op>>] : l, r \in of, op \in {"+", "*"}}

\* Edits at places that are there (the place behind the last for no edit but an
\* insertafter): each k-th edit is made on a list of at most k - 1 nodes.
Edit(ops) ==
    {e \in [op : ops, place : 0..2, v : {1, 2}] : e.op # "insert" => e.v = 1}
LengthAfter(edits) ==
    FoldLeft(LAMBDA n, e : CASE e.op = "insert" -> IF e.place <= n THEN n + 1 ELSE -9
                             [] e.op = "clear" -> 0
                             [] OTHER -> IF e.place < n THEN n - 1
                                         ELSE IF e.place = n THEN n ELSE -9, 0, edits)
Edits(ops) == {edits \in SeqsUpTo(Edit(ops), 3) :
                 \A k \in 1..Len(edits) : LengthAfter(SubSeq(edits, 1, k)) >= 0}

Image(w, h, n) == [p \in 0..(w * h * n - 1) |-> (p * p) % 7]
Sizes == (1..3) \X (1..3)

\* A request, or one with a byte changed, cut off or added.
Cmds == SeqsUpTo(SeqsUpTo({7}, 2), 2)
Body(cmd0) == Redis!After(Redis!send_req(cmd0), 4)
Damaged(d) ==
    {d} \cup {[d EXCEPT ![i] = b] : i \in DOMAIN d, b \in 0..3}
        \cup {SubSeq(d, 1, n) : n \in 0..Len(d)} \cup {Append(d, b) : b \in 0..1}

MCInput == [
    insertion |-> ReadAll, pointers |-> ReadAll, quicksort |-> ReadAll,
    shellsort |-> ReadAll \cup LongRuns,
    selection |-> SeqsUpTo(Numbers0, 4),
    sort3 |-> [numbers : SeqsUpTo(Numbers0, 4), garbage : [1..2 -> Numbers0]],
    mergesort |-> SeqsUpTo({1, 2, 3}, 5),
    bottomup |-> SeqsUpTo({1, 2, 3}, 5),
    gcd |-> [u : 1..12, v : 1..12],
    sieve |-> 2..40,
    josephus |-> [N : 1..6, M : 1..8],
    postfix |-> Leaves \cup Trees(Leaves) \cup Trees(Leaves \cup Trees(Leaves)),
    list_array |-> Edits({"insert", "delete"}),
    list_node |-> Edits({"insert", "delete", "clear"}),
    counts |-> SeqsUpTo(SeqsUpTo({"a", "\n"}, 2), 2),
    vec_add |-> {[A |-> Image(n, 1, 1), B |-> Image(1, n, 1), n |-> n] : n \in 1..7},
    grayscale |-> {[A |-> Image(s[1], s[2], 3), w |-> s[1], h |-> s[2]] : s \in Sizes},
    blur |-> {[A |-> Image(s[1], s[2], 1), w |-> s[1], h |-> s[2]] : s \in Sizes},
    matmul |-> {[A |-> Image(n, n, 1), B |-> Image(n, 2 * n, 1), n |-> n] : n \in 1..3},
    requests |-> UNION {[cmd : {c}, data : Damaged(Body(c))] :
                          c \in {c \in Cmds : Redis!send_req(c) # <<>>}},
    heap |-> {"calls"},
    redis |-> {"calls"},
    container |-> {"calls"}]

\* The commands alone.
ScoresInput == [redis |-> {"calls"}]

MCOffset == -1..1
MCLimit == 0..3
MCText == {<<>>, <<5>>}
MCDbKey == {<<8>>}

\* Two of the eight nodes have the same value: trees of depth four, in which a
\* deletion rotates and moves a node with two children before it is replaced.
\* Rotations on two levels of one deletion need a dozen nodes.
MCNode == 1..8
MCVal == [n \in MCNode |-> IF n = 4 THEN 3 ELSE n]
=============================================================================
