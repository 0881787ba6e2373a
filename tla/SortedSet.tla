------------------------------ MODULE SortedSet ------------------------------
(***************************************************************************)
(* What the sorted set promises: names with a score each, and queries by   *)
(* place in the order of (score, name).                                    *)
(***************************************************************************)
EXTENDS Integers, FiniteSets

CONSTANTS Name, Score, Offset, Null

VARIABLES
    scores,   \* the score of each name, Null when it is not in the set
    reply     \* the operation that has been answered, or NoReply

Members == {n \in Name : scores[n] # Null}

Less(s, n, t, m) == s < t \/ (s = t /\ n < m)

\* How many members are before (s, n).
Rank(s, n) == Cardinality({m \in Members : Less(scores[m], m, s, n)})

NoReply == [op |-> "none", args |-> <<>>, answer |-> Null]

Answer(op, args, answer) ==
    /\ reply = NoReply
    /\ reply' = [op |-> op, args |-> args, answer |-> answer]

Add(n, s) ==
    /\ scores' = [scores EXCEPT ![n] = s]
    /\ Answer("add", <<n, s>>, scores[n] = Null)

Lookup(n) == Answer("lookup", <<n>>, scores[n]) /\ UNCHANGED scores

\* The member so many places after the first that is not before (s, n).
At(s, n, offset) ==
    LET there == {m \in Members : Rank(scores[m], m) = Rank(s, n) + offset}
    IN  IF Rank(s, n) = Cardinality(Members) \/ there = {} THEN Null
        ELSE CHOOSE m \in there : TRUE

Query(s, n, offset) ==
    Answer("query", <<s, n, offset>>, At(s, n, offset)) /\ UNCHANGED scores

\* The caller has its answer.
Return == reply # NoReply /\ reply' = NoReply /\ UNCHANGED scores

Init == scores = [n \in Name |-> Null] /\ reply = NoReply

Next ==
    \/ \E n \in Name :
        \/ Lookup(n)
        \/ \E s \in Score : Add(n, s) \/ \E offset \in Offset : Query(s, n, offset)
    \/ Return

Spec == Init /\ [][Next]_<<scores, reply>>
==============================================================================
