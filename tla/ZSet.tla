-------------------------------- MODULE ZSet --------------------------------
(***************************************************************************)
(* The sorted set of build_redis/chapter11/zset.hpp: every ZNode is in a   *)
(* tree ordered by (score, name) and in a hash map by name.  The map is    *)
(* taken for what KVStore shows it to be, a set of nodes; a name, one node *)
(* for each, is a number that gives its place in the order of memcmp.      *)
(***************************************************************************)
EXTENDS AVL

CONSTANTS
    Score,     \* the scores
    MaxOffset  \* bound: the offsets of queries, to either side

ASSUME ZSetAssumption == Node \subseteq Nat /\ Score \subseteq Nat /\ MaxOffset \in Nat

Offset == -MaxOffset..MaxOffset

VARIABLES
    hmap,    \* the nodes in the map
    score,   \* ZNode::score
    adding,  \* the new score zset_update has for the node it took out, or Null
    pos,     \* where avl_offset is, counted from the node it began at
    offset,  \* where it has to go
    query,   \* the arguments of zset_query
    reply    \* the operation that is about to return, and its answer

setVars == <<hmap, score, adding>>
offsetVars == <<pos, offset, query>>
vars == <<treeVars, setVars, offsetVars, reply>>

NoReply == [op |-> "none", args |-> <<>>, answer |-> Null]

Answer(op, args, answer) == reply' = [op |-> op, args |-> args, answer |-> answer]

\* zless, for nodes whose scores are given.
zless(scores, a, b) == scores[a] < scores[b] \/ (scores[a] = scores[b] /\ a < b)

\* zset_lookup: an empty tree is an empty set.
Found(name) == root # Null /\ name \in hmap

zset_lookup(name) ==
    /\ pc = "idle"
    /\ Answer("lookup", <<name>>, IF Found(name) THEN score[name] ELSE Null)
    /\ pc' = "fixed"
    /\ UNCHANGED <<tree, root, cur, calls, setVars, offsetVars>>

------------------------------------------------------------------------------
(* zset_add.  Its answer is recorded where it is decided; the single thread *)
(* executes nothing else before it returns.                                 *)

tree_add(node, scores) ==
    Attach(node, [n \in Node |-> IF zless(scores, node, n) THEN "left" ELSE "right"])

\* A new name.
AddNew(name, s) ==
    /\ pc = "idle"
    /\ ~Found(name)
    /\ hmap' = hmap \cup {name}
    /\ score' = [score EXCEPT ![name] = s]
    /\ tree_add(name, score')
    /\ Answer("add", <<name, s>>, TRUE)
    /\ UNCHANGED <<adding, offsetVars>>

\* znode_new has no return statement: what zset_add goes on with need not be
\* the node, and then anything may happen.
ReturnsNothing(name) ==
    /\ pc = "idle"
    /\ ~Found(name)
    /\ pc' = "undefined"
    /\ UNCHANGED <<tree, root, cur, calls, setVars, offsetVars, reply>>

SameScore(name, s) ==
    /\ pc = "idle"
    /\ Found(name)
    /\ score[name] = s
    /\ Answer("add", <<name, s>>, FALSE)
    /\ pc' = "fixed"
    /\ UNCHANGED <<tree, root, cur, calls, setVars, offsetVars>>

\* Mutant of zset_update: the score is changed where the node is.
zset_update_InPlace(name, s) ==
    /\ pc = "idle"
    /\ Found(name)
    /\ score[name] # s
    /\ score' = [score EXCEPT ![name] = s]
    /\ Answer("add", <<name, s>>, FALSE)
    /\ pc' = "fixed"
    /\ UNCHANGED <<tree, root, cur, calls, hmap, adding, offsetVars>>

\* Another score: the node is taken out of the tree ...
zset_update(name, s) ==
    /\ pc = "idle"
    /\ Found(name)
    /\ score[name] # s
    /\ pc' = "del"
    /\ cur' = name
    /\ adding' = [name |-> name, score |-> s]
    /\ UNCHANGED <<tree, root, calls, hmap, score, offsetVars, reply>>

\* ... and put back with it.
AddAgain ==
    /\ Fixed
    /\ adding # Null
    /\ score' = [score EXCEPT ![adding.name] = adding.score]
    /\ tree_add(adding.name, score')
    /\ adding' = Null
    /\ Answer("add", <<adding.name, adding.score>>, FALSE)
    /\ UNCHANGED <<hmap, offsetVars>>

\* The operation is done.
Return ==
    /\ Fixed
    /\ adding = Null
    /\ pc' = "idle"
    /\ cur' = Null
    /\ reply' = NoReply
    /\ UNCHANGED <<tree, root, calls, setVars, offsetVars>>

------------------------------------------------------------------------------
(* zset_query *)

\* The node its loop ends with: the first that is not before (s, name).
SeekGE(s, name) ==
    LET Before(n) == score[n] < s \/ (score[n] = s /\ n < name)
        down[n \in Node] ==
            LET child == IF Before(n) THEN tree[n].right ELSE tree[n].left
                below == IF child = Null THEN Null ELSE down[child]
            IN  IF below = Null /\ ~Before(n) THEN n ELSE below
    IN  IF root = Null THEN Null ELSE down[root]

zset_query(s, name, off) ==
    /\ pc = "idle"
    /\ query' = <<s, name, off>>
    /\ cur' = SeekGE(s, name)
    /\ pos' = 0
    /\ offset' = off
    /\ pc' = "offset"
    /\ UNCHANGED <<tree, root, calls, setVars, reply>>

\* avl_offset has come to its end, or there is nothing to begin with.
QueryAnswers(answer) ==
    /\ Answer("query", query, answer)
    /\ pc' = "fixed"
    /\ cur' = Null
    /\ pos' = 0
    /\ offset' = 0
    /\ query' = <<>>
    /\ UNCHANGED <<tree, root, calls, setVars>>

WalkEnds ==
    /\ pc = "offset"
    /\ cur = Null \/ offset = pos
    /\ QueryAnswers(cur)

Walking == pc = "offset" /\ cur # Null /\ offset # pos

\* What is wanted is below cur, to the right or to the left.
InRight == pos < offset /\ pos + avl_cnt(tree, tree[cur].right) >= offset
InLeft == pos > offset /\ pos - avl_cnt(tree, tree[cur].left) <= offset

WalkDown ==
    /\ Walking
    /\ InRight \/ InLeft
    /\ cur' = IF InRight THEN tree[cur].right ELSE tree[cur].left
    /\ pos' = IF InRight THEN pos + avl_cnt(tree, tree[cur'].left) + 1
                         ELSE pos - avl_cnt(tree, tree[cur'].right) - 1
    /\ UNCHANGED <<tree, root, pc, calls, setVars, offset, query, reply>>

\* Mutant of PosOfParent: the parent itself is not counted.
PosOfParent_Short ==
    IF tree[tree[cur].parent].right = cur
    THEN pos - avl_cnt(tree, tree[cur].left)
    ELSE pos + avl_cnt(tree, tree[cur].right)

\* The place of the parent of cur.
PosOfParent ==
    IF tree[tree[cur].parent].right = cur
    THEN pos - avl_cnt(tree, tree[cur].left) - 1
    ELSE pos + avl_cnt(tree, tree[cur].right) + 1

WalkUp ==
    /\ Walking
    /\ ~InRight /\ ~InLeft
    /\ IF tree[cur].parent = Null
       THEN QueryAnswers(Null)
       ELSE /\ cur' = tree[cur].parent
            /\ pos' = PosOfParent
            /\ UNCHANGED <<tree, root, pc, calls, setVars, offset, query, reply>>

------------------------------------------------------------------------------
Init ==
    /\ InitTree
    /\ hmap = {}
    /\ score = [n \in Node |-> 0]
    /\ adding = Null
    /\ pos = 0
    /\ offset = 0
    /\ query = <<>>
    /\ reply = NoReply

Call(name) ==
    \/ zset_lookup(name)
    \/ ReturnsNothing(name)
    \/ \E s \in Score :
        \/ AddNew(name, s) \/ SameScore(name, s) \/ zset_update(name, s)
        \/ \E off \in Offset : zset_query(s, name, off)

Next ==
    \/ \E name \in Node : Call(name)
    \/ Rebalance /\ UNCHANGED <<setVars, offsetVars, reply>>
    \/ AddAgain \/ Return \/ WalkEnds \/ WalkDown \/ WalkUp

Spec == Init /\ [][Next]_vars

------------------------------------------------------------------------------
(* Properties *)

\* The tree and the map hold the same nodes, the tree each of them once and
\* in the order of zless, with pointers, depths and counts right.
TreeMatchesMap ==
    pc = "idle" =>
        /\ InTree = hmap /\ Len(InOrder) = Cardinality(hmap)
        /\ TreeVerified
        /\ \A i, j \in DOMAIN InOrder : i < j => zless(score, InOrder[i], InOrder[j])

\* Every operation answers as a sorted sequence of (score, name) would, for
\* every offset to either side of every place; an update is atomic.
Sorted == INSTANCE SortedSet WITH
    Name <- Node, scores <- [n \in Node |-> IF n \in hmap THEN score[n] ELSE Null]
SortedSetSpec == Sorted!Spec
==============================================================================
