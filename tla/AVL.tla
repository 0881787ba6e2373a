--------------------------------- MODULE AVL ---------------------------------
(***************************************************************************)
(* The AVL tree of build_redis/chapter11/avl.hpp (the same in chapter 10): *)
(* nodes with pointers to both children and to the parent, a depth and a   *)
(* count.  avl_fix and avl_del are modelled one iteration, and one call of  *)
(* the recursion, at a time; the containers that call them, Container.tla  *)
(* and ZSet.tla, extend this module.                                       *)
(***************************************************************************)
EXTENDS Integers, Sequences, FiniteSets

CONSTANTS
    Node,   \* the nodes in memory
    Null

ASSUME AVLAssumption == Null \notin Node

VARIABLES
    tree,   \* what is in each AVLNode
    root,   \* the tree's root, or the node avl_fix or avl_del returned
    pc,     \* what the running operation does next
    cur,    \* the node it is at
    calls   \* avl_del's that wait for the one they called: <<node, victim>>

treeVars == <<tree, root, pc, cur, calls>>

\* avl_init
NewNode == [left |-> Null, right |-> Null, parent |-> Null, depth |-> 1, cnt |-> 1]

Other == [left |-> "right", right |-> "left"]
SideOf(t, n) == IF t[t[n].parent].left = n THEN "left" ELSE "right"

avl_depth(t, n) == IF n = Null THEN 0 ELSE t[n].depth
avl_cnt(t, n) == IF n = Null THEN 0 ELSE t[n].cnt

avl_update(t, n) ==
    LET l == t[n].left  r == t[n].right
        deeper == IF avl_depth(t, l) < avl_depth(t, r) THEN r ELSE l
    IN  [t EXCEPT ![n].depth = 1 + avl_depth(t, deeper),
                  ![n].cnt = 1 + avl_cnt(t, l) + avl_cnt(t, r)]

\* The child of n on one side takes the place of n: rot_right for "left",
\* rot_left for "right".  The pointer to n is the caller's to change.
rot(t, n, side) ==
    LET new == t[n][side]
        inner == t[new][Other[side]]
        linked == [x \in Node |->
            CASE x = n     -> [t[n] EXCEPT ![side] = inner, !.parent = new]
              [] x = new   -> [t[new] EXCEPT ![Other[side]] = n, !.parent = t[n].parent]
              [] x = inner -> [t[inner] EXCEPT !.parent = n]
              [] OTHER     -> t[x]]
    IN  avl_update(avl_update(linked, n), new)

\* avl_fix_left and avl_fix_right: the subtree on the given side of n is too
\* deep; it is rotated first when its inner side is what makes it so.
avl_fix_side(t, n, side) ==
    LET child == t[n][side]
        inner == t[child][Other[side]]
    IN  IF avl_depth(t, t[child][side]) < avl_depth(t, inner)
        THEN rot([rot(t, child, Other[side]) EXCEPT ![n][side] = inner], n, side)
        ELSE rot(t, n, side)

\* Mutant of TooDeep: an imbalance of two is left alone on the right.
TooDeep_OneSided(t, n) ==
    {side \in {"left"} :
        avl_depth(t, t[n][side]) = avl_depth(t, t[n][Other[side]]) + 2}

\* The side of n that is two deeper than the other, if there is one.
TooDeep(t, n) ==
    {side \in {"left", "right"} :
        avl_depth(t, t[n][side]) = avl_depth(t, t[n][Other[side]]) + 2}

\* Pointing the parent of n (if any) at another node.
Redirect(t, n, to) ==
    IF t[n].parent = Null THEN t ELSE [t EXCEPT ![t[n].parent][SideOf(t, n)] = to]

------------------------------------------------------------------------------
(* avl_fix: one node on the way up *)

avl_fix ==
    /\ pc = "fix"
    /\ LET updated == avl_update(tree, cur)
           deep == TooDeep(updated, cur)
           fixed == IF deep = {} THEN updated
                    ELSE avl_fix_side(updated, cur, CHOOSE side \in deep : TRUE)
           top == IF deep = {} THEN cur ELSE fixed[cur].parent
           parent == tree[cur].parent
       IN  IF parent = Null
           THEN tree' = fixed /\ root' = top /\ pc' = "fixed" /\ UNCHANGED cur
           ELSE /\ tree' = [fixed EXCEPT ![parent][SideOf(tree, cur)] = top]
                /\ cur' = parent
                /\ UNCHANGED <<root, pc>>
    /\ UNCHANGED calls

------------------------------------------------------------------------------
(* avl_del of cur, pc = "del"; it ends with pc = "fixed" *)

\* The node the loop of avl_del stops at.
Leftmost(t, n) ==
    LET down[x \in Node] == IF t[x].left = Null THEN x ELSE down[t[x].left] IN down[n]

\* No right child: the left one takes the node's place.
Unlink ==
    /\ pc = "del"
    /\ tree[cur].right = Null
    /\ LET left == tree[cur].left
           parent == tree[cur].parent
           lifted == IF left = Null THEN tree ELSE [tree EXCEPT ![left].parent = parent]
       IN  IF parent = Null
           THEN tree' = lifted /\ root' = left /\ pc' = "fixed" /\ UNCHANGED cur
           ELSE tree' = Redirect(lifted, cur, left) /\ cur' = parent /\ pc' = "fix"
                /\ UNCHANGED root
    /\ UNCHANGED calls

\* Otherwise its successor is deleted from its place ...
CallForVictim ==
    /\ pc = "del"
    /\ tree[cur].right # Null
    /\ LET victim == Leftmost(tree, tree[cur].right)
       IN  calls' = Append(calls, [node |-> cur, victim |-> victim]) /\ cur' = victim
    /\ UNCHANGED <<tree, root, pc>>

\* Mutant of Replaced: the children keep their old parent.
Replaced_KeepsParents(t, n, by) == Redirect([t EXCEPT ![by] = t[n]], n, by)

\* A node takes over the fields, the children and the parent of another.
Replaced(t, n, by) ==
    Redirect([x \in Node |-> IF x = by THEN t[n]
                             ELSE IF x \in {t[n].left, t[n].right}
                                  THEN [t[x] EXCEPT !.parent = by] ELSE t[x]], n, by)

\* ... and put into the place of the node, wherever avl_fix has moved it.
ReplaceByVictim ==
    /\ pc = "fixed"
    /\ calls # <<>>
    /\ LET call == calls[Len(calls)]
       IN  /\ tree' = Replaced(tree, call.node, call.victim)
           /\ root' = IF tree[call.node].parent = Null THEN call.victim ELSE root
    /\ calls' = SubSeq(calls, 1, Len(calls) - 1)
    /\ UNCHANGED <<pc, cur>>

Rebalance == avl_fix \/ Unlink \/ CallForVictim \/ ReplaceByVictim

\* The operation that called avl_fix or avl_del goes on.
Fixed == pc = "fixed" /\ calls = <<>>

------------------------------------------------------------------------------
(* Putting a node into the tree, by add of avl.hpp and tree_add of zset.hpp *)

\* The node under which the loop of both ends, when side says for each node on
\* which side of it the new one belongs.
Place(side) ==
    LET down[n \in Node] == IF tree[n][side[n]] = Null THEN n ELSE down[tree[n][side[n]]]
    IN  down[root]

Attach(new, side) ==
    IF root = Null
    THEN /\ tree' = [tree EXCEPT ![new] = NewNode]
         /\ root' = new
         /\ pc' = "fixed"
         /\ UNCHANGED <<cur, calls>>
    ELSE LET place == Place(side)
         IN  /\ tree' = [tree EXCEPT ![place][side[place]] = new,
                                     ![new] = [NewNode EXCEPT !.parent = place]]
             /\ cur' = new
             /\ pc' = "fix"
             /\ UNCHANGED <<root, calls>>

------------------------------------------------------------------------------
InitTree ==
    /\ tree = [n \in Node |-> NewNode]
    /\ root = Null
    /\ pc = "idle"
    /\ cur = Null
    /\ calls = <<>>

------------------------------------------------------------------------------
(* When a tree is in order *)

TreeTypeOK ==
    /\ tree \in [Node -> [left : Node \cup {Null}, right : Node \cup {Null},
                          parent : Node \cup {Null}, depth : 1..Cardinality(Node),
                          cnt : 1..Cardinality(Node)]]
    /\ root \in Node \cup {Null}
    /\ cur \in Node \cup {Null}
    /\ calls \in Seq([node : Node, victim : Node])

\* The nodes of the subtrees of n from left to right.
InOrder ==
    LET walk[n \in Node, fuel \in 0..Cardinality(Node)] ==
          LET sub(c) == IF c = Null \/ fuel = 0 THEN <<>> ELSE walk[c, fuel - 1]
          IN  sub(tree[n].left) \o <<n>> \o sub(tree[n].right)
    IN  IF root = Null THEN <<>> ELSE walk[root, Cardinality(Node)]

InTree == {InOrder[i] : i \in DOMAIN InOrder}

\* What avl_verify of test_avl.cpp asserts of a node, its value aside.
NodeVerified(n) ==
    LET l == tree[n].left  r == tree[n].right
        dl == avl_depth(tree, l)  dr == avl_depth(tree, r)
    IN  /\ \A child \in {l, r} \ {Null} : tree[child].parent = n
        /\ tree[n].cnt = 1 + avl_cnt(tree, l) + avl_cnt(tree, r)
        /\ dl - dr \in -1..1
        /\ tree[n].depth = 1 + IF dl < dr THEN dr ELSE dl

TreeVerified ==
    /\ root # Null => tree[root].parent = Null
    /\ \A n \in InTree : NodeVerified(n)
==============================================================================
