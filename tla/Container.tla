------------------------------ MODULE Container ------------------------------
(***************************************************************************)
(* The Container of build_redis/chapter11/avl.hpp: a tree of Data nodes    *)
(* ordered by val, of which several may be equal.  A node in memory has a  *)
(* fixed val here: which of the free nodes new returns makes no difference. *)
(***************************************************************************)
EXTENDS AVL

CONSTANT Val   \* the val of each node

VARIABLES
    allocated,   \* the Data objects made by new and not deleted
    deleting     \* the object del will delete, or Null

vars == <<treeVars, allocated, deleting>>

\* add(c, Val[new])
add(new) ==
    /\ pc = "idle"
    /\ new \notin allocated
    /\ allocated' = allocated \cup {new}
    /\ Attach(new, [n \in Node |-> IF Val[new] < Val[n] THEN "left" ELSE "right"])
    /\ UNCHANGED deleting

\* The node at which the loop of del stops, Null when there is none.
Find(val) ==
    LET down[n \in Node] ==
          LET child == IF val < Val[n] THEN tree[n].left ELSE tree[n].right
          IN  IF val = Val[n] THEN n ELSE IF child = Null THEN Null ELSE down[child]
    IN  IF root = Null THEN Null ELSE down[root]

\* A val that is not there changes nothing, and is no step.
del(val) ==
    /\ pc = "idle"
    /\ Find(val) # Null
    /\ cur' = Find(val)
    /\ deleting' = cur'
    /\ pc' = "del"
    /\ UNCHANGED <<tree, root, calls, allocated>>

\* add is done; del deletes the object.  (What is in free memory is forgotten.)
Return ==
    /\ Fixed
    /\ allocated' = allocated \ {deleting}
    /\ tree' = [n \in Node |-> IF n = deleting THEN NewNode ELSE tree[n]]
    /\ deleting' = Null
    /\ cur' = Null
    /\ pc' = "idle"
    /\ UNCHANGED <<root, calls>>

Init == InitTree /\ allocated = {} /\ deleting = Null

Next ==
    \/ \E n \in Node : add(n) \/ del(Val[n])
    \/ Rebalance /\ UNCHANGED <<allocated, deleting>>
    \/ Return

Spec == Init /\ [][Next]_vars

------------------------------------------------------------------------------
(* Properties *)

\* What test_avl.cpp verifies after each operation, of every tree and in any
\* order of operations: pointers, depths, counts, balance and order.
Verified ==
    pc = "idle" =>
        /\ TreeVerified
        /\ \A i, j \in DOMAIN InOrder : i < j => Val[InOrder[i]] <= Val[InOrder[j]]

\* The tree holds the objects that are allocated, each once: del leaves none
\* out, deletes none that is still linked, and finds every val that is there.
HoldsAllocated ==
    pc = "idle" =>
        /\ InTree = allocated /\ Len(InOrder) = Cardinality(allocated)
        /\ \A n \in allocated : Find(Val[n]) # Null
==============================================================================
