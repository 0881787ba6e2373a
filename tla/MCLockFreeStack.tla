--------------------------- MODULE MCLockFreeStack ---------------------------
(* Three threads in any order of pushes and pops: three poppers meet in one  *)
(* node, and a node that is deleted is pushed again.                         *)
EXTENDS LockFreeStack, TLC

CONSTANTS t1, t2, t3, n1, n2

MCThread == {t1, t2, t3}
MCNode == {n1, n2}
MCSymmetry == Permutations(MCThread) \cup Permutations(MCNode)
==============================================================================
