\* The threads stop when they have made MaxOps calls.
CHECK_DEADLOCK FALSE
SPECIFICATION Spec
SYMMETRY MCSymmetry
CONSTANTS
    t1 = t1
    t2 = t2
    t3 = t3
    n1 = n1
    n2 = n2
    Thread <- MCThread
    Node <- MCNode
    Value = {1, 2}
    Null = Null
    MaxOps = 5
    MaxCount = 5
INVARIANTS
    NoUseAfterDelete
    NoLeak
PROPERTY StackSpec
