\* Names and scores enough for a tree of depth three, equal scores, updates that
\* move a node past others, and offsets past either end.  After
\* znode_new has returned nothing in particular the model stops.
SPECIFICATION Spec
CONSTANTS
    Node = {1, 2, 3, 4}
    Score = {1, 2}
    MaxOffset = 4
    Null = Null
INVARIANT TreeMatchesMap
PROPERTY SortedSetSpec
CHECK_DEADLOCK FALSE
