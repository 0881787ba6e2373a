SPECIFICATION Spec
CONSTANTS
    k1 = k1
    k2 = k2
    k3 = k3
    k4 = k4
    Key <- MCKey
    Hash <- MCHash
    Value = {v1, v2}
    Nil = Nil
    k_resizing_work = 1
    k_max_load_factor = 1
    InitialBuckets = 1
INVARIANTS
    TypeOK
    Structure
    ResizingPosInBounds
    LoadBounded
PROPERTIES
    MapSpec
    CommandsEnd
