SPECIFICATION Spec
CONSTANTS
    Thread = {0, 1, 2, 3}
    Null = Null
    Input <- MCInput
    min_per_thread = 2
    TILE_WIDTH = 2
    Throws = Throws
    Exception = Exception
    Terminated = Terminated
    Undefined = Undefined
    last = last
INVARIANT ResultsRight
PROPERTY EveryCallEnds
CHECK_DEADLOCK FALSE
