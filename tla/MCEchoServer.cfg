\* A server waits for ever for a client that has nothing to say.
CHECK_DEADLOCK FALSE
SPECIFICATION Spec
CONSTANTS
    HeaderSize = 2
    k_max_msg = 18
    QueryLen <- MCQueryLen
    AnswerLen <- MCQueryLen
    SockBuf = 3
INVARIANTS
    AssertionsHold
    StateTellsWork
    BytesConserved
    WholeQueriesOnly
PROPERTIES
    BackToPoll
    EveryQueryAnswered
