\* A server waits for ever for a client that has nothing to say.
CHECK_DEADLOCK FALSE
SPECIFICATION Spec
CONSTANTS
    HeaderSize = 2
    k_max_msg = 3
    QueryLen <- LongQueryLen
    AnswerLen <- LongQueryLen
    SockBuf = 3
INVARIANTS
    AssertionsHold
