\* A server waits for ever for a client that has nothing to say.
CHECK_DEADLOCK FALSE
SPECIFICATION Spec
CONSTANTS
    HeaderSize = 2
    k_max_msg = 18
    QueryLen <- MCQueryLen
    AnswerLen <- MCAnswerLen
    Malformed = {3}
    SockBuf = 4
INVARIANTS
    UnsentMeansSending
