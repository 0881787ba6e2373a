SPECIFICATION Spec
CONSTANTS
    Input <- ScoresInput
    Unprinted = Unprinted
    Undefined = Undefined
    BadReq = BadReq
    NotANumber = NotANumber
    Denormal = Denormal
    SentinelKey = 9
    Value = {1, 2, 3}
    MaxSize = 6
    IntMax = 9
    Block = 2
    BLUR_SIZE = 1
    k_max_msg = 60
    k_max_args = 200
    DbKey <- MCDbKey
    Text <- MCText
    Name = {1, 2, 3}
    Score = {10, 11}
    Limit <- MCLimit
    Offset <- MCOffset
    Node <- MCNode
    Val <- MCVal
    Null = Null
INVARIANT ScoresReadBack
