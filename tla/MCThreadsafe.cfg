SPECIFICATION Spec
CONSTANTS
    t1 = t1
    t2 = t2
    t3 = t3
    Thread = {t1, t2, t3}
    Null = Null
    Jobs <- MCJobs
    MaxCalls = 6
    Key = {0, 1, 2}
    num_buckets = 2
    MaxRefs = 4
INVARIANTS
    NothingForgotten
    NoUseAfterFree
    ReadersSeeAll
PROPERTY QueueSpec
