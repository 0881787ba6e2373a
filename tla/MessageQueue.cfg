\* The program has one popper for each queue; two make the mutex matter on the
\* popping side as well.
SPECIFICATION Spec
CONSTANTS
    Pushers = {p1, p2}
    Poppers = {r1, r2}
    NoThread = NoThread
    MaxPushes = 2
    MaxSpurious = 1
INVARIANTS
    TypeOK
    NoLostWakeup
PROPERTIES
    FifoSpec
