\* Two-digit PINs and money for one withdrawal and a half: the second is refused.
SPECIFICATION Spec
CONSTANTS
    PinLength = 2
    InitialBalance = 3
    Amount = 2
    MaxTypeAhead = 2
INVARIANTS
    TypeOK
    OnlyVerifiedSessions
    OneRequestPerWait
    NoFreeMoney
    NoMoneyLost
PROPERTIES
    BalanceShownIsCurrent
    DialogueSpec
    QuitTerminates
    WaitsEnd
CHECK_DEADLOCK TRUE
