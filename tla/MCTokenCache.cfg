CONSTANTS
    Threads = {t1, t2, t3}
    Lifetime = 5
    Margin = 3
    AnswerTime = 1
    CallTime = 4
SPECIFICATION Spec
INVARIANTS
    TypeOK
    BeliefIsClose
PROPERTIES
    ExpiresOnlyIfSlow
    RenewalsAreInOrder
    WaitersMakeProgress
