SPECIFICATION FairSpec
CONSTANTS
    Thread = {t1, t2, t3}
    Free = Free
    Announcer = Announcer
    Wallets = 2
INVARIANTS
    TypeOK OneRoutine ClientWhilePolling LockInRound AtMostOneLateRequest
PROPERTIES
    DisconnectEnds
