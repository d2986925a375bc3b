SPECIFICATION FairSpec
CONSTANTS
    c1 = c1
    c2 = c2
    Event = {e1, e2}
    NoEvent = NoEvent
    Client = {c1, c2}
    Thread = {t1, t2}
    NoThread = NoThread
    Calls <- AllCalls
    MaxSignals = 3
INVARIANTS TypeOK LockDiscipline NodesConserved FIFO
PROPERTIES ImplementsChannel TimedHandling
CHECK_DEADLOCK FALSE
