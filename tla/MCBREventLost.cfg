SPECIFICATION FairSpec
CONSTANTS
    c1 = c1
    c2 = c2
    Event = {e1}
    NoEvent = NoEvent
    Client = {c1, c2}
    Thread = {t1}
    NoThread = NoThread
    Calls <- LightNodeCalls
    MaxSignals = 2
PROPERTIES SignalledIsHandled
CHECK_DEADLOCK FALSE
