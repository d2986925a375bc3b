SPECIFICATION FairSpec
CONSTANTS
    Peer = {p1, p2}
    Tx = {t1}
    None = None
    Height = 1
    MaxConnect = 2
    MaxFailures = 2
    MaxPublish = 1
    MaxFaults = 1
INVARIANTS TypeOK AnsweredOnce ToldIsTimed
PROPERTIES Answered
