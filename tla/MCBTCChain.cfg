SPECIFICATION Spec
CONSTANTS
    Tx <- MCTx
    Inputs <- MCInputs
    Outputs <- MCOutputs
    Replaceable <- MCReplaceable
    LockTime <- MCLockTime
    GapLimit <- MCGapLimit
    Block <- MCBlock
    Prev <- MCPrev
    Height <- MCHeight
    Matched <- MCMatched
    Checkpoints = {"c0", "a2"}
    BadTarget = {"x1"}
    Start = "c0"
    Interval = 2
    PeerHeights = {2, 4}
    BestHeights = {4}
    Spread = {"t3"}
    MaxEvents = 1
CHECK_DEADLOCK FALSE
INVARIANTS
    TypeOK
    HeightSorted
    WalletMatchesChain
    NoDoubleSpend
    NothingLost
    JoinFound
    NoStuckOrphan
PROPERTIES
    RemovedWithDependents
