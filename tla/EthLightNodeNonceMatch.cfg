SPECIFICATION Spec
CONSTANTS
    Token = {}
    Ether = Ether
    NotAssigned = 99
    MaxTx = 2
    MaxMined = 2
    MaxBlock = 2
INVARIANTS BlockedHashIsMined
CHECK_DEADLOCK FALSE
