SPECIFICATION FairSpec
CONSTANTS
    Token = {}
    Ether = Ether
    NotAssigned = 99
    MaxTx = 2
    MaxMined = 2
    MaxBlock = 1
PROPERTIES MinedIsBlocked
CHECK_DEADLOCK FALSE
