CONSTANTS
    QueueSize = 4
    NumMessages <- NB_SETUP_MESSAGES

SPECIFICATION FairSpec

INVARIANTS
    TypeOK
    AttemptIsWhole
    SetupIsConsistent

PROPERTY SetupEnds

CHECK_DEADLOCK FALSE
