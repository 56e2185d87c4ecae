CONSTANTS
    Text <- MCText
    Float <- MCFloat
    Atoi <- MCAtoi
    Atof <- MCAtof
    MaxWaypoints = 2
    TornByte = {}
    Garbage = Garbage
    NoPath = NoPath
    NoCount = NoCount

SPECIFICATION Spec

INVARIANTS
    TypeOK
    SessionConsistent
    ReaderSeesNoGarbage
    SuccessMeansStored

PROPERTY StoresPaths
