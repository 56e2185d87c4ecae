CONSTANTS
    SerialSize = 4
    NmeaSize = 5
    MaxLines = 3
    Fix = {1, 3}
    Nul = Nul
    Sayings <- MCSayings

SPECIFICATION FairSpec

INVARIANTS
    TypeOK
    OncePerLine
    PositionIsRead

PROPERTY LastLineUsed
