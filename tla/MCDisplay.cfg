CONSTANTS
    SpeedLengths = {3, 5}
    DistanceLengths = {1, 5}
    CountLengths = {5, 6}
    Clocks <- MCClocks
    Spills = {0, 3}

SPECIFICATION Spec

INVARIANTS
    TypeOK
    PageIsShown
