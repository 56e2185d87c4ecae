CONSTANTS
    Place <- MCPlace
    Distance <- MCDistance
    Image <- MCImage
    Nowhere = Nowhere
    MaxInt = 32767
    MaxLines = 4

SPECIFICATION Spec

INVARIANTS
    TypeOK
    RouteFollowed
