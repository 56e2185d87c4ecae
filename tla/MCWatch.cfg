CONSTANTS
    Debounce = 2
    Wrap = 6

SPECIFICATION FairLoopSpec

INVARIANT LoopTypeOK

PROPERTIES
    PressesApart
    OnlyAskedFor
    EndedByOwnPress
    HomePressIsServed
