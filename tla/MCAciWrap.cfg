CONSTANTS
    Interfaces = {TRUE}
    Ages = {251}
    MaxCommands = 0
    MaxEvents = 10

SPECIFICATION Spec

INVARIANT NeverSpins
