CONSTANTS
    Interfaces = {TRUE}
    Ages = {0}
    MaxCommands = 0
    MaxEvents = 5

SPECIFICATION Spec

INVARIANT DetachedOnlyWhileFull
