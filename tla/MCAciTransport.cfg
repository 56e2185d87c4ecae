CONSTANTS
    Interfaces = {TRUE, FALSE}
    Ages = {0, 251}
    MaxCommands = 5
    MaxEvents = 5

SPECIFICATION FairSpec

INVARIANTS
    TypeOK
    NeverSpins
    EventsInOrder
    CommandsInOrder

PROPERTIES
    EventsDelivered
    CommandsHeard
