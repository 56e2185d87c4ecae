CONSTANTS
    QueueSize = 4
    MaxLinks = 2
    MaxUnread = 2
    Points = 1
    CoordinateCount <- MCCoordinateCount
    MaxWaypoints = 3
    NoPath = NoPath
    NoCount = NoCount
    NoMessage = NoMessage

SPECIFICATION FairSpec

INVARIANTS
    TypeOK
    NoStaleEvents
    StatusIsMode
    MessagesInOrder
    OneStaleAtMost
    AsleepAtHome

PROPERTIES
    SessionStarts
    SessionEnds
