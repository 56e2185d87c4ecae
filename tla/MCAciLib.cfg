CONSTANTS
    QueueSize = 2
    MaxEvents = 3
    Stale = Stale
    RemotePipes <- MCRemotePipes
    OpenSets <- MCOpenSets
    Intervals <- MCIntervals

SPECIFICATION Spec

INVARIANTS
    TypeOK
    CommandIsWhatWasAsked
    EventReadAsSent
    ViewCatchesUp
