SPECIFICATION Spec
CONSTANTS
    Sessions = {s1, s2, s3}
    Sockets = {w1, w2, w3}
    Pids = {1, 2, 3, 4, 5}
    NoSession = NoSession
    MaxParticipants = 2
    RoomTtl = 1
    AuthTimeout = 1
    MinAlarmDelay = 1
SYMMETRY Symmetry
INVARIANTS
    TypeOK
    OneHost
    Capacity
    OnePidOnePerson
    NoGhostPeers
    RemovedRoomIsEmpty
PROPERTIES
    RowsOutliveConnections
