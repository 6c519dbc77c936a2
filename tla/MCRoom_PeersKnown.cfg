SPECIFICATION Spec
CONSTANTS
    Sessions = {s1, s2}
    Sockets = {w1, w2, w3}
    Pids = {1, 2, 3, 4, 5}
    NoSession = NoSession
    MaxParticipants = 2
    RoomTtl = 2
    AuthTimeout = 1
    MinAlarmDelay = 1
INVARIANT PeersKnown
