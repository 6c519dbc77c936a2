SPECIFICATION LiveSpec
CONSTANTS
    Sessions = {s1, s2}
    Sockets = {w1, w2}
    Pids = {1, 2, 3, 4, 5}
    NoSession = NoSession
    MaxParticipants = 2
    RoomTtl = 3
    AuthTimeout = 2
    MinAlarmDelay = 1
INVARIANTS
    AlarmArmed
    AuthDeadlineCovered
PROPERTIES
    AuthDecided
    RoomCleanedUp
