SPECIFICATION FairSpec
CONSTANTS
    Rooms = {r1, r2}
    NoRoom = NoRoom
    MaxAttempts = 1
    MaxFetches = 1
INVARIANTS
    TypeOK
    BridgeExclusive
    HeartbeatOnlyInRoom
    ConnectedIsTrue
    NotThereWhenIdle
    AuthFirst
    ViewAgrees
PROPERTIES
    AttemptsEnd
