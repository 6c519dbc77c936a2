SPECIFICATION RouterSpec
CONSTANTS
    Ips = {ip1, ip2}
    MaxRequests = 2
    Window = 2
    PruneInterval = 2
    Codes = {c1, c2}
    NoCode = NoCode
    MaxCodeRetries = 2
    RoomTtl = 1
INVARIANTS
    RouterTypeOK
    AtMostTwoWindows
    LimitedForCause
    OneCreator
PROPERTIES
    CreationAnswered
