SPECIFICATION FairSpec
CONSTANTS
    Host = host
    Peers = {host}
    Speeds = {1, 2}
    NormalSpeed = 1
    Window = 1
    Cooldown = 5
    Threshold = 2
    Interval = 5
    Jumps = {3}
    MaxActs = 2
    MaxStall = 4
INVARIANTS
    TypeOK
    DriftIsShort
PROPERTIES
    NoNeedlessCorrection
    SettledTogether
