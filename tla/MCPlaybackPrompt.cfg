SPECIFICATION PromptSpec
CONSTANTS
    Host = host
    Guest = guest
    Peers = {host, guest}
    Speeds = {1}
    NormalSpeed = 1
    Window = 1
    Cooldown = 1
    MaxActs = 1
    MaxDrops = 0
INVARIANTS
    TypeOK
PROPERTIES
    NoEcho
