SPECIFICATION UnhurriedSpec
CONSTANTS
    Host = host
    Guest = guest
    Peers = {host, guest}
    Speeds = {1}
    NormalSpeed = 1
    Window = 1
    Cooldown = 1
    MaxActs = 3
    MaxDrops = 2
INVARIANTS
    AgreeOnPause
