SPECIFICATION ConvergeSpec
CONSTANTS
    Host = host
    Guest = guest
    Peers = {host, guest}
    Speeds = {1, 2}
    NormalSpeed = 1
    Window = 1
    Cooldown = 1
    MaxActs = 2
    MaxDrops = 0
PROPERTIES
    SpeedsConverge
    CommandsEnd
