SPECIFICATION FairSpec
CONSTANTS
    Rooms = {r1}
    NoRoom = NoRoom
    MaxAttempts = 1
    MaxFetches = 1
PROPERTIES
    Reauthenticates
