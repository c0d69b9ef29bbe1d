\* One device, two chats, two map screens; loads may fail.
SPECIFICATION Spec
CONSTANTS
    Device = {ann}
    Name = {"cafe", "park"}
    MaxChats = 2
    MaxMaps = 2
    MaxQueue = 2
    MaxOutbox = 3
    Creators = {ann}
INVARIANTS
    TypeOK
    ListCovers
    ListBounded
    PinsCover
