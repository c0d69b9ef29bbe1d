\* One device that moves between two discussions.
SPECIFICATION Spec
CONSTANTS
    Device = {ann}
    Room = {cafe, park}
    None = None
    MaxSent <- EachSendsTwo
    MaxLoads = 2
    MaxQueue = 1
    MaxPopped = 1
    MaxDeleted = 1
SYMMETRY DevicesAndRooms
INVARIANTS
    TypeOK
    SenderOrder
    NoIdleListener
    OneHistory
