\* Two devices in one discussion.
SPECIFICATION Spec
CONSTANTS
    Device = {ann, bob}
    Room = {cafe}
    None = None
    MaxSent <- EachSendsOne
    MaxLoads = 2
    MaxQueue = 1
    MaxPopped = 0
    MaxDeleted = 1
SYMMETRY DevicesAndRooms
INVARIANTS
    OneHistory
    QuietIsCurrent
PROPERTIES
    ImplementsRoomHistory
