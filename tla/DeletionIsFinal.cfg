\* A deleted room against a participant who is still in it.
SPECIFICATION Spec
CONSTANTS
    Device = {ann, bob}
    Room = {cafe}
    None = None
    MaxSent <- EachSendsOne
    MaxLoads = 2
    MaxQueue = 1
    MaxPopped = 0
    MaxDeleted = 1
PROPERTIES
    DeletionIsFinal
