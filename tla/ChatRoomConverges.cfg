\* Two devices in one discussion, with fairness.
SPECIFICATION FairSpec
CONSTANTS
    Device = {ann, bob}
    Room = {cafe}
    None = None
    MaxSent <- OneSendsOne
    MaxLoads = 2
    MaxQueue = 1
    MaxPopped = 0
    MaxDeleted = 1
PROPERTIES
    Convergence
