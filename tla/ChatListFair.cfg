\* A creator and an observer, with fairness.
SPECIFICATION FairSpec
CONSTANTS
    Device = {ann, bob}
    Name = {"cafe"}
    MaxChats = 1
    MaxMaps = 1
    MaxQueue = 1
    MaxOutbox = 3
    Creators = {ann}
PROPERTIES
    EventuallyListed
    EntryGoesOnce
