\* Three profiles in a cache for two, two lookups at a time.
SPECIFICATION Spec
CONSTANTS
    User = {ann, bob, eve}
    None = None
    Capacity = 3
    Slot = {s1, s2}
    MaxDate = 2
SYMMETRY UsersAndSlots
INVARIANTS
    TypeOK
    SentinelFirst
    OwnProfile
    CacheBounded
