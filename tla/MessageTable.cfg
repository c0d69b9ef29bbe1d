\* Two other users, two cells, rooms of at most two messages.
SPECIFICATION Spec
CONSTANTS
    Other = {ann, bob}
    Me = me
    None = None
    Cell = {c1, c2}
    Document <- ShortDocuments
    MaxLen = 2
    MaxQueue = 1
    MaxWaits = 3
SYMMETRY UsersAndCells
VIEW ButLabels
INVARIANTS
    TypeOK
    StaleTableIsReloaded
    BlockFindsItsCell
    AskedOnce
    PictureComes
