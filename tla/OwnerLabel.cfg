\* Two other users, one cell.
SPECIFICATION Spec
CONSTANTS
    Other = {ann, bob}
    Me = me
    None = None
    Cell = {c1}
    Document <- ShortDocuments
    MaxLen = 2
    MaxQueue = 1
    MaxWaits = 2
INVARIANT NameGoesWithPicture
