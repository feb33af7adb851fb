SPECIFICATION FairSpec
CONSTANTS
    MaxUid = 3
    MaxValidity = 2
    Batch = 2
    Extractor = {ics, klm}
    Wants <- MCWants
    Garbled = {2}
    Hopeless = {3}
    Window = {1, 2, 3}
    Limit = 3
    KeepsPosition = TRUE
    NoCursor = NoCursor
    ics = ics
    klm = klm
INVARIANTS
    CursorMeansProcessed
    OnlyHopelessSkipped
PROPERTIES
    FetchesAreDue
    NothingMissed
