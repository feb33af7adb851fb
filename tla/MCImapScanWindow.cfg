SPECIFICATION Spec
CONSTANTS
    MaxUid = 3
    MaxValidity = 1
    Batch = 2
    Extractor = {ics, klm}
    Wants <- MCWants
    Garbled = {}
    Hopeless = {}
    Window = {2, 3}
    Limit = 3
    KeepsPosition = FALSE
    NoCursor = NoCursor
    ics = ics
    klm = klm
INVARIANTS
    OnlyWindow
