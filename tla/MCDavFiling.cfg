SPECIFICATION Spec
CONSTANTS
    Worker = {w1, w2}
    Event <- MCEvent
    Uid <- MCUid
    UidOf <- MCUidOf
    Url <- MCUrl
    UrlOf <- MCUrlOf
    DateOf <- MCDateOf
    NoDate = NoDate
    Absent = Absent
    Sink = {"caldav", "webdav"}
    StrongTags = TRUE
    UserMay = {"save", "delete"}
    MaxAttempts = 2
    MaxResends = 1
    MaxAbandoned = 1
    flight = flight
    party = party
    default = default
    inbox = inbox
    old = old
    new = new
    plain = plain
SYMMETRY Symmetry
INVARIANTS
    SeenIsFiled
PROPERTIES
    NeverOverwritesNewer
