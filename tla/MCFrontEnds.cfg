SPECIFICATION FairFrontEnds
CONSTANTS
    Part = {"jmap", "milter", "maildir"}
    Connection = {"c1", "c2"}
    Message = {"m1", "m2"}
    MaxParts = 2
    NoMessage = None
    Separator = Separator
    MaxMessage = 3
    PageSize = 2
    Setup <- MCSetup
    MaxErrors = 1
    Id <- MCId
    About <- MCAbout
    Scans <- MCScans
    Gone = None
    MaxMoves = 1
INVARIANTS
    GivenWhole
    NothingOverlooked
PROPERTIES
    PassEnds
    NothingMissed
    MailIsAccepted
