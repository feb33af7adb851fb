SPECIFICATION FrontEndsSpec
CONSTANTS
    Part = {"jmap"}
    Connection = {"c1", "c2"}
    Message = {"m1", "m2"}
    MaxParts = 2
    NoMessage = None
    Separator = Separator
    MaxMessage = 3
    PageSize = 2
    Setup <- OnlyOnce
    MaxErrors = 1
    Id <- MCId
    About <- MCAbout
    Scans <- MCScans
    Gone = None
    MaxMoves = 1
INVARIANTS
    FailedStaysUnmarked
