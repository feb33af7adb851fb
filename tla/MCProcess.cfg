SPECIFICATION FairProcess
CONSTANTS
    Part = {"pipeline", "extractor", "discovery", "stats", "summary", "oauth2", "startup", "dashboard"}
    None = None
    NoDomain = None
    NoSubject = None
    NoName = None
    NoMessage = None
    Garbled = Garbled
    Unknown = None
    Extractor <- MCExtractor
    Mail <- MCMail
    Output <- MCOutput
    Config <- MCConfig
    Scripts <- MCScripts
    PipeCapacity = 1
    Stdin = 2
    Listing <- MCListing
    Only <- MCOnly
    Unlistable = None
    Writer = {"s1", "s2"}
    RETENTION = 1
    PRUNE_INTERVAL = 2
    PRUNE_MIN = 1
    MaxTime = 3
    MaxEvents = 3
    Event <- MCEvent
    NoDuration = None
    RECENT_DOMAINS_KEEP = 2
    MaxLines = 4
    Input <- MCInput
    Nothing = None
    PAGE_SIZE = 1
    FEED_HOMEPAGE_LIMIT = 1
    Configs <- MCConfigs
    Disks <- MCDisks
    Filings <- MCFilings
    Queries <- MCQueries
    MaxFilings = 1
    MaxMoves = 1
    MaxVisits = 1
    LastDay = 2
    Lifetime = {3, 6}
    EXPIRY_MARGIN = 2
    MaxTrip = 1
    MaxLogin = 1
    MaxLosses = 2
INVARIANTS
    OnlyAuthenticatedFiled
    NothingForgotten
    OutcomeIsTheChilds
    DiscoveryHolds
    RecentStayOnFile
    RowAgrees
    NeverPresentsExpired
    NothingSkipped
    AnswersAreTrue
    StartsAsConfigured
PROPERTIES
    RunReturns
    KeepsWatching
CHECK_DEADLOCK FALSE
