SPECIFICATION ArchivesSpec
CONSTANTS
    Part = {"reindex"}
    Worker = {w1, w2}
    Holder = {h1, h2, h3}
    Ticket = {"first", "second", "third"}
    Ext = {"pdf", "pkpass"}
    ExtOf <- MCExtOf
    TicketDate <- MCTicketDate
    TicketSetup <- MCTicketSetup
    Receipt = {"r1", "r2", "r3", "r4"}
    Order = {"o"}
    OrderOf <- MCOrderOf
    YearOf <- MCYearOf
    ReceiptDate <- MCReceiptDate
    HasDocument = {"r1", "r2", "r3"}
    How <- MCHow
    MaxSent = 3
    Planner = {"v1", "v2"}
    Booking = {"m1", "m2", "m3"}
    Leg = {"l1", "l2", "l3"}
    LegsOf <- MCLegsOf
    Complete = {"m1", "m2"}
    BookingDate <- MCBookingDate
    BookingSetup <- MCBookingSetup
    Indexer = {"x1", "x2"}
    IndexedLeg = {"l1", "l2"}
    OldName = {"o1", "o2", "o3"}
    Rank <- MCRank
    Disk <- MCDisk
    LegMail <- MCLegMail
    Company <- MCCompany
    None = None
    Corrupt = Corrupt
    Mail <- MCMail
    DateOf <- MCDateOf
    StatusOf <- MCStatusOf
    TimeOf <- MCTimeOf
    HasCarrier = {"done", "quiet", "again"}
    Tracker = {"karrio", "seventeentrack"}
    MaxHistory = 4
    NoDate = None
    NoStatus = None
    NoRecord = None
    NoMail = None
SYMMETRY Symmetry
PROPERTIES
    NewerIsKept
