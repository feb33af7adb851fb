SPECIFICATION MCFairSpec
CONSTANTS
    Worker = {w1, w2, w3}
    Process <- MCProcess
    ProcessOf <- MCProcessOf
    Dir <- MCDir
    DirOf <- MCDirOf
    Message <- MCMessage
    Path <- MCPath
    PathOf <- MCPathOf
    DateOf <- MCDateOf
    NoDate = NoDate
    NoFile = NoFile
    Corrupt = Corrupt
    Nobody = Nobody
    NoMessage = NoMessage
    w1 = w1
    w2 = w2
    w3 = w3
    milter = milter
    scan = scan
    bill = bill
    letter = letter
    year = year
    old = old
    new = new
    late = late
    plain = plain
INVARIANTS
    IInv
    NewestOnFile
PROPERTIES
    NeverTruncated
    ImplementsNewestWins
    EveryFilingEnds
