SPECIFICATION Spec
CONSTANTS
    Worker = {w1, w2}
    MayFail = {FALSE, TRUE}
    Payee <- MCPayee
    PayeeOf <- MCPayeeOf
    Message <- MCMessage
    Path <- MCPath
    PathOf <- MCPathOf
    DateOf <- MCDateOf
    HasAmount <- MCHasAmount
    HasBlob <- MCHasBlob
    NoDate = NoDate
    NoFile = NoFile
    Corrupt = Corrupt
    NoMessage = NoMessage
    energy = energy
    phone = phone
    e1 = e1
    e2 = e2
    p1 = p1
    first = first
    second = second
    reminder = reminder
    other = other
    undated = undated
SYMMETRY Symmetry
INVARIANTS
    RegisteredWasNewest
PROPERTIES
    DocumentsKept
