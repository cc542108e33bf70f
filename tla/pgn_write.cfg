CONSTANTS
    c1 = c1
    c2 = c2
    e1 = e1
    e2 = e2
    Entries = {e1}
    Clients = {c1, c2}
    PathsOf <- OnePath
    Texts = {a, b}
    Torn = Torn
    MaxGames = 3
    MaxWrites = 2
    MaxTrouble = 1
    None = None
SPECIFICATION Spec
SYMMETRY PageSymmetry
INVARIANTS
    TypeOK
    IndexIsTrue
    KnownIsTrue
    WorkingHasJob
    WorkIsKept
PROPERTIES FileAsPromised
CHECK_DEADLOCK FALSE
