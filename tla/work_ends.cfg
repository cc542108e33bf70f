CONSTANTS
    Parts = {"settle", "workers", "engine", "turns"}
    Serials = {download}
    IndexQueue = index
    Own = own
    LookKind = look
    Jobs = {j1, j2}
    MaxPanics = 0
    Nowhere = Nowhere
    s1 = s1
    s2 = s2
    Searches = {s1, s2}
    Build = b
    StreamOf <- MCStreamOf
    Pool = 1
    Budget = 2
    Batches = 1
    a1 = a1
    a2 = a2
    v1 = v1
    v2 = v2
    Analyses = {a1, a2}
    WarmUps = {}
    Views = {v1, v2}
    ViewOf <- MCViewOf
    MaxEngines = 1
    MaxLines = 1
    MaxUpsets = 1
    Nobody = Nobody
    d1 = d1
    Databases = {d1}
    Windows <- MCWindows
    Folders <- MCFolders
    Readers = {r1}
    MaxChanges = 0
    MaxFaults = 0
    Absent = Absent
    Clients = {c1}
    Threads = {t1}
    MaxGen = 1
    MaxBuild = 1
    MaxTrouble = 0
    None = None
    Writers = {p1, p2}
    Units = 3
    Room = 1
    Sizes = {1}
    MaxPieces = 1
    MaxFailures = 1
    MaxCollectors = 3
    Games = 6
    PartCount = 6
    LineOf <- MCLineOf
    Crowded = {3}
    Rooms = {20, 21, 42}
    MinEntries = 4
    Choosers = {u1}
    Installs = {i1}
    Looker = look1
    MaxVersion = 1
    Foreign = Foreign
    MaxTurns = 0
    NoTask = NoTask
SPECIFICATION FairSpec
PROPERTIES  PassesEnd NewestTakesEngine TurnsEnd
CHECK_DEADLOCK FALSE
