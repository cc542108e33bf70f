CONSTANTS
    Parts = {"settle", "workers", "engine", "catalog", "folder", "turns", "passes", "choices"}
    Serials = {download, heads}
    IndexQueue = index
    Own = own
    LookKind = look
    Jobs = {j1, j2}
    MaxPanics = 1
    Nowhere = Nowhere
    s1 = s1
    s2 = s2
    Searches = {s1, s2}
    Build = b
    StreamOf <- MCStreamOf
    Pool = 2
    Budget = 3
    Batches = 2
    a1 = a1
    a2 = a2
    v1 = v1
    v2 = v2
    Analyses = {a1, a2}
    WarmUps = {w1}
    Views = {v1, v2}
    ViewOf <- MCViewOf
    MaxEngines = 2
    MaxLines = 1
    MaxUpsets = 1
    Nobody = Nobody
    d1 = d1
    Databases = {d1}
    Windows <- MCWindows
    Folders <- MCFolders
    Readers = {r1, r2}
    MaxChanges = 2
    MaxFaults = 1
    Absent = Absent
    Clients = {c1}
    Threads = {t1, t2}
    MaxGen = 2
    MaxBuild = 2
    MaxTrouble = 1
    None = None
    Writers = {p1, p2}
    Units = 4
    Room = 2
    Sizes = {1, 3}
    MaxPieces = 2
    MaxFailures = 1
    MaxCollectors = 3
    Games = 6
    PartCount = 6
    LineOf <- MCLineOf
    Crowded = {3}
    Rooms = {20, 21, 42}
    MinEntries = 4
    Choosers = {u1}
    Installs = {i1}
    Looker = look1
    MaxVersion = 3
    Foreign = Foreign
    MaxTurns = 2
    NoTask = NoTask
SPECIFICATION Spec
INVARIANTS
    PartsTypeOK
    OneThreadWhileJobsWait
    QuietOnceSettled
    
    GivesWayToWorkOnly
    BestMoveOfItsSearch
    SearchesForHolder
    OneDownload
    FilesOfOneBuild
    MasksHaveOneThread
    KeptWithinRoom
    EveryEntryOnce
    PassTakesItsFirstPart
    ChoiceStands
    ChosenBuildStays
PROPERTIES
    ListShowsSources
    PiecesInOrder
    OffStaysOff
SYMMETRY Symmetry
CHECK_DEADLOCK FALSE
