CONSTANTS
    Dbs = {d1}
    Clients = {c1, c2}
    MaxGen = 2
    MaxTrouble = 1
    Damage = FALSE
    None = None
SPECIFICATION LiveSpec
INVARIANTS
    OneBuild
    BuildKeepsItsFiles
PROPERTIES
    FailureIsLeftAlone
    KeeperCatchesUp
