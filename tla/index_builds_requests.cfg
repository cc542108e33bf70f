CONSTANTS
    Dbs = {d1, d2}
    Clients = {c1}
    MaxGen = 2
    MaxTrouble = 0
    Damage = FALSE
    None = None
SPECIFICATION LiveSpec
PROPERTY RequestedBuildEnds
