CONSTANTS
    Dbs = {d1}
    Clients = {c1, c2}
    MaxGen = 2
    MaxTrouble = 2
    Damage = TRUE
    None = None
SPECIFICATION Spec
INVARIANT BuildKeepsItsFiles
