CONSTANTS
    Dbs = {d1, d2}
    Clients = {c1}
    MaxGen = 2
    MaxTrouble = 1
    Damage = TRUE
    None = None
SPECIFICATION Spec
SYMMETRY DbSymmetry
INVARIANTS
    TypeOK
    WorkingHasBuild
    QueuesHaveThread
    RequestStopsBackground
