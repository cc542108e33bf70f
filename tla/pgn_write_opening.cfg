CONSTANTS
    c1 = c1
    c2 = c2
    e1 = e1
    e2 = e2
    Entries = {e1}
    Clients = {c1, c2}
    PathsOf <- OnePath
    Texts = {a}
    Torn = Torn
    MaxGames = 3
    MaxWrites = 1
    MaxTrouble = 0
    None = None
SPECIFICATION Spec
PROPERTY StaysOpen
CHECK_DEADLOCK FALSE
