CONSTANTS
    c1 = c1
    c2 = c2
    e1 = e1
    e2 = e2
    Entries = {e1, e2}
    Clients = {c1, c2}
    PathsOf <- TwoPaths
    Texts = {a}
    Torn = Torn
    MaxGames = 2
    MaxWrites = 2
    MaxTrouble = 0
    None = None
SPECIFICATION LiveSpec
PROPERTIES
    
    RequestsEnd
CHECK_DEADLOCK FALSE
