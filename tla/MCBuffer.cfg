CONSTANTS
    Clients = {c1, c2}
    Ids <- MCEightIds
    BlockSize = 2
    high_water_mark = 1
    max_retries = 1
SPECIFICATION Spec
CHECK_DEADLOCK FALSE
INVARIANTS NoSharedIds Accounted
PROPERTIES Settles Retriggers
