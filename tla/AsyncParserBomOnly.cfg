\* An input that is a byte order mark and nothing else.
CONSTANTS
    p = p  c = c  s1 = s1  s2 = s2  q = q  w1 = w1  w2 = w2
    Producers = {p}
    Cancellers = {}
    OnHandler = {}
    Starters = {s1}
    Askers = {}
    Workers = {w1}
    Options <- Strict
    BomOnly = TRUE
    EarlyCancel = TRUE
    MaxBuffers = 2
    MaxDocs = 1
    MaxWaits = 0
    MaxAbandoned = 1
SPECIFICATION FairSpec
PROPERTY EOFStopsParser
CHECK_DEADLOCK FALSE
