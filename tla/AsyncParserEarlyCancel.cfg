\* cancel called while start is being called.
CONSTANTS
    p = p  c = c  s1 = s1  s2 = s2  q = q  w1 = w1  w2 = w2
    Producers = {}
    Cancellers = {c}
    OnHandler = {}
    Starters = {s1}
    Askers = {}
    Workers = {w1}
    Options <- Strict
    BomOnly = FALSE
    EarlyCancel = TRUE
    MaxBuffers = 1
    MaxDocs = 1
    MaxWaits = 0
    MaxAbandoned = 1
SPECIFICATION FairSpec
PROPERTY CancelReturns
CHECK_DEADLOCK FALSE
