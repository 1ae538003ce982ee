\* What must eventually happen when cancel is called after start has returned.
CONSTANTS
    p = p  c = c  s1 = s1  s2 = s2  q = q  w1 = w1  w2 = w2
    Producers = {p}
    Cancellers = {c}
    OnHandler = {}
    Starters = {s1}
    Askers = {}
    Workers = {w1}
    Options <- Streaming
    BomOnly = FALSE
    EarlyCancel = FALSE
    MaxBuffers = 1
    MaxDocs = 1
    MaxWaits = 0
    MaxAbandoned = 2
SPECIFICATION FairSpec
PROPERTIES EOFStopsParser KilledStops ParseBufferReturns CancelReturns
CHECK_DEADLOCK FALSE
