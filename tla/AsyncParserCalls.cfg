\* Two starts, a cancel, a producer and isRunning at any time, or a producer of
\* three buffers with every setting of the semantic actions.
CONSTANTS
    p = p  c = c  s1 = s1  s2 = s2  q = q  w1 = w1  w2 = w2
    Producers = {p}
    Cancellers = {c}
    OnHandler = {}
    Starters = {s1, s2}
    Askers = {q}
    Workers = {w1, w2}
    Options <- StrictOrUnattended
    BomOnly = TRUE
    EarlyCancel = TRUE
    MaxBuffers = 3
    MaxDocs = 2
    MaxWaits = 0
    MaxAbandoned = 1
SYMMETRY Interchangeable
SPECIFICATION Spec
ACTION_CONSTRAINT Clients
INVARIANTS TypeOK IdleToken CancelStopsWorker
PROPERTIES BlockOrder NoTextSkipped
CHECK_DEADLOCK FALSE
