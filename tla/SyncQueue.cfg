\* All operations, two producers and two consumers.
CONSTANTS
    p1 = p1  p2 = p2  c1 = c1  c2 = c2
    a = a  none = none
    Threads <- FourThreads
    Items <- Two
    DefaultItem = none
    Calls <- EveryOperation
    MaxAbandoned = 2
SPECIFICATION FairSpec
INVARIANTS TypeOK CellExclusive AssertsHold NoMutualWait SignalsMatch NoCapacity
PROPERTIES ImplementsChannel PutOKMeansTaken OfferIsTaken PutReturns
CHECK_DEADLOCK FALSE
