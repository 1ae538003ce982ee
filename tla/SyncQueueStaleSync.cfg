\* One producer that also puts with a timeout, one consumer: after a put that
\* was not picked up, the next one no longer waits.
CONSTANTS
    p1 = p1  p2 = p2  c1 = c1  c2 = c2
    a = a  none = none
    Threads <- PairOfThreads
    Items <- Two
    DefaultItem = none
    Calls <- OneImpatientProducer
    MaxAbandoned = 1
SPECIFICATION Spec
PROPERTY ProducersWait
CHECK_DEADLOCK FALSE
