---------------------------- MODULE MCSyncQueue ----------------------------
(* Small instances of SyncQueue for TLC.                                   *)
EXTENDS SyncQueue

CONSTANTS p1, p2, c1, c2, a, none

FourThreads == {p1, p2, c1, c2}
PairOfThreads == {p1, c1}
Two == {a, none}

\* Two producers and two consumers.  A call with a timeout does all that the same
\* call without one does, and the consumer of get is there to be served.
EveryOperation ==
    {<<p1, "putTimeout">>, <<p2, "put">>, <<c1, "get">>,
     <<c2, "getTimeout">>, <<c2, "acquireTimeout">>}

\* One producer that also puts with a timeout, and one consumer.
OneImpatientProducer == ({p1} \X PutOps) \cup ({c1} \X {"get"})
=============================================================================
