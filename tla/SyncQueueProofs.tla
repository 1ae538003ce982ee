-------------------------- MODULE SyncQueueProofs --------------------------
(***************************************************************************)
(* What holds of SyncQueue for every set of threads, every assignment of   *)
(* calls to them and every number of abandoned puts.                       *)
(*                                                                         *)
(* The argument rests on SlotInv: send_, recv_ and the threads at an owner *)
(* point share one right to touch the cell, and the holder of the right    *)
(* determines whether the cell is full.                                    *)
(***************************************************************************)
EXTENDS SyncQueue, FiniteSetTheorems, TLAPS

\* Where a thread that owns the cell finds it empty, and where full.
EmptyPoints == {"store", "signalSync", "signalSend"}
FullPoints == {"publish", "take", "holding"}

\* The right to the cell: one of send_, recv_ and the owner has it.
RightInv ==
    /\ send_ \in {0, 1} /\ recv_ \in {0, 1}
    /\ \A t, u \in Owners : t = u
    /\ Owners # {} => send_ = 0 /\ recv_ = 0
    /\ Owners = {} => send_ + recv_ = 1

\* The holder of the right knows what is in the cell.
ContentInv ==
    /\ send_ = 1 => empty_
    /\ recv_ = 1 => ~empty_
    /\ \A t \in Threads :
        /\ pc[t] \in EmptyPoints => empty_
        /\ pc[t] \in FullPoints => ~empty_
        /\ pc[t] = "holding" => got[t] = storage_

SlotInv == RightInv /\ ContentInv

-----------------------------------------------------------------------------
(* Type correctness.                                                       *)

LEMMA InitType == Init => TypeOK
BY DefaultAssumption, BoundAssumption DEF Init, TypeOK, Points, OwnerPoints, Ops,
   PutOps, GetOps, AcquireOps, Results

LEMMA TypeStep == TypeOK /\ [Next]_vars => TypeOK'
<1> SUFFICES ASSUME TypeOK, [Next]_vars PROVE TypeOK'
  OBVIOUS
<1> USE DefaultAssumption, BoundAssumption DEF TypeOK, Points, OwnerPoints, Ops,
        PutOps, GetOps, AcquireOps, Results, Goto, Return, Wait, Signal, Expire,
        sems, cell
<1>1. CASE UNCHANGED vars
  BY <1>1 DEF vars
<1>2. CASE Next
  <2> PICK t \in Threads :
          Call(t) \/ Advance(t) \/ TimeOut(t) \/ Give(t) \/ Commit(t)
    BY <1>2 DEF Next
  <2>1. ASSUME NEW o \in Ops, CallGet(t, o) PROVE TypeOK'
    BY <2>1 DEF CallGet
  <2>2. ASSUME NEW o \in Ops, NEW v \in Items, CallPut(t, o, v) PROVE TypeOK'
    BY <2>2 DEF CallPut
  <2>3. CASE PutWaitSend(t)
    BY <2>3 DEF PutWaitSend
  <2>4. CASE PutStore(t)
    BY <2>4 DEF PutStore
  <2>5. CASE PutPublish(t)
    BY <2>5 DEF PutPublish
  <2>6. CASE PutWaitSync(t)
    BY <2>6 DEF PutWaitSync
  <2>7. CASE GetWaitRecv(t)
    BY <2>7 DEF GetWaitRecv
  <2>8. CASE GetTake(t)
    BY <2>8 DEF GetTake
  <2>9. CASE AcquireCopy(t)
    BY <2>9 DEF AcquireCopy
  <2>10. CASE SignalSync(t)
    BY <2>10 DEF SignalSync
  <2>11. CASE SignalSend(t)
    BY <2>11 DEF SignalSend
  <2>12. CASE PutNotDelivered(t)
    BY <2>12 DEF PutNotDelivered
  <2>13. CASE PutNotPicked(t)
    BY <2>13 DEF PutNotPicked
  <2>14. CASE GetNothingOffered(t)
    BY <2>14 DEF GetNothingOffered
  <2>15. CASE Give(t)
    BY <2>15 DEF Give
  <2>16. CASE Commit(t)
    BY <2>16 DEF Commit
  <2> QED
    BY <2>1, <2>2, <2>3, <2>4, <2>5, <2>6, <2>7, <2>8, <2>9,
       <2>10, <2>11, <2>12, <2>13, <2>14, <2>15, <2>16
       DEF Call, Advance, TimeOut
<1> QED
  BY <1>1, <1>2

\* Every variable keeps its type, in particular no semaphore becomes negative
\* and no more puts are abandoned than the bound allows.
THEOREM TypeCorrect == Spec => []TypeOK
<1> QED
  BY InitType, TypeStep, PTL DEF Spec

-----------------------------------------------------------------------------
(* The right to the cell.                                                  *)

LEMMA InitSlot == Init => SlotInv
BY DEF Init, SlotInv, RightInv, ContentInv, Owners, OwnerPoints, EmptyPoints, FullPoints

LEMMA SlotStep == TypeOK /\ SlotInv /\ [Next]_vars => SlotInv'
<1> SUFFICES ASSUME TypeOK, SlotInv, [Next]_vars PROVE SlotInv'
  OBVIOUS
<1> USE DEF TypeOK, SlotInv, RightInv, ContentInv, Owners, OwnerPoints, Points,
        EmptyPoints, FullPoints, Goto, Return, Wait, Signal, Expire, sems, cell
<1>1. CASE UNCHANGED vars
  BY <1>1 DEF vars
<1>2. CASE Next
  <2> PICK t \in Threads :
          Call(t) \/ Advance(t) \/ TimeOut(t) \/ Give(t) \/ Commit(t)
    BY <1>2 DEF Next
  <2>1. CASE Call(t)
    BY <2>1 DEF Call, CallGet, CallPut
  <2>2. CASE PutWaitSend(t)
    BY <2>2 DEF PutWaitSend
  <2>3. CASE PutStore(t)
    BY <2>3 DEF PutStore
  <2>4. CASE PutPublish(t)
    BY <2>4 DEF PutPublish
  <2>5. CASE PutWaitSync(t)
    BY <2>5 DEF PutWaitSync
  <2>6. CASE GetWaitRecv(t)
    BY <2>6 DEF GetWaitRecv
  <2>7. CASE GetTake(t)
    BY <2>7 DEF GetTake
  <2>8. CASE AcquireCopy(t)
    BY <2>8 DEF AcquireCopy
  <2>9. CASE SignalSync(t)
    BY <2>9 DEF SignalSync
  <2>10. CASE SignalSend(t)
    BY <2>10 DEF SignalSend
  <2>11. CASE TimeOut(t)
    BY <2>11 DEF TimeOut, PutNotDelivered, PutNotPicked, GetNothingOffered
  <2>12. CASE Give(t)
    BY <2>12 DEF Give
  <2>13. CASE Commit(t)
    BY <2>13 DEF Commit
  <2> QED
    BY <2>1, <2>2, <2>3, <2>4, <2>5, <2>6, <2>7, <2>8, <2>9, <2>10, <2>11, <2>12, <2>13
       DEF Advance
<1> QED
  BY <1>1, <1>2

LEMMA SlotInvariant == Spec => [](TypeOK /\ SlotInv)
<1> QED
  BY InitType, TypeStep, InitSlot, SlotStep, PTL DEF Spec

\* No two threads are ever between a wait of send_ or recv_ and the signal that
\* passes the cell on, so its plain members are never accessed concurrently.
THEOREM CellIsExclusive == Spec => []CellExclusive
<1>1. SlotInv => CellExclusive
  BY DEF SlotInv, RightInv, CellExclusive
<1> QED
  BY <1>1, SlotInvariant, PTL

\* None of the asserts in the queue's member functions can fail.
THEOREM AssertsNeverFail == Spec => []AssertsHold
<1>1. SlotInv => AssertsHold
  BY DEF SlotInv, ContentInv, AssertsHold, EmptyPoints, FullPoints
<1> QED
  BY <1>1, SlotInvariant, PTL

-----------------------------------------------------------------------------
(* The signals of sync_.                                                   *)

\* One thread moves to x: how many are at the points P afterwards.
LEMMA CountStep ==
    ASSUME TypeOK, NEW P, NEW t \in Threads, NEW x, pc' = [pc EXCEPT ![t] = x]
    PROVE  LET S == {u \in Threads : pc[u] \in P}
               T == {u \in Threads : pc'[u] \in P}
           IN  /\ Cardinality(S) \in Nat /\ Cardinality(T) \in Nat
               /\ Cardinality(T) + (IF pc[t] \in P THEN 1 ELSE 0)
                    = Cardinality(S) + (IF x \in P THEN 1 ELSE 0)
<1> DEFINE S == {u \in Threads : pc[u] \in P}
           T == {u \in Threads : pc'[u] \in P}
<1>1. IsFiniteSet(S) /\ IsFiniteSet(T)
  BY ThreadsAssumption, FS_Subset
<1>2. Cardinality(S) \in Nat /\ Cardinality(T) \in Nat
  BY <1>1, FS_CardinalityType
<1>3. /\ pc'[t] = x
      /\ \A u \in Threads \ {t} : pc'[u] = pc[u]
      /\ t \in S <=> pc[t] \in P
  BY DEF TypeOK
<1>4. ASSUME x \in P
      PROVE  Cardinality(T) = IF pc[t] \in P THEN Cardinality(S) ELSE Cardinality(S) + 1
  <2>1. T = S \cup {t}
    BY <1>3, <1>4
  <2> QED
    BY <2>1, <1>1, <1>3, FS_AddElement
<1>5. ASSUME x \notin P
      PROVE  Cardinality(T) = IF pc[t] \in P THEN Cardinality(S) - 1 ELSE Cardinality(S)
  <2>1. T = S \ {t}
    BY <1>3, <1>5
  <2> QED
    BY <2>1, <1>1, <1>3, FS_RemoveElement
<1> DEFINE m == Cardinality(S)
           n == Cardinality(T)
<1>6. n + (IF pc[t] \in P THEN 1 ELSE 0) = m + (IF x \in P THEN 1 ELSE 0)
  <2> HIDE DEF m, n
  <2>1. CASE x \in P
    BY <1>2, <1>4, <2>1 DEF m, n
  <2>2. CASE x \notin P
    BY <1>2, <1>5, <2>2 DEF m, n
  <2> QED
    BY <2>1, <2>2
<1> QED
  BY <1>2, <1>6

LEMMA InitSignals == Init => SignalsMatch
<1> SUFFICES ASSUME Init PROVE SignalsMatch
  OBVIOUS
<1>1. Waiting = {} /\ Taken = {}
  BY DEF Init, Waiting, Taken
<1> QED
  BY <1>1, FS_EmptySet DEF Init, SignalsMatch, Undelivered

LEMMA SignalsStep == TypeOK /\ SlotInv /\ SignalsMatch /\ [Next]_vars => SignalsMatch'
<1> SUFFICES ASSUME TypeOK, SlotInv, SignalsMatch, [Next]_vars PROVE SignalsMatch'
  OBVIOUS
<1>1. CASE UNCHANGED vars
  BY <1>1 DEF vars, sems, cell, SignalsMatch, Waiting, Taken, Undelivered
<1>2. CASE Next
  <2> PICK t \in Threads :
          Call(t) \/ Advance(t) \/ TimeOut(t) \/ Give(t) \/ Commit(t)
    BY <1>2 DEF Next
  <2> DEFINE waitPoints == {"publish", "waitSync"}
             W == Cardinality(Waiting)    T == Cardinality(Taken)
             W1 == Cardinality(Waiting')  T1 == Cardinality(Taken')
  <2> PICK x : pc' = [pc EXCEPT ![t] = x]
    BY DEF Call, CallGet, CallPut, Advance, TimeOut, PutWaitSend, PutStore, PutPublish,
       PutWaitSync, GetWaitRecv, GetTake, AcquireCopy, SignalSync, SignalSend,
       PutNotDelivered, PutNotPicked, GetNothingOffered, Give, Commit, Goto
  <2>a. /\ W \in Nat /\ W1 \in Nat
        /\ W1 + (IF pc[t] \in waitPoints THEN 1 ELSE 0)
             = W + (IF x \in waitPoints THEN 1 ELSE 0)
    <3>1. /\ Waiting = {u \in Threads : pc[u] \in waitPoints}
          /\ Waiting' = {u \in Threads : pc'[u] \in waitPoints}
      BY DEF Waiting
    <3> QED
      BY <3>1, CountStep, Zenon
  <2>b. /\ T \in Nat /\ T1 \in Nat
        /\ T1 + (IF pc[t] \in {"signalSync"} THEN 1 ELSE 0)
             = T + (IF x \in {"signalSync"} THEN 1 ELSE 0)
    <3>1. /\ Taken = {u \in Threads : pc[u] \in {"signalSync"}}
          /\ Taken' = {u \in Threads : pc'[u] \in {"signalSync"}}
      BY DEF Taken
    <3> QED
      BY <3>1, CountStep, Zenon
  <2>c. sync_ + (IF empty_ THEN 0 ELSE 1) + T = W + abandoned
    BY DEF SignalsMatch, Undelivered
  <2>d. pc'[t] = x
    BY DEF TypeOK
  <2> SUFFICES sync_' + (IF empty_' THEN 0 ELSE 1) + T1 = W1 + abandoned'
    BY DEF SignalsMatch, Undelivered
  <2> HIDE DEF W, W1, T, T1
  <2> USE <2>a, <2>b, <2>c, <2>d DEF TypeOK, SlotInv, ContentInv, EmptyPoints, FullPoints,
          Goto, Wait, Signal, sems, cell
  <2>1. ASSUME NEW o \in Ops, CallGet(t, o) 
        PROVE  sync_' + (IF empty_' THEN 0 ELSE 1) + T1 = W1 + abandoned'
    BY <2>1 DEF CallGet
  <2>2. ASSUME NEW o \in Ops, NEW v \in Items, CallPut(t, o, v) 
        PROVE  sync_' + (IF empty_' THEN 0 ELSE 1) + T1 = W1 + abandoned'
    BY <2>2 DEF CallPut
  <2>3. CASE PutWaitSend(t)
    BY <2>3 DEF PutWaitSend
  <2>4. CASE PutStore(t)
    BY <2>4 DEF PutStore
  <2>5. CASE PutPublish(t)
    BY <2>5 DEF PutPublish
  <2>6. CASE PutWaitSync(t)
    BY <2>6 DEF PutWaitSync
  <2>7. CASE GetWaitRecv(t)
    BY <2>7 DEF GetWaitRecv
  <2>8. CASE GetTake(t)
    BY <2>8 DEF GetTake
  <2>9. CASE AcquireCopy(t)
    BY <2>9 DEF AcquireCopy
  <2>10. CASE SignalSync(t)
    BY <2>10 DEF SignalSync
  <2>11. CASE SignalSend(t)
    BY <2>11 DEF SignalSend
  <2>12. CASE PutNotDelivered(t)
    BY <2>12 DEF PutNotDelivered
  <2>13. CASE PutNotPicked(t)
    BY <2>13 DEF PutNotPicked
  <2>14. CASE GetNothingOffered(t)
    BY <2>14 DEF GetNothingOffered
  <2>15. CASE Give(t)
    BY <2>15 DEF Give
  <2>16. CASE Commit(t)
    BY <2>16 DEF Commit
  <2> QED
    BY <2>1, <2>2, <2>3, <2>4, <2>5, <2>6, <2>7, <2>8, <2>9,
       <2>10, <2>11, <2>12, <2>13, <2>14, <2>15, <2>16
       DEF Call, Advance, TimeOut
<1> QED
  BY <1>1, <1>2

LEMMA SignalsInvariant == Spec => [](TypeOK /\ SlotInv /\ SignalsMatch)
<1> QED
  BY InitType, TypeStep, InitSlot, SlotStep, InitSignals, SignalsStep, PTL DEF Spec

\* A producer waits only for a signal that somebody still owes it; every put
\* that gave up leaves exactly one signal too many.
THEOREM SignalsAreCounted == Spec => []SignalsMatch
<1> QED
  BY SignalsInvariant, PTL

\* The queue has no deadlock of its own: a blocked producer and a blocked
\* consumer never depend on each other's timeouts.
THEOREM NeverMutualWait == Spec => []NoMutualWait
<1>1. TypeOK /\ SlotInv /\ SignalsMatch => NoMutualWait
  <2> SUFFICES ASSUME TypeOK, SlotInv, SignalsMatch,
                      NEW p \in Threads, pc[p] \in {"waitSend", "waitSync"},
                      NEW c \in Threads, pc[c] = "waitRecv",
                      \A t \in Threads : ~Runnable(t)
               PROVE  FALSE
    BY DEF NoMutualWait
  <2>1. Owners = {} /\ Taken = {}
    BY DEF Runnable, Owners, Taken, OwnerPoints
  <2>2. recv_ = 0
    BY DEF Runnable, TypeOK
  <2>3. send_ = 1 /\ empty_
    BY <2>1, <2>2 DEF SlotInv, RightInv, ContentInv, TypeOK
  <2>4. pc[p] = "waitSync" /\ sync_ = 0
    BY <2>3 DEF Runnable, TypeOK
  <2>5. IsFiniteSet(Waiting) /\ p \in Waiting
    BY <2>4, ThreadsAssumption, FS_Subset DEF Waiting
  <2>6. Cardinality(Waiting) \in Nat /\ Cardinality(Waiting) # 0
    BY <2>5, FS_CardinalityType, FS_EmptySet
  <2>7. Cardinality(Taken) = 0
    BY <2>1, FS_EmptySet
  <2> QED
    BY <2>3, <2>4, <2>6, <2>7, BoundAssumption DEF SignalsMatch, Undelivered, TypeOK
<1> QED
  BY <1>1, SignalsInvariant, PTL

-----------------------------------------------------------------------------
(* The queue implements the one-place channel.                             *)

LEMMA ChannelInit == Init => Channel!Init
BY DEF Init, Channel!Init

LEMMA ChannelStep ==
    TypeOK /\ SlotInv /\ [Next]_vars => [Channel!Next]_(Channel!vars)
<1> SUFFICES ASSUME TypeOK, SlotInv, [Next]_vars
             PROVE  Channel!Next \/ UNCHANGED Channel!vars
  BY DEF Channel!vars
<1> USE DEF TypeOK, SlotInv, ContentInv, EmptyPoints, FullPoints, Goto, sems, cell,
        Channel!vars
<1>1. CASE UNCHANGED vars
  BY <1>1 DEF vars
<1>2. CASE Next
  <2> PICK t \in Threads :
          Call(t) \/ Advance(t) \/ TimeOut(t) \/ Give(t) \/ Commit(t)
    BY <1>2 DEF Next
  <2>1. ASSUME NEW o \in Ops, CallGet(t, o) 
        PROVE  UNCHANGED Channel!vars
    BY <2>1 DEF CallGet
  <2>2. ASSUME NEW o \in Ops, NEW v \in Items, CallPut(t, o, v) 
        PROVE  UNCHANGED Channel!vars
    BY <2>2 DEF CallPut
  <2>3. CASE PutWaitSend(t)
    BY <2>3 DEF PutWaitSend
  <2>4. CASE PutStore(t)
    <3>1. Channel!Offer(arg[t])
      BY <2>4 DEF PutStore, Channel!Offer
    <3> QED
      BY <3>1 DEF Channel!Next
  <2>5. CASE PutPublish(t)
    BY <2>5 DEF PutPublish
  <2>6. CASE PutWaitSync(t)
    BY <2>6 DEF PutWaitSync
  <2>7. CASE GetWaitRecv(t)
    BY <2>7 DEF GetWaitRecv
  <2>8. CASE GetTake(t)
    <3>1. Channel!Take(t)
      BY <2>8 DEF GetTake, Channel!Take
    <3> QED
      BY <3>1 DEF Channel!Next
  <2>9. CASE AcquireCopy(t)
    <3>1. Channel!Look(t)
      BY <2>9 DEF AcquireCopy, Channel!Look
    <3> QED
      BY <3>1 DEF Channel!Next
  <2>10. CASE SignalSync(t)
    BY <2>10 DEF SignalSync
  <2>11. CASE SignalSend(t)
    BY <2>11 DEF SignalSend
  <2>12. CASE PutNotDelivered(t)
    BY <2>12 DEF PutNotDelivered
  <2>13. CASE PutNotPicked(t)
    BY <2>13 DEF PutNotPicked
  <2>14. CASE GetNothingOffered(t)
    <3>1. Channel!Miss(t)
      BY <2>14 DEF GetNothingOffered, Channel!Miss
    <3> QED
      BY <3>1 DEF Channel!Next
  <2>15. CASE Give(t)
    BY <2>15 DEF Give
  <2>16. CASE Commit(t)
    <3>1. Channel!Remove(t)
      BY <2>16 DEF Commit, Channel!Remove
    <3> QED
      BY <3>1 DEF Channel!Next
  <2> QED
    BY <2>1, <2>2, <2>3, <2>4, <2>5, <2>6, <2>7, <2>8, <2>9,
       <2>10, <2>11, <2>12, <2>13, <2>14, <2>15, <2>16
       DEF Call, Advance, TimeOut
<1> QED
  BY <1>1, <1>2

\* Whatever calls the threads issue, with and without timeouts, the items go
\* through the queue as through a one-place channel: each leaves the cell once,
\* for the thread that got it, before the next one is offered.
THEOREM QueueIsChannel == Spec => ImplementsChannel
<1> QED
  BY SlotInvariant, ChannelInit, ChannelStep, PTL DEF Spec, ImplementsChannel, Channel!Spec

-----------------------------------------------------------------------------
(* A sole producer.                                                        *)

\* The clients that put do nothing else.
ProducersApart ==
    \A t \in Threads, o \in PutOps, i \in Ops :
        <<t, o>> \in Calls /\ <<t, i>> \in Calls => i \in PutOps

PutPoints == {"waitSend", "store", "publish", "waitSync"}

\* Whoever has put is a producer, and the cell holds the item of a sole one.
ProducerInv ==
    /\ \A t \in Threads : pc[t] \in PutPoints => op[t] \in PutOps
    /\ \A t \in Threads : op[t] \in PutOps => \E o \in PutOps : <<t, o>> \in Calls
    /\ Rendezvous => \A t \in Threads :
                        pc[t] \in {"publish", "waitSync"} /\ ~empty_ => arg[t] = storage_

LEMMA InitProducer == Init => ProducerInv
BY DEF Init, ProducerInv, PutPoints, PutOps

LEMMA ProducerStep ==
    ASSUME ProducersApart
    PROVE  TypeOK /\ SlotInv /\ ProducerInv /\ [Next]_vars => ProducerInv'
<1> SUFFICES ASSUME TypeOK, SlotInv, ProducerInv, [Next]_vars PROVE ProducerInv'
  OBVIOUS
<1> USE DEF ProducersApart, TypeOK, ProducerInv, Rendezvous, SoleProducer, PutPoints, Goto, Return, Wait, Signal,
        Expire, TimedOps, PutOps, sems, cell
<1>1. CASE UNCHANGED vars
  BY <1>1 DEF vars
<1>2. CASE Next
  <2> PICK t \in Threads :
          Call(t) \/ Advance(t) \/ TimeOut(t) \/ Give(t) \/ Commit(t)
    BY <1>2 DEF Next
  <2>1. ASSUME NEW o \in Ops, CallGet(t, o) PROVE ProducerInv'
    BY <2>1 DEF CallGet
  <2>2. ASSUME NEW o \in Ops, NEW v \in Items, CallPut(t, o, v) PROVE ProducerInv'
    BY <2>2 DEF CallPut
  <2>3. CASE PutWaitSend(t)
    BY <2>3 DEF PutWaitSend
  <2>4. CASE PutStore(t)
    BY <2>4 DEF PutStore
  <2>5. CASE PutPublish(t)
    BY <2>5 DEF PutPublish
  <2>6. CASE PutWaitSync(t)
    BY <2>6 DEF PutWaitSync
  <2>7. CASE GetWaitRecv(t)
    BY <2>7 DEF GetWaitRecv
  <2>8. CASE GetTake(t)
    BY <2>8 DEF GetTake
  <2>9. CASE AcquireCopy(t)
    BY <2>9 DEF AcquireCopy
  <2>10. CASE SignalSync(t)
    BY <2>10 DEF SignalSync
  <2>11. CASE SignalSend(t)
    BY <2>11 DEF SignalSend
  <2>12. CASE PutNotDelivered(t)
    BY <2>12 DEF PutNotDelivered
  <2>13. CASE PutNotPicked(t)
    BY <2>13 DEF PutNotPicked
  <2>14. CASE GetNothingOffered(t)
    BY <2>14 DEF GetNothingOffered
  <2>15. CASE Give(t)
    BY <2>15 DEF Give
  <2>16. CASE Commit(t)
    BY <2>16 DEF Commit
  <2> QED
    BY <2>1, <2>2, <2>3, <2>4, <2>5, <2>6, <2>7, <2>8, <2>9,
       <2>10, <2>11, <2>12, <2>13, <2>14, <2>15, <2>16
       DEF Call, Advance, TimeOut
<1> QED
  BY <1>1, <1>2

\* A full cell leaves no spare signal, and its producer waiting.
LEMMA FullCell ==
    ASSUME Rendezvous, TypeOK, SignalsMatch, ProducerInv, ~empty_
    PROVE  sync_ = 0 /\ \E t \in Waiting : arg[t] = storage_
<1>1. \A t, u \in Waiting : t = u
  BY DEF Waiting, Rendezvous, SoleProducer, ProducerInv, PutPoints
<1>2. IsFiniteSet(Waiting) /\ IsFiniteSet(Taken)
  BY ThreadsAssumption, FS_Subset DEF Waiting, Taken
<1>3. Cardinality(Waiting) \in Nat /\ Cardinality(Taken) \in Nat
  BY <1>2, FS_CardinalityType
<1>4. Cardinality(Waiting) = sync_ + 1 + Cardinality(Taken)
  BY <1>3 DEF SignalsMatch, Undelivered, Rendezvous, TypeOK
<1>5. Waiting # {}
  BY <1>3, <1>4, FS_EmptySet DEF TypeOK
<1>6. PICK t \in Waiting : Waiting = {t}
  BY <1>1, <1>5
<1>7. Cardinality(Waiting) = 1
  BY <1>6, FS_Singleton
<1>8. sync_ = 0
  BY <1>3, <1>4, <1>7 DEF TypeOK
<1>9. arg[t] = storage_
  BY <1>6 DEF Waiting, ProducerInv
<1> QED
  BY <1>6, <1>8, <1>9

LEMMA ProducerInvariant ==
    ASSUME ProducersApart
    PROVE  Spec => [](TypeOK /\ SlotInv /\ SignalsMatch /\ ProducerInv)
<1>1. TypeOK /\ SlotInv /\ ProducerInv /\ [Next]_vars => ProducerInv'
  BY ProducerStep
<1> QED
  BY <1>1, InitType, TypeStep, InitSlot, SlotStep, InitSignals, SignalsStep,
     InitProducer, PTL DEF Spec

\* An item of a sole producer is in the queue only while it is inside put,
\* whatever the consumers call.
THEOREM RendezvousHasNoCapacity ==
    ASSUME ProducersApart
    PROVE  Spec => []NoCapacity
<1>1. TypeOK /\ SignalsMatch /\ ProducerInv => NoCapacity
  BY FullCell DEF NoCapacity
<1> QED
  BY <1>1, ProducerInvariant, PTL

\* A put of a sole producer that returns OK was consumed.
THEOREM RendezvousPutIsTaken ==
    ASSUME ProducersApart
    PROVE  Spec => PutOKMeansTaken
<1> DEFINE A == Rendezvous => \A t \in Threads : PutWaitSync(t) => empty_ \/ storage_ # arg[t]
<1>1. TypeOK /\ SignalsMatch /\ ProducerInv => [A]_vars
  BY FullCell DEF PutWaitSync, Wait
<1> QED
  BY <1>1, ProducerInvariant, PTL DEF PutOKMeansTaken
=============================================================================
