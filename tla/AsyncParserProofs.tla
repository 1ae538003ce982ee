------------------------- MODULE AsyncParserProofs -------------------------
EXTENDS AsyncParser, FiniteSetTheorems, SequenceTheorems, TLAPS

Queue == INSTANCE SyncQueueProofs
    WITH Threads <- Users, Items <- Buffers, DefaultItem <- nil, Calls <- QueueCalls

LEMMA QueueConstants ==
    /\ Queue!IsFiniteSet(Users)
    /\ nil \in Buffers
    /\ QueueCalls \subseteq Users \X Queue!Ops
    /\ MaxAbandoned \in Nat
<1>1. IsFiniteSet(Users)
  BY ActorsAssumption, FS_Subset DEF Threads
<1>2. Queue!IsFiniteSet(Users)
  BY <1>1 DEF IsFiniteSet, Queue!IsFiniteSet
<1>3. QueueCalls \subseteq Users \X Queue!Ops
  BY DEF QueueCalls, Users, Queue!Ops, Queue!PutOps, Queue!GetOps, Queue!AcquireOps
<1> QED
  BY <1>2, <1>3, BoundsAssumption DEF nil, Buffers

LEMMA PutCalls ==
    ASSUME NEW t \in Users, NEW v \in Buffers, Put(t, v)
    PROVE  Queue!Next
<1>1. Queue!CallPut(t, "putTimeout", v) /\ "putTimeout" \in Queue!Ops
  BY DEF Put, SyncQueue!CallPut, Queue!CallPut, SyncQueue!PutOps, Queue!PutOps, Queue!Ops,
     SyncQueue!Goto, Queue!Goto, SyncQueue!sems, Queue!sems, SyncQueue!cell, Queue!cell
<1> QED
  BY <1>1 DEF Queue!Next, Queue!Call

LEMMA GetCalls ==
    ASSUME NEW t \in Users, NEW o \in {"get", "getTimeout"}, SyncQueue!CallGet(t, o)
    PROVE  Queue!Next
<1>1. Queue!CallGet(t, o) /\ o \in Queue!Ops
  BY DEF SyncQueue!CallGet, Queue!CallGet, SyncQueue!GetOps, Queue!GetOps, SyncQueue!AcquireOps,
     Queue!AcquireOps, Queue!Ops,
     SyncQueue!Goto, Queue!Goto, SyncQueue!sems, Queue!sems, SyncQueue!cell, Queue!cell
<1> QED
  BY <1>1 DEF Queue!Next, Queue!Call

LEMMA InQueueAdvances ==
    ASSUME NEW t \in Users, InQueue(t)
    PROVE  Queue!Next
<1>1. Queue!Advance(t) \/ Queue!TimeOut(t)
  BY DEF InQueue,
     SyncQueue!Advance, SyncQueue!TimeOut, Queue!Advance, Queue!TimeOut,
     SyncQueue!PutWaitSend, SyncQueue!PutStore, SyncQueue!PutPublish, SyncQueue!PutWaitSync,
     SyncQueue!GetWaitRecv, SyncQueue!GetTake, SyncQueue!AcquireCopy, SyncQueue!SignalSync,
     SyncQueue!SignalSend, SyncQueue!PutNotDelivered, SyncQueue!PutNotPicked,
     SyncQueue!GetNothingOffered,
     Queue!PutWaitSend, Queue!PutStore, Queue!PutPublish, Queue!PutWaitSync,
     Queue!GetWaitRecv, Queue!GetTake, Queue!AcquireCopy, Queue!SignalSync,
     Queue!SignalSend, Queue!PutNotDelivered, Queue!PutNotPicked,
     Queue!GetNothingOffered, 
     SyncQueue!Goto, Queue!Goto, SyncQueue!Return, Queue!Return,
     SyncQueue!Wait, Queue!Wait, SyncQueue!Signal, Queue!Signal, 
     SyncQueue!Expire, Queue!Expire, SyncQueue!TimedOps, Queue!TimedOps,
     SyncQueue!GetOps, Queue!GetOps, SyncQueue!AcquireOps, Queue!AcquireOps,
     SyncQueue!sems, Queue!sems, SyncQueue!cell, Queue!cell
<1> QED
  BY <1>1 DEF Queue!Next

LEMMA QueueStep == Queue!TypeOK /\ [Next]_vars => [Queue!Next]_(Queue!vars)
<1> SUFFICES ASSUME Queue!TypeOK, [Next]_vars
             PROVE  Queue!Next \/ UNCHANGED queue
  BY DEF Queue!vars, queue, Queue!sems, Queue!cell
<1> USE DEF Users
<1>1. CASE UNCHANGED vars
  BY <1>1 DEF vars
<1>2. ASSUME NEW s \in Starters, Start(s) PROVE UNCHANGED queue
  BY <1>2 DEF Start, StartRefused, StartTake, StartKilled, StartDispatch
<1>3. ASSUME NEW w \in Workers, Work(w) PROVE Queue!Next \/ UNCHANGED queue
  <2>1. CASE Fetch(w)
    BY <2>1, GetCalls DEF Fetch, Get
  <2>2. CASE Drain(w)
    BY <2>2, GetCalls DEF Drain, Poll
  <2>3. CASE ~Fetch(w) /\ ~Drain(w)
    BY <1>3, <2>3
       DEF Work, Receive, Underflow, Detected, DetectedBomOnly, Throw, ParseBegin,
           ParseCanceled, ParseNotCanceled, EnterDocument, ParseFails, ParseEnd,
           LoopSucceeds, LoopContinues, ExtraCharacters, Finished, Drained, Release,
           SetFinished
  <2> QED
    BY <2>1, <2>2, <2>3
<1>4. ASSUME NEW p \in Producers, Produce(p) PROVE Queue!Next \/ UNCHANGED queue
  <2>1. arg[p] \in Buffers
    BY DEF Queue!TypeOK
  <2> QED
    BY <1>4, <2>1, PutCalls DEF Produce, ParseBufferTimeout, ParseBufferYes, ParseBufferNo
<1>5. ASSUME NEW p \in Producers, NEW v \in Buffers, ParseBuffer(p, v) PROVE Queue!Next
  BY <1>5, PutCalls DEF ParseBuffer
<1>6. ASSUME NEW c \in Cancellers, Cancel(c) PROVE Queue!Next \/ UNCHANGED queue
  <2>1. CASE CancelDrain(c)
    BY <2>1, GetCalls DEF CancelDrain, Poll
  <2>2. CASE CancelOffer(c)
    BY <2>2, PutCalls, QueueConstants DEF CancelOffer
  <2>3. CASE ~CancelDrain(c) /\ ~CancelOffer(c)
    BY <1>6, <2>3
       DEF Cancel, CancelTry, CancelWasIdle, CancelKill, CancelActions, CancelDrained,
           CancelOffered, CancelAsk, CancelAwait, CancelReturn, CancelAwaitTimeout
  <2> QED
    BY <2>1, <2>2, <2>3
<1>7. ASSUME NEW a \in Askers, Ask(a) PROVE UNCHANGED queue
  BY <1>7 DEF Ask, IsRunning, IsNotRunning
<1>8. CASE RunBlock
  BY <1>8 DEF RunBlock
<1> QED
  BY <1>1, <1>2, <1>3, <1>4, <1>5, <1>6, <1>7, <1>8, InQueueAdvances DEF Next

-----------------------------------------------------------------------------
HandlerBlocks == [kind : Kinds, waiters : SUBSET Workers]

ParserType ==
    /\ idle_ \in Nat
    /\ {killed_, finished_, canceled_} \subseteq BOOLEAN
    /\ option \in Options
    /\ loc \in [Threads -> Points]
    /\ phase \in [Workers -> Phases]
    /\ input \in [Workers -> {"none", "text", "eof"}]
    /\ success \in [Workers -> BOOLEAN]
    /\ docs \in 0..MaxDocs
    /\ blocks \in Seq(HandlerBlocks)
    /\ handler \in OnHandler \cup {"free"}
    /\ last \in Kinds \cup {"none"}
    /\ sent \in [Producers -> 0..MaxBuffers]
    /\ waits \in [Cancellers -> Nat]
    /\ read \in Buffers

LEMMA QueueTypeOK == Queue!TypeOK <=> SyncQueue!TypeOK
BY DEF Queue!TypeOK, SyncQueue!TypeOK, Queue!Points, SyncQueue!Points, Queue!OwnerPoints,
   SyncQueue!OwnerPoints, Queue!Ops, SyncQueue!Ops, Queue!PutOps, SyncQueue!PutOps,
   Queue!GetOps, SyncQueue!GetOps, Queue!AcquireOps, SyncQueue!AcquireOps,
   Queue!Results, SyncQueue!Results

LEMMA InitParserType == Init => ParserType
<1> SUFFICES ASSUME Init PROVE ParserType
  OBVIOUS
<1> USE BoundsAssumption DEF Init
<1>1. idle_ \in Nat /\ {killed_, finished_, canceled_} \subseteq BOOLEAN
  OBVIOUS
<1>2. loc \in [Threads -> Points] /\ phase \in [Workers -> Phases]
  BY DEF Points, WorkerPoints, Phases
<1>3. /\ input \in [Workers -> {"none", "text", "eof"}]
      /\ success \in [Workers -> BOOLEAN]
      /\ docs \in 0..MaxDocs
  OBVIOUS
<1>4. blocks \in Seq(HandlerBlocks)
  OBVIOUS
<1>5. handler \in OnHandler \cup {"free"} /\ last \in Kinds \cup {"none"}
  OBVIOUS
<1>6. /\ sent \in [Producers -> 0..MaxBuffers]
      /\ waits \in [Cancellers -> Nat]
      /\ read \in Buffers
  BY DEF Buffers
<1> QED
  BY <1>1, <1>2, <1>3, <1>4, <1>5, <1>6 DEF ParserType

LEMMA ParserTypeStep == Queue!TypeOK /\ ParserType /\ [Next]_vars => ParserType'
<1> SUFFICES ASSUME Queue!TypeOK, ParserType, [Next]_vars PROVE ParserType'
  OBVIOUS
<1> USE DEF ParserType, HandlerBlocks, Points, WorkerPoints, Phases, Kinds, Threads, Users, flags, parser, handlers,
        clients, Move, TakeIdle, SignalIdle
<1>1. CASE UNCHANGED vars
  BY <1>1 DEF vars
<1>2. ASSUME NEW s \in Starters, Start(s) PROVE ParserType'
  <2>1. ASSUME NEW w \in Workers, StartDispatch(s, w) PROVE ParserType'
    BY <2>1 DEF StartDispatch
  <2>2. CASE StartRefused(s)
    BY <2>2 DEF StartRefused
  <2>3. CASE StartTake(s)
    BY <2>3 DEF StartTake
  <2>4. CASE StartKilled(s)
    BY <2>4 DEF StartKilled
  <2> QED
    BY <1>2, <2>1, <2>2, <2>3, <2>4 DEF Start
<1>3. ASSUME NEW w \in Workers, Work(w) PROVE ParserType'
  <2> USE DEF Step, Notify, Send, Block
  <2>1. CASE Fetch(w)
    BY <2>1 DEF Fetch
  <2>2. CASE Receive(w)
    BY <2>2 DEF Receive, Queue!TypeOK
  <2>3. CASE Underflow(w)
    BY <2>3 DEF Underflow
  <2>4. CASE Detected(w)
    BY <2>4 DEF Detected
  <2>5. CASE DetectedBomOnly(w)
    BY <2>5 DEF DetectedBomOnly
  <2>6. CASE Throw(w)
    BY <2>6 DEF Throw
  <2>7. CASE ParseBegin(w)
    BY <2>7 DEF ParseBegin
  <2>8. CASE ParseCanceled(w)
    BY <2>8 DEF ParseCanceled
  <2>9. CASE ParseNotCanceled(w)
    BY <2>9 DEF ParseNotCanceled
  <2>10. CASE EnterDocument(w)
    BY <2>10 DEF EnterDocument
  <2>11. CASE ParseFails(w)
    <3>1. CASE Step(w, "text", "finish") /\ Send("error")
      BY <2>11, <3>1 DEF ParseFails
    <3>2. ASSUME NEW n \in 0..2,
                 blocks' = blocks \o [i \in 1..n |-> Block("error", {})]
          PROVE  blocks' \in Seq(HandlerBlocks)
      <4>1. [i \in 1..n |-> Block("error", {})] \in Seq(HandlerBlocks)
        OBVIOUS
      <4> QED
        BY <3>2, <4>1, ConcatProperties
    <3> QED
      BY <2>11, <3>1, <3>2 DEF ParseFails
  <2>12. CASE ParseEnd(w)
    BY <2>12, BoundsAssumption DEF ParseEnd
  <2>13. CASE LoopSucceeds(w)
    BY <2>13 DEF LoopSucceeds
  <2>14. CASE LoopContinues(w)
    BY <2>14 DEF LoopContinues
  <2>15. CASE ExtraCharacters(w)
    BY <2>15 DEF ExtraCharacters
  <2>16. CASE Finished(w)
    BY <2>16 DEF Finished
  <2>17. CASE Drain(w)
    BY <2>17 DEF Drain
  <2>18. CASE Drained(w)
    BY <2>18 DEF Drained
  <2>19. CASE Release(w)
    BY <2>19 DEF Release
  <2>20. CASE SetFinished(w)
    BY <2>20 DEF SetFinished
  <2> QED
    BY <1>3, <2>1, <2>2, <2>3, <2>4, <2>5, <2>6, <2>7, <2>8, <2>9, <2>10, <2>11, <2>12,
       <2>13, <2>14, <2>15, <2>16, <2>17, <2>18, <2>19, <2>20 DEF Work
<1>4. ASSUME NEW p \in Producers, Produce(p) PROVE ParserType'
  BY <1>4 DEF Produce, ParseBufferTimeout, ParseBufferYes, ParseBufferNo
<1>5. ASSUME NEW p \in Producers, NEW v \in Buffers, ParseBuffer(p, v) PROVE ParserType'
  BY <1>5, BoundsAssumption DEF ParseBuffer
<1>6. ASSUME NEW c \in Cancellers, Cancel(c) PROVE ParserType'
  <2> USE DEF LeaveCancel
  <2>1. CASE CancelTry(c)
    BY <2>1 DEF CancelTry, EnterCancel
  <2>2. CASE CancelWasIdle(c)
    BY <2>2 DEF CancelWasIdle
  <2>3. CASE CancelKill(c)
    BY <2>3 DEF CancelKill
  <2>4. CASE CancelActions(c)
    BY <2>4 DEF CancelActions
  <2>5. CASE CancelDrain(c) \/ CancelDrained(c)
    BY <2>5 DEF CancelDrain, CancelDrained
  <2>6. CASE CancelOffer(c) \/ CancelOffered(c)
    BY <2>6 DEF CancelOffer, CancelOffered
  <2>7. CASE CancelAsk(c)
    BY <2>7 DEF CancelAsk
  <2>10. CASE CancelAwait(c)
    BY <2>10 DEF CancelAwait
  <2>8. CASE CancelReturn(c)
    BY <2>8 DEF CancelReturn
  <2>9. CASE CancelAwaitTimeout(c)
    <3>1. CASE waits'[c] > MaxWaits
      <4>1. Move(c, "await", "gaveUp") /\ LeaveCancel(c)
        BY <2>9, <3>1 DEF CancelAwaitTimeout
      <4>2. loc' \in [Threads -> Points] /\ handler' \in OnHandler \cup {"free"}
        BY <4>1
      <4>3. waits' \in [Cancellers -> Nat]
        BY <2>9 DEF CancelAwaitTimeout
      <4>4. UNCHANGED <<queue, flags, option, parser, blocks, last, sent, read>>
        BY <2>9 DEF CancelAwaitTimeout
      <4> QED
        BY <4>2, <4>3, <4>4
    <3>2. CASE ~(waits'[c] > MaxWaits)
      BY <2>9, <3>2 DEF CancelAwaitTimeout
    <3> QED
      BY <3>1, <3>2
  <2> QED
    BY <1>6, <2>1, <2>2, <2>3, <2>4, <2>5, <2>6, <2>7, <2>8, <2>9, <2>10 DEF Cancel
<1>7. ASSUME NEW a \in Askers, Ask(a) PROVE ParserType'
  <2>1. CASE IsRunning(a)
    <3>1. CASE TakeIdle /\ Move(a, "ready", "tookIdle")
      BY <2>1, <3>1 DEF IsRunning
    <3>2. CASE idle_ = 0 /\ UNCHANGED idle_ /\ Move(a, "ready", "yes")
      BY <2>1, <3>2 DEF IsRunning
    <3> QED
      BY <2>1, <3>1, <3>2 DEF IsRunning
  <2>2. CASE IsNotRunning(a)
    BY <2>2 DEF IsNotRunning
  <2> QED
    BY <1>7, <2>1, <2>2 DEF Ask
<1>8. ASSUME NEW t \in Users, InQueue(t) PROVE ParserType'
  BY <1>8 DEF InQueue
<1>9. CASE RunBlock
  <2>1. blocks # << >> /\ Head(blocks) \in HandlerBlocks
    <3>1. blocks # << >>
      BY <1>9, Zenon DEF RunBlock
    <3> QED
      BY <3>1, HeadTailProperties
  <2>2. Head(blocks).kind \in Kinds /\ Head(blocks).waiters \subseteq Workers
    BY <2>1
  <2>3. Tail(blocks) \in Seq(HandlerBlocks)
    BY <2>1
  <2>4. loc' \in [Threads -> Points]
    BY <1>9 DEF RunBlock
  <2> QED
    BY <1>9, <2>2, <2>3, <2>4 DEF RunBlock
<1> QED
  BY <1>1, <1>2, <1>3, <1>4, <1>5, <1>6, <1>7, <1>8, <1>9 DEF Next

LEMMA InitTypeOK == Init => Queue!TypeOK /\ ParserType
<1>1. Init => Queue!Init
  BY DEF Init, SyncQueue!Init, Queue!Init
<1> QED
  BY <1>1, QueueConstants, Queue!InitType, InitParserType

\* In the parser the queue is used as SyncQueue describes it: only by calls it
\* lists, and its variables change by its own steps alone.
THEOREM QueueInParser == Spec => Queue!Spec
<1>1. Init => Queue!Init /\ Queue!TypeOK
  BY QueueConstants, Queue!InitType DEF Init, SyncQueue!Init, Queue!Init
<1>2. Queue!TypeOK /\ [Next]_vars => Queue!TypeOK'
  BY QueueConstants, QueueStep, Queue!TypeStep
<1> QED
  BY <1>1, <1>2, QueueStep, PTL DEF Spec, Queue!Spec

\* So what SyncQueue promises holds of the parser's threads: never two of them
\* touch the cell at a time, its asserts hold, and no producer and worker wait for
\* each other inside the queue, whatever start, cancel and parseBuffer: do.
THEOREM QueueIsSafe ==
    Spec => [](Queue!CellExclusive /\ Queue!AssertsHold /\ Queue!NoMutualWait)
BY QueueConstants, QueueInParser, Queue!CellIsExclusive, Queue!AssertsNeverFail, Queue!NeverMutualWait, PTL

\* Every variable of the parser keeps its type, in the queue and outside it: idle_
\* never falls below zero, no thread is at a point its methods do not have.
THEOREM TypeCorrect == Spec => []TypeOK
<1>1. Init => Queue!TypeOK /\ ParserType
  BY InitTypeOK
<1>2. Queue!TypeOK /\ ParserType /\ [Next]_vars => (Queue!TypeOK /\ ParserType)'
  BY QueueConstants, QueueStep, Queue!TypeStep, ParserTypeStep
<1>3. Queue!TypeOK /\ ParserType => TypeOK
  BY QueueTypeOK DEF TypeOK, ParserType, HandlerBlocks
<1> QED
  BY <1>1, <1>2, <1>3, PTL DEF Spec


-----------------------------------------------------------------------------
(* The token.  A thread holds it at certain points, and those that wait for *)
(* their handler block hold it still.                                       *)

HolderPoints(t) ==
    CASE t \in Workers -> WorkerPoints
      [] t \in Starters -> {"took", "leaked"}
      [] t \in Cancellers -> {"wasIdle", "tookIdle"}
      [] t \in Askers -> {"tookIdle"}
      [] OTHER -> {}

\* Only the workers that wait for their block to have run are moved by the
\* handler queue, and each waits for one block.
WaiterInv ==
    /\ \A i \in 1..Len(blocks) : \A w \in blocks[i].waiters : loc[w] = "inBlock"
    /\ \A i, j \in 1..Len(blocks) :
           i # j => blocks[i].waiters \cap blocks[j].waiters = {}

TokenInv == IdleToken /\ WaiterInv

LEMMA HoldersAre == IdleHolders = {t \in Threads : loc[t] \in HolderPoints(t)}
BY ActorsAssumption DEF IdleHolders, HolderPoints, Running, Threads, Users

LEMMA HoldersMove ==
    ASSUME ParserType, NEW t \in Threads, NEW from, NEW to, Move(t, from, to)
    PROVE  /\ t \in IdleHolders <=> from \in HolderPoints(t)
           /\ IdleHolders' = IF to \in HolderPoints(t) THEN IdleHolders \cup {t}
                                                       ELSE IdleHolders \ {t}
<1>1. IdleHolders' = {u \in Threads : loc'[u] \in HolderPoints(u)}
  BY ActorsAssumption DEF IdleHolders, HolderPoints, Running, Threads, Users
<1>2. loc[t] = from /\ \A u \in Threads : loc'[u] = IF u = t THEN to ELSE loc[u]
  BY DEF ParserType, Move
<1> QED
  BY <1>1, <1>2, HoldersAre

\* The four ways in which a step deals with the token.
LEMMA TokenStays ==
    ASSUME IdleToken, UNCHANGED <<idle_, IdleHolders>>
    PROVE  IdleToken'
BY DEF IdleToken

LEMMA TokenTaken ==
    ASSUME IdleToken, ParserType, TakeIdle, NEW t, IdleHolders' = IdleHolders \cup {t}
    PROVE  IdleToken'
BY DEF IdleToken, TakeIdle, ParserType

LEMMA TokenPutBack ==
    ASSUME IdleToken, SignalIdle, NEW t \in IdleHolders, IdleHolders' = IdleHolders \ {t}
    PROVE  IdleToken'
BY DEF IdleToken, SignalIdle

LEMMA TokenPassed ==
    ASSUME IdleToken, UNCHANGED idle_, NEW t \in IdleHolders, NEW u,
           IdleHolders' = (IdleHolders \ {t}) \cup {u}
    PROVE  IdleToken'
BY DEF IdleToken

\* A move between two points with the token, or without it.
LEMMA HoldersStay ==
    ASSUME ParserType, NEW t \in Threads, NEW from, NEW to, Move(t, from, to),
           from \in HolderPoints(t) <=> to \in HolderPoints(t)
    PROVE  UNCHANGED IdleHolders
BY HoldersMove


LEMMA HolderPointsAre ==
    /\ \A w \in Workers : HolderPoints(w) = WorkerPoints
    /\ \A s \in Starters : HolderPoints(s) = {"took", "leaked"}
    /\ \A c \in Cancellers : HolderPoints(c) = {"wasIdle", "tookIdle"}
    /\ \A a \in Askers : HolderPoints(a) = {"tookIdle"}
    /\ \A p \in Producers : HolderPoints(p) = {}
BY ActorsAssumption DEF HolderPoints

LEMMA BlocksAre ==
    ASSUME ParserType
    PROVE  /\ Len(blocks) \in Nat
           /\ \A i \in 1..Len(blocks) :
                  blocks[i].kind \in Kinds /\ blocks[i].waiters \subseteq Workers
<1>1. blocks \in Seq(HandlerBlocks)
  BY DEF ParserType
<1>2. \A i \in 1..Len(blocks) : blocks[i] \in HandlerBlocks
  BY <1>1, ElementOfSeq
<1>3. Len(blocks) \in Nat
  BY <1>1, LenProperties
<1> QED
  BY <1>2, <1>3 DEF HandlerBlocks

LEMMA IdleTokenStep ==
    ASSUME ParserType, TokenInv, [Next]_vars
    PROVE  IdleToken'
<1> USE HolderPointsAre DEF Threads, Users, flags
<1>0. IdleToken /\ WaiterInv
  BY DEF TokenInv
<1>1. CASE UNCHANGED vars
  BY <1>0, <1>1, TokenStays DEF vars, IdleHolders, Running
<1>2. ASSUME NEW s \in Starters, Start(s) PROVE IdleToken'
  <2>1. CASE StartRefused(s)
    <3> Move(s, "ready", "refused") /\ UNCHANGED idle_
      BY <2>1 DEF StartRefused
    <3> QED
      BY <1>0, HoldersStay, TokenStays
  <2>2. CASE StartTake(s)
    <3> Move(s, "ready", "took") /\ TakeIdle
      BY <2>2 DEF StartTake
    <3> QED
      BY <1>0, HoldersMove, TokenTaken
  <2>3. CASE StartKilled(s)
    <3> Move(s, "took", "leaked") /\ UNCHANGED idle_
      BY <2>3 DEF StartKilled
    <3> QED
      BY <1>0, HoldersStay, TokenStays
  <2>4. ASSUME NEW w \in Workers, StartDispatch(s, w) PROVE IdleToken'
    <3>1. /\ loc[s] = "took" /\ loc[w] = "ready" /\ s # w
          /\ \A t \in Threads : loc'[t] = IF t = w THEN "fetch"
                                          ELSE IF t = s THEN "started" ELSE loc[t]
      BY <2>4, ActorsAssumption DEF StartDispatch, ParserType
    <3>2. IdleHolders' = {t \in Threads : loc'[t] \in HolderPoints(t)}
      BY ActorsAssumption DEF IdleHolders, HolderPoints, Running
    <3>3. s \in IdleHolders /\ IdleHolders' = (IdleHolders \ {s}) \cup {w}
      BY <3>1, <3>2, HoldersAre DEF WorkerPoints
    <3> QED
      BY <1>0, <2>4, <3>3, TokenPassed DEF StartDispatch
  <2> QED
    BY <1>2, <2>1, <2>2, <2>3, <2>4 DEF Start
<1>3. ASSUME NEW w \in Workers, Work(w) PROVE IdleToken'
  <2> USE DEF WorkerPoints
  <2>1. CASE \E from, to \in WorkerPoints : Move(w, from, to) /\ UNCHANGED idle_
    BY <1>0, <2>1, HoldersStay, TokenStays
  <2>2. CASE UNCHANGED <<loc, idle_>>
    BY <1>0, <2>2, TokenStays DEF IdleHolders, Running
  <2>3. CASE Release(w)
    <3> Move(w, "release", "released") /\ SignalIdle
      BY <2>3 DEF Release
    <3> QED
      BY <1>0, HoldersMove, TokenPutBack
  <2>4. CASE SetFinished(w)
    <3> Move(w, "released", "gone") /\ UNCHANGED idle_
      BY <2>4 DEF SetFinished
    <3> QED
      BY <1>0, HoldersStay, TokenStays
  <2>5. CASE ParseBegin(w) \/ ParseEnd(w)
    BY <2>1, <2>2, <2>5 DEF ParseBegin, ParseEnd, Notify, Move, Step
  <2>6. CASE Fetch(w) \/ Receive(w) \/ Underflow(w) \/ Throw(w) \/ Drain(w) \/ Drained(w)
    BY <2>1, <2>6 DEF Fetch, Receive, Underflow, Throw, Drain, Drained
  <2>7. CASE Finished(w)
    BY <2>1, <2>7 DEF Finished
  <2> QED
    BY <1>3, <2>2, <2>3, <2>4, <2>5, <2>6, <2>7
       DEF Work, Detected, DetectedBomOnly, ParseCanceled, ParseNotCanceled, EnterDocument,
           ParseFails, LoopSucceeds, LoopContinues, ExtraCharacters
<1>4. ASSUME NEW p \in Producers, Produce(p) \/ \E v \in Buffers : ParseBuffer(p, v)
      PROVE  IdleToken'
  <2>1. (\E from, to \in Points : Move(p, from, to)) \/ UNCHANGED loc
    BY <1>4 DEF Produce, ParseBufferTimeout, ParseBufferYes, ParseBufferNo, ParseBuffer, Points
  <2>2. UNCHANGED idle_
    BY <1>4 DEF Produce, ParseBufferTimeout, ParseBufferYes, ParseBufferNo, ParseBuffer
  <2> QED
    BY <1>0, <2>1, <2>2, HoldersStay, TokenStays DEF IdleHolders, Running
<1>5. ASSUME NEW c \in Cancellers, Cancel(c) PROVE IdleToken'
  <2> DEFINE Without == Points \ {"wasIdle", "tookIdle"}
  <2>1. CASE \E from, to \in Without : Move(c, from, to) /\ UNCHANGED idle_
    BY <1>0, <2>1, HoldersStay, TokenStays
  <2>2. CASE TakeIdle /\ \E from \in Without, to \in {"wasIdle", "tookIdle"} : Move(c, from, to)
    BY <1>0, <2>2, HoldersMove, TokenTaken
  <2>3. CASE SignalIdle /\ \E from \in {"wasIdle", "tookIdle"}, to \in Without : Move(c, from, to)
    BY <1>0, <2>3, HoldersMove, TokenPutBack
  <2>4. CASE UNCHANGED <<loc, idle_>>
    BY <1>0, <2>4, TokenStays DEF IdleHolders, Running
  <2>5. CASE CancelTry(c) \/ CancelAsk(c)
    BY <2>1, <2>2, <2>5 DEF CancelTry, CancelAsk, Points
  <2>6. CASE CancelAwait(c)
    BY <2>2, <2>6 DEF CancelAwait, Points
  <2>7. CASE CancelWasIdle(c) \/ CancelReturn(c)
    BY <2>3, <2>7 DEF CancelWasIdle, CancelReturn, Points
  <2>8. CASE CancelAwaitTimeout(c)
    BY <2>1, <2>4, <2>8 DEF CancelAwaitTimeout, Points
  <2>9. CASE \/ CancelKill(c) \/ CancelActions(c) \/ CancelDrain(c) \/ CancelDrained(c)
             \/ CancelOffer(c) \/ CancelOffered(c)
    BY <2>1, <2>9 DEF CancelKill, CancelActions, CancelDrain, CancelDrained, CancelOffer,
       CancelOffered, Points, WorkerPoints
  <2> QED
    BY <1>5, <2>5, <2>6, <2>7, <2>8, <2>9 DEF Cancel
<1>6. ASSUME NEW a \in Askers, Ask(a) PROVE IdleToken'
  <2>1. CASE idle_ = 0 /\ UNCHANGED idle_ /\ Move(a, "ready", "yes")
    BY <1>0, <2>1, HoldersStay, TokenStays
  <2>2. CASE TakeIdle /\ Move(a, "ready", "tookIdle")
    BY <1>0, <2>2, HoldersMove, TokenTaken
  <2>3. CASE SignalIdle /\ Move(a, "tookIdle", "no")
    BY <1>0, <2>3, HoldersMove, TokenPutBack
  <2> QED
    BY <1>6, <2>1, <2>2, <2>3 DEF Ask, IsRunning, IsNotRunning
<1>7. ASSUME NEW t \in Users, InQueue(t) PROVE IdleToken'
  BY <1>0, <1>7, TokenStays DEF InQueue, IdleHolders, Running
<1>8. CASE RunBlock
  <2>1. Head(blocks) = blocks[1] /\ 1 \in 1..Len(blocks)
    BY <1>8, HeadTailProperties DEF RunBlock, ParserType
  <2>2. \A t \in Head(blocks).waiters : t \in Workers /\ loc[t] = "inBlock" /\ loc'[t] = "run"
    <3>1. blocks[1].waiters \subseteq Workers
      BY <2>1, BlocksAre
    <3>2. \A t \in blocks[1].waiters : loc[t] = "inBlock"
      BY <1>0, <2>1 DEF WaiterInv
    <3> QED
      BY <1>8, <2>1, <3>1, <3>2 DEF RunBlock
  <2>3. \A t \in Threads \ Head(blocks).waiters : loc'[t] = loc[t]
    BY <1>8 DEF RunBlock
  <2>4. UNCHANGED IdleHolders
    BY <2>2, <2>3 DEF IdleHolders, Running, WorkerPoints
  <2> QED
    BY <1>0, <1>8, <2>4, TokenStays DEF RunBlock
<1> QED
  BY <1>1, <1>2, <1>3, <1>4, <1>5, <1>6, <1>7, <1>8 DEF Next


LEMMA WaitersKept ==
    ASSUME ParserType, WaiterInv, UNCHANGED blocks,
           \A w \in Workers : loc[w] = "inBlock" => loc'[w] = "inBlock"
    PROVE  WaiterInv'
<1>1. \A i \in 1..Len(blocks) : blocks[i].waiters \subseteq Workers
  BY BlocksAre
<1> QED
  BY <1>1 DEF WaiterInv

\* A block whose sender, if it waits, goes to wait with it.
LEMMA WaitersSent ==
    ASSUME ParserType, WaiterInv, NEW kind \in Kinds, NEW W \in SUBSET Workers,
           blocks' = Append(blocks, Block(kind, W)),
           \A w \in Workers : loc[w] = "inBlock" => loc'[w] = "inBlock",
           \A w \in W : loc[w] # "inBlock" /\ loc'[w] = "inBlock"
    PROVE  WaiterInv'
<1>1. \A i \in 1..Len(blocks) : blocks[i].waiters \subseteq Workers
  BY BlocksAre
<1>2. /\ blocks \in Seq(HandlerBlocks) /\ Block(kind, W) \in HandlerBlocks
      /\ Block(kind, W).waiters = W
  BY DEF ParserType, HandlerBlocks, Block
<1>3. /\ Len(blocks') = Len(blocks) + 1 /\ Len(blocks) \in Nat
      /\ \A i \in 1..Len(blocks) : blocks'[i] = blocks[i]
      /\ blocks'[Len(blocks) + 1] = Block(kind, W)
  BY <1>2, AppendProperties
<1>4. \A i \in 1..Len(blocks') : \A w \in blocks'[i].waiters : loc'[w] = "inBlock"
  BY <1>1, <1>2, <1>3 DEF WaiterInv
<1>5. \A i \in 1..Len(blocks) : blocks[i].waiters \cap W = {}
  BY DEF WaiterInv
<1>6. \A i, j \in 1..Len(blocks') : i # j => blocks'[i].waiters \cap blocks'[j].waiters = {}
  BY <1>2, <1>3, <1>5 DEF WaiterInv
<1> QED
  BY <1>4, <1>6 DEF WaiterInv

LEMMA WaitersOfNobody ==
    ASSUME ParserType, WaiterInv, UNCHANGED loc,
           NEW s \in Seq(HandlerBlocks), blocks' = blocks \o s,
           \A i \in 1..Len(s) : s[i].waiters = {}
    PROVE  WaiterInv'
<1>1. blocks \in Seq(HandlerBlocks)
  BY DEF ParserType
<1>2. /\ Len(blocks') = Len(blocks) + Len(s) /\ Len(blocks) \in Nat /\ Len(s) \in Nat
      /\ \A i \in 1..Len(blocks) : blocks'[i] = blocks[i]
      /\ \A i \in Len(blocks)+1 .. Len(blocks) + Len(s) : blocks'[i] = s[i - Len(blocks)]
  BY <1>1, ConcatProperties
<1>3. \A i \in 1..Len(blocks') : i > Len(blocks) => blocks'[i].waiters = {}
  BY <1>2
<1>4. \A i \in 1..Len(blocks') : i <= Len(blocks) => i \in 1..Len(blocks)
  BY <1>2
<1>5. \A i \in 1..Len(blocks') : \A w \in blocks'[i].waiters : loc'[w] = "inBlock"
  <2> SUFFICES ASSUME NEW i \in 1..Len(blocks'), NEW w \in blocks'[i].waiters
               PROVE  loc'[w] = "inBlock"
    OBVIOUS
  <2>1. CASE i > Len(blocks)
    BY <1>3, <2>1
  <2>2. CASE i <= Len(blocks)
    <3>1. i \in 1..Len(blocks) /\ blocks'[i] = blocks[i]
      BY <1>2, <1>4, <2>2
    <3> QED
      BY <3>1 DEF WaiterInv
  <2> QED
    BY <1>2, <2>1, <2>2
<1>6. \A i, j \in 1..Len(blocks') : i # j => blocks'[i].waiters \cap blocks'[j].waiters = {}
  <2> SUFFICES ASSUME NEW i \in 1..Len(blocks'), NEW j \in 1..Len(blocks'), i # j
               PROVE  blocks'[i].waiters \cap blocks'[j].waiters = {}
    OBVIOUS
  <2>1. CASE i > Len(blocks) \/ j > Len(blocks)
    BY <1>3, <2>1
  <2>2. CASE i <= Len(blocks) /\ j <= Len(blocks)
    <3>1. i \in 1..Len(blocks) /\ blocks'[i] = blocks[i] /\ j \in 1..Len(blocks) /\ blocks'[j] = blocks[j]
      BY <1>2, <1>4, <2>2
    <3> QED
      BY <3>1 DEF WaiterInv
  <2> QED
    BY <1>2, <2>1, <2>2
<1> QED
  BY <1>5, <1>6 DEF WaiterInv

LEMMA RunBlockWaiters == ASSUME ParserType, WaiterInv, RunBlock PROVE WaiterInv'
<1>1. blocks \in Seq(HandlerBlocks) /\ blocks # << >>
  BY DEF ParserType, RunBlock
<1>2. /\ Len(blocks) \in Nat /\ Len(blocks') = Len(blocks) - 1 /\ Head(blocks) = blocks[1]
      /\ \A i \in 1..Len(blocks') : blocks'[i] = blocks[i + 1]
  BY <1>1, HeadTailProperties DEF RunBlock
<1>3. \A i \in 2..Len(blocks) : Head(blocks).waiters \cap blocks[i].waiters = {}
  BY <1>1, <1>2 DEF WaiterInv
<1>4. \A i \in 1..Len(blocks) : blocks[i].waiters \subseteq Workers
  BY BlocksAre
<1>5. \A i \in 1..Len(blocks') : \A w \in blocks'[i].waiters : loc'[w] = "inBlock"
  <2> SUFFICES ASSUME NEW i \in 1..Len(blocks'), NEW w \in blocks'[i].waiters
               PROVE  loc'[w] = "inBlock"
    OBVIOUS
  <2>1. i + 1 \in 2..Len(blocks) /\ w \in blocks[i + 1].waiters
    BY <1>2
  <2>2. w \in Threads /\ loc[w] = "inBlock" /\ w \notin Head(blocks).waiters
    BY <1>3, <1>4, <2>1 DEF WaiterInv, Threads, Users
  <2> QED
    BY <2>2 DEF RunBlock
<1>6. \A i, j \in 1..Len(blocks') : i # j => blocks'[i].waiters \cap blocks'[j].waiters = {}
  <2> SUFFICES ASSUME NEW i \in 1..Len(blocks'), NEW j \in 1..Len(blocks'), i # j
               PROVE  blocks'[i].waiters \cap blocks'[j].waiters = {}
    OBVIOUS
  <2>1. i + 1 \in 1..Len(blocks) /\ j + 1 \in 1..Len(blocks) /\ i + 1 # j + 1
    BY <1>2
  <2>2. blocks[i + 1].waiters \cap blocks[j + 1].waiters = {}
    BY <2>1 DEF WaiterInv
  <2> QED
    BY <1>2, <2>2
<1> QED
  BY <1>5, <1>6 DEF WaiterInv

LEMMA MoveWaiters ==
    ASSUME ParserType, NEW t, NEW from, NEW to, from # "inBlock", Move(t, from, to)
    PROVE  \A w \in Workers : loc[w] = "inBlock" => loc'[w] = "inBlock"
BY DEF Move, ParserType, Threads, Users

LEMMA WaiterStep ==
    ASSUME ParserType, TokenInv, [Next]_vars
    PROVE  WaiterInv'
<1> USE DEF flags, parser, handlers, clients, TokenInv
<1>1. CASE UNCHANGED vars
  BY <1>1, WaitersKept DEF vars
<1>2. ASSUME NEW s \in Starters, Start(s) PROVE WaiterInv'
  <2>1. ASSUME NEW w \in Workers, StartDispatch(s, w) PROVE WaiterInv'
    BY <2>1, ActorsAssumption, WaitersKept DEF StartDispatch, ParserType, Threads, Users
  <2> QED
    BY <1>2, <2>1, MoveWaiters, WaitersKept DEF Start, StartRefused, StartTake, StartKilled
<1>3. ASSUME NEW w \in Workers, Work(w) PROVE WaiterInv'
  <2> USE DEF Kinds
  <2>1. CASE \/ Fetch(w) \/ Receive(w) \/ Underflow(w) \/ Drain(w) \/ Drained(w)
             \/ Release(w) \/ SetFinished(w)
    BY <2>1, MoveWaiters, WaitersKept
       DEF Fetch, Receive, Underflow, Drain, Drained, Release, SetFinished
  <2>2. CASE \/ Detected(w) \/ DetectedBomOnly(w) \/ ParseNotCanceled(w)
             \/ EnterDocument(w) \/ LoopSucceeds(w) \/ LoopContinues(w)
    BY <2>2, WaitersKept
       DEF Detected, DetectedBomOnly, ParseNotCanceled, EnterDocument, LoopSucceeds, LoopContinues
  <2>3. CASE Throw(w)
    BY <2>3, MoveWaiters, WaitersSent DEF Throw, Send
  <2>4. CASE Finished(w)
    BY <2>4, MoveWaiters, WaitersSent DEF Finished, Send
  <2>5. CASE ParseCanceled(w) \/ ExtraCharacters(w)
    BY <2>5, WaitersSent DEF ParseCanceled, ExtraCharacters, Send
  <2>6. ASSUME NEW kind \in Kinds, loc[w] = "run", Notify(w, kind) PROVE WaiterInv'
    <3>1. CASE option.async
      BY <2>6, <3>1, WaitersSent DEF Notify
    <3>2. CASE ~option.async
      <4>1. Move(w, "run", "inBlock") /\ blocks' = Append(blocks, Block(kind, {w}))
        BY <2>6, <3>2 DEF Notify, Move
      <4>2. loc'[w] = "inBlock"
        BY <4>1 DEF Move, ParserType, Threads, Users
      <4> QED
        BY <4>1, <4>2, <2>6, MoveWaiters, WaitersSent
    <3> QED
      BY <3>1, <3>2
  <2>7. CASE ParseBegin(w) \/ ParseEnd(w)
    BY <2>6, <2>7 DEF ParseBegin, ParseEnd, Step
  <2>8. CASE ParseFails(w)
    <3>1. CASE Send("error")
      BY <2>8, <3>1, WaitersSent DEF ParseFails, Send
    <3>2. ASSUME NEW n \in 0..2, blocks' = blocks \o [i \in 1..n |-> Block("error", {})]
          PROVE  WaiterInv'
      <4> DEFINE s == [i \in 1..n |-> Block("error", {})]
      <4>1. s \in Seq(HandlerBlocks) /\ \A i \in 1..Len(s) : s[i].waiters = {}
        BY DEF HandlerBlocks, Block
      <4>2. UNCHANGED loc
        BY <2>8 DEF ParseFails
      <4> HIDE DEF s
      <4> QED
        BY <3>2, <4>1, <4>2, WaitersOfNobody DEF s
    <3> QED
      BY <2>8, <3>1, <3>2 DEF ParseFails
  <2> QED
    BY <1>3, <2>1, <2>2, <2>3, <2>4, <2>5, <2>7, <2>8 DEF Work
<1>4. ASSUME NEW p \in Producers, Produce(p) \/ \E v \in Buffers : ParseBuffer(p, v)
      PROVE  WaiterInv'
  BY <1>4, MoveWaiters, WaitersKept
     DEF Produce, ParseBufferTimeout, ParseBufferYes, ParseBufferNo, ParseBuffer
<1>5. ASSUME NEW c \in Cancellers, Cancel(c) PROVE WaiterInv'
  <2>1. UNCHANGED blocks
    BY <1>5
       DEF Cancel, CancelTry, CancelWasIdle, CancelKill, CancelActions, CancelDrain, CancelDrained,
           CancelOffer, CancelOffered, CancelAsk, CancelAwait, CancelReturn, CancelAwaitTimeout
  <2>2. (\E from \in Points \ {"inBlock"}, to \in Points : Move(c, from, to)) \/ UNCHANGED loc
    BY <1>5
       DEF Cancel, CancelTry, CancelWasIdle, CancelKill, CancelActions, CancelDrain, CancelDrained,
           CancelOffer, CancelOffered, CancelAsk, CancelAwait, CancelReturn, CancelAwaitTimeout,
           Points, WorkerPoints
  <2> QED
    BY <2>1, <2>2, MoveWaiters, WaitersKept
<1>6. ASSUME NEW a \in Askers, Ask(a) PROVE WaiterInv'
  BY <1>6, MoveWaiters, WaitersKept DEF Ask, IsRunning, IsNotRunning
<1>7. ASSUME NEW t \in Users, InQueue(t) PROVE WaiterInv'
  BY <1>7, WaitersKept DEF InQueue
<1> QED
  BY <1>1, <1>2, <1>3, <1>4, <1>5, <1>6, <1>7, RunBlockWaiters DEF Next

LEMMA InitToken == Init => TokenInv
BY ActorsAssumption DEF Init, TokenInv, IdleToken, WaiterInv, IdleHolders, Running, WorkerPoints, Threads, Users

LEMMA TokenHolds == Spec => [](ParserType /\ TokenInv)
<1>1. Init => ParserType /\ TokenInv
  BY InitParserType, InitToken
<1>2. TypeOK => ParserType
  BY DEF TypeOK, ParserType, HandlerBlocks
<1>3. ParserType /\ TokenInv /\ [Next]_vars => TokenInv'
  BY IdleTokenStep, WaiterStep DEF TokenInv
<1> QED
  BY <1>1, <1>2, <1>3, TypeCorrect, PTL DEF Spec

\* What a parser with any number of threads keeps of its token: it is free, or
\* exactly one of the worker, a start that may dispatch it or was refused by
\* killed_, a cancel and an isRunning has it.
THEOREM TokenIsKept == Spec => []IdleToken
BY TokenHolds, PTL DEF TokenInv

-----------------------------------------------------------------------------
(* Who moves whom: a thread is moved by its own methods, a worker also by   *)
(* the start that dispatches it and by the handler queue it waits for.      *)

LEMMA OnlyMoves ==
    ASSUME ParserType, NEW t, NEW u \in Threads, u # t,
           (\E from, to \in Points : Move(t, from, to)) \/ UNCHANGED loc
    PROVE  loc'[u] = loc[u]
BY DEF Move, ParserType

LEMMA WorkMoves ==
    ASSUME NEW w \in Workers, Work(w)
    PROVE  (\E from, to \in Points : Move(w, from, to)) \/ UNCHANGED loc
BY DEF Work, Fetch, Receive, Underflow, Detected, DetectedBomOnly, Throw, ParseBegin,
   ParseCanceled, ParseNotCanceled, EnterDocument, ParseFails, ParseEnd, LoopSucceeds,
   LoopContinues, ExtraCharacters, Finished, Drained, Drain, Release, SetFinished, Step, Notify,
   Move, Points, WorkerPoints

LEMMA CancelMoves ==
    ASSUME NEW c \in Cancellers, Cancel(c)
    PROVE  (\E from, to \in Points : Move(c, from, to)) \/ UNCHANGED loc
BY DEF Cancel, CancelTry, CancelWasIdle, CancelKill, CancelActions, CancelDrain, CancelDrained,
   CancelOffer, CancelOffered, CancelAsk, CancelAwait, CancelReturn, CancelAwaitTimeout,
   Points, WorkerPoints

LEMMA ProduceMoves ==
    ASSUME NEW p \in Producers, Produce(p) \/ \E v \in Buffers : ParseBuffer(p, v)
    PROVE  (\E from, to \in Points : Move(p, from, to)) \/ UNCHANGED loc
BY DEF Produce, ParseBufferTimeout, ParseBufferYes, ParseBufferNo, ParseBuffer, Points

LEMMA AskMoves ==
    ASSUME NEW a \in Askers, Ask(a)
    PROVE  \E from, to \in Points : Move(a, from, to)
BY DEF Ask, IsRunning, IsNotRunning, Points

LEMMA StartMoves ==
    ASSUME NEW s \in Starters, Start(s)
    PROVE  \/ \E from, to \in Points : Move(s, from, to)
           \/ \E w \in Workers : StartDispatch(s, w)
BY DEF Start, StartRefused, StartTake, StartKilled, Points

LEMMA RunBlockMoves ==
    ASSUME ParserType, WaiterInv, RunBlock
    PROVE  \A t \in Threads :
               loc'[t] = loc[t] \/ (t \in Workers /\ loc[t] = "inBlock" /\ loc'[t] = "run")
<1>1. blocks \in Seq(HandlerBlocks) /\ blocks # << >>
  BY DEF ParserType, RunBlock
<1>2. Head(blocks) = blocks[1] /\ 1 \in 1..Len(blocks)
  BY <1>1, HeadTailProperties
<1>3. \A t \in Head(blocks).waiters : t \in Workers /\ loc[t] = "inBlock"
  BY <1>2, BlocksAre DEF WaiterInv
<1> QED
  BY <1>3 DEF RunBlock

LEMMA CancellerMoves ==
    ASSUME ParserType, WaiterInv, [Next]_vars, NEW c \in Cancellers
    PROVE  loc'[c] = loc[c] \/ Cancel(c)
<1> USE ActorsAssumption DEF Threads, Users
<1>1. CASE UNCHANGED vars
  BY <1>1 DEF vars
<1>2. ASSUME NEW s \in Starters, Start(s) PROVE loc'[c] = loc[c]
  <2>1. ASSUME NEW w \in Workers, StartDispatch(s, w) PROVE loc'[c] = loc[c]
    BY <2>1 DEF StartDispatch, ParserType
  <2> QED
    BY <1>2, <2>1, StartMoves, OnlyMoves
<1>3. ASSUME NEW t \in Users, InQueue(t) PROVE loc'[c] = loc[c]
  BY <1>3 DEF InQueue
<1>4. ASSUME NEW w \in Workers, Work(w) PROVE loc'[c] = loc[c]
  BY <1>4, WorkMoves, OnlyMoves
<1>5. ASSUME NEW p \in Producers, Produce(p) \/ \E v \in Buffers : ParseBuffer(p, v)
      PROVE  loc'[c] = loc[c]
  BY <1>5, ProduceMoves, OnlyMoves
<1>6. ASSUME NEW a \in Askers, Ask(a) PROVE loc'[c] = loc[c]
  BY <1>6, AskMoves, OnlyMoves
<1>7. ASSUME NEW d \in Cancellers, Cancel(d), d # c PROVE loc'[c] = loc[c]
  BY <1>7, CancelMoves, OnlyMoves
<1>8. CASE RunBlock
  BY <1>8, RunBlockMoves
<1> QED
  BY <1>1, <1>2, <1>3, <1>4, <1>5, <1>6, <1>7, <1>8 DEF Next

LEMMA WorkerMoves ==
    ASSUME ParserType, WaiterInv, [Next]_vars, NEW w \in Workers
    PROVE  \/ loc'[w] = loc[w]
           \/ Work(w)
           \/ \E s \in Starters : StartDispatch(s, w)
           \/ RunBlock /\ loc[w] = "inBlock" /\ loc'[w] = "run"
<1> USE ActorsAssumption DEF Threads, Users
<1>1. CASE UNCHANGED vars
  BY <1>1 DEF vars
<1>2. ASSUME NEW s \in Starters, Start(s)
      PROVE  loc'[w] = loc[w] \/ StartDispatch(s, w)
  <2>1. ASSUME NEW v \in Workers, v # w, StartDispatch(s, v) PROVE loc'[w] = loc[w]
    BY <2>1 DEF StartDispatch, ParserType
  <2> QED
    BY <1>2, <2>1, StartMoves, OnlyMoves
<1>3. ASSUME NEW t \in Users, InQueue(t) PROVE loc'[w] = loc[w]
  BY <1>3 DEF InQueue
<1>4. ASSUME NEW v \in Workers, v # w, Work(v) PROVE loc'[w] = loc[w]
  BY <1>4, WorkMoves, OnlyMoves
<1>5. ASSUME NEW p \in Producers, Produce(p) \/ \E v \in Buffers : ParseBuffer(p, v)
      PROVE  loc'[w] = loc[w]
  BY <1>5, ProduceMoves, OnlyMoves
<1>6. ASSUME NEW a \in Askers, Ask(a) PROVE loc'[w] = loc[w]
  BY <1>6, AskMoves, OnlyMoves
<1>7. ASSUME NEW c \in Cancellers, Cancel(c) PROVE loc'[w] = loc[w]
  BY <1>7, CancelMoves, OnlyMoves
<1>8. CASE RunBlock
  BY <1>8, RunBlockMoves
<1> QED
  BY <1>1, <1>2, <1>3, <1>4, <1>5, <1>6, <1>7, <1>8 DEF Next

-----------------------------------------------------------------------------
(* cancel.                                                                  *)

\* Where a cancel is after it has set killed_.
AfterKill == {"cancelActions", "drain", "draining", "offer", "offering", "ask",
              "tookIdle", "await", "canceled", "gaveUp"}

CancelInv ==
    /\ \A c \in Cancellers : loc[c] \in AfterKill => killed_
    /\ CancelStopsWorker

LEMMA KilledForEver == [Next]_vars /\ killed_ => killed_'
BY DEF Next, vars, flags, Start, StartRefused, StartTake, StartKilled, StartDispatch,
   Work, Fetch, Receive, Underflow, Detected, DetectedBomOnly, Throw, ParseBegin,
   ParseCanceled, ParseNotCanceled, EnterDocument, ParseFails, ParseEnd, LoopSucceeds,
   LoopContinues, ExtraCharacters, Finished, Drained, Drain, Release, SetFinished,
   Produce, ParseBufferTimeout, ParseBufferYes, ParseBufferNo, ParseBuffer,
   Cancel, CancelTry, CancelWasIdle, CancelKill, CancelActions, CancelDrain, CancelDrained,
   CancelOffer, CancelOffered, CancelAsk, CancelAwait, CancelReturn, CancelAwaitTimeout,
   Ask, IsRunning, IsNotRunning, InQueue, RunBlock

\* Once the parser is killed no block starts to work.
LEMMA NoNewWorker ==
    ASSUME ParserType, WaiterInv, [Next]_vars, killed_, NEW w \in Workers, Running(w)'
    PROVE  Running(w)
<1> USE DEF Running, WorkerPoints
<1>1. CASE Work(w)
  BY <1>1
     DEF Work, Fetch, Receive, Underflow, Detected, DetectedBomOnly, Throw, ParseBegin,
         ParseCanceled, ParseNotCanceled, EnterDocument, ParseFails, ParseEnd, LoopSucceeds,
         LoopContinues, ExtraCharacters, Finished, Drained, Drain, Release, SetFinished, Step,
         Notify, Move, ParserType, Threads, Users
<1>2. CASE \E s \in Starters : StartDispatch(s, w)
  BY <1>2 DEF StartDispatch
<1> QED
  BY <1>1, <1>2, WorkerMoves

LEMMA CancelStep ==
    ASSUME ParserType, TokenInv, CancelInv, [Next]_vars
    PROVE  CancelInv'
<1> USE DEF TokenInv
<1>1. ASSUME NEW c \in Cancellers, loc'[c] \in AfterKill PROVE killed_'
  <2>1. CASE loc'[c] = loc[c]
    BY <1>1, <2>1, KilledForEver DEF CancelInv
  <2>2. CASE CancelKill(c)
    BY <2>2 DEF CancelKill
  <2>3. CASE CancelTry(c) \/ CancelWasIdle(c)
    BY <1>1, <2>3 DEF CancelTry, CancelWasIdle, Move, AfterKill, ParserType, Threads, Users
  <2>4. CASE loc[c] \in AfterKill
    BY <2>4, KilledForEver DEF CancelInv
  <2>5. CASE \/ CancelActions(c) \/ CancelDrain(c) \/ CancelDrained(c) \/ CancelOffer(c)
             \/ CancelOffered(c) \/ CancelAsk(c) \/ CancelAwait(c) \/ CancelReturn(c)
             \/ CancelAwaitTimeout(c)
    BY <2>4, <2>5
       DEF CancelActions, CancelDrain, CancelDrained, CancelOffer, CancelOffered, CancelAsk,
           CancelAwait, CancelReturn, CancelAwaitTimeout, Move, AfterKill
  <2> QED
    BY <2>1, <2>2, <2>3, <2>5, CancellerMoves DEF Cancel
<1>2. ASSUME NEW c \in Cancellers, loc'[c] = "canceled", NEW w \in Workers, Running(w)'
      PROVE  FALSE
  <2>1. CASE loc[c] = "canceled"
    BY <1>2, <2>1, NoNewWorker DEF CancelInv, AfterKill, CancelStopsWorker
  <2>2. CASE loc[c] # "canceled"
    <3>1. CancelReturn(c)
      <4>1. Cancel(c)
        BY <1>2, <2>2, CancellerMoves
      <4> QED
        BY <1>2, <2>2, <4>1
           DEF Cancel, CancelTry, CancelWasIdle, CancelKill, CancelActions, CancelDrain,
               CancelDrained, CancelOffer, CancelOffered, CancelAsk, CancelAwait,
               CancelAwaitTimeout, Move, ParserType, Threads, Users
    <3>2. loc[c] = "tookIdle" /\ w # c /\ loc'[w] = loc[w]
      BY <3>1, ActorsAssumption DEF CancelReturn, Move, ParserType, Threads, Users
    <3>3. c \in IdleHolders /\ w \in IdleHolders
      BY <1>2, <3>2 DEF IdleHolders, Running
    <3> QED
      BY <3>2, <3>3 DEF IdleToken
  <2> QED
    BY <2>1, <2>2
<1> QED
  BY <1>1, <1>2 DEF CancelInv, CancelStopsWorker

LEMMA CancelHolds == Spec => []CancelInv
<1>1. Init => CancelInv
  BY DEF Init, CancelInv, CancelStopsWorker, AfterKill, Threads, Users
<1>2. ParserType /\ TokenInv /\ CancelInv /\ [Next]_vars => CancelInv'
  BY CancelStep
<1> QED
  BY <1>1, <1>2, TokenHolds, PTL DEF Spec

\* "cancel will block until the parser's worker thread has been exited": when a
\* cancel that found the parser running has returned, and did not give up, no
\* worker runs, and none will be started.  It had the token itself when it
\* returned, and killed_ stops every start that takes the token after it.
THEOREM CancelIsFinal == Spec => []CancelStopsWorker
<1>1. CancelInv => CancelStopsWorker
  BY DEF CancelInv
<1> QED
  BY <1>1, CancelHolds, PTL

-----------------------------------------------------------------------------
(* The handler blocks.                                                      *)

\* The block that was sent last.
Latest == IF blocks = << >> THEN last ELSE blocks[Len(blocks)].kind

ChainInv ==
    /\ blocks # << >> => blocks[1].kind \in MayFollow[last]
    /\ \A i \in 1..(Len(blocks) - 1) : blocks[i + 1].kind \in MayFollow[blocks[i].kind]

Parsing(w) == loc[w] \in {"fetch", "fetching", "run", "inBlock"}

\* What a worker sent last when it is in a phase.
SentBefore == [
    detect    |-> {"none", "completion"},
    lookahead |-> {"none", "completion"},
    begin     |-> {"none", "completion", "end"},
    check     |-> {"start"},
    text      |-> {"start"},
    inside    |-> {"start"},
    after     |-> {"end"},
    finish    |-> {"start", "end", "error"}]

PhaseInv ==
    /\ \A w \in Workers : Parsing(w) => Latest \in SentBefore[phase[w]]
    /\ \A w \in Workers : loc[w] = "ready" => phase[w] = "detect"
    /\ ~killed_ /\ (\A w \in Workers : ~Parsing(w)) => Latest \in {"none", "completion"}

OrderInv == ChainInv /\ PhaseInv

LEMMA BlockSent ==
    ASSUME ParserType, ChainInv, NEW kind \in Kinds, NEW W \in SUBSET Workers,
           blocks' = Append(blocks, Block(kind, W)), UNCHANGED last,
           kind \in MayFollow[Latest]
    PROVE  ChainInv' /\ Latest' = kind
<1>1. /\ blocks \in Seq(HandlerBlocks) /\ Block(kind, W) \in HandlerBlocks
      /\ Block(kind, W).kind = kind
  BY DEF ParserType, HandlerBlocks, Block
<1>2. /\ Len(blocks') = Len(blocks) + 1 /\ Len(blocks) \in Nat
      /\ \A i \in 1..Len(blocks) : blocks'[i] = blocks[i]
      /\ blocks'[Len(blocks) + 1] = Block(kind, W)
      /\ blocks' # << >>
  BY <1>1, AppendProperties
<1>3. Latest' = kind
  BY <1>1, <1>2 DEF Latest
<1>4. CASE blocks = << >>
  BY <1>1, <1>2, <1>3, <1>4 DEF ChainInv, Latest
<1>5. CASE blocks # << >>
  <2>1. Len(blocks) >= 1 /\ Latest = blocks[Len(blocks)].kind
    BY <1>1, <1>5, EmptySeq DEF Latest
  <2>2. blocks'[1].kind \in MayFollow[last']
    BY <1>2, <1>5, <2>1 DEF ChainInv
  <2>3. ASSUME NEW i \in 1..(Len(blocks') - 1)
        PROVE  blocks'[i + 1].kind \in MayFollow[blocks'[i].kind]
    <3>1. CASE i = Len(blocks)
      BY <1>1, <1>2, <2>1, <3>1
    <3>2. CASE i # Len(blocks)
      BY <1>2, <2>1, <3>2 DEF ChainInv
    <3> QED
      BY <3>1, <3>2
  <2> QED
    BY <1>3, <2>2, <2>3 DEF ChainInv
<1> QED
  BY <1>4, <1>5

\* The errors that the levels of the parser report one after the other.
LEMMA ErrorsSent ==
    ASSUME ParserType, ChainInv, Latest = "start", UNCHANGED last,
           NEW n \in 0..2, blocks' = blocks \o [i \in 1..n |-> Block("error", {})]
    PROVE  ChainInv' /\ Latest' \in {"start", "error"}
<1> DEFINE s == [i \in 1..n |-> Block("error", {})]
<1>1. /\ blocks \in Seq(HandlerBlocks) /\ s \in Seq(HandlerBlocks) /\ Len(s) = n
      /\ \A i \in 1..n : s[i].kind = "error"
  BY DEF ParserType, HandlerBlocks, Block, Kinds
<1> HIDE DEF s
<1>2. /\ Len(blocks') = Len(blocks) + n /\ Len(blocks) \in Nat
      /\ \A i \in 1..Len(blocks) : blocks'[i] = blocks[i]
      /\ \A i \in Len(blocks)+1 .. Len(blocks)+n : blocks'[i].kind = "error"
      /\ blocks' \in Seq(HandlerBlocks)
  <2>1. blocks' = blocks \o s
    BY DEF s
  <2> QED
    BY <1>1, <2>1, ConcatProperties
<1>3. blocks = << >> <=> Len(blocks) = 0
  BY <1>1, EmptySeq
<1>4. blocks' = << >> <=> Len(blocks') = 0
  BY <1>2, EmptySeq
<1>5. "error" \in MayFollow["error"] /\ "error" \in MayFollow["start"]
  BY DEF MayFollow
<1>6. Latest' = IF n = 0 THEN "start" ELSE "error"
  <2>1. CASE n = 0 /\ blocks = << >>
    BY <1>2, <1>3, <1>4, <2>1 DEF Latest
  <2>2. CASE n = 0 /\ blocks # << >>
    <3> Len(blocks) \in 1..Len(blocks) /\ Len(blocks') = Len(blocks) /\ blocks' # << >>
      BY <1>2, <1>3, <1>4, <2>2
    <3> QED
      BY <1>2, <2>2 DEF Latest
  <2>3. CASE n # 0
    <3> Len(blocks') \in Len(blocks)+1 .. Len(blocks)+n /\ blocks' # << >>
      BY <1>2, <1>4, <2>3
    <3> QED
      BY <1>2, <2>3 DEF Latest
  <2> QED
    BY <2>1, <2>2, <2>3
<1>7. blocks' # << >> => blocks'[1].kind \in MayFollow[last']
  BY <1>2, <1>3, <1>4, <1>5 DEF ChainInv, Latest
<1>8. ASSUME NEW i \in 1..(Len(blocks') - 1)
      PROVE  blocks'[i + 1].kind \in MayFollow[blocks'[i].kind]
  <2>1. CASE i < Len(blocks)
    BY <1>2, <2>1 DEF ChainInv
  <2>2. CASE i = Len(blocks)
    BY <1>2, <1>3, <1>5, <2>2 DEF Latest
  <2>3. CASE i > Len(blocks)
    BY <1>2, <1>5, <2>3
  <2> QED
    BY <1>2, <2>1, <2>2, <2>3
<1> QED
  BY <1>6, <1>7, <1>8 DEF ChainInv

LEMMA BlockRun ==
    ASSUME ParserType, ChainInv, RunBlock
    PROVE  ChainInv' /\ Latest' = Latest /\ last' \in MayFollow[last]
<1>1. blocks \in Seq(HandlerBlocks) /\ blocks # << >>
  BY DEF ParserType, RunBlock
<1>2. /\ Len(blocks) \in Nat /\ Len(blocks) >= 1 /\ Len(blocks') = Len(blocks) - 1
      /\ Head(blocks) = blocks[1]
      /\ \A i \in 1..Len(blocks') : blocks'[i] = blocks[i + 1]
      /\ blocks' \in Seq(HandlerBlocks)
  BY <1>1, HeadTailProperties, EmptySeq DEF RunBlock
<1>3. last' = blocks[1].kind
  BY <1>2 DEF RunBlock
<1>4. last' \in MayFollow[last]
  BY <1>1, <1>3 DEF ChainInv
<1>5. blocks' = << >> <=> Len(blocks') = 0
  BY <1>2, EmptySeq
<1>6. Latest' = Latest
  BY <1>1, <1>2, <1>3, <1>5 DEF Latest
<1>7. blocks' # << >> => blocks'[1].kind \in MayFollow[last']
  BY <1>2, <1>3, <1>5 DEF ChainInv
<1>8. \A i \in 1..(Len(blocks') - 1) : blocks'[i + 1].kind \in MayFollow[blocks'[i].kind]
  BY <1>2 DEF ChainInv
<1> QED
  BY <1>4, <1>6, <1>7, <1>8 DEF ChainInv

\* A step that leaves the worker that parses where it is.
LEMMA PhasesStay ==
    ASSUME OrderInv, [Next]_vars, UNCHANGED <<phase, Latest>>,
           \A w \in Workers : /\ Parsing(w)' <=> Parsing(w)
                              /\ loc'[w] = "ready" => loc[w] = "ready"
    PROVE  PhaseInv'
BY KilledForEver DEF OrderInv, PhaseInv

\* A step of the worker that parses: it is the only one.
LEMMA WorkerAlone ==
    ASSUME ParserType, TokenInv, NEW w \in Workers, Running(w)
    PROVE  \A v \in Workers : v # w => ~Running(v) /\ ~Parsing(v)
BY DEF TokenInv, IdleToken, IdleHolders, Running, Parsing, WorkerPoints

LEMMA PhaseOfWorker ==
    ASSUME ParserType, TokenInv, OrderInv, NEW w \in Workers, Work(w), Running(w),
           \A v \in Workers : v # w => phase'[v] = phase[v],
           loc'[w] # "ready",
           Parsing(w)' => Latest' \in SentBefore[phase'[w]],
           ~Parsing(w)' /\ ~killed_' => Latest' \in {"none", "completion"}
    PROVE  PhaseInv'
<1>1. \A v \in Workers : v # w => loc'[v] = loc[v]
  BY WorkMoves, OnlyMoves DEF Threads, Users
<1>2. \A v \in Workers : v # w => ~Parsing(v)'
  BY <1>1, WorkerAlone DEF Parsing
<1> QED
  BY <1>1, <1>2 DEF PhaseInv, OrderInv


LEMMA ChainStays ==
    ASSUME ChainInv, UNCHANGED <<blocks, last>>
    PROVE  ChainInv' /\ Latest' = Latest
BY DEF ChainInv, Latest

LEMMA WorkOrder ==
    ASSUME ParserType, TokenInv, OrderInv, [Next]_vars, NEW w \in Workers, Work(w)
    PROVE  OrderInv'
<1> USE DEF handlers, parser, flags
<1>0. /\ ChainInv
      /\ \A v \in Workers : Parsing(v) => Latest \in SentBefore[phase[v]]
  BY DEF OrderInv, PhaseInv
<1>1. CASE Fetch(w) \/ Receive(w)
  <2>1. UNCHANGED <<blocks, last, phase>>
    BY <1>1 DEF Fetch, Receive
  <2>2. \A v \in Workers : (Parsing(v)' <=> Parsing(v)) /\ (loc'[v] = "ready" => loc[v] = "ready")
    BY <1>1 DEF Fetch, Receive, Move, Parsing, ParserType, Threads, Users
  <2> QED
    BY <1>0, <2>1, <2>2, ChainStays, PhasesStay DEF OrderInv
<1>2. CASE Drain(w) \/ Drained(w) \/ Release(w) \/ SetFinished(w)
  <2>1. UNCHANGED <<blocks, last, phase>>
    BY <1>2 DEF Drain, Drained, Release, SetFinished
  <2>2. \A v \in Workers : (Parsing(v)' <=> Parsing(v)) /\ (loc'[v] = "ready" => loc[v] = "ready")
    BY <1>2 DEF Drain, Drained, Release, SetFinished, Move, Parsing, ParserType, Threads, Users
  <2> QED
    BY <1>0, <2>1, <2>2, ChainStays, PhasesStay DEF OrderInv
<1>3. CASE ~(Fetch(w) \/ Receive(w) \/ Drain(w) \/ Drained(w) \/ Release(w) \/ SetFinished(w))
  <2>1. loc[w] = "run"
    BY <1>3
       DEF Work, Underflow, Detected, DetectedBomOnly, Throw, ParseBegin, ParseCanceled,
           ParseNotCanceled, EnterDocument, ParseFails, ParseEnd, LoopSucceeds, LoopContinues,
           ExtraCharacters, Finished, Step, Move
  <2>2. Running(w) /\ Parsing(w) /\ Latest \in SentBefore[phase[w]]
    BY <1>0, <2>1 DEF Running, WorkerPoints, Parsing
  <2>3. phase \in [Workers -> Phases] /\ loc \in [Threads -> Points] /\ w \in Threads
    BY DEF ParserType, Threads, Users
  <2>4. SUFFICES
           /\ ChainInv'
           /\ \A v \in Workers : v # w => phase'[v] = phase[v]
           /\ loc'[w] # "ready"
           /\ Parsing(w)' => Latest' \in SentBefore[phase'[w]]
           /\ ~Parsing(w)' /\ ~killed_' => Latest' \in {"none", "completion"}
    BY <2>2, PhaseOfWorker DEF OrderInv
  <2> USE <2>1, <2>2, <2>3 DEF SentBefore, Move, Step, Parsing, Phases
  <2>5. CASE Underflow(w)
    BY <1>0, <2>5, ChainStays DEF Underflow
  <2>6. CASE \/ Detected(w) \/ DetectedBomOnly(w) \/ ParseNotCanceled(w) \/ EnterDocument(w)
             \/ LoopSucceeds(w) \/ LoopContinues(w)
    BY <1>0, <2>6, ChainStays
       DEF Detected, DetectedBomOnly, ParseNotCanceled, EnterDocument, LoopSucceeds, LoopContinues
  <2>7. ASSUME NEW kind \in Kinds, Send(kind), kind \in MayFollow[Latest]
        PROVE  ChainInv' /\ Latest' = kind
    BY <1>0, <2>7, BlockSent DEF Send
  <2>8. ASSUME NEW kind \in Kinds, Notify(w, kind), kind \in MayFollow[Latest]
        PROVE  ChainInv' /\ Latest' = kind /\ loc'[w] \in {"run", "inBlock"}
    BY <1>0, <2>8, BlockSent DEF Notify
  <2> USE DEF MayFollow, Kinds
  <2>9. CASE Throw(w)
    BY <2>7, <2>9 DEF Throw
  <2>10. CASE ParseBegin(w)
    BY <2>8, <2>10 DEF ParseBegin
  <2>11. CASE ParseCanceled(w)
    BY <2>7, <2>11 DEF ParseCanceled
  <2>12. CASE ParseFails(w)
    <3>1. CASE Step(w, "text", "finish") /\ Send("error")
      BY <2>7, <2>12, <3>1 DEF ParseFails
    <3>2. ASSUME NEW n \in 0..2, Step(w, "inside", "finish"), UNCHANGED <<handler, last>>,
                 blocks' = blocks \o [i \in 1..n |-> Block("error", {})]
          PROVE  ChainInv' /\ Latest' \in {"start", "error"}
      <4>1. Latest = "start"
        BY <3>2
      <4> QED
        BY <1>0, <3>2, <4>1, ErrorsSent
    <3> QED
      BY <2>12, <3>1, <3>2 DEF ParseFails
  <2>13. CASE ParseEnd(w)
    BY <2>8, <2>13 DEF ParseEnd
  <2>14. CASE ExtraCharacters(w)
    BY <2>7, <2>14 DEF ExtraCharacters
  <2>15. CASE Finished(w)
    BY <2>7, <2>15 DEF Finished
  <2> QED
    BY <1>3, <2>5, <2>6, <2>9, <2>10, <2>11, <2>12, <2>13, <2>14, <2>15 DEF Work
<1> QED
  BY <1>1, <1>2, <1>3

LEMMA OrderStep ==
    ASSUME ParserType, TokenInv, OrderInv, [Next]_vars
    PROVE  OrderInv'
<1> USE DEF handlers, parser, flags
<1>0. ChainInv /\ WaiterInv
  BY DEF OrderInv, TokenInv
<1>1. ASSUME UNCHANGED <<blocks, last, phase>>, UNCHANGED loc \/ \E t \in Threads \ Workers,
             from, to \in Points : Move(t, from, to)
      PROVE  OrderInv'
  <2>1. \A v \in Workers : loc'[v] = loc[v]
    BY <1>1, OnlyMoves DEF Threads, Users
  <2>2. \A v \in Workers : (Parsing(v)' <=> Parsing(v)) /\ (loc'[v] = "ready" => loc[v] = "ready")
    BY <2>1 DEF Parsing
  <2> QED
    BY <1>0, <1>1, <2>2, ChainStays, PhasesStay DEF OrderInv
<1>2. CASE UNCHANGED vars
  BY <1>1, <1>2 DEF vars
<1>3. ASSUME NEW s \in Starters, Start(s) PROVE OrderInv'
  <2>1. ASSUME NEW w \in Workers, StartDispatch(s, w) PROVE OrderInv'
    <3>1. ChainInv' /\ Latest' = Latest
      BY <1>0, <2>1, ChainStays DEF StartDispatch
    <3>2. /\ loc[s] = "took" /\ ~killed_ /\ loc[w] = "ready" /\ s \notin Workers
          /\ UNCHANGED <<phase, killed_>>
          /\ \A v \in Workers : loc'[v] = IF v = w THEN "fetch" ELSE loc[v]
      BY <2>1, ActorsAssumption DEF StartDispatch, ParserType, Threads, Users
    <3>3. s \in IdleHolders
      BY <3>2 DEF IdleHolders
    <3>4. \A v \in Workers : ~Parsing(v)
      BY <3>2, <3>3 DEF Parsing, IdleHolders, Running, WorkerPoints, TokenInv, IdleToken
    <3>5. Latest \in {"none", "completion"} /\ phase[w] = "detect"
      BY <3>2, <3>4 DEF OrderInv, PhaseInv
    <3> QED
      BY <3>1, <3>2, <3>4, <3>5 DEF OrderInv, PhaseInv, Parsing, SentBefore
  <2>2. CASE StartRefused(s) \/ StartTake(s) \/ StartKilled(s)
    BY <1>1, <2>2, ActorsAssumption DEF StartRefused, StartTake, StartKilled, Threads, Points
  <2> QED
    BY <1>3, <2>1, <2>2 DEF Start
<1>4. ASSUME NEW p \in Producers, Produce(p) \/ \E v \in Buffers : ParseBuffer(p, v)
      PROVE  OrderInv'
  <2>1. UNCHANGED <<blocks, last, phase>>
    BY <1>4 DEF Produce, ParseBufferTimeout, ParseBufferYes, ParseBufferNo, ParseBuffer
  <2> QED
    BY <1>1, <1>4, <2>1, ProduceMoves, ActorsAssumption DEF Threads, Users
<1>5. ASSUME NEW c \in Cancellers, Cancel(c) PROVE OrderInv'
  <2>1. UNCHANGED <<blocks, last, phase>>
    BY <1>5
       DEF Cancel, CancelTry, CancelWasIdle, CancelKill, CancelActions, CancelDrain, CancelDrained,
           CancelOffer, CancelOffered, CancelAsk, CancelAwait, CancelReturn, CancelAwaitTimeout
  <2> QED
    BY <1>1, <1>5, <2>1, CancelMoves, ActorsAssumption DEF Threads, Users
<1>6. ASSUME NEW a \in Askers, Ask(a) PROVE OrderInv'
  <2>1. UNCHANGED <<blocks, last, phase>>
    BY <1>6 DEF Ask, IsRunning, IsNotRunning
  <2> QED
    BY <1>1, <1>6, <2>1, AskMoves, ActorsAssumption DEF Threads
<1>7. ASSUME NEW t \in Users, InQueue(t) PROVE OrderInv'
  BY <1>1, <1>7 DEF InQueue
<1>8. CASE RunBlock
  <2>1. ChainInv' /\ Latest' = Latest
    BY <1>0, <1>8, BlockRun
  <2>2. \A v \in Workers : (Parsing(v)' <=> Parsing(v)) /\ (loc'[v] = "ready" => loc[v] = "ready")
    BY <1>0, <1>8, RunBlockMoves DEF Parsing, Threads, Users
  <2>3. UNCHANGED phase
    BY <1>8 DEF RunBlock
  <2> QED
    BY <2>1, <2>2, <2>3, PhasesStay DEF OrderInv
<1> QED
  BY <1>2, <1>3, <1>4, <1>5, <1>6, <1>7, <1>8, WorkOrder DEF Next

LEMMA InitOrder == Init => OrderInv
BY DEF Init, OrderInv, ChainInv, PhaseInv, Parsing, Latest, Threads, Users

\* The handler blocks of a parser run in the order its caller relies on, however
\* many runs it makes: a document ends after it started, after an error comes
\* nothing but an error or the completion, and the completion ends the run.
THEOREM BlocksInOrder == Spec => BlockOrder
<1>1. Init => OrderInv
  BY InitOrder
<1>2. ParserType /\ TokenInv /\ OrderInv /\ [Next]_vars => OrderInv'
  BY OrderStep
<1>3. ParserType /\ OrderInv => (RunBlock => last' \in MayFollow[last])
  BY BlockRun DEF OrderInv
<1> QED
  BY <1>1, <1>2, <1>3, TokenHolds, PTL DEF Spec, BlockOrder

-----------------------------------------------------------------------------
(***************************************************************************)
(* Why the worker reads what parseBuffer: accepted: NoTextSkipped, for a   *)
(* parser with one producer and any number of starts, cancels and calls of *)
(* isRunning, of any length.                                               *)
(*                                                                         *)
(* A text is on its way in one of three places: it waits outside the queue *)
(* until the cell is free, it is in the cell, or a worker took it out and  *)
(* has not yet looked at it.  TextInv says which number the text in each   *)
(* place has, counted from what the producer sent.                         *)
(***************************************************************************)

\* As -parseBuffer: is meant to be called: by one thread, and not with a byte
\* order mark as the whole input.
OneProducer == (\E p : Producers = {p}) /\ ~BomOnly

\* The first run of a parser nobody has killed, until the worker stops reading.
Reading ==
    /\ ~killed_
    /\ \A w \in Workers : loc[w] \in {"ready", "fetch", "fetching", "run", "inBlock"}

Outside(p) ==
    /\ loc[p] = "putting"
    /\ \/ pc[p] \in {"waitSend", "store"}
       \/ pc[p] = "idle" /\ result[p] = "TIMEOUT_NOT_DELIVERED"
InHand(w) == loc[w] = "fetching" /\ pc[w] \in {"signalSync", "signalSend", "idle"}
Hand == \E w \in Workers : InHand(w)
Eof == \E w \in Workers : input[w] = "eof"

\* How many buffers the producer has put into the cell, the worker has taken out
\* of it, and has looked at.
Stored(p) == IF Outside(p) THEN sent[p] - 1 ELSE sent[p]
Taken(p) == IF empty_ THEN Stored(p) ELSE Stored(p) - 1
Received(p) == IF Hand THEN Taken(p) - 1 ELSE Taken(p)

\* Where the threads are in the queue, as seen from the methods of the parser.
LinkInv(p) ==
    /\ finished_ => \E w \in Workers : loc[w] = "gone"
    /\ \A t \in Users :
        /\ pc[t] # "idle" => loc[t] \in {"fetching", "putting", "draining", "offering"}
        /\ op[t] \notin {"acquire", "acquireTimeout"}
        /\ t \in Cancellers => loc[t] \notin {"fetching", "putting"}
    /\ \A w \in Workers :
        /\ loc[w] = "fetching" =>
            /\ op[w] = "get"
            /\ pc[w] \in {"idle", "waitRecv", "take", "signalSync", "signalSend"}
        /\ loc[w] \in {"fetch", "fetching"} => input[w] # "eof"
        /\ loc[w] = "ready" => input[w] = "none"
    /\ loc[p] \in {"ready", "putting", "no"}
    /\ loc[p] = "putting" =>
        /\ op[p] = "putTimeout"
        /\ pc[p] \in {"idle", "waitSend", "store", "publish", "waitSync"}

PlacesInv(p) ==
    /\ arg[p] \in {nil, sent[p]}
    /\ ~empty_ /\ ~Outside(p) => storage_ = arg[p]
    /\ ~empty_ /\ Outside(p) => storage_ \in {nil, Stored(p)}
    /\ \A w \in Workers : InHand(w) =>
        /\ got[w] \in {nil, Taken(p)}
        /\ empty_ /\ ~Outside(p) => got[w] = arg[p]
    /\ ~Eof => read = Received(p)
    /\ Eof /\ empty_ /\ ~Outside(p) => arg[p] = nil

TextInv(p) == LinkInv(p) /\ (Reading => PlacesInv(p))

-----------------------------------------------------------------------------
(* Threads and their calls of the queue.                                    *)

InCall == {"fetching", "putting", "draining", "offering"}

\* A thread takes its steps in the queue alone and inside a call.
LEMMA QueueStepOf ==
    ASSUME Queue!TypeOK, NEW t \in Users, InQueue(t)
    PROVE  /\ pc[t] # "idle"
           /\ UNCHANGED <<op, arg, loc>>
           /\ \A u \in Users : u # t => pc'[u] = pc[u] /\ got'[u] = got[u] /\ result'[u] = result[u]
BY DEF InQueue, Queue!TypeOK, SyncQueue!Advance, SyncQueue!TimeOut,
   SyncQueue!PutWaitSend, SyncQueue!PutStore, SyncQueue!PutPublish, SyncQueue!PutWaitSync,
   SyncQueue!GetWaitRecv, SyncQueue!GetTake, SyncQueue!AcquireCopy, SyncQueue!SignalSync,
   SyncQueue!SignalSend, SyncQueue!PutNotDelivered, SyncQueue!PutNotPicked,
   SyncQueue!GetNothingOffered, SyncQueue!Goto, SyncQueue!Return, SyncQueue!sems, SyncQueue!cell

LEMMA PutPoints ==
    ASSUME Queue!TypeOK, NEW t \in Users, InQueue(t),
           pc[t] \in {"idle", "waitSend", "store", "publish", "waitSync"}
    PROVE  pc'[t] \in {"idle", "store", "publish", "waitSync"}
BY DEF InQueue, Queue!TypeOK, SyncQueue!Advance, SyncQueue!TimeOut,
   SyncQueue!PutWaitSend, SyncQueue!PutStore, SyncQueue!PutPublish, SyncQueue!PutWaitSync,
   SyncQueue!GetWaitRecv, SyncQueue!GetTake, SyncQueue!AcquireCopy, SyncQueue!SignalSync,
   SyncQueue!SignalSend, SyncQueue!PutNotDelivered, SyncQueue!PutNotPicked,
   SyncQueue!GetNothingOffered, SyncQueue!Goto, SyncQueue!Return

LEMMA GetPoints ==
    ASSUME Queue!TypeOK, NEW t \in Users, InQueue(t), op[t] = "get",
           pc[t] \in {"idle", "waitRecv", "take", "signalSync", "signalSend"}
    PROVE  pc'[t] \in {"idle", "take", "signalSync", "signalSend"}
BY DEF InQueue, Queue!TypeOK, SyncQueue!Advance, SyncQueue!TimeOut,
   SyncQueue!PutWaitSend, SyncQueue!PutStore, SyncQueue!PutPublish, SyncQueue!PutWaitSync,
   SyncQueue!GetWaitRecv, SyncQueue!GetTake, SyncQueue!AcquireCopy, SyncQueue!SignalSync,
   SyncQueue!SignalSend, SyncQueue!PutNotDelivered, SyncQueue!PutNotPicked,
   SyncQueue!GetNothingOffered, SyncQueue!Goto, SyncQueue!Return, SyncQueue!AcquireOps,
   SyncQueue!Expire, SyncQueue!TimedOps

\* The moves of the methods around their calls.
LEMMA WorkCalls ==
    ASSUME Queue!TypeOK, ParserType, NEW w \in Workers, Work(w)
    PROVE  \/ /\ UNCHANGED <<pc, op>>
              /\ loc'[w] \in InCall => loc[w] \in InCall
              /\ loc[w] \in InCall => pc[w] = "idle"
              /\ loc'[w] # "fetching"
           \/ /\ pc[w] = "idle" /\ pc' = [pc EXCEPT ![w] = "waitRecv"]
              /\ \/ loc[w] = "fetch" /\ loc'[w] = "fetching" /\ op' = [op EXCEPT ![w] = "get"]
                 \/ loc'[w] = "draining" /\ op' = [op EXCEPT ![w] = "getTimeout"]
<1> USE DEF Move, Step, Returned, InCall, queue, ParserType, Threads, Users
<1>1. CASE Fetch(w) \/ Drain(w)
  BY <1>1 DEF Fetch, Drain, Get, Poll, SyncQueue!CallGet, SyncQueue!Goto
<1>2. CASE Receive(w) \/ Drained(w)
  BY <1>2 DEF Receive, Drained
<1>3. CASE ParseBegin(w) \/ ParseEnd(w)
  BY <1>3 DEF ParseBegin, ParseEnd, Notify
<1>4. CASE Underflow(w) \/ Throw(w) \/ Finished(w) \/ Release(w) \/ SetFinished(w)
  BY <1>4 DEF Underflow, Throw, Finished, Release, SetFinished
<1>5. CASE \/ Detected(w) \/ DetectedBomOnly(w) \/ ParseCanceled(w) \/ ParseNotCanceled(w)
           \/ EnterDocument(w) \/ ParseFails(w) \/ LoopSucceeds(w) \/ LoopContinues(w)
           \/ ExtraCharacters(w)
  BY <1>5
     DEF Detected, DetectedBomOnly, ParseCanceled, ParseNotCanceled, EnterDocument, ParseFails,
         LoopSucceeds, LoopContinues, ExtraCharacters
<1> QED
  BY <1>1, <1>2, <1>3, <1>4, <1>5 DEF Work

LEMMA CancelCalls ==
    ASSUME Queue!TypeOK, ParserType, NEW c \in Cancellers, Cancel(c)
    PROVE  \/ /\ UNCHANGED <<pc, op>>
              /\ loc'[c] \notin InCall
              /\ loc[c] \in InCall => pc[c] = "idle"
           \/ /\ pc[c] = "idle" /\ loc'[c] \in {"draining", "offering"}
              /\ \/ /\ pc' = [pc EXCEPT ![c] = "waitRecv"]
                    /\ op' = [op EXCEPT ![c] = "getTimeout"]
                 \/ /\ pc' = [pc EXCEPT ![c] = "waitSend"]
                    /\ op' = [op EXCEPT ![c] = "putTimeout"]
<1> USE DEF Move, Returned, InCall, queue, ParserType, Threads, Users
<1>1. CASE CancelDrain(c) \/ CancelOffer(c)
  BY <1>1
     DEF CancelDrain, CancelOffer, Poll, Put, SyncQueue!CallGet, SyncQueue!CallPut, SyncQueue!Goto
<1>2. CASE CancelDrained(c) \/ CancelOffered(c)
  BY <1>2 DEF CancelDrained, CancelOffered
<1>3. CASE CancelTry(c) \/ CancelWasIdle(c) \/ CancelKill(c) \/ CancelActions(c)
  BY <1>3 DEF CancelTry, CancelWasIdle, CancelKill, CancelActions
<1>4. CASE CancelAsk(c) \/ CancelAwait(c) \/ CancelReturn(c)
  BY <1>4 DEF CancelAsk, CancelAwait, CancelReturn
<1>5. CASE CancelAwaitTimeout(c)
  BY <1>5 DEF CancelAwaitTimeout
<1> QED
  BY <1>1, <1>2, <1>3, <1>4, <1>5 DEF Cancel

LEMMA ProduceCalls ==
    ASSUME Queue!TypeOK, ParserType, NEW p \in Producers,
           Produce(p) \/ \E v \in Buffers : ParseBuffer(p, v), loc[p] \in {"ready", "putting", "no"}
    PROVE  /\ pc[p] = "idle" \/ loc[p] \notin InCall
           /\ loc'[p] \in {"ready", "putting", "no"}
           /\ \/ UNCHANGED <<pc, op>> /\ loc'[p] \notin InCall
              \/ /\ pc[p] = "idle" /\ loc'[p] = "putting"
                 /\ pc' = [pc EXCEPT ![p] = "waitSend"]
                 /\ op' = [op EXCEPT ![p] = "putTimeout"]
<1> USE DEF Move, Returned, InCall, queue, ParserType, Threads, Users, Put, SyncQueue!CallPut,
            SyncQueue!Goto
<1>1. CASE ParseBufferTimeout(p)
  BY <1>1 DEF ParseBufferTimeout, NotDelivered
<1>2. CASE ParseBufferYes(p) \/ ParseBufferNo(p)
  BY <1>2 DEF ParseBufferYes, ParseBufferNo
<1>3. ASSUME NEW v \in Buffers, ParseBuffer(p, v)
      PROVE  /\ pc[p] = "idle" /\ loc'[p] = "putting"
             /\ pc' = [pc EXCEPT ![p] = "waitSend"]
             /\ op' = [op EXCEPT ![p] = "putTimeout"]
  BY <1>3 DEF ParseBuffer
<1> QED
  BY <1>1, <1>2, <1>3 DEF Produce


-----------------------------------------------------------------------------
(* LinkInv, one part after the other.                                       *)

CallsInv ==
    \A t \in Users :
        /\ pc[t] # "idle" => loc[t] \in InCall
        /\ op[t] \notin {"acquire", "acquireTimeout"}
        /\ t \in Cancellers => loc[t] \notin {"fetching", "putting"}

WorkersInv ==
    \A w \in Workers :
        loc[w] = "fetching" =>
            /\ op[w] = "get"
            /\ pc[w] \in {"idle", "waitRecv", "take", "signalSync", "signalSend"}

InputsInv ==
    \A w \in Workers :
        /\ loc[w] \in {"fetch", "fetching"} => input[w] # "eof"
        /\ loc[w] = "ready" => input[w] = "none"

ProducerInv(p) ==
    /\ loc[p] \in {"ready", "putting", "no"}
    /\ loc[p] = "putting" =>
        /\ op[p] = "putTimeout"
        /\ pc[p] \in {"idle", "waitSend", "store", "publish", "waitSync"}

FinishedInv == finished_ => \E w \in Workers : loc[w] = "gone"

LEMMA LinkParts ==
    ASSUME NEW p
    PROVE  LinkInv(p) <=> /\ FinishedInv /\ CallsInv /\ WorkersInv /\ InputsInv
                          /\ ProducerInv(p)
BY DEF LinkInv, FinishedInv, CallsInv, WorkersInv, InputsInv, ProducerInv, InCall

LEMMA FinishedStep ==
    ASSUME ParserType, WaiterInv, FinishedInv, [Next]_vars
    PROVE  FinishedInv'
<1>1. ASSUME NEW w \in Workers, loc[w] = "gone" PROVE loc'[w] = "gone"
  <2>1. ~Work(w)
    BY <1>1
       DEF Work, Fetch, Receive, Underflow, Detected, DetectedBomOnly, Throw, ParseBegin,
           ParseCanceled, ParseNotCanceled, EnterDocument, ParseFails, ParseEnd, LoopSucceeds,
           LoopContinues, ExtraCharacters, Finished, Drained, Drain, Release, SetFinished, Step,
           Move
  <2> QED
    BY <1>1, <2>1, WorkerMoves DEF StartDispatch
<1>2. ASSUME NEW w \in Workers, SetFinished(w) PROVE loc'[w] = "gone"
  BY <1>2 DEF SetFinished, Move, ParserType, Threads, Users
<1>3. (\A w \in Workers : ~SetFinished(w)) => finished_' = finished_
  BY DEF Next, vars, flags, Start, StartRefused, StartTake, StartKilled, StartDispatch,
     Work, Fetch, Receive, Underflow, Detected, DetectedBomOnly, Throw, ParseBegin,
     ParseCanceled, ParseNotCanceled, EnterDocument, ParseFails, ParseEnd, LoopSucceeds,
     LoopContinues, ExtraCharacters, Finished, Drained, Drain, Release,
     Produce, ParseBufferTimeout, ParseBufferYes, ParseBufferNo, ParseBuffer,
     Cancel, CancelTry, CancelWasIdle, CancelKill, CancelActions, CancelDrain, CancelDrained,
     CancelOffer, CancelOffered, CancelAsk, CancelAwait, CancelReturn, CancelAwaitTimeout,
     Ask, IsRunning, IsNotRunning, InQueue, RunBlock
<1> QED
  BY <1>1, <1>2, <1>3 DEF FinishedInv

LEMMA LinkStep ==
    ASSUME NEW p \in Producers, Producers = {p}, Queue!TypeOK, ParserType, WaiterInv,
           CallsInv, WorkersInv, ProducerInv(p), [Next]_vars
    PROVE  CallsInv' /\ WorkersInv' /\ ProducerInv(p)'
<1> USE ActorsAssumption DEF Threads, Users
<1>0. /\ pc \in [Users -> Queue!Points] /\ op \in [Users -> Queue!Ops]
      /\ loc \in [Threads -> Points]
  BY DEF Queue!TypeOK, ParserType
<1> USE DEF CallsInv, WorkersInv, ProducerInv, InCall
<1>1. ASSUME UNCHANGED <<pc, op>>,
             \A t \in Users : \/ loc'[t] = loc[t]
                              \/ t \in Workers /\ loc[t] \notin InCall /\ loc'[t] \notin InCall
      PROVE  CallsInv' /\ WorkersInv' /\ ProducerInv(p)'
  BY <1>0, <1>1
<1>2. CASE UNCHANGED vars
  BY <1>1, <1>2 DEF vars, queue
<1>3. ASSUME NEW s \in Starters, Start(s)
      PROVE  CallsInv' /\ WorkersInv' /\ ProducerInv(p)'
  <2>1. UNCHANGED <<pc, op>>
    BY <1>3 DEF Start, StartRefused, StartTake, StartKilled, StartDispatch, queue
  <2>2. ASSUME NEW w \in Workers, StartDispatch(s, w)
        PROVE  \A t \in Users : \/ loc'[t] = loc[t]
                                \/ t \in Workers /\ loc[t] \notin InCall /\ loc'[t] \notin InCall
    BY <1>0, <2>2 DEF StartDispatch
  <2> QED
    <3>1. CASE \E from, to \in Points : Move(s, from, to)
      <4>1. \A t \in Users : t \in Threads /\ t # s
        OBVIOUS
      <4>2. \A t \in Users : loc'[t] = loc[t]
        BY <3>1, <4>1, OnlyMoves
      <4> QED
        BY <1>1, <2>1, <4>2
    <3> QED
      BY <1>1, <1>3, <2>1, <2>2, <3>1, StartMoves
<1>4. ASSUME NEW a \in Askers, Ask(a)
      PROVE  CallsInv' /\ WorkersInv' /\ ProducerInv(p)'
  <2>1. UNCHANGED <<pc, op>>
    BY <1>4 DEF Ask, IsRunning, IsNotRunning, queue
  <2> QED
    <3>1. \A t \in Users : t \in Threads /\ t # a
      OBVIOUS
    <3>2. \A t \in Users : loc'[t] = loc[t]
      BY <1>4, <3>1, AskMoves, OnlyMoves
    <3> QED
      BY <1>1, <2>1, <3>2
<1>5. CASE RunBlock
  BY <1>1, <1>5, RunBlockMoves DEF RunBlock, queue
<1>6. ASSUME NEW w \in Workers, Work(w)
      PROVE  CallsInv' /\ WorkersInv' /\ ProducerInv(p)'
  <2>1. \A u \in Users : u # w => loc'[u] = loc[u]
    BY <1>6, WorkMoves, OnlyMoves
  <2> QED
    BY <1>0, <1>6, <2>1, WorkCalls
<1>7. ASSUME NEW c \in Cancellers, Cancel(c)
      PROVE  CallsInv' /\ WorkersInv' /\ ProducerInv(p)'
  <2>1. \A u \in Users : u # c => loc'[u] = loc[u]
    BY <1>7, CancelMoves, OnlyMoves
  <2> QED
    BY <1>0, <1>7, <2>1, CancelCalls
<1>8. ASSUME Produce(p) \/ \E v \in Buffers : ParseBuffer(p, v)
      PROVE  CallsInv' /\ WorkersInv' /\ ProducerInv(p)'
  <2>1. \A u \in Users : u # p => loc'[u] = loc[u]
    BY <1>8, ProduceMoves, OnlyMoves
  <2> QED
    BY <1>0, <1>8, <2>1, ProduceCalls
<1>9. ASSUME NEW t \in Users, InQueue(t)
      PROVE  CallsInv' /\ WorkersInv' /\ ProducerInv(p)'
  BY <1>0, <1>9, QueueStepOf, PutPoints, GetPoints
<1> QED
  BY <1>2, <1>3, <1>4, <1>5, <1>6, <1>7, <1>8, <1>9 DEF Next

LEMMA InputStep ==
    ASSUME ParserType, WaiterInv, InputsInv, [Next]_vars
    PROVE  InputsInv'
<1> SUFFICES ASSUME NEW w \in Workers
             PROVE  /\ loc'[w] \in {"fetch", "fetching"} => input'[w] # "eof"
                    /\ loc'[w] = "ready" => input'[w] = "none"
  BY DEF InputsInv
<1> USE DEF parser, Threads, Users
<1>0. /\ loc[w] \in {"fetch", "fetching"} => input[w] # "eof"
      /\ loc[w] = "ready" => input[w] = "none"
  BY DEF InputsInv
<1>1. CASE Work(w)
  BY <1>0, <1>1
     DEF Work, Fetch, Receive, Underflow, Detected, DetectedBomOnly, Throw, ParseBegin,
         ParseCanceled, ParseNotCanceled, EnterDocument, ParseFails, ParseEnd, LoopSucceeds,
         LoopContinues, ExtraCharacters, Finished, Drained, Drain, Release, SetFinished, Step,
         Move, Notify, ParserType
<1>2. CASE ~Work(w)
  <2>1. input'[w] = input[w]
    BY <1>2
       DEF Next, vars, flags, Start, StartRefused, StartTake, StartKilled, StartDispatch,
           Work, Fetch, Receive, Underflow, Detected, DetectedBomOnly, Throw, ParseBegin,
           ParseCanceled, ParseNotCanceled, EnterDocument, ParseFails, ParseEnd, LoopSucceeds,
           LoopContinues, ExtraCharacters, Finished, Drained, Drain, Release, SetFinished,
           Produce, ParseBufferTimeout, ParseBufferYes, ParseBufferNo, ParseBuffer,
           Cancel, CancelTry, CancelWasIdle, CancelKill, CancelActions, CancelDrain,
           CancelDrained, CancelOffer, CancelOffered, CancelAsk, CancelAwait, CancelReturn,
           CancelAwaitTimeout, Ask, IsRunning, IsNotRunning, InQueue, RunBlock, ParserType
  <2> QED
    BY <1>0, <1>2, <2>1, WorkerMoves DEF StartDispatch, ParserType
<1> QED
  BY <1>1, <1>2


-----------------------------------------------------------------------------
(* Where the texts are.                                                     *)

LEMMA ReadingBefore ==
    ASSUME ParserType, WaiterInv, [Next]_vars, Reading'
    PROVE  Reading
<1>1. ~killed_
  BY KilledForEver DEF Reading
<1>2. ASSUME NEW w \in Workers
      PROVE  loc[w] \in {"ready", "fetch", "fetching", "run", "inBlock"}
  <2>1. loc'[w] \in {"ready", "fetch", "fetching", "run", "inBlock"} /\ w \in Threads
    BY DEF Reading, Threads, Users
  <2>2. CASE Work(w)
    BY <2>1, <2>2
       DEF Work, Fetch, Receive, Underflow, Detected, DetectedBomOnly, Throw, ParseBegin,
           ParseCanceled, ParseNotCanceled, EnterDocument, ParseFails, ParseEnd, LoopSucceeds,
           LoopContinues, ExtraCharacters, Finished, Drained, Drain, Release, SetFinished, Step,
           Notify, Move, ParserType
  <2>3. CASE \E s \in Starters : StartDispatch(s, w)
    BY <2>3 DEF StartDispatch
  <2> QED
    BY <2>1, <2>2, <2>3, WorkerMoves
<1> QED
  BY <1>1, <1>2 DEF Reading

\* While the first worker reads, the others have not started and cancel does not
\* touch the queue.
LEMMA ReadingAlone ==
    ASSUME ParserType, TokenInv, InputsInv, Reading,
           NEW w \in Workers, loc[w] # "ready", loc[w] # "run", loc[w] # "inBlock"
    PROVE  /\ \A v \in Workers : v # w => loc[v] = "ready" /\ input[v] = "none"
           /\ input[w] # "eof" /\ ~Eof
<1>1. loc[w] \in {"fetch", "fetching"}
  BY DEF Reading
<1>2. \A v \in Workers : v # w => loc[v] = "ready"
  BY <1>1, WorkerAlone DEF Reading, Running, Parsing, WorkerPoints
<1> QED
  BY <1>1, <1>2 DEF InputsInv, Eof

LEMMA PlacesStay ==
    ASSUME NEW p, PlacesInv(p), UNCHANGED <<empty_, storage_, read, input>>,
           arg'[p] = arg[p], sent'[p] = sent[p], Outside(p)' <=> Outside(p),
           \A w \in Workers : (InHand(w)' <=> InHand(w)) /\ (InHand(w) => got'[w] = got[w])
    PROVE  PlacesInv(p)'
<1>1. (Eof' <=> Eof) /\ (Hand' <=> Hand)
  BY DEF Eof, Hand
<1>2. Stored(p)' = Stored(p) /\ Taken(p)' = Taken(p) /\ Received(p)' = Received(p)
  BY <1>1 DEF Stored, Taken, Received
<1> QED
  BY <1>1, <1>2 DEF PlacesInv

LEMMA ReceiveText ==
    ASSUME NEW p \in Producers, Queue!TypeOK, ParserType, TokenInv, InputsInv, Reading,
           PlacesInv(p), NEW w \in Workers, Receive(w)
    PROVE  /\ PlacesInv(p)'
           /\ got[w] # nil => got[w] = read + 1
<1> USE DEF Threads, Users
<1>1. /\ loc[w] = "fetching" /\ pc[w] = "idle" /\ loc'[w] = "run"
      /\ \A t \in Threads : t # w => loc'[t] = loc[t]
      /\ UNCHANGED <<queue, sent>>
  BY DEF Receive, Move, Returned, ParserType, clients
<1>2. /\ \A v \in Workers : v # w => loc[v] = "ready" /\ input[v] = "none"
      /\ ~Eof
  BY <1>1, ReadingAlone
<1>3. p # w /\ p \in Threads
  BY ActorsAssumption
<1>4. UNCHANGED <<empty_, storage_, pc, got, result, arg>>
  BY <1>1 DEF queue
<1>5. Outside(p)' <=> Outside(p)
  BY <1>1, <1>3, <1>4 DEF Outside
<1>6. Hand /\ ~Hand' /\ \A v \in Workers : ~InHand(v)'
  BY <1>1, <1>2, <1>4 DEF Hand, InHand
<1>7. Stored(p)' = Stored(p) /\ Taken(p)' = Taken(p) /\ Received(p)' = Taken(p)
  BY <1>1, <1>4, <1>5, <1>6 DEF Stored, Taken, Received
<1>8. read = Taken(p) - 1 /\ Taken(p) \in Int
  BY <1>2, <1>6 DEF PlacesInv, Received, Taken, Stored, ParserType
<1>9. got[w] \in {nil, Taken(p)} /\ (empty_ /\ ~Outside(p) => got[w] = arg[p])
  BY <1>1 DEF PlacesInv, InHand
<1>10. Eof' <=> got[w] = nil
  BY <1>2 DEF Eof, Receive, ParserType
<1>11. ~Eof' => read' = Received(p)'
  BY <1>7, <1>9, <1>10 DEF Receive
<1>12. got[w] # nil => got[w] = read + 1
  BY <1>8, <1>9
<1> QED
  BY <1>1, <1>4, <1>5, <1>6, <1>7, <1>9, <1>10, <1>11, <1>12 DEF PlacesInv


\* A step of the producer inside put.
LEMMA PutText ==
    ASSUME NEW p \in Producers, Producers = {p}, Queue!TypeOK, Queue!SlotInv, ParserType,
           CallsInv, ProducerInv(p), PlacesInv(p), InQueue(p)
    PROVE  PlacesInv(p)'
<1> USE DEF Threads, Users, clients, parser
<1>1. /\ pc[p] # "idle" /\ loc[p] = "putting" /\ UNCHANGED <<op, arg, loc, sent, read, input>>
      /\ \A u \in Users : u # p => pc'[u] = pc[u] /\ got'[u] = got[u] /\ result'[u] = result[u]
      /\ pc[p] \in {"waitSend", "store", "publish", "waitSync"}
  <2>1. loc[p] = "putting"
    BY QueueStepOf DEF CallsInv, ProducerInv, InCall
  <2> QED
    BY <2>1, QueueStepOf DEF ProducerInv, InQueue
<1>2. \A w \in Workers : w \in Users /\ w # p
  BY ActorsAssumption
<1>3. \A w \in Workers : (InHand(w)' <=> InHand(w)) /\ got'[w] = got[w]
  BY <1>1, <1>2 DEF InHand
<1>4. CASE SyncQueue!PutStore(p)
  <2>1. /\ pc[p] = "store" /\ pc'[p] = "publish" /\ storage_' = arg[p] /\ ~empty_'
    BY <1>4 DEF SyncQueue!PutStore, SyncQueue!Goto, Queue!TypeOK
  <2>2. empty_
    BY <2>1 DEF Queue!SlotInv, Queue!ContentInv, Queue!EmptyPoints
  <2>3. Outside(p) /\ ~Outside(p)'
    BY <1>1, <2>1 DEF Outside
  <2>4. sent[p] \in Int
    BY DEF ParserType
  <2>5. (Hand' <=> Hand) /\ (Eof' <=> Eof)
    BY <1>1, <1>3 DEF Hand, Eof
  <2>6. Taken(p)' = Taken(p)
    BY <1>1, <2>1, <2>2, <2>3, <2>4 DEF Taken, Stored
  <2>7. Received(p)' = Received(p)
    BY <2>5, <2>6 DEF Received
  <2> QED
    BY <1>1, <1>3, <2>1, <2>3, <2>5, <2>6, <2>7 DEF PlacesInv
<1>5. CASE ~SyncQueue!PutStore(p)
  <2>1. UNCHANGED <<empty_, storage_>> /\ (Outside(p)' <=> Outside(p))
    BY <1>1, <1>5
       DEF InQueue, Outside, Queue!TypeOK, SyncQueue!Advance, SyncQueue!TimeOut,
           SyncQueue!PutWaitSend, SyncQueue!PutPublish, SyncQueue!PutWaitSync,
           SyncQueue!GetWaitRecv, SyncQueue!GetTake, SyncQueue!AcquireCopy,
           SyncQueue!SignalSync, SyncQueue!SignalSend, SyncQueue!PutNotDelivered,
           SyncQueue!PutNotPicked, SyncQueue!GetNothingOffered, SyncQueue!Goto,
           SyncQueue!Return, SyncQueue!sems, SyncQueue!cell
  <2> QED
    BY <1>1, <1>3, <2>1, PlacesStay
<1> QED
  BY <1>4, <1>5

\* A step of the worker inside get.
LEMMA GetText ==
    ASSUME NEW p \in Producers, Queue!TypeOK, Queue!SlotInv, ParserType, TokenInv,
           CallsInv, WorkersInv, InputsInv, Reading, PlacesInv(p),
           NEW w \in Workers, InQueue(w)
    PROVE  PlacesInv(p)'
<1> USE DEF Threads, Users, clients, parser
<1>1. /\ pc[w] # "idle" /\ loc[w] = "fetching" /\ UNCHANGED <<op, arg, loc, sent, read, input>>
      /\ \A u \in Users : u # w => pc'[u] = pc[u] /\ got'[u] = got[u] /\ result'[u] = result[u]
      /\ op[w] = "get" /\ pc[w] \in {"waitRecv", "take", "signalSync", "signalSend"}
  <2>1. loc[w] = "fetching"
    BY QueueStepOf DEF CallsInv, InCall, Reading
  <2> QED
    BY <2>1, QueueStepOf DEF WorkersInv, InQueue
<1>2. /\ \A v \in Workers : v # w => loc[v] = "ready"
      /\ ~Eof /\ ~Eof'
  BY <1>1, ReadingAlone DEF Eof
<1>3. p \in Users /\ p # w
  BY ActorsAssumption
<1>4. Outside(p)' <=> Outside(p)
  BY <1>1, <1>3 DEF Outside
<1>5. CASE SyncQueue!GetTake(w)
  <2>1. /\ pc[w] = "take" /\ pc'[w] = "signalSync" /\ got'[w] = storage_ /\ empty_'
    BY <1>5 DEF SyncQueue!GetTake, SyncQueue!Goto, Queue!TypeOK
  <2>2. ~empty_
    BY <2>1 DEF Queue!SlotInv, Queue!ContentInv, Queue!FullPoints
  <2>3. ~Hand /\ Hand' /\ \A v \in Workers : InHand(v)' => v = w
    BY <1>1, <1>2, <2>1 DEF Hand, InHand
  <2>4. sent[p] \in Int /\ (~Outside(p) => Stored(p) = sent[p]) /\ Stored(p)' = Stored(p)
    BY <1>1, <1>4 DEF ParserType, Stored
  <2>5. Taken(p)' = Stored(p) /\ Received(p)' = Received(p)
    BY <2>1, <2>2, <2>3, <2>4 DEF Taken, Received, Stored
  <2>6. got'[w] \in {nil, Stored(p)} /\ (~Outside(p) => got'[w] = arg[p])
    BY <2>1, <2>2, <2>4 DEF PlacesInv
  <2> QED
    BY <1>1, <1>2, <1>4, <2>1, <2>3, <2>5, <2>6 DEF PlacesInv
<1>6. CASE ~SyncQueue!GetTake(w)
  <2>1. UNCHANGED <<empty_, storage_>> /\ (InHand(w)' <=> InHand(w)) /\ got'[w] = got[w]
    BY <1>1, <1>6
       DEF InQueue, InHand, Queue!TypeOK, SyncQueue!Advance, SyncQueue!TimeOut,
           SyncQueue!PutWaitSend, SyncQueue!PutStore, SyncQueue!PutPublish,
           SyncQueue!PutWaitSync, SyncQueue!GetWaitRecv, SyncQueue!AcquireCopy,
           SyncQueue!SignalSync, SyncQueue!SignalSend, SyncQueue!PutNotDelivered,
           SyncQueue!PutNotPicked, SyncQueue!GetNothingOffered, SyncQueue!Goto,
           SyncQueue!Return, SyncQueue!sems, SyncQueue!cell, SyncQueue!Expire,
           SyncQueue!TimedOps, SyncQueue!AcquireOps
  <2>2. \A v \in Workers : (InHand(v)' <=> InHand(v)) /\ (InHand(v) => got'[v] = got[v])
    BY <1>1, <1>2, <2>1 DEF InHand
  <2> QED
    BY <1>1, <1>4, <2>1, <2>2, PlacesStay
<1> QED
  BY <1>5, <1>6


\* A step of the producer around its calls of put.
LEMMA OfferText ==
    ASSUME NEW p \in Producers, Queue!TypeOK, ParserType, FinishedInv, Reading, PlacesInv(p),
           Produce(p) \/ \E v \in Buffers : ParseBuffer(p, v)
    PROVE  PlacesInv(p)'
<1> USE DEF Threads, Users, clients, parser, queue
<1>1. \A w \in Workers : w \in Users /\ w # p
  BY ActorsAssumption
<1>2. \A w \in Workers : loc'[w] = loc[w]
  BY <1>1, ProduceMoves, OnlyMoves
<1>3. ~Stopped
  BY DEF Stopped, FinishedInv, Reading
<1>4. CASE ParseBufferTimeout(p)
  <2>1. /\ pc[p] = "idle" /\ pc'[p] = "waitSend" /\ result[p] = "TIMEOUT_NOT_DELIVERED"
        /\ loc[p] = "putting" /\ loc'[p] = "putting" /\ arg'[p] = arg[p]
        /\ UNCHANGED <<empty_, storage_, got, read, input, sent>>
        /\ \A w \in Workers : pc'[w] = pc[w]
    BY <1>1, <1>3, <1>4
       DEF ParseBufferTimeout, NotDelivered, Returned, Put, SyncQueue!CallPut, SyncQueue!Goto,
           SyncQueue!cell, Queue!TypeOK
  <2>2. Outside(p)' /\ Outside(p)
    BY <2>1 DEF Outside
  <2>3. \A w \in Workers : InHand(w)' <=> InHand(w)
    BY <1>2, <2>1 DEF InHand
  <2> QED
    BY <2>1, <2>2, <2>3, PlacesStay
<1>5. CASE ParseBufferYes(p)
  <2>1. /\ pc[p] = "idle" /\ result[p] # "TIMEOUT_NOT_DELIVERED" /\ loc'[p] = "ready"
        /\ UNCHANGED <<queue, read, input, sent>>
    BY <1>5 DEF ParseBufferYes, Returned, Move, ParserType
  <2>2. ~Outside(p)' /\ ~Outside(p)
    BY <2>1 DEF Outside
  <2>3. \A w \in Workers : InHand(w)' <=> InHand(w)
    BY <1>2, <2>1 DEF InHand
  <2> QED
    BY <2>1, <2>2, <2>3, PlacesStay
<1>6. CASE ParseBufferNo(p)
  BY <1>3, <1>6 DEF ParseBufferNo
<1>7. ASSUME NEW v \in Buffers, ParseBuffer(p, v) PROVE PlacesInv(p)'
  <2>1. /\ loc[p] = "ready" /\ loc'[p] = "putting" /\ pc'[p] = "waitSend"
        /\ arg'[p] = v /\ v \in {nil, sent[p] + 1} /\ sent'[p] = sent[p] + 1
        /\ UNCHANGED <<empty_, storage_, got, read, input>>
        /\ \A w \in Workers : pc'[w] = pc[w]
    BY <1>1, <1>7
       DEF ParseBuffer, Put, Move, SyncQueue!CallPut, SyncQueue!Goto, SyncQueue!cell,
           Queue!TypeOK, ParserType
  <2>2. ~Outside(p) /\ Outside(p)'
    BY <2>1 DEF Outside
  <2>3. \A w \in Workers : InHand(w)' <=> InHand(w)
    BY <1>2, <2>1 DEF InHand
  <2>4. (Hand' <=> Hand) /\ (Eof' <=> Eof)
    BY <2>1, <2>3 DEF Hand, Eof
  <2>5. sent[p] \in Int
    BY DEF ParserType
  <2>6. Stored(p)' = Stored(p) /\ Stored(p) = sent[p]
    BY <2>1, <2>2, <2>5 DEF Stored
  <2>7. Taken(p)' = Taken(p) /\ Received(p)' = Received(p)
    BY <2>1, <2>4, <2>6 DEF Taken, Received
  <2> QED
    BY <2>1, <2>2, <2>3, <2>4, <2>6, <2>7 DEF PlacesInv
<1> QED
  BY <1>4, <1>5, <1>6, <1>7 DEF Produce

\* A step of the worker that is not about its next buffer.
LEMMA ParseText ==
    ASSUME NEW p \in Producers, ~BomOnly, Queue!TypeOK, ParserType, PlacesInv(p), Reading,
           Reading', NEW w \in Workers, Work(w), ~Receive(w)
    PROVE  PlacesInv(p)'
<1> USE DEF Threads, Users, clients, parser, queue
<1>1. p \in Users /\ p # w
  BY ActorsAssumption
<1>2. \A u \in Users : u # w => loc'[u] = loc[u]
  BY WorkMoves, OnlyMoves
<1>3. CASE Fetch(w)
  <2>1. /\ loc[w] = "fetch" /\ pc'[w] = "waitRecv"
        /\ UNCHANGED <<empty_, storage_, arg, got, result, read, input, sent>>
        /\ \A u \in Users : u # w => pc'[u] = pc[u]
    BY <1>3 DEF Fetch, Get, Move, SyncQueue!CallGet, SyncQueue!Goto, SyncQueue!cell, Queue!TypeOK
  <2>2. (Outside(p)' <=> Outside(p)) /\ \A v \in Workers : InHand(v)' <=> InHand(v)
    BY <1>1, <1>2, <2>1 DEF Outside, InHand
  <2> QED
    BY <2>1, <2>2, PlacesStay
<1>4. CASE ~Fetch(w)
  <2>1. loc'[w] \in {"ready", "fetch", "fetching", "run", "inBlock"} /\ ~killed_'
    BY DEF Reading
  <2>2. /\ UNCHANGED <<queue, read, input, sent>>
        /\ loc[w] # "fetching" /\ loc'[w] # "fetching"
    BY <1>4, <2>1
       DEF Work, Receive, Underflow, Detected, DetectedBomOnly, Throw, ParseBegin,
           ParseCanceled, ParseNotCanceled, EnterDocument, ParseFails, ParseEnd, LoopSucceeds,
           LoopContinues, ExtraCharacters, Finished, Drained, Drain, Release, SetFinished, Step,
           Notify, Move, ParserType, Reading
  <2>3. (Outside(p)' <=> Outside(p)) /\ \A v \in Workers : InHand(v)' <=> InHand(v)
    BY <1>1, <1>2, <2>2 DEF Outside, InHand
  <2> QED
    BY <2>2, <2>3, PlacesStay
<1> QED
  BY <1>3, <1>4

LEMMA PlacesStep ==
    ASSUME NEW p \in Producers, Producers = {p}, ~BomOnly,
           Queue!TypeOK, Queue!SlotInv, ParserType, TokenInv, CancelInv, LinkInv(p),
           Reading, Reading', PlacesInv(p), [Next]_vars
    PROVE  PlacesInv(p)'
<1> USE ActorsAssumption DEF Threads, Users, clients, parser, queue
<1>0. FinishedInv /\ CallsInv /\ WorkersInv /\ InputsInv /\ ProducerInv(p) /\ WaiterInv
  BY LinkParts DEF TokenInv
<1>1. ASSUME UNCHANGED <<queue, read, input, sent>>,
             \A u \in Users : loc'[u] = loc[u] \/
                              (u # p /\ loc[u] # "fetching" /\ loc'[u] # "fetching")
      PROVE  PlacesInv(p)'
  <2>1. (Outside(p)' <=> Outside(p)) /\ \A v \in Workers : InHand(v)' <=> InHand(v)
    BY <1>1 DEF Outside, InHand
  <2> QED
    BY <1>1, <2>1, PlacesStay
<1>2. CASE UNCHANGED vars
  BY <1>1, <1>2 DEF vars
<1>3. ASSUME NEW s \in Starters, Start(s) PROVE PlacesInv(p)'
  <2>1. UNCHANGED <<queue, read, input, sent>>
    BY <1>3 DEF Start, StartRefused, StartTake, StartKilled, StartDispatch
  <2>2. \A u \in Users : u \in Threads /\ u # s
    OBVIOUS
  <2>3. ASSUME NEW w \in Workers, StartDispatch(s, w)
        PROVE  \A u \in Users : loc'[u] = loc[u] \/
                                (u # p /\ loc[u] # "fetching" /\ loc'[u] # "fetching")
    BY <2>2, <2>3 DEF StartDispatch, ParserType
  <2>4. CASE \E from, to \in Points : Move(s, from, to)
    <3> \A u \in Users : loc'[u] = loc[u]
      BY <2>2, <2>4, OnlyMoves
    <3> QED
      BY <1>1, <2>1
  <2> QED
    BY <1>1, <1>3, <2>1, <2>3, <2>4, StartMoves
<1>4. ASSUME NEW a \in Askers, Ask(a) PROVE PlacesInv(p)'
  <2>1. UNCHANGED <<queue, read, input, sent>>
    BY <1>4 DEF Ask, IsRunning, IsNotRunning
  <2>2. \A u \in Users : u \in Threads /\ u # a
    OBVIOUS
  <2>3. \A u \in Users : loc'[u] = loc[u]
    BY <1>4, <2>2, AskMoves, OnlyMoves
  <2> QED
    BY <1>1, <2>1, <2>3
<1>5. CASE RunBlock
  <2>1. \A u \in Users : loc'[u] = loc[u] \/
                         (u # p /\ loc[u] # "fetching" /\ loc'[u] # "fetching")
    BY <1>0, <1>5, RunBlockMoves
  <2> QED
    BY <1>1, <1>5, <2>1 DEF RunBlock
<1>6. ASSUME NEW w \in Workers, Work(w) PROVE PlacesInv(p)'
  BY <1>0, <1>6, ReceiveText, ParseText
<1>7. ASSUME NEW c \in Cancellers, Cancel(c) PROVE PlacesInv(p)'
  <2>1. CancelTry(c) \/ CancelWasIdle(c)
    <3>1. ~killed_ /\ ~killed_' /\ loc[c] \notin AfterKill
      BY DEF Reading, CancelInv
    <3> QED
      BY <1>7, <3>1
         DEF Cancel, CancelKill, CancelActions, CancelDrain, CancelDrained, CancelOffer,
             CancelOffered, CancelAsk, CancelAwait, CancelReturn, CancelAwaitTimeout, Move,
             AfterKill
  <2>2. UNCHANGED <<queue, read, input, sent>>
    BY <2>1 DEF CancelTry, CancelWasIdle
  <2>3. \A u \in Workers \cup {p} : u \in Users /\ u \in Threads /\ u # c
    OBVIOUS
  <2>4. \A u \in Workers \cup {p} : loc'[u] = loc[u]
    BY <1>7, <2>3, CancelMoves, OnlyMoves
  <2>5. (Outside(p)' <=> Outside(p)) /\ \A v \in Workers : InHand(v)' <=> InHand(v)
    BY <2>2, <2>4 DEF Outside, InHand
  <2> QED
    BY <2>2, <2>5, PlacesStay
<1>8. ASSUME Produce(p) \/ \E v \in Buffers : ParseBuffer(p, v) PROVE PlacesInv(p)'
  BY <1>0, <1>8, OfferText
<1>9. ASSUME NEW t \in Users, InQueue(t) PROVE PlacesInv(p)'
  <2>1. t \notin Cancellers
    <3>1. t \in Cancellers => loc[t] \in {"draining", "offering"}
      BY <1>0, <1>9, QueueStepOf DEF CallsInv, InCall
    <3> QED
      BY <3>1 DEF CancelInv, AfterKill, Reading
  <2> QED
    BY <1>0, <1>9, <2>1, PutText, GetText
<1> QED
  BY <1>2, <1>3, <1>4, <1>5, <1>6, <1>7, <1>8, <1>9 DEF Next

LEMMA TextStep ==
    ASSUME NEW p \in Producers, Producers = {p}, ~BomOnly,
           Queue!TypeOK, Queue!SlotInv, ParserType, TokenInv, CancelInv, TextInv(p), [Next]_vars
    PROVE  TextInv(p)'
<1>1. /\ FinishedInv /\ CallsInv /\ WorkersInv /\ InputsInv /\ ProducerInv(p) /\ WaiterInv
      /\ LinkInv(p)
  BY LinkParts DEF TextInv, TokenInv
<1>2. LinkInv(p)'
  <2>1. FinishedInv' /\ CallsInv' /\ WorkersInv' /\ InputsInv' /\ ProducerInv(p)'
    BY <1>1, FinishedStep, LinkStep, InputStep
  <2> QED
    BY <2>1
       DEF LinkInv, FinishedInv, CallsInv, WorkersInv, InputsInv, ProducerInv, InCall
<1>3. ASSUME Reading' PROVE PlacesInv(p)'
  BY <1>1, <1>3, ReadingBefore, PlacesStep DEF TextInv
<1> QED
  BY <1>2, <1>3 DEF TextInv

LEMMA InitText == ASSUME NEW p \in Producers, Init PROVE TextInv(p)
<1> USE ActorsAssumption DEF Init, SyncQueue!Init, Threads, Users
<1>1. LinkInv(p)
  BY DEF LinkInv
<1>2. ~Outside(p) /\ ~Hand /\ ~Eof /\ \A w \in Workers : ~InHand(w)
  BY DEF Outside, Hand, InHand, Eof
<1>3. PlacesInv(p)
  BY <1>2 DEF PlacesInv, Received, Taken, Stored, nil
<1> QED
  BY <1>1, <1>3 DEF TextInv

\* With one producer the worker of a parser's first run reads its texts one by one
\* in the order parseBuffer: was given them, however the timeouts of put fell, and
\* a text parseBuffer: accepted stays where the worker will find it.
THEOREM TextsAreRead == ASSUME OneProducer PROVE Spec => NoTextSkipped
<1> PICK r : Producers = {r}
  BY DEF OneProducer
<1>1. r \in Producers /\ ~BomOnly
  BY DEF OneProducer
<1>2. Spec => [](Queue!TypeOK /\ Queue!SlotInv)
  BY QueueConstants, QueueInParser, Queue!SlotInvariant, PTL
<1>3. Spec => [](ParserType /\ TokenInv)
  BY TokenHolds
<1>4. Spec => []CancelInv
  BY CancelHolds
<1>5. Init => TextInv(r)
  BY <1>1, InitText
<1>6. Queue!TypeOK /\ Queue!SlotInv /\ ParserType /\ TokenInv /\ CancelInv /\ TextInv(r)
          /\ [Next]_vars => TextInv(r)'
  BY <1>1, TextStep
<1>7. Spec => []TextInv(r)
  BY <1>2, <1>3, <1>4, <1>5, <1>6, PTL DEF Spec
<1>8. Queue!TypeOK /\ ParserType /\ TokenInv /\ TextInv(r) =>
          \A w \in Workers :
            (Receive(w) /\ got[w] # nil /\ ~killed_ /\ \A u \in Workers \ {w} : loc[u] = "ready")
            => got[w] = read + 1
  <2> SUFFICES ASSUME Queue!TypeOK, ParserType, TokenInv, TextInv(r), NEW w \in Workers,
                      Receive(w), got[w] # nil, ~killed_,
                      \A u \in Workers \ {w} : loc[u] = "ready"
               PROVE  got[w] = read + 1
    OBVIOUS
  <2>1. Reading
    BY DEF Reading, Receive, Move
  <2>2. InputsInv /\ PlacesInv(r)
    BY <2>1, LinkParts DEF TextInv
  <2> QED
    BY <1>1, <2>1, <2>2, ReceiveText
<1>9. Queue!TypeOK /\ ParserType /\ TextInv(r) =>
          (~killed_ /\ (\A w \in Workers : loc[w] \in {"ready", "fetch", "fetching", "run", "inBlock"})
            => \A p \in Producers : Kept(p))
  <2> SUFFICES ASSUME Queue!TypeOK, ParserType, TextInv(r), Reading,
                      loc[r] = "ready", arg[r] > read
               PROVE  \/ ~empty_ /\ storage_ = arg[r]
                      \/ \E w \in Workers : loc[w] = "fetching" /\ got[w] = arg[r]
    BY <1>1 DEF Kept, Reading
  <2>1. ~Outside(r) /\ PlacesInv(r)
    BY DEF TextInv, Outside
  <2>2. CASE ~empty_
    BY <2>1, <2>2 DEF PlacesInv
  <2>3. CASE empty_ /\ Hand
    BY <2>1, <2>3 DEF PlacesInv, Hand, InHand
  <2>4. CASE empty_ /\ ~Hand
    <3>1. Received(r) = sent[r]
      BY <2>1, <2>4 DEF Received, Taken, Stored
    <3>2. arg[r] \in {nil, sent[r]} /\ sent[r] \in Nat /\ read \in Nat
      BY <1>1, <2>1 DEF PlacesInv, ParserType, Buffers
    <3> QED
      BY <2>1, <2>4, <3>1, <3>2 DEF PlacesInv, nil
  <2> QED
    BY <2>2, <2>3, <2>4
<1>10. Spec => [](~killed_ /\ (\A w \in Workers : loc[w] \in {"ready", "fetch", "fetching", "run", "inBlock"})
                    => \A p \in Producers : Kept(p))
  BY <1>2, <1>3, <1>7, <1>9, PTL
<1>11. Spec => [][\A w \in Workers :
            (Receive(w) /\ got[w] # nil /\ ~killed_ /\ \A u \in Workers \ {w} : loc[u] = "ready")
            => got[w] = read + 1]_vars
  BY <1>2, <1>3, <1>7, <1>8, PTL DEF Spec
<1>12. NoTextSkipped <=>
         /\ [][\A w \in Workers :
            (Receive(w) /\ got[w] # nil /\ ~killed_ /\ \A u \in Workers \ {w} : loc[u] = "ready")
            => got[w] = read + 1]_vars
         /\ [](~killed_ /\ (\A w \in Workers : loc[w] \in {"ready", "fetch", "fetching", "run", "inBlock"})
                    => \A p \in Producers : Kept(p))
  BY DEF NoTextSkipped
<1> QED
  BY <1>10, <1>11, <1>12, PTL

=============================================================================
