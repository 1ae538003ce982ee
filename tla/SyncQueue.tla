----------------------------- MODULE SyncQueue -----------------------------
(***************************************************************************)
(* json::utility::synchronous_queue<T>, the hand-over object between the   *)
(* threads that feed JSON text and the worker thread that parses it.       *)
(*                                                                         *)
(* The queue owns one uninitialised cell (storage_), a plain flag (empty_) *)
(* and three counting semaphores.  send_ and recv_ pass the right to touch *)
(* the cell around; sync_ tells a producer that its item was taken.  Only  *)
(* the order of the semaphore operations protects the plain members, so a  *)
(* thread is inside a member function at one of the points of Points, and  *)
(* each step below is the code between two such points.                    *)
(*                                                                         *)
(* Any thread may issue any call that Calls lists for it: the module is    *)
(* the queue together with its most general client.                        *)
(***************************************************************************)
EXTENDS Integers, FiniteSets

CONSTANTS
    Threads,       \* the threads that share the queue
    Items,         \* the values of T
    DefaultItem,   \* T(), what a timed out get or acquire returns
    Calls,         \* which thread issues which call: pairs <<thread, op>>
    MaxAbandoned   \* bound: how many puts may return TIMEOUT_NOT_PICKED

PutOps == {"put", "putTimeout"}
GetOps == {"get", "getTimeout"}
AcquireOps == {"acquire", "acquireTimeout"}
Ops == PutOps \cup GetOps \cup AcquireOps
TimedOps == {"putTimeout", "getTimeout", "acquireTimeout"}

ASSUME ThreadsAssumption == IsFiniteSet(Threads)
ASSUME DefaultAssumption == DefaultItem \in Items
ASSUME CallsAssumption == Calls \subseteq Threads \X Ops
ASSUME BoundAssumption == MaxAbandoned \in Nat

VARIABLES
    sync_, send_, recv_,  \* the counts of the three semaphores
    empty_,               \* the flag the asserts look at
    storage_,             \* the cell
    pc,                   \* where each thread is inside the queue
    op,                   \* the call it is in
    arg,                  \* the item it is putting
    got,                  \* the item its last get or acquire returned
    result,               \* the result_type its last call returned
    abandoned             \* history: puts that gave up as TIMEOUT_NOT_PICKED

cell == <<empty_, storage_>>
sems == <<sync_, send_, recv_>>
vars == <<sems, cell, pc, op, arg, got, result, abandoned>>

\* A thread at one of these points is the only one that may touch the cell.
OwnerPoints == {"store", "publish", "take", "holding", "signalSync", "signalSend"}
Points == OwnerPoints \cup {"idle", "waitSend", "waitSync", "waitRecv"}
Results == {"OK", "TIMEOUT_NOT_DELIVERED", "TIMEOUT_NOT_PICKED",
            "TIMEOUT_NOTHING_OFFERED"}

Init ==
    /\ sync_ = 0 /\ send_ = 1 /\ recv_ = 0
    /\ empty_ = TRUE
    /\ storage_ = DefaultItem
    /\ pc = [t \in Threads |-> "idle"]
    /\ op = [t \in Threads |-> "get"]
    /\ arg = [t \in Threads |-> DefaultItem]
    /\ got = [t \in Threads |-> DefaultItem]
    /\ result = [t \in Threads |-> "OK"]
    /\ abandoned = 0

-----------------------------------------------------------------------------
(* The semaphores of gcd::semaphore, and a thread's progress.              *)

Signal(s) == s' = s + 1

\* Mutant: lets one waiter too many through.
Wait_offByOne(s) == s >= 0 /\ s' = s - 1

\* A wait that succeeds.  libdispatch lets a timed wait expire only when no
\* signal is left for the waiter, so Expire needs a count of zero.
Wait(s) == s > 0 /\ s' = s - 1

Expire(t, s) == op[t] \in TimedOps /\ s = 0

Goto(t, from, to) == pc[t] = from /\ pc' = [pc EXCEPT ![t] = to]

Return(t, r) == result' = [result EXCEPT ![t] = r]

-----------------------------------------------------------------------------
(* put(v) and put(v, timeout)                                              *)

CallPut(t, o, v) ==
    /\ <<t, o>> \in Calls /\ o \in PutOps
    /\ Goto(t, "idle", "waitSend")
    /\ op' = [op EXCEPT ![t] = o]
    /\ arg' = [arg EXCEPT ![t] = v]
    /\ UNCHANGED <<sems, cell, got, result, abandoned>>

PutWaitSend(t) ==
    /\ Goto(t, "waitSend", "store")
    /\ Wait(send_)
    /\ UNCHANGED <<sync_, recv_, cell, op, arg, got, result, abandoned>>

PutNotDelivered(t) ==
    /\ Goto(t, "waitSend", "idle")
    /\ Expire(t, send_)
    /\ Return(t, "TIMEOUT_NOT_DELIVERED")
    /\ UNCHANGED <<sems, cell, op, arg, got, abandoned>>

PutStore(t) ==
    /\ Goto(t, "store", "publish")
    /\ storage_' = arg[t]
    /\ empty_' = FALSE
    /\ UNCHANGED <<sems, op, arg, got, result, abandoned>>

\* Mutant: put does not wait for the consumer.
PutPublish_noWait(t) ==
    /\ Goto(t, "publish", "idle")
    /\ Signal(recv_)
    /\ UNCHANGED <<sync_, send_, cell, op, arg, got, result, abandoned>>

PutPublish(t) ==
    /\ Goto(t, "publish", "waitSync")
    /\ Signal(recv_)
    /\ UNCHANGED <<sync_, send_, cell, op, arg, got, result, abandoned>>

PutWaitSync(t) ==
    /\ Goto(t, "waitSync", "idle")
    /\ Wait(sync_)
    /\ Return(t, "OK")
    /\ UNCHANGED <<send_, recv_, cell, op, arg, got, abandoned>>

\* Mutant: a put that gives up lets the next producer in.
PutNotPicked_signalsSend(t) ==
    /\ Goto(t, "waitSync", "idle")
    /\ Expire(t, sync_)
    /\ abandoned < MaxAbandoned
    /\ abandoned' = abandoned + 1
    /\ Signal(send_)
    /\ Return(t, "TIMEOUT_NOT_PICKED")
    /\ UNCHANGED <<sync_, recv_, cell, op, arg, got>>

\* The item stays in the cell, and so will the signal of its taker in sync_.
PutNotPicked(t) ==
    /\ Goto(t, "waitSync", "idle")
    /\ Expire(t, sync_)
    /\ abandoned < MaxAbandoned
    /\ abandoned' = abandoned + 1
    /\ Return(t, "TIMEOUT_NOT_PICKED")
    /\ UNCHANGED <<sems, cell, op, arg, got>>

-----------------------------------------------------------------------------
(* get(), get(timeout), acquire(), acquire(timeout), give() and commit()   *)

CallGet(t, o) ==
    /\ <<t, o>> \in Calls /\ o \in GetOps \cup AcquireOps
    /\ Goto(t, "idle", "waitRecv")
    /\ op' = [op EXCEPT ![t] = o]
    /\ UNCHANGED <<sems, cell, arg, got, result, abandoned>>

\* Mutant: the producer is woken before its item was moved out.
GetWaitRecv_wakesEarly(t) ==
    /\ Goto(t, "waitRecv", "take")
    /\ Wait(recv_)
    /\ Signal(sync_)
    /\ UNCHANGED <<send_, cell, op, arg, got, result, abandoned>>

GetWaitRecv(t) ==
    /\ Goto(t, "waitRecv", "take")
    /\ Wait(recv_)
    /\ UNCHANGED <<sync_, send_, cell, op, arg, got, result, abandoned>>

GetNothingOffered(t) ==
    /\ Goto(t, "waitRecv", "idle")
    /\ Expire(t, recv_)
    /\ got' = [got EXCEPT ![t] = DefaultItem]
    /\ Return(t, "TIMEOUT_NOTHING_OFFERED")
    /\ UNCHANGED <<sems, cell, op, arg, abandoned>>

\* Mutant: the flag is not set.
GetTake_keepsFlag(t) ==
    /\ op[t] \in GetOps
    /\ Goto(t, "take", "signalSync")
    /\ got' = [got EXCEPT ![t] = storage_]
    /\ Return(t, "OK")
    /\ UNCHANGED <<sems, cell, op, arg, abandoned>>

GetTake(t) ==
    /\ op[t] \in GetOps
    /\ Goto(t, "take", "signalSync")
    /\ got' = [got EXCEPT ![t] = storage_]
    /\ empty_' = TRUE
    /\ Return(t, "OK")
    /\ UNCHANGED <<sems, storage_, op, arg, abandoned>>

AcquireCopy(t) ==
    /\ op[t] \in AcquireOps
    /\ Goto(t, "take", "holding")
    /\ got' = [got EXCEPT ![t] = storage_]
    /\ Return(t, "OK")
    /\ UNCHANGED <<sems, cell, op, arg, abandoned>>

\* Mutants: the item is given back to the producers, or to nobody.
Give_signalsSend(t) ==
    /\ ~empty_
    /\ Goto(t, "holding", "idle")
    /\ Signal(send_)
    /\ UNCHANGED <<sync_, recv_, cell, op, arg, got, result, abandoned>>

Give_forgotten(t) ==
    /\ ~empty_
    /\ Goto(t, "holding", "idle")
    /\ UNCHANGED <<sems, cell, op, arg, got, result, abandoned>>

\* Both return early when the cell is empty; AssertsHold says it never is.
Give(t) ==
    /\ ~empty_
    /\ Goto(t, "holding", "idle")
    /\ Signal(recv_)
    /\ UNCHANGED <<sync_, send_, cell, op, arg, got, result, abandoned>>

\* Mutant: commit does not wake the producer.
Commit_noSync(t) ==
    /\ ~empty_
    /\ Goto(t, "holding", "signalSend")
    /\ empty_' = TRUE
    /\ UNCHANGED <<sems, storage_, op, arg, got, result, abandoned>>

Commit(t) ==
    /\ ~empty_
    /\ Goto(t, "holding", "signalSync")
    /\ empty_' = TRUE
    /\ UNCHANGED <<sems, storage_, op, arg, got, result, abandoned>>

\* Mutant: sync_ is not signalled.
SignalSync_forgotten(t) ==
    /\ Goto(t, "signalSync", "signalSend")
    /\ UNCHANGED <<sems, cell, op, arg, got, result, abandoned>>

\* get and commit end the same way: first sync_, then send_.
SignalSync(t) ==
    /\ Goto(t, "signalSync", "signalSend")
    /\ Signal(sync_)
    /\ UNCHANGED <<send_, recv_, cell, op, arg, got, result, abandoned>>

\* Mutant: send_ is not signalled.
SignalSend_forgotten(t) ==
    /\ Goto(t, "signalSend", "idle")
    /\ UNCHANGED <<sems, cell, op, arg, got, result, abandoned>>

SignalSend(t) ==
    /\ Goto(t, "signalSend", "idle")
    /\ Signal(send_)
    /\ UNCHANGED <<sync_, recv_, cell, op, arg, got, result, abandoned>>

-----------------------------------------------------------------------------

Call(t) == \E o \in Ops : CallGet(t, o) \/ \E v \in Items : CallPut(t, o, v)

\* The steps a thread inside a call takes without waiting for its timeout.
Advance(t) ==
    \/ PutWaitSend(t) \/ PutStore(t) \/ PutPublish(t) \/ PutWaitSync(t)
    \/ GetWaitRecv(t) \/ GetTake(t) \/ AcquireCopy(t)
    \/ SignalSync(t) \/ SignalSend(t)

TimeOut(t) == PutNotDelivered(t) \/ PutNotPicked(t) \/ GetNothingOffered(t)

Next == \E t \in Threads :
            Call(t) \/ Advance(t) \/ TimeOut(t) \/ Give(t) \/ Commit(t)

Spec == Init /\ [][Next]_vars

\* A thread that can run does (the operating system schedules it), a semaphore
\* wakes its waiters in turn, and whoever acquired an item gives or commits it,
\* as the comment of acquire asks.  No fairness on Call (a client may stop) nor
\* on TimeOut (a call without a timeout never takes one).
Fairness ==
    \A t \in Threads : SF_vars(Advance(t)) /\ WF_vars(Give(t) \/ Commit(t))

FairSpec == Spec /\ Fairness

-----------------------------------------------------------------------------
(* What the queue promises, whatever calls its clients issue.              *)

TypeOK ==
    /\ sync_ \in Nat /\ send_ \in Nat /\ recv_ \in Nat
    /\ empty_ \in BOOLEAN
    /\ storage_ \in Items
    /\ pc \in [Threads -> Points]
    /\ op \in [Threads -> Ops]
    /\ arg \in [Threads -> Items]
    /\ got \in [Threads -> Items]
    /\ result \in [Threads -> Results]
    /\ abandoned \in 0..MaxAbandoned

Owners == {t \in Threads : pc[t] \in OwnerPoints}

\* The plain members are never touched by two threads at a time: a thread that
\* may touch them is alone, and no semaphore lets a second one in.
CellExclusive ==
    /\ \A t, u \in Owners : t = u
    /\ Owners # {} => send_ = 0 /\ recv_ = 0

\* The asserts of put, get, acquire, give and commit.
AssertsHold ==
    \A t \in Threads :
        /\ pc[t] = "store" => empty_
        /\ pc[t] \in {"take", "holding"} => ~empty_

\* A thread that a signal is ready for.
Runnable(t) ==
    \/ pc[t] \in OwnerPoints
    \/ pc[t] = "waitSend" /\ send_ > 0
    \/ pc[t] = "waitRecv" /\ recv_ > 0
    \/ pc[t] = "waitSync" /\ sync_ > 0

\* A producer and a consumer never wait for each other: when one of each is
\* blocked, somebody can run without any timeout.
NoMutualWait ==
    ((\E p \in Threads : pc[p] \in {"waitSend", "waitSync"})
        /\ (\E c \in Threads : pc[c] = "waitRecv"))
    => \E t \in Threads : Runnable(t)

Waiting == {t \in Threads : pc[t] \in {"publish", "waitSync"}}
Taken == {t \in Threads : pc[t] = "signalSync"}
Undelivered == IF empty_ THEN 0 ELSE 1

\* The signals of sync_, those already given and those still to come for the
\* item in the cell, are exactly one for each producer that waits for one and
\* one for each that gave up.  A producer is never left waiting for a signal
\* that will not come, and each abandoned put leaves one signal too many.
SignalsMatch ==
    sync_ + Undelivered + Cardinality(Taken)
        = Cardinality(Waiting) + abandoned

\* Only one thread has put so far, and none of its puts gave up its item.
SoleProducer == \A t, u \in Threads : op[t] \in PutOps /\ op[u] \in PutOps => t = u
Rendezvous == SoleProducer /\ abandoned = 0

\* "Does not have any internal capacity, not even a capacity of one": an item of
\* a sole producer is in the cell only while that producer is inside put.
NoCapacity ==
    Rendezvous /\ ~empty_ => \E t \in Waiting : arg[t] = storage_

\* The step in which a sole producer's put returns OK leaves no item of its own in
\* the cell, it has been taken.
PutOKMeansTaken ==
    [][Rendezvous => \A t \in Threads : PutWaitSync(t) => empty_ \/ storage_ # arg[t]]_vars

\* "Producers wait for consumers", without a condition.
ProducersWait ==
    [][\A t \in Threads : PutWaitSync(t) => empty_ \/ storage_ # arg[t]]_vars

-----------------------------------------------------------------------------
(* The queue as a one-place channel.                                       *)

Channel == INSTANCE Channel WITH slot <- IF empty_ THEN {} ELSE {storage_}

ImplementsChannel == Channel!Spec

-----------------------------------------------------------------------------
(* Liveness, under FairSpec.                                               *)

\* An item that is offered while a consumer is blocked in get does not stay in
\* the cell, even if others keep acquiring it and giving it back.
OfferIsTaken ==
    (~empty_ /\ \E c \in Threads : pc[c] = "waitRecv" /\ op[c] = "get")
        ~> empty_

\* A producer whose item is gone returns, as long as no other one puts (another
\* one may take its signal).
PutReturns ==
    \A t \in Threads :
        (SoleProducer /\ pc[t] = "waitSync" /\ empty_) ~> (pc[t] = "idle" \/ ~SoleProducer)
=============================================================================
