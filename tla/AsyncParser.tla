---------------------------- MODULE AsyncParser ----------------------------
(***************************************************************************)
(* JPAsyncJsonParser: text goes in through parseBuffer: on any thread, a   *)
(* worker block parses it, and the handler blocks of the semantic actions  *)
(* are run by a serial dispatch queue.  The threads meet in                *)
(*   - the synchronous queue of module SyncQueue (the buffers),            *)
(*   - idle_, a semaphore with one token that stands for "not running",    *)
(*   - the plain flags killed_, finished_ and the actions' canceled_,      *)
(*   - the handler queue, where the worker may have to wait for its block. *)
(*                                                                         *)
(* loc says where a thread is in the methods of this class, pc where it is *)
(* inside the synchronous queue.  The parser proper is reduced to what the *)
(* threads can tell apart: when it asks for another buffer, and which      *)
(* events it sends before it stops.  The content of a text is left open.   *)
(***************************************************************************)
EXTENDS Integers, Sequences, FiniteSets

CONSTANTS
    Producers,    \* threads that call parseBuffer:
    Cancellers,   \* threads that call cancel, once each
    OnHandler,    \* the cancellers that call it from a block on the handler queue
    Starters,     \* threads that call start, once each
    Askers,       \* threads that call isRunning, once each
    Workers,      \* the blocks start may dispatch
    Options,      \* the settings of the semantic actions to consider
    BomOnly,      \* whether an input may consist of a byte order mark alone
    EarlyCancel,  \* whether cancel may be called before start has returned
    MaxBuffers,   \* bound: calls of parseBuffer: by each producer
    MaxDocs,      \* bound: documents found in the whole input
    MaxWaits,     \* the seconds cancel waits for the worker before it gives up
    MaxAbandoned  \* bound: puts that return TIMEOUT_NOT_PICKED

nil == 0
Buffers == 0..MaxBuffers  \* nil, or a text, numbered in the order it is sent
Users == Producers \cup Cancellers \cup Workers  \* of the synchronous queue
Threads == Users \cup Starters \cup Askers

OptionRecords ==
    [multi : BOOLEAN,     \* parseMultipleDocuments
     ignore : BOOLEAN,    \* ignoreSpuriousTrailingBytes
     async : BOOLEAN,     \* parseMultipleDocumentsAsynchronously
     cancels : BOOLEAN]   \* the actions object responds to cancel

ASSUME ActorsAssumption ==
    /\ IsFiniteSet(Threads)
    /\ OnHandler \subseteq Cancellers
    /\ Producers \cap (Cancellers \cup Workers \cup Starters \cup Askers) = {}
    /\ Cancellers \cap (Workers \cup Starters \cup Askers) = {}
    /\ Workers \cap (Starters \cup Askers) = {}
    /\ Starters \cap Askers = {}
ASSUME SettingsAssumption ==
    /\ Options \subseteq OptionRecords
    /\ BomOnly \in BOOLEAN /\ EarlyCancel \in BOOLEAN
ASSUME BoundsAssumption ==
    {MaxBuffers, MaxDocs, MaxWaits, MaxAbandoned} \subseteq Nat

VARIABLES
    sync_, send_, recv_, empty_, storage_,          \* syncQueue_
    pc, op, arg, got, result, abandoned,
    idle_, killed_, finished_,                      \* JPAsyncJsonParser
    canceled_,                                      \* its semantic actions
    option,                                         \* and their settings
    loc,                                            \* where each thread is
    phase, input, success, docs,                    \* the running parser
    blocks, handler, last,                          \* the handler queue
    sent, waits,                                    \* producers, cancellers
    read                                            \* history: the last text read

queue == <<sync_, send_, recv_, empty_, storage_, pc, op, arg, got, result, abandoned>>
parser == <<phase, input, success, docs>>
handlers == <<blocks, handler, last>>
clients == <<sent, waits>>
flags == <<idle_, killed_, finished_, canceled_>>
vars == <<queue, flags, option, loc, parser, handlers, clients, read>>

QueueCalls ==
    (Producers \X {"putTimeout"}) \cup (Workers \X {"get", "getTimeout"})
        \cup (Cancellers \X {"putTimeout", "getTimeout"})

SyncQueue == INSTANCE SyncQueue
    WITH Threads <- Users, Items <- Buffers, DefaultItem <- nil, Calls <- QueueCalls

\* What the worker's run has reached.
Phases == {"detect", "lookahead", "begin", "check", "text", "inside", "after", "finish"}

Init ==
    /\ SyncQueue!Init
    /\ idle_ = 1 /\ killed_ = FALSE /\ finished_ = FALSE /\ canceled_ = FALSE
    /\ option \in Options
    /\ loc = [t \in Threads |-> "ready"]
    /\ phase = [w \in Workers |-> "detect"]
    /\ input = [w \in Workers |-> "none"]
    /\ success = [w \in Workers |-> FALSE]
    /\ docs = 0
    /\ blocks = << >> /\ handler = "free" /\ last = "none"
    /\ sent = [p \in Producers |-> 0]
    /\ waits = [c \in Cancellers |-> 0]
    /\ read = 0

-----------------------------------------------------------------------------
(* Moves between program points, and the calls of the synchronous queue.   *)

Move(t, from, to) == loc[t] = from /\ loc' = [loc EXCEPT ![t] = to]

\* Mutant: the token is taken whether it is there or not.
TakeIdle_unguarded == idle_ >= 0 /\ idle_' = idle_ - 1

\* A try-wait on idle_ that takes the token, and one that finds it taken.
TakeIdle == idle_ > 0 /\ idle_' = idle_ - 1
SignalIdle == idle_' = idle_ + 1

Put(t, v) == SyncQueue!CallPut(t, "putTimeout", v)
Get(t) == SyncQueue!CallGet(t, "get")
Poll(t) == SyncQueue!CallGet(t, "getTimeout")
Returned(t) == pc[t] = "idle"

\* A block on the handler queue, and the threads that wait for it to have run:
\* the sender after a dispatch_sync, nobody after a dispatch_async.
Block(kind, waiters) == [kind |-> kind, waiters |-> waiters]
Send(kind) == blocks' = Append(blocks, Block(kind, {})) /\ UNCHANGED <<handler, last>>

-----------------------------------------------------------------------------
(* start                                                                   *)

StartRefused(s) ==
    /\ Move(s, "ready", "refused")
    /\ idle_ = 0
    /\ UNCHANGED <<queue, flags, option, parser, handlers, clients, read>>

StartTake(s) ==
    /\ Move(s, "ready", "took")
    /\ TakeIdle
    /\ UNCHANGED <<queue, killed_, finished_, canceled_, option, parser, handlers, clients, read>>

\* Returns NO and keeps the token.
StartKilled(s) ==
    /\ Move(s, "took", "leaked")
    /\ killed_
    /\ UNCHANGED <<queue, flags, option, parser, handlers, clients, read>>

StartDispatch(s, w) ==
    /\ loc[s] = "took" /\ ~killed_
    /\ loc[w] = "ready"
    /\ loc' = [loc EXCEPT ![s] = "started", ![w] = "fetch"]
    /\ UNCHANGED <<queue, flags, option, parser, handlers, clients, read>>

-----------------------------------------------------------------------------
(* The worker's input: basic_syncqueue_streambuf::underflow.               *)

\* The phases in which more text may be needed.  Between two documents the
\* parser reads on, unless it parses a single one and ignores what follows.
Reads(w) ==
    \/ phase[w] \in {"detect", "lookahead", "text", "inside"}
    \/ phase[w] = "after" /\ (option.multi \/ ~option.ignore)

Fetch(w) ==
    /\ Move(w, "fetch", "fetching")
    /\ Get(w)
    /\ UNCHANGED <<flags, option, parser, handlers, clients, read>>

Receive(w) ==
    /\ Returned(w)
    /\ Move(w, "fetching", "run")
    /\ input' = [input EXCEPT ![w] = IF got[w] = nil THEN "eof" ELSE "text"]
    /\ read' = IF got[w] = nil THEN read ELSE got[w]
    /\ UNCHANGED <<queue, flags, option, phase, success, docs, handlers, clients>>

\* The end of the current buffer is reached.
Underflow(w) ==
    /\ input[w] \in {"text", "none"}
    /\ Reads(w)
    /\ Move(w, "run", "fetch")
    /\ phase' = [phase EXCEPT ![w] = IF @ = "detect" THEN "lookahead" ELSE @]
    /\ UNCHANGED <<queue, flags, option, input, success, docs, handlers, clients, read>>

-----------------------------------------------------------------------------
(* The worker's run: detect the encoding, then the parse loop.             *)

\* One step of the parser that ends in phase to.
Step(w, from, to) ==
    /\ loc[w] = "run"
    /\ phase[w] = from
    /\ phase' = [phase EXCEPT ![w] = to]

Detected(w) ==
    /\ input[w] = "text"
    /\ Step(w, "detect", "begin") \/ Step(w, "lookahead", "begin")
    /\ UNCHANGED <<queue, flags, option, loc, input, success, docs, handlers, clients, read>>

\* The end of the input right after a byte order mark.  The stream is not at its
\* end: the new iterator will ask the streambuf for another buffer.
DetectedBomOnly(w) ==
    /\ BomOnly
    /\ input[w] = "eof"
    /\ Step(w, "lookahead", "begin")
    /\ input' = [input EXCEPT ![w] = "none"]
    /\ UNCHANGED <<queue, flags, option, loc, success, docs, handlers, clients, read>>

\* Any exception, in the detection of the encoding or from the streambuf.
Throw(w) ==
    /\ \/ phase[w] \in {"detect", "lookahead"}
       \/ Reads(w) /\ input[w] = "text"
    /\ Move(w, "run", "drain")
    /\ killed_' = TRUE
    /\ Send("error")
    /\ UNCHANGED <<queue, idle_, finished_, canceled_, option, parser, clients, read>>

\* parserFoundJsonBegin and parserFoundJsonEnd: the block is sent and, unless
\* documents are handled asynchronously, has run before the parser goes on.
Notify(w, kind) ==
    /\ blocks' = Append(blocks, Block(kind, IF option.async THEN {} ELSE {w}))
    /\ loc' = IF option.async THEN loc ELSE [loc EXCEPT ![w] = "inBlock"]
    /\ UNCHANGED <<handler, last>>

ParseBegin(w) ==
    /\ Step(w, "begin", "check")
    /\ Notify(w, "start")
    /\ UNCHANGED <<queue, flags, option, input, success, docs, clients, read>>

ParseCanceled(w) ==
    /\ Step(w, "check", "finish")
    /\ canceled_
    /\ Send("error")
    /\ success' = [success EXCEPT ![w] = FALSE]
    /\ UNCHANGED <<queue, flags, option, loc, input, docs, clients, read>>

ParseNotCanceled(w) ==
    /\ Step(w, "check", "text")
    /\ ~canceled_
    /\ UNCHANGED <<queue, flags, option, loc, input, success, docs, handlers, clients, read>>

\* White space is skipped and the opening bracket is found.
EnterDocument(w) ==
    /\ input[w] = "text"
    /\ Step(w, "text", "inside")
    /\ UNCHANGED <<queue, flags, option, loc, input, success, docs, handlers, clients, read>>

\* Mutant: the parse loop goes on after an error.
ParseFails_goesOn(w) ==
    /\ input[w] # "none"
    /\ Step(w, "inside", "after")
    /\ Send("error")
    /\ UNCHANGED <<queue, flags, option, loc, input, success, docs, clients, read>>

\* parse_text fails.  Inside a document an error may be reported to the semantic
\* actions once, by several levels of the parser, or by none.
ParseFails(w) ==
    /\ input[w] # "none"
    /\ \/ Step(w, "text", "finish") /\ Send("error")
       \/ Step(w, "inside", "finish")
            /\ \E n \in 0..2 : blocks' = blocks \o [i \in 1..n |-> Block("error", {})]
            /\ UNCHANGED <<handler, last>>
    /\ success' = [success EXCEPT ![w] = FALSE]
    /\ UNCHANGED <<queue, flags, option, loc, input, docs, clients, read>>

ParseEnd(w) ==
    /\ docs < MaxDocs
    /\ input[w] = "text"
    /\ Step(w, "inside", "after")
    /\ docs' = docs + 1
    /\ Notify(w, "end")
    /\ UNCHANGED <<queue, flags, option, input, success, clients, read>>

\* The loop ends well: at the end of the input, at a NUL character, when the
\* trailing characters are to be ignored, or when nothing more is read.
LoopSucceeds(w) ==
    /\ Step(w, "after", "finish")
    /\ success' = [success EXCEPT ![w] = TRUE]
    /\ UNCHANGED <<queue, flags, option, loc, input, docs, handlers, clients, read>>

LoopContinues(w) ==
    /\ option.multi
    /\ input[w] = "text"
    /\ Step(w, "after", "begin")
    /\ UNCHANGED <<queue, flags, option, loc, input, success, docs, handlers, clients, read>>

ExtraCharacters(w) ==
    /\ ~option.multi /\ ~option.ignore
    /\ input[w] = "text"
    /\ Step(w, "after", "finish")
    /\ Send("error")
    /\ success' = [success EXCEPT ![w] = FALSE]
    /\ UNCHANGED <<queue, flags, option, loc, input, docs, clients, read>>

Finished(w) ==
    /\ phase[w] = "finish"
    /\ Move(w, "run", IF success[w] THEN "release" ELSE "drain")
    /\ Send("completion")
    /\ UNCHANGED <<queue, flags, option, parser, clients, read>>

-----------------------------------------------------------------------------
(* The end of the worker block.                                            *)

\* Mutant: the worker waits for the buffers it wants to drop.
Drain_waits(w) ==
    /\ Move(w, "drain", "draining")
    /\ Get(w)
    /\ UNCHANGED <<flags, option, parser, handlers, clients, read>>

Drain(w) ==
    /\ Move(w, "drain", "draining")
    /\ Poll(w)
    /\ UNCHANGED <<flags, option, parser, handlers, clients, read>>

Drained(w) ==
    /\ Returned(w)
    /\ Move(w, "draining", IF result[w] = "OK" THEN "drain" ELSE "release")
    /\ UNCHANGED <<queue, flags, option, parser, handlers, clients, read>>

Release(w) ==
    /\ Move(w, "release", "released")
    /\ SignalIdle
    /\ UNCHANGED <<queue, killed_, finished_, canceled_, option, parser, handlers, clients, read>>

SetFinished(w) ==
    /\ Move(w, "released", "gone")
    /\ finished_' = TRUE
    /\ UNCHANGED <<queue, idle_, killed_, canceled_, option, parser, handlers, clients, read>>

-----------------------------------------------------------------------------
(* The handler queue runs its blocks one at a time.                        *)

RunBlock ==
    /\ handler = "free"
    /\ blocks # << >>
    /\ last' = Head(blocks).kind
    /\ blocks' = Tail(blocks)
    /\ loc' = [t \in Threads |-> IF t \in Head(blocks).waiters THEN "run" ELSE loc[t]]
    /\ UNCHANGED <<queue, flags, option, parser, handler, clients, read>>

-----------------------------------------------------------------------------
(* parseBuffer:                                                            *)

Stopped == killed_ \/ finished_

ParseBuffer(p, v) ==
    /\ sent[p] < MaxBuffers
    /\ v \in {nil, sent[p] + 1}
    /\ ~Stopped
    /\ Move(p, "ready", "putting")
    /\ Put(p, v)
    /\ sent' = [sent EXCEPT ![p] = @ + 1]
    /\ UNCHANGED <<flags, option, parser, handlers, waits, read>>

NotDelivered(p) ==
    loc[p] = "putting" /\ Returned(p) /\ result[p] = "TIMEOUT_NOT_DELIVERED"

\* Mutant: the parser's state is not looked at again after a timeout.
ParseBufferTimeout_forEver(p) ==
    /\ NotDelivered(p)
    /\ Put(p, arg[p])
    /\ UNCHANGED <<flags, option, loc, parser, handlers, clients, read>>

ParseBufferTimeout(p) ==
    /\ NotDelivered(p)
    /\ IF Stopped
       THEN Move(p, "putting", "no") /\ UNCHANGED queue
       ELSE Put(p, arg[p]) /\ UNCHANGED loc
    /\ UNCHANGED <<flags, option, parser, handlers, clients, read>>

\* Mutant: the answer is YES also when the queue was never free for the buffer.
ParseBufferYes_undelivered(p) ==
    /\ Returned(p)
    /\ Move(p, "putting", "ready")
    /\ UNCHANGED <<queue, flags, option, parser, handlers, clients, read>>

ParseBufferYes(p) ==
    /\ Returned(p) /\ result[p] # "TIMEOUT_NOT_DELIVERED"
    /\ Move(p, "putting", "ready")
    /\ UNCHANGED <<queue, flags, option, parser, handlers, clients, read>>

ParseBufferNo(p) ==
    /\ Stopped
    /\ Move(p, "ready", "no")
    /\ UNCHANGED <<queue, flags, option, parser, handlers, clients, read>>

-----------------------------------------------------------------------------
(* cancel                                                                  *)

\* Called on the handler queue, it occupies that queue until it returns.
EnterCancel(c) ==
    /\ EarlyCancel \/ \A s \in Starters : loc[s] \in {"started", "refused", "leaked"}
    /\ IF c \in OnHandler THEN handler = "free" /\ handler' = c ELSE UNCHANGED handler

LeaveCancel(c) == handler' = IF handler = c THEN "free" ELSE handler

CancelTry(c) ==
    /\ EnterCancel(c)
    /\ \/ TakeIdle /\ Move(c, "ready", "wasIdle")
       \/ idle_ = 0 /\ UNCHANGED idle_ /\ Move(c, "ready", "kill")
    /\ UNCHANGED <<queue, killed_, finished_, canceled_, option, parser, blocks, last, clients, read>>

CancelWasIdle(c) ==
    /\ Move(c, "wasIdle", "nothingToCancel")
    /\ SignalIdle
    /\ LeaveCancel(c)
    /\ UNCHANGED <<queue, killed_, finished_, canceled_, option, parser, blocks, last, clients, read>>

CancelKill(c) ==
    /\ Move(c, "kill", "cancelActions")
    /\ killed_' = TRUE
    /\ UNCHANGED <<queue, idle_, finished_, canceled_, option, parser, handlers, clients, read>>

CancelActions(c) ==
    /\ Move(c, "cancelActions", "drain")
    /\ canceled_' = (canceled_ \/ option.cancels)
    /\ UNCHANGED <<queue, idle_, killed_, finished_, option, parser, handlers, clients, read>>

CancelDrain(c) ==
    /\ Move(c, "drain", "draining")
    /\ Poll(c)
    /\ UNCHANGED <<flags, option, parser, handlers, clients, read>>

\* Mutant: no nil buffer is sent to a worker that waits for text.
CancelDrained_noNil(c) ==
    /\ Returned(c)
    /\ Move(c, "draining", IF result[c] = "OK" THEN "drain" ELSE "await")
    /\ UNCHANGED <<queue, flags, option, parser, handlers, clients, read>>

CancelDrained(c) ==
    /\ Returned(c)
    /\ Move(c, "draining", IF result[c] = "OK" THEN "drain" ELSE "offer")
    /\ UNCHANGED <<queue, flags, option, parser, handlers, clients, read>>

CancelOffer(c) ==
    /\ Move(c, "offer", "offering")
    /\ Put(c, nil)
    /\ UNCHANGED <<flags, option, parser, handlers, clients, read>>

\* Mutant: cancel does not wait for the worker that took the nil buffer.
CancelOffered_noAwait(c) ==
    /\ Returned(c)
    /\ Move(c, "offering", IF result[c] = "OK" THEN "canceled" ELSE "ask")
    /\ UNCHANGED <<queue, flags, option, parser, handlers, clients, read>>

CancelOffered(c) ==
    /\ Returned(c)
    /\ Move(c, "offering", IF result[c] = "OK" THEN "await" ELSE "ask")
    /\ UNCHANGED <<queue, flags, option, parser, handlers, clients, read>>

\* Mutants: the token is put back although it was not taken; nobody asks.
CancelAsk_signalsAlways(c) ==
    /\ \/ idle_ = 0 /\ SignalIdle /\ Move(c, "ask", "offer")
       \/ TakeIdle /\ Move(c, "ask", "tookIdle")
    /\ UNCHANGED <<queue, killed_, finished_, canceled_, option, parser, handlers, clients, read>>

CancelAsk_neverAsks(c) ==
    /\ Move(c, "ask", "offer")
    /\ UNCHANGED <<queue, flags, option, parser, handlers, clients, read>>

\* [self isRunning], and the wait for the worker's token: both put it back.
CancelAsk(c) ==
    /\ \/ idle_ = 0 /\ UNCHANGED idle_ /\ Move(c, "ask", "offer")
       \/ TakeIdle /\ Move(c, "ask", "tookIdle")
    /\ UNCHANGED <<queue, killed_, finished_, canceled_, option, parser, handlers, clients, read>>

CancelAwait(c) ==
    /\ Move(c, "await", "tookIdle")
    /\ TakeIdle
    /\ UNCHANGED <<queue, killed_, finished_, canceled_, option, parser, handlers, clients, read>>

CancelReturn(c) ==
    /\ Move(c, "tookIdle", "canceled")
    /\ SignalIdle
    /\ LeaveCancel(c)
    /\ UNCHANGED <<queue, killed_, finished_, canceled_, option, parser, blocks, last, clients, read>>

CancelAwaitTimeout(c) ==
    /\ idle_ = 0
    /\ waits' = [waits EXCEPT ![c] = @ + 1]
    /\ IF waits'[c] > MaxWaits
       THEN Move(c, "await", "gaveUp") /\ LeaveCancel(c)
       ELSE loc[c] = "await" /\ UNCHANGED <<loc, handler>>
    /\ UNCHANGED <<queue, flags, option, parser, blocks, last, sent, read>>

-----------------------------------------------------------------------------
(* isRunning                                                               *)

IsRunning(a) ==
    /\ \/ idle_ = 0 /\ UNCHANGED idle_ /\ Move(a, "ready", "yes")
       \/ TakeIdle /\ Move(a, "ready", "tookIdle")
    /\ UNCHANGED <<queue, killed_, finished_, canceled_, option, parser, handlers, clients, read>>

IsNotRunning(a) ==
    /\ Move(a, "tookIdle", "no")
    /\ SignalIdle
    /\ UNCHANGED <<queue, killed_, finished_, canceled_, option, parser, handlers, clients, read>>

-----------------------------------------------------------------------------

Start(s) == StartRefused(s) \/ StartTake(s) \/ StartKilled(s)
                \/ \E w \in Workers : StartDispatch(s, w)

Work(w) ==
    \/ Fetch(w) \/ Receive(w) \/ Underflow(w)
    \/ Detected(w) \/ DetectedBomOnly(w) \/ Throw(w)
    \/ ParseBegin(w) \/ ParseCanceled(w) \/ ParseNotCanceled(w)
    \/ EnterDocument(w) \/ ParseFails(w) \/ ParseEnd(w)
    \/ LoopSucceeds(w) \/ LoopContinues(w) \/ ExtraCharacters(w) \/ Finished(w)
    \/ Drain(w) \/ Drained(w) \/ Release(w) \/ SetFinished(w)

Produce(p) ==
    ParseBufferTimeout(p) \/ ParseBufferYes(p) \/ ParseBufferNo(p)

Cancel(c) ==
    \/ CancelTry(c) \/ CancelWasIdle(c) \/ CancelKill(c) \/ CancelActions(c)
    \/ CancelDrain(c) \/ CancelDrained(c) \/ CancelOffer(c) \/ CancelOffered(c)
    \/ CancelAsk(c) \/ CancelAwait(c) \/ CancelReturn(c) \/ CancelAwaitTimeout(c)

Ask(a) == IsRunning(a) \/ IsNotRunning(a)

\* A step of a thread inside the synchronous queue.
InQueue(t) ==
    /\ SyncQueue!Advance(t) \/ SyncQueue!TimeOut(t)
    /\ UNCHANGED <<flags, option, loc, parser, handlers, clients, read>>

Next ==
    \/ \E s \in Starters : Start(s)
    \/ \E w \in Workers : Work(w)
    \/ \E p \in Producers : Produce(p) \/ \E v \in Buffers : ParseBuffer(p, v)
    \/ \E c \in Cancellers : Cancel(c)
    \/ \E a \in Askers : Ask(a)
    \/ \E t \in Users : InQueue(t)
    \/ RunBlock

Spec == Init /\ [][Next]_vars

\* Every thread that can run does, semaphores wake their waiters in turn, timed
\* waits expire, blocks end, and the client calls start.  Whether it ever calls
\* parseBuffer: or cancel is its own affair.
Fairness ==
    /\ \A s \in Starters : WF_vars(Start(s))
    /\ \A w \in Workers : WF_vars(Work(w))
    /\ \A p \in Producers : WF_vars(Produce(p))
    /\ \A c \in Cancellers :
        /\ WF_vars(Cancel(c) /\ loc[c] # "ready")
        /\ SF_vars(CancelAwait(c))
    /\ \A a \in Askers : WF_vars(IsNotRunning(a))
    /\ \A t \in Users : SF_vars(SyncQueue!Advance(t) /\ InQueue(t)) /\ WF_vars(InQueue(t))
    /\ WF_vars(RunBlock)

FairSpec == Spec /\ Fairness

-----------------------------------------------------------------------------
(* Safety.                                                                 *)

WorkerPoints == {"fetch", "fetching", "run", "inBlock", "drain", "draining", "release"}
Points == WorkerPoints \cup
    {"ready", "refused", "took", "leaked", "started", "released", "gone",
     "putting", "no", "yes", "wasIdle", "kill", "nothingToCancel",
     "cancelActions", "offer", "offering", "ask", "tookIdle", "await",
     "canceled", "gaveUp"}
Kinds == {"start", "end", "error", "completion"}

TypeOK ==
    /\ SyncQueue!TypeOK
    /\ idle_ \in Nat
    /\ {killed_, finished_, canceled_} \subseteq BOOLEAN
    /\ option \in Options
    /\ loc \in [Threads -> Points]
    /\ phase \in [Workers -> Phases]
    /\ input \in [Workers -> {"none", "text", "eof"}]
    /\ success \in [Workers -> BOOLEAN]
    /\ docs \in 0..MaxDocs
    /\ blocks \in Seq([kind : Kinds, waiters : SUBSET Workers])
    /\ handler \in OnHandler \cup {"free"}
    /\ last \in Kinds \cup {"none"}
    /\ sent \in [Producers -> 0..MaxBuffers]
    /\ waits \in [Cancellers -> Nat]
    /\ read \in Buffers

\* The threads between a wait and a signal of idle_, and those that returned
\* without the signal.
Running(w) == loc[w] \in WorkerPoints
IdleHolders ==
    {w \in Workers : Running(w)}
        \cup {s \in Starters : loc[s] \in {"took", "leaked"}}
        \cup {c \in Cancellers : loc[c] \in {"wasIdle", "tookIdle"}}
        \cup {a \in Askers : loc[a] = "tookIdle"}

\* Exactly one token, free or held: two workers never parse at the same time,
\* whatever calls of start, cancel and isRunning overlap, and the token is lost
\* in one way only, through a start that was killed.
IdleToken ==
    /\ \A t, u \in IdleHolders : t = u
    /\ idle_ = (IF IdleHolders = {} THEN 1 ELSE 0)

\* "cancel will block until the parser's worker thread has been exited": once a
\* cancel that had something to cancel has returned, no worker runs, and none
\* will be started, unless cancel said that it gave up.
CancelStopsWorker ==
    (\E c \in Cancellers : loc[c] = "canceled") => \A w \in Workers : ~Running(w)

\* The order in which the handler blocks of this parser run: a document ends
\* only after it started, nothing but an error or the completion comes after an
\* error, and the completion is the last block of a run.
MayFollow == [
    none       |-> {"start", "error"},
    start      |-> {"end", "error", "completion"},
    end        |-> {"start", "error", "completion"},
    error      |-> {"error", "completion"},
    completion |-> {"start", "error"}]
BlockOrder == [][RunBlock => last' \in MayFollow[last]]_vars

\* A text for which parseBuffer: answered YES, also because nobody picked it up
\* in time, waits in the queue or in the worker's hands, or was read.
Kept(p) ==
    (loc[p] = "ready" /\ arg[p] > read) =>
        \/ ~empty_ /\ storage_ = arg[p]
        \/ \E w \in Workers : loc[w] = "fetching" /\ got[w] = arg[p]

\* In the first run of a parser that was not killed, the worker reads the texts
\* of a producer without a gap, a repetition or a swap, whatever timeouts
\* parseBuffer: went through; and until it stops reading it loses none that
\* parseBuffer: accepted.
NoTextSkipped ==
    /\ [][\A w \in Workers :
            (Receive(w) /\ got[w] # nil /\ ~killed_
                /\ \A u \in Workers \ {w} : loc[u] = "ready")
            => got[w] = read + 1]_vars
    /\ [](~killed_ /\ (\A w \in Workers : loc[w] \in {"ready", "fetch", "fetching", "run", "inBlock"})
            => \A p \in Producers : Kept(p))

\* "After returning from cancel, it is guaranteed that no blocks will be invoked."
NoBlockAfterCancel ==
    [][RunBlock => \A c \in Cancellers : loc[c] # "canceled"]_vars

-----------------------------------------------------------------------------
(* Liveness, under FairSpec.                                               *)

\* "If buffer equals nil the parser treats it as EOF and stops parsing."
EOFStopsParser ==
    \A w \in Workers : (input[w] = "eof") ~> (loc[w] = "gone")

\* "Forces it to exit as soon as possible": cancel ends every run, also the one
\* whose buffers it ate and the one it gave up waiting for.
KilledStops ==
    \A c \in Cancellers : (loc[c] = "kill") ~> \A w \in Workers : ~Running(w)

\* parseBuffer: does not block for ever once the parser was started.
ParseBufferReturns ==
    \A p \in Producers : (loc[p] = "putting") ~> (loc[p] # "putting")

\* cancel returns.
CancelReturns ==
    \A c \in Cancellers :
        (loc[c] = "kill") ~> (loc[c] \in {"canceled", "gaveUp"})
=============================================================================
