--------------------------- MODULE StreamDevices ---------------------------
(***************************************************************************)
(* The devices over Foundation's streams (NSStreamStreambuf.hpp) that      *)
(* boost's stream buffers read from and write to: NSInputStreamSource and  *)
(* NSOutputStreamSink, which can only be moved, and their second versions, *)
(* which can be copied.  Each counts the bytes that passed through it.     *)
(* The streams are Foundation's.                                           *)
(***************************************************************************)
EXTENDS Integers, FiniteSetsExt

CONSTANTS Streams,   \* the streams
          Devices,   \* the client's variables
          Total,     \* bytes an input stream has, and an output stream is given
          MaxSize,   \* bytes of a call
          MaxUses    \* devices made over streams, in all

VARIABLES class,     \* the class of the devices
          streams,   \* the streams: their status, the bytes passed, the devices made over them
          devices,   \* what the variables hold: nothing, or a stream or nil and a counter
          transfer,  \* the call of NSOutputStreamSink2::write that goes on
          answer     \* what the last call answered

vars == <<class, streams, devices, transfer, answer>>

DeviceConstants == Total \in Nat /\ MaxSize \in Nat /\ 0 \notin Streams \cup Devices

nothing == [stream |-> 0, counter |-> -1]
Exists(v) == devices[v] # nothing
Stream(v) == devices[v].stream
Status(v) == IF Stream(v) = 0 THEN "nil" ELSE streams[Stream(v)].status
Idle == transfer = nothing
Silent == [device |-> 0, amount |-> 0, took |-> 0]
Input == class \in {"NSInputStreamSource", "NSInputStreamSource2"}
Copyable == class \in {"NSInputStreamSource2", "NSOutputStreamSink2"}

Init ==
  /\ class \in {"NSInputStreamSource", "NSInputStreamSource2", "NSOutputStreamSink", "NSOutputStreamSink2"}
  /\ streams \in [Streams -> [status : {"notOpen", "open"}, passed : {0}, uses : {0}]]
  /\ devices = [v \in Devices |-> nothing]
  /\ transfer = nothing /\ answer = Silent

Uses == FoldSet(LAMBDA s, n : streams[s].uses + n, 0, Streams)
Use(s) == Uses < MaxUses /\ streams' = [streams EXCEPT ![s].uses = @ + 1]
Calls == Idle /\ answer' = Silent /\ UNCHANGED <<class, transfer>>

\* the constructor, which throws unless the stream is open
Construct(v, s) ==
  /\ Calls /\ ~Exists(v)
  /\ streams[s].status = "open"
  /\ devices' = [devices EXCEPT ![v] = [stream |-> s, counter |-> 0]] /\ Use(s)

\* the copy constructors: a sink's counts from 0 and throws unless the stream is open
CopyConstruct(v, w) ==
  /\ Calls /\ Copyable /\ ~Exists(v) /\ Exists(w)
  /\ ~Input => Status(w) = "open"
  /\ devices' = [devices EXCEPT ![v] = IF Input THEN devices[w] ELSE [devices[w] EXCEPT !.counter = 0]]
  /\ IF Stream(w) # 0 THEN Use(Stream(w)) ELSE UNCHANGED streams

CopyAssign(v, w) ==
  /\ Calls /\ Copyable /\ v # w /\ Exists(v) /\ Exists(w)
  /\ devices' = [devices EXCEPT ![v] = devices[w]]
  /\ IF Stream(w) # 0 THEN Use(Stream(w)) ELSE UNCHANGED streams

\* leave nil, and the counter
Moved(v, w) == [devices EXCEPT ![v] = devices[w], ![w].stream = 0]
MoveConstruct(v, w) == Calls /\ ~Exists(v) /\ Exists(w) /\ devices' = Moved(v, w) /\ UNCHANGED streams
MoveAssign(v, w) == Calls /\ v # w /\ Exists(v) /\ Exists(w) /\ devices' = Moved(v, w) /\ UNCHANGED streams

Destroy(v) == Calls /\ Exists(v) /\ devices' = [devices EXCEPT ![v] = nothing] /\ UNCHANGED streams

Close(v) ==
  /\ Calls /\ Exists(v) /\ Stream(v) # 0
  /\ streams' = [streams EXCEPT ![Stream(v)].status = "closed"]
  /\ UNCHANGED devices

\* what Foundation's read:maxLength: and write:maxLength: return; a message to nil returns 0
Amounts(v, n) ==
  IF Stream(v) = 0 THEN {0}
  ELSE IF Status(v) \notin {"open", "atEnd"} THEN {-1}
  ELSE IF Input /\ streams[Stream(v)].passed = Total THEN {0, -1}
  ELSE {k \in 1..n : streams[Stream(v)].passed + k <= Total} \cup {-1} \cup (IF Input THEN {} ELSE {0})
Passed(v, amount) ==
  IF Stream(v) = 0 THEN streams
  ELSE [streams EXCEPT ![Stream(v)].passed = IF amount > 0 THEN @ + amount ELSE @,
                       ![Stream(v)].status = CASE amount < 0 /\ @ # "closed" -> "error"
                                               [] amount = 0 /\ Input -> "atEnd"
                                               [] OTHER -> @]
Counted(v, amount) == [devices EXCEPT ![v].counter = IF amount > 0 THEN @ + amount ELSE @]

\* read: the end is -1, and a failure 0
Read(v, n) == \E amount \in Amounts(v, n) :
  /\ Idle /\ Input /\ Exists(v)
  /\ answer' = [device |-> v, took |-> amount,
                amount |-> CASE amount > 0 -> amount [] amount = 0 -> -1 [] OTHER -> 0]
  /\ streams' = Passed(v, amount) /\ devices' = Counted(v, amount)
  /\ UNCHANGED <<class, transfer>>

\* NSOutputStreamSink::write: what the stream takes of it
Write(v, n) == \E amount \in Amounts(v, n) :
  /\ Idle /\ class = "NSOutputStreamSink" /\ Exists(v)
  /\ answer' = [device |-> v, took |-> amount, amount |-> IF amount >= 0 THEN amount ELSE 0]
  /\ streams' = Passed(v, amount) /\ devices' = Counted(v, amount)
  /\ UNCHANGED <<class, transfer>>

\* NSOutputStreamSink2::write: until the stream has taken all of it
WriteAll(v, n) ==
  /\ Idle /\ class = "NSOutputStreamSink2" /\ Exists(v) /\ Stream(v) # 0
  /\ transfer' = [device |-> v, size |-> n, remaining |-> n]
  /\ answer' = Silent
  /\ UNCHANGED <<class, streams, devices>>

WriteOn == ~Idle /\ \E amount \in Amounts(transfer.device, transfer.remaining) :
  /\ streams' = Passed(transfer.device, amount) /\ devices' = Counted(transfer.device, amount)
  /\ IF amount = transfer.remaining
     THEN /\ answer' = [device |-> transfer.device, amount |-> transfer.size, took |-> transfer.size]
          /\ transfer' = nothing
     ELSE /\ transfer' = IF amount > 0 THEN [transfer EXCEPT !.remaining = @ - amount] ELSE transfer
          /\ UNCHANGED answer
  /\ UNCHANGED class

Next ==
  \/ \E v \in Devices, s \in Streams : Construct(v, s)
  \/ \E v, w \in Devices : CopyConstruct(v, w) \/ CopyAssign(v, w) \/ MoveConstruct(v, w) \/ MoveAssign(v, w)
  \/ \E v \in Devices : Destroy(v) \/ Close(v)
  \/ \E v \in Devices, n \in 1..MaxSize : Read(v, n) \/ Write(v, n) \/ WriteAll(v, n)
  \/ WriteOn

Spec == Init /\ [][Next]_vars
-----------------------------------------------------------------------------
TypeOK ==
  /\ \A s \in Streams : /\ streams[s].status \in {"notOpen", "open", "atEnd", "error", "closed"}
                        /\ streams[s].passed \in 0..Total /\ streams[s].uses \in 0..MaxUses
  /\ \A v \in Devices : Exists(v) => Stream(v) \in Streams \cup {0} /\ devices[v].counter \in Nat
  /\ Idle \/ (transfer.device \in Devices /\ transfer.remaining \in 1..transfer.size)

\* A reader is told of the end where the stream's is, or of a device that was moved
\* from; a failure reads as 0, which boost's buffer takes for the end too, and can be
\* told by the stream's error, unless the stream was closed.
EndsWhereItEnds ==
  Input /\ answer.device # 0 =>
    /\ answer.amount = -1 => Status(answer.device) = "nil" \/ streams[Stream(answer.device)].passed = Total
    /\ answer.amount = 0 => Status(answer.device) \in {"error", "closed"}

\* consumed() and written() are the bytes that passed, for a device that was the only
\* one over its stream from its beginning; and a sink that could be copied answers all it was given.
Counts ==
  /\ \A v \in Devices : Exists(v) /\ Stream(v) # 0 =>
       LET s == streams[Stream(v)] IN
       /\ devices[v].counter <= s.passed
       /\ s.uses = 1 => devices[v].counter = s.passed
  /\ answer.device # 0 /\ ~Input => answer.amount = IF answer.took > 0 THEN answer.took ELSE 0
=============================================================================
