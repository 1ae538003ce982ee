-------------------------- MODULE JsonParserProofs --------------------------
(***************************************************************************)
(* What holds of JsonParser for every set of option records, every bound   *)
(* on depth, width and strings, and every way to size the buffers.         *)
(*                                                                         *)
(* The argument rests on IInv.  Its parts say, in turn, that the recursion *)
(* is where the program point says (StackInv), that the markers of the     *)
(* generator nest and reach as deep as the recursion (MarkersInv), where   *)
(* an error can be pending (PhaseInv) and what holds until there is one    *)
(* (GoodInv), that the error the actions hold is the parser's (HeldError), *)
(* that after a clean start markers and recursion agree exactly (NestInv), *)
(* and that every unit that was read is in a buffer, in the generator or   *)
(* in a value (BufferInv, DataInv).  None of them is inductive alone: what *)
(* a handler does depends on the markers, whether it is called depends on  *)
(* the error, and what it returns on the units that are still on the way.  *)
(***************************************************************************)
EXTENDS JsonParser, SequenceTheorems, TLAPS

\* What error_ and state_.error() may hold.
Codes ==
    {"none", "empty", "client", "canceled", "syntax", "unexpectedEnd",
     "keyExists", "rejected", "unexpected", "extraCharacters"}

Generators ==
    [stack : Seq(Items), markers : Seq(Nat), tmp : Nat,
     result : {nil, Value}, error : Codes, canceled : BOOLEAN]

\* Where no container is open, where one is, and where a string is read.
Outside == {"run", "start", "text", "root", "parsed", "trailing"}
InsideString == {"string", "escape", "quad", "low", "lowQuad", "closed"}
Inside ==
    {"first", "value", "after", "next", "member", "colon", "counted", "done", "failed", "list"}
        \cup InsideString \cup InsideNumber

\* A buffer as it should be.
Held(b) == b \in StringBuffers /\ b.size <= b.cap

TypeInv ==
    /\ pc \in Outside \cup Inside \cup {"ended"}
    /\ Held(buf) /\ num \in 0..NumberSize /\ want \in Int
    /\ err \in Codes /\ opt \in Options

FlagsInv == told \in BOOLEAN /\ success \in BOOLEAN /\ stale \in BOOLEAN

StackInv ==
    /\ stack \in Seq(Frames) /\ Len(stack) <= MaxDepth
    /\ pc \in Outside => Len(stack) = 0
    /\ pc \in Inside => Len(stack) > 0
    /\ cur \in {"lbrack", "lbrace"} => Len(stack) < MaxDepth
    /\ pc \in {"closed", "counted", "after"} \cup InsideNumber /\ cur = "comma" =>
          Top.index + 1 < MaxElements
    /\ pc = "next" => Top.index < MaxElements

\* The markers of a generator point into its stack, in order.
Nested(g) ==
    /\ g \in Generators
    /\ \A i \in 1..Len(g.markers) : g.markers[i] <= Len(g.stack)
    /\ \A i, j \in 1..Len(g.markers) : i <= j => g.markers[i] <= g.markers[j]

MarkersInv == Nested(sa) /\ Len(stack) <= Len(sa.markers)

-----------------------------------------------------------------------------
(* Sequences, and the recursion of the parser                              *)

\* The first n elements of a sequence.
LEMMA Prefix ==
    ASSUME NEW S, NEW s \in Seq(S), NEW n \in 0..Len(s)
    PROVE  /\ SubSeq(s, 1, n) \in Seq(S)
           /\ Len(SubSeq(s, 1, n)) = n
           /\ \A i \in 1..n : SubSeq(s, 1, n)[i] = s[i]
<1>1. n \in Nat /\ \A i \in 1..n : s[i] \in S  BY LenProperties, ElementOfSeq
<1>2. /\ SubSeq(s, 1, n) \in Seq(S)
      /\ Len(SubSeq(s, 1, n)) = IF 1 <= n THEN n - 1 + 1 ELSE 0
      /\ \A i \in 1..(n - 1 + 1) : SubSeq(s, 1, n)[i] = s[1 + i - 1]
  <2>1. 1 \in Int /\ n \in Int  BY <1>1
  <2> QED  BY <1>1, <2>1, SubSeqProperties
<1> QED  BY <1>1, <1>2

LEMMA LenOf ==
    ASSUME NEW S, NEW s \in Seq(S)
    PROVE  Len(s) \in Nat /\ (Len(s) = 0 <=> s = << >>)
BY EmptySeq, LenProperties

\* Entering, leaving and stepping on keep the recursion well formed.
LEMMA FramesMove ==
    ASSUME stack \in Seq(Frames)
    PROVE  /\ \A kind \in {"array", "object"} :
                 Enter(kind) => stack' \in Seq(Frames) /\ Len(stack') = Len(stack) + 1
           /\ Len(stack) > 0 /\ Leave =>
                 stack' \in Seq(Frames) /\ Len(stack') = Len(stack) - 1
           /\ Len(stack) > 0 /\ Top.index < MaxElements /\ NextElement =>
                 /\ stack' \in Seq(Frames) /\ Len(stack') = Len(stack)
                 /\ Top.index' = Top.index + 1
<1>0. MaxElements \in Nat /\ Len(stack) \in Nat  BY ParserAssumption, LenOf
<1>1. ASSUME NEW kind \in {"array", "object"}, Enter(kind)
      PROVE  stack' \in Seq(Frames) /\ Len(stack') = Len(stack) + 1
  <2>1. [kind |-> kind, index |-> 0] \in Frames  BY <1>0 DEF Frames
  <2> QED  BY <1>1, <2>1, AppendProperties DEF Enter
<1>2. ASSUME Len(stack) > 0, Leave
      PROVE  stack' \in Seq(Frames) /\ Len(stack') = Len(stack) - 1
  <2>1. Len(stack) - 1 \in 0..Len(stack)  BY <1>0, <1>2
  <2> QED  BY <1>2, <2>1, Prefix DEF Leave
<1>3. ASSUME Len(stack) > 0, Top.index < MaxElements, NextElement
      PROVE  /\ stack' \in Seq(Frames) /\ Len(stack') = Len(stack)
             /\ Top.index' = Top.index + 1
  <2> DEFINE next == [Top EXCEPT !.index = @ + 1]
  <2>1. Len(stack) \in 1..Len(stack)  BY <1>0, <1>3
  <2>2. Top \in Frames  BY <2>1, ElementOfSeq DEF Top
  <2>3. next \in Frames /\ next.index = Top.index + 1  BY <1>0, <1>3, <2>2 DEF Frames
  <2>4. stack' = [stack EXCEPT ![Len(stack)] = next]  BY <1>3, <2>1 DEF NextElement, Top
  <2> HIDE DEF next
  <2>5. stack' \in Seq(Frames) /\ Len(stack') = Len(stack)  BY <2>1, <2>3, <2>4, ExceptSeq
  <2>6. stack'[Len(stack)] = next  BY <2>1, <2>4
  <2> QED  BY <2>3, <2>5, <2>6 DEF Top
<1> QED  BY <1>1, <1>2, <1>3

LEMMA StackStep ==
    ASSUME TypeInv, StackInv, [Next]_vars
    PROVE  StackInv'
<1> USE DEF StackInv, Outside, Inside, InsideString, InsideNumber,
            Goto, Consume, Good, Buffers, Session,
            Seen, Text, Behind, InNumber, InArray, InObject, Top
<1>0. /\ Len(stack) \in Nat /\ MaxDepth \in Nat /\ MaxElements \in Nat
      /\ Len(stack) > 0 => Top \in Frames
  BY LenOf, ElementOfSeq, ParserAssumption
<1>1. ASSUME Document PROVE StackInv'
  <2>1. CASE Run  BY <2>1 DEF Run
  <2>2. CASE Refuse  BY <2>2 DEF Refuse, Finish
  <2>3. CASE Parse  BY <2>3 DEF Parse
  <2>4. CASE ParseCanceled  BY <2>4 DEF ParseCanceled, StopAt
  <2>5. CASE ParseText  BY <2>5 DEF ParseText
  <2>6. CASE Begin  BY <2>6, <1>0, FramesMove DEF Begin
  <2>7. CASE RootError  BY <2>7 DEF RootError, StopAt
  <2>8. CASE RootEnd  BY <2>8, <1>0, FramesMove DEF RootEnd
  <2> QED  BY <1>1, <2>1, <2>2, <2>3, <2>4, <2>5, <2>6, <2>7, <2>8 DEF Document
<1>2. ASSUME Containers PROVE StackInv'
  <2>1. CASE First  BY <2>1 DEF First, Closing
  <2>2. CASE FirstError  BY <2>2 DEF FirstError, StopAt
  <2>3. CASE Comma
    <3>1. Len(stack) > 0 /\ Top.index + 1 < MaxElements  BY <1>0, <2>3 DEF Comma
    <3>2. Top.index < MaxElements  BY <1>0, <3>1 DEF Frames
    <3> QED  BY <1>0, <2>3, <3>1, <3>2, FramesMove DEF Comma
  <2>4. CASE NextValue  BY <2>4, <1>0, FramesMove DEF NextValue
  <2>5. CASE Closed  BY <2>5 DEF Closed, Closing
  <2>6. CASE ArrayError  BY <2>6 DEF ArrayError, StopAt
  <2>7. CASE ObjectError  BY <2>7 DEF ObjectError, StopAt
  <2>8. CASE Key  BY <2>8 DEF Key
  <2>9. CASE KeyEnd  BY <2>9 DEF KeyEnd
  <2>10. CASE KeyValue  BY <2>10 DEF KeyValue
  <2>11. CASE MemberError  BY <2>11 DEF MemberError, StopAt
  <2>12. CASE ListError  BY <2>12 DEF ListError
  <2>13. CASE EndValue  BY <2>13, <1>0, FramesMove DEF EndValue
  <2>14. CASE Unwind  BY <2>14, <1>0, FramesMove DEF Unwind
  <2> QED  BY <1>2, <2>1, <2>2, <2>3, <2>4, <2>5, <2>6, <2>7, <2>8, <2>9, <2>10, <2>11, <2>12, <2>13, <2>14 DEF Containers
<1>3. ASSUME Scalars PROVE StackInv'
  <2>1. CASE Literal  BY <2>1 DEF Literal, FailValue
  <2>2. CASE ValueError  BY <2>2 DEF ValueError, StopAt, FailValue
  <2>3. CASE Number  BY <2>3 DEF Number
  <2>4. CASE NumberCharacter  BY <2>4 DEF NumberCharacter, NumberSteps
  <2>5. CASE NumberEnd  BY <2>5 DEF NumberEnd, NumberSteps, GoodNumber
  <2>6. CASE BadNumber  BY <2>6 DEF BadNumber, StopAt, FailValue, GoodNumber
  <2>7. CASE NumberValue  BY <2>7 DEF NumberValue
  <2>8. CASE Overflow  BY <2>8 DEF Overflow, StopAt, Finish
  <2> QED  BY <1>3, <2>1, <2>2, <2>3, <2>4, <2>5, <2>6, <2>7, <2>8 DEF Scalars
<1>4. ASSUME Strings PROVE StackInv'
  <2>1. CASE String  BY <2>1 DEF String
  <2>2. CASE Ascii  BY <2>2 DEF Ascii, Write
  <2>3. CASE Unicode  BY <2>3 DEF Unicode, WriteUnicode, Write
  <2>4. CASE StringError  BY <2>4 DEF StringError, StopAt, FailString
  <2>5. CASE Quote  BY <2>5 DEF Quote
  <2>6. CASE StringValue  BY <2>6 DEF StringValue
  <2>7. CASE Backslash  BY <2>7 DEF Backslash
  <2>8. CASE Escape  BY <2>8 DEF Escape, Write
  <2>9. CASE EscapeUnicode  BY <2>9 DEF EscapeUnicode
  <2>10. CASE Quad  BY <2>10 DEF Quad, WriteUnicode, Write
  <2>11. CASE HighSurrogate  BY <2>11 DEF HighSurrogate
  <2>12. CASE LowQuad  BY <2>12 DEF LowQuad, WriteUnicode, Write
  <2>13. CASE EscapeRejected  BY <2>13 DEF EscapeRejected, FailString
  <2>14. CASE EscapeError  BY <2>14 DEF EscapeError, FailString
  <2> QED  BY <1>4, <2>1, <2>2, <2>3, <2>4, <2>5, <2>6, <2>7, <2>8, <2>9, <2>10, <2>11, <2>12, <2>13, <2>14 DEF Strings
<1>5. ASSUME Loop PROVE StackInv'
  <2>1. CASE Parsed  BY <2>1 DEF Parsed, Finish
  <2>2. CASE LookBehind  BY <2>2 DEF LookBehind
  <2>3. CASE LoopEnd  BY <2>3 DEF LoopEnd, Finish
  <2>4. CASE NextDocument  BY <2>4 DEF NextDocument
  <2>5. CASE ExtraCharacters  BY <2>5 DEF ExtraCharacters, Finish
  <2> QED  BY <1>5, <2>1, <2>2, <2>3, <2>4, <2>5 DEF Loop
<1>6. CASE SkipWhitespace  BY <1>6 DEF SkipWhitespace
<1>7. CASE \E cleared \in BOOLEAN : Again(cleared)
  <2>1. stack' = << >> /\ cur' = "?" /\ pc' = "run"  BY <1>7 DEF Again
  <2>2. stack' \in Seq(Frames) /\ Len(stack') = 0  BY <2>1, EmptySeq
  <2> QED  BY <1>0, <2>1, <2>2
<1>8. CASE Cancel  BY <1>8 DEF Cancel
<1>9. CASE UNCHANGED vars  BY <1>9 DEF vars
<1> QED  BY <1>1, <1>2, <1>3, <1>4, <1>5, <1>6, <1>7, <1>8, <1>9 DEF Next, Step, Clear, Reuse

-----------------------------------------------------------------------------
(* Buffers: there is room before anything is written                       *)

\* storage: after a growth there is room for min units, for any sizes.
LEMMA Growing ==
    ASSUME NEW b \in StringBuffers, NEW min \in Nat, min <= b.cap + 2
    PROVE  LET grown == StorageGrow(b, min)
           IN  /\ grown \in StringBuffers /\ min <= grown.cap
               /\ grown.size = b.size /\ grown.partial = b.partial
<1> DEFINE start == IF b.cap = 0 THEN InitialCapacity ELSE b.cap
           once == Round(start, min)
           twice == Round(once, min)
<1>0. InitialCapacity \in Nat \ {0} /\ MaxSize \in Nat \ {0} /\ MaxGrowSize \in Nat \ {0} /\ b.cap \in Nat
  BY StorageAssumption DEF StringBuffers
<1>1. start \in Nat \ {0} /\ b.cap <= start  BY <1>0
<1> HIDE DEF start
<1>2. once \in Nat \ {0} /\ (min <= once \/ start + 1 <= once)  BY <1>0, <1>1 DEF Round, Lesser
<1> HIDE DEF once
<1>3. twice \in Nat /\ min <= twice  BY <1>0, <1>1, <1>2 DEF Round, Lesser
<1> HIDE DEF twice
<1>4. GrownCapacity(b, min) = Greater(MaxSize, twice)  BY DEF GrownCapacity, twice, once, start
<1>5. GrownCapacity(b, min) \in Nat /\ min <= GrownCapacity(b, min)  BY <1>0, <1>3, <1>4 DEF Greater
<1>6. /\ Greater(b.cap, GrownCapacity(b, min)) \in Nat
      /\ min <= Greater(b.cap, GrownCapacity(b, min))
  BY <1>0, <1>5 DEF Greater
<1> QED  BY <1>6 DEF StorageGrow, StringBuffers

\* string_buffer: room for one or two units, and nothing lost on the way.
LEMMA Extending ==
    ASSUME NEW b, Held(b), NEW units \in {1, 2}
    PROVE  LET e == Extend(b, units)
           IN  /\ e.sent \in Nat /\ e.buffer \in StringBuffers
               /\ e.buffer.size + units <= e.buffer.cap
               /\ e.sent + e.buffer.size = b.size
               /\ e.buffer.partial = b.partial
               /\ ~b.partial => e.sent = 0
<1> DEFINE synced == IF MustSync(b, units) THEN [b EXCEPT !.size = 0] ELSE b
           sent == IF MustSync(b, units) THEN b.size ELSE 0
           grown == IF Avail(synced) < units
                    THEN StorageGrow(synced, synced.size + units) ELSE synced
<1>1. /\ synced \in StringBuffers /\ synced.size <= synced.cap /\ synced.partial = b.partial
      /\ sent \in Nat /\ sent + synced.size = b.size /\ (~b.partial => sent = 0)
  BY DEF Held, StringBuffers, MustSync
<1> HIDE DEF synced, sent
<1>2. synced.size \in Nat /\ synced.cap \in Nat  BY <1>1 DEF StringBuffers
<1>3. /\ grown \in StringBuffers /\ grown.size + units <= grown.cap
      /\ grown.size = synced.size /\ grown.partial = synced.partial
  <2>1. CASE Avail(synced) < units
    <3>1. synced.size + units \in Nat /\ synced.size + units <= synced.cap + 2  BY <1>1, <1>2
    <3> QED  BY <1>1, <2>1, <3>1, Growing
  <2>2. CASE ~(Avail(synced) < units)  BY <1>1, <1>2, <2>2 DEF Avail
  <2> QED  BY <2>1, <2>2
<1> HIDE DEF grown
<1>4. Extend(b, units) = [sent |-> sent, buffer |-> grown]  BY DEF Extend, synced, sent, grown
<1> QED  BY <1>1, <1>3, <1>4

\* Whatever is appended, what was in the buffer is sent or still there.
LEMMA Appending ==
    ASSUME NEW b, Held(b), NEW units \in {1, 2},
           NEW e \in {AppendUnits(b, units), AppendUnicode(b, units)}
    PROVE  /\ e.sent \in Nat /\ Held(e.buffer)
           /\ e.sent + e.buffer.size = b.size + units
           /\ e.buffer.partial = b.partial
           /\ ~b.partial => e.sent = 0
<1>1. PICK room \in {1, 2} : units <= room /\ e = [Extend(b, room) EXCEPT !.buffer.size = @ + units]
  BY DEF AppendUnits, AppendUnicode
<1> DEFINE x == Extend(b, room)
<1>2. /\ x.sent \in Nat /\ x.buffer \in StringBuffers
      /\ x.buffer.size + room <= x.buffer.cap
      /\ x.sent + x.buffer.size = b.size
      /\ x.buffer.partial = b.partial
      /\ ~b.partial => x.sent = 0
  BY Extending
<1>3. x = [sent |-> x.sent, buffer |-> x.buffer]  BY DEF Extend
<1> HIDE DEF x
<1>4. e.sent = x.sent /\ e.buffer = [x.buffer EXCEPT !.size = @ + units]  BY <1>1, <1>3 DEF x
<1> QED  BY <1>1, <1>2, <1>4 DEF Held, StringBuffers

-----------------------------------------------------------------------------
(* Handlers: the markers nest                                              *)

\* Handlers that touch neither the elements nor the markers, and clear.
LEMMA Kept ==
    ASSUME NEW g, Nested(g), NEW code \in Codes, NEW units \in Nat
    PROVE  /\ \A h \in {OnParseBegin(g), OnError(g, code), [g EXCEPT !.canceled = TRUE],
                        [g EXCEPT !.tmp = 0], [g EXCEPT !.tmp = @ + units]} :
                 Nested(h) /\ h.stack = g.stack /\ h.markers = g.markers
           /\ Nested(OnClear(g))
<1> DEFINE shown == IF g.canceled THEN "canceled" ELSE code
<1>1. shown \in Codes /\ "none" \in Codes  BY DEF Codes
<1>2. OnParseBegin(g) \in Generators  BY <1>1 DEF Nested, Generators, OnParseBegin
<1>3. OnError(g, code) = [g EXCEPT !.error = shown]  BY DEF OnError
<1>4. OnError(g, code) \in Generators
  <2> HIDE DEF shown
  <2> QED  BY <1>1, <1>3 DEF Nested, Generators
<1>5. [g EXCEPT !.canceled = TRUE] \in Generators  BY DEF Nested, Generators
<1>6. [g EXCEPT !.tmp = 0] \in Generators /\ [g EXCEPT !.tmp = @ + units] \in Generators
  BY DEF Nested, Generators
<1>7. OnClear(g) \in Generators  BY <1>1, EmptySeq DEF Nested, Generators, OnClear
<1> QED  BY <1>2, <1>4, <1>5, <1>6, <1>7, EmptySeq DEF Nested, Generators, OnParseBegin, OnError, OnClear

\* An element more.
LEMMA Pushing ==
    ASSUME NEW g, Nested(g), NEW item \in Items
    PROVE  Nested(Push(g, item))
<1> DEFINE h == Push(g, item)
<1>1. h.stack \in Seq(Items) /\ Len(h.stack) = Len(g.stack) + 1
  BY AppendProperties DEF Nested, Generators, Push
<1>2. h \in Generators /\ h.markers = g.markers  BY <1>1 DEF Nested, Generators, Push
<1> HIDE DEF h
<1>3. Len(g.stack) \in Nat /\ \A i \in 1..Len(g.markers) : g.markers[i] \in Nat
  BY LenOf, ElementOfSeq DEF Nested, Generators
<1>4. Nested(h)  BY <1>1, <1>2, <1>3 DEF Nested
<1> QED  BY <1>4 DEF h

\* begin_array and begin_object: one marker more, at the top of the stack.
LEMMA Beginning ==
    ASSUME NEW g, Nested(g)
    PROVE  /\ Nested(OnBegin(g))
           /\ Len(OnBegin(g).markers) = Len(g.markers) + 1
           /\ OnBegin(g).markers[Len(g.markers) + 1] = Len(g.stack)
           /\ \A i \in 1..Len(g.markers) : OnBegin(g).markers[i] = g.markers[i]
<1> DEFINE h == OnBegin(g)
<1>1. Len(g.stack) \in Nat /\ Len(g.markers) \in Nat /\ g.markers \in Seq(Nat)
  BY LenOf DEF Nested, Generators
<1>2. h.markers = Append(g.markers, Len(g.stack)) /\ h.stack = g.stack
  BY DEF OnBegin, Nested, Generators
<1>3. /\ h.markers \in Seq(Nat) /\ Len(h.markers) = Len(g.markers) + 1
      /\ h.markers[Len(g.markers) + 1] = Len(g.stack)
      /\ \A i \in 1..Len(g.markers) : h.markers[i] = g.markers[i]
  BY <1>1, <1>2, AppendProperties
<1>4. h \in Generators  BY <1>3 DEF OnBegin, Nested, Generators
<1> HIDE DEF h
<1>5. \A i \in 1..Len(g.markers) : g.markers[i] \in Nat  BY <1>1, ElementOfSeq
<1>6. Nested(h)
  <2>1. ASSUME NEW i \in 1..Len(h.markers)
        PROVE  h.markers[i] <= Len(h.stack)
    <3>1. CASE i = Len(g.markers) + 1  BY <1>1, <1>2, <1>3, <3>1
    <3>2. CASE i \in 1..Len(g.markers)  BY <1>2, <1>3, <3>2 DEF Nested
    <3> QED  BY <1>1, <1>3, <3>1, <3>2
  <2>2. ASSUME NEW i \in 1..Len(h.markers), NEW j \in 1..Len(h.markers), i <= j
        PROVE  h.markers[i] <= h.markers[j]
    <3>1. CASE j = Len(g.markers) + 1
      <4>1. h.markers[j] = Len(h.stack)  BY <1>2, <1>3, <3>1
      <4> QED  BY <2>1, <4>1
    <3>2. CASE j \in 1..Len(g.markers)
      <4>1. i \in 1..Len(g.markers)  BY <1>1, <2>2, <3>2
      <4> QED  BY <1>3, <2>2, <3>2, <4>1 DEF Nested
    <3> QED  BY <1>1, <1>3, <3>1, <3>2
  <2> QED  BY <1>4, <2>1, <2>2 DEF Nested
<1> QED  BY <1>3, <1>6 DEF h

\* end_array and end_object: the elements above the last marker become one.
LEMMA Ending ==
    ASSUME NEW g, Nested(g), Len(g.markers) > 0
    PROVE  /\ Nested(OnEnd(g))
           /\ Len(OnEnd(g).stack) = Marker(g) + 1
           /\ OnEnd(g).stack[Marker(g) + 1] = Value
           /\ Len(OnEnd(g).markers) = Len(g.markers) - 1
           /\ \A i \in 1..(Len(g.markers) - 1) : OnEnd(g).markers[i] = g.markers[i]
           /\ \A i \in 1..Marker(g) : OnEnd(g).stack[i] = g.stack[i]
<1> DEFINE h == OnEnd(g)  m == Marker(g)
<1>1. Len(g.stack) \in Nat /\ Len(g.markers) \in Nat /\ g.markers \in Seq(Nat) /\ g.stack \in Seq(Items)
  BY LenOf DEF Nested, Generators
<1>2. m \in 0..Len(g.stack)  BY <1>1, ElementOfSeq DEF Marker, Nested
<1>3. h.stack = Append(SubSeq(g.stack, 1, m), Value) /\ h.markers = SubSeq(g.markers, 1, Len(g.markers) - 1)
  BY DEF OnEnd, Nested, Generators
<1>4. /\ SubSeq(g.stack, 1, m) \in Seq(Items) /\ Len(SubSeq(g.stack, 1, m)) = m
      /\ \A i \in 1..m : SubSeq(g.stack, 1, m)[i] = g.stack[i]
  BY <1>1, <1>2, Prefix
<1>5. /\ h.stack \in Seq(Items) /\ Len(h.stack) = m + 1 /\ h.stack[m + 1] = Value
      /\ \A i \in 1..m : h.stack[i] = g.stack[i]
  <2> DEFINE t == SubSeq(g.stack, 1, m)
  <2>1. t \in Seq(Items) /\ Len(t) = m /\ Value \in Items  BY <1>4 DEF Items
  <2>2. h.stack = Append(t, Value)  BY <1>3
  <2> HIDE DEF t, h, m
  <2>3. /\ Append(t, Value) \in Seq(Items) /\ Len(Append(t, Value)) = m + 1
        /\ Append(t, Value)[m + 1] = Value
        /\ \A i \in 1..m : Append(t, Value)[i] = t[i]
    BY <2>1, AppendProperties
  <2> QED  BY <1>4, <2>2, <2>3 DEF t
<1>6. Len(g.markers) - 1 \in 0..Len(g.markers)  BY <1>1
<1>7. /\ h.markers \in Seq(Nat) /\ Len(h.markers) = Len(g.markers) - 1
      /\ \A i \in 1..(Len(g.markers) - 1) : h.markers[i] = g.markers[i]
  <2> DEFINE t == SubSeq(g.markers, 1, Len(g.markers) - 1)
  <2>1. /\ t \in Seq(Nat) /\ Len(t) = Len(g.markers) - 1
        /\ \A i \in 1..(Len(g.markers) - 1) : t[i] = g.markers[i]
    BY <1>1, <1>6, Prefix
  <2> QED  BY <1>3, <2>1
<1>8. h \in Generators  BY <1>5, <1>7 DEF OnEnd, Nested, Generators
<1>9. \A i \in 1..(Len(g.markers) - 1) : g.markers[i] \in Nat /\ g.markers[i] <= m
  BY <1>1, ElementOfSeq DEF Nested, Marker
<1> HIDE DEF h, m
<1>10. ASSUME NEW i \in 1..(Len(g.markers) - 1), NEW j \in 1..(Len(g.markers) - 1), i <= j
       PROVE  g.markers[i] <= g.markers[j]
  <2>1. i \in 1..Len(g.markers) /\ j \in 1..Len(g.markers)  BY <1>1, <1>10
  <2> QED  BY <1>10, <2>1 DEF Nested
<1>11. Nested(h)
  <2>1. ASSUME NEW i \in 1..Len(h.markers)
        PROVE  h.markers[i] <= Len(h.stack)
    <3>1. i \in 1..(Len(g.markers) - 1)  BY <1>7, <2>1
    <3>2. h.markers[i] \in Nat /\ h.markers[i] <= m  BY <1>7, <1>9, <3>1
    <3> QED  BY <1>1, <1>2, <1>5, <3>2
  <2>2. ASSUME NEW i \in 1..Len(h.markers), NEW j \in 1..Len(h.markers), i <= j
        PROVE  h.markers[i] <= h.markers[j]
    <3>1. i \in 1..(Len(g.markers) - 1) /\ j \in 1..(Len(g.markers) - 1)  BY <1>7, <2>2
    <3> QED  BY <1>7, <1>10, <2>2, <3>1
  <2> QED  BY <1>8, <2>1, <2>2 DEF Nested
<1> QED  BY <1>5, <1>7, <1>11 DEF h, m

\* value_string and value_number leave the markers alone.
LEMMA Receiving ==
    ASSUME NEW g, Nested(g), NEW units \in Nat, NEW hasMore \in BOOLEAN, NEW flag \in BOOLEAN
    PROVE  /\ Nested(OnValueString(g, units, hasMore, flag).actions)
           /\ OnValueString(g, units, hasMore, flag).actions.markers = g.markers
           /\ Nested(OnValueNumber(g, units, flag).actions)
           /\ OnValueNumber(g, units, flag).actions.markers = g.markers
<1>1. /\ Nested([g EXCEPT !.tmp = 0]) /\ Nested([g EXCEPT !.tmp = @ + units])
      /\ [g EXCEPT !.tmp = 0].markers = g.markers /\ [g EXCEPT !.tmp = @ + units].markers = g.markers
  <2>1. "none" \in Codes  BY DEF Codes
  <2> QED  BY <2>1, Kept
<1>2. ASSUME NEW h, Nested(h), h.markers = g.markers
      PROVE  Nested(Push(h, Value)) /\ Push(h, Value).markers = g.markers
  BY <1>2, Pushing DEF Items, Push, Nested, Generators
<1> QED  BY <1>1, <1>2 DEF OnValueString, OnValueNumber, Pushed

\* parse_end takes the one element as the result.
LEMMA Completing ==
    ASSUME NEW g, Nested(g), Complete(g), g.stack[1] = Value
    PROVE  /\ Nested(OnParseEnd(g)) /\ OnParseEnd(g).markers = << >>
           /\ OnParseEnd(g).stack = << >> /\ OnParseEnd(g).result = Value
<1>1. OnParseEnd(g).stack = << >> /\ OnParseEnd(g).markers = << >> /\ OnParseEnd(g).result = Value
  BY DEF Complete, OnParseEnd, Nested, Generators
<1>2. OnParseEnd(g) \in Generators  BY EmptySeq DEF OnParseEnd, Nested, Generators
<1> QED  BY <1>1, <1>2, EmptySeq DEF Nested

LEMMA LengthMoves ==
    ASSUME stack \in Seq(Frames)
    PROVE  /\ \A kind : Enter(kind) => Len(stack') = Len(stack) + 1
           /\ Len(stack) > 0 /\ Leave => Len(stack') = Len(stack) - 1
           /\ NextElement => Len(stack') = Len(stack)
<1>1. ASSUME NEW kind, Enter(kind)  PROVE Len(stack') = Len(stack) + 1
  BY <1>1 DEF Enter
<1>2. ASSUME Len(stack) > 0, Leave  PROVE Len(stack') = Len(stack) - 1
  <2>1. Len(stack) - 1 \in 0..Len(stack)  BY <1>2, LenOf
  <2> QED  BY <1>2, <2>1, Prefix DEF Leave
<1>3. ASSUME NextElement  PROVE Len(stack') = Len(stack)
  BY <1>3 DEF NextElement
<1> QED  BY <1>1, <1>2, <1>3

\* error changes the error and nothing else.
LEMMA Reporting ==
    ASSUME Nested(sa), NEW code \in Codes, Report(code)
    PROVE  /\ Nested(sa') /\ sa'.stack = sa.stack /\ sa'.markers = sa.markers
           /\ sa'.result = sa.result /\ sa'.tmp = sa.tmp /\ sa'.canceled = sa.canceled
           /\ sa'.error = (IF sa.canceled THEN "canceled" ELSE code)
           /\ told' = TRUE
<1>1. Nested(sa')  BY Kept DEF Report
<1>2. sa' = [sa EXCEPT !.error = IF sa.canceled THEN "canceled" ELSE code] /\ told' = TRUE
  BY DEF Report, OnError
<1>3. sa \in Generators  BY DEF Nested
<1> QED  BY <1>1, <1>2, <1>3 DEF Generators

\* A step that appends units to the buffer and sends some to the actions.
Written(sent, units) ==
    /\ Nested(sa') /\ sa'.stack = sa.stack /\ sa'.markers = sa.markers
    /\ sa'.result = sa.result /\ sa'.error = sa.error /\ sa'.canceled = sa.canceled
    /\ sa'.tmp = sa.tmp + sent
    /\ Held(buf') /\ sent + buf'.size = buf.size + units /\ want' = want + units
    /\ buf'.partial = buf.partial /\ (~buf.partial => sent = 0)
    /\ UNCHANGED <<stack, num, err, told>>

\* Of what Write does, what the proofs below need.
LEMMA Writing ==
    ASSUME Nested(sa), NEW e, NEW units, Write(e, units),
           e.sent \in Nat, Held(e.buffer), e.sent + e.buffer.size = buf.size + units,
           e.buffer.partial = buf.partial, ~buf.partial => e.sent = 0
    PROVE  Written(e.sent, units)
<1>0. sa \in Generators /\ "none" \in Codes  BY DEF Nested, Codes
<1>1. sa' = IF e.sent > 0 THEN [sa EXCEPT !.tmp = @ + e.sent] ELSE sa
  BY DEF Write, OnValueString
<1>2. Nested(sa')  BY <1>0, <1>1, Kept
<1>3. /\ sa'.stack = sa.stack /\ sa'.markers = sa.markers
      /\ sa'.result = sa.result /\ sa'.error = sa.error /\ sa'.canceled = sa.canceled
      /\ sa'.tmp = sa.tmp + e.sent
  BY <1>0, <1>1 DEF Generators
<1> QED  BY <1>2, <1>3 DEF Write, Written, Good

\* Every step inside a string appends at most two units.
LEMMA StringGrows ==
    ASSUME Held(buf), want \in Int, Nested(sa), Ascii \/ Unicode \/ Escape \/ Quad \/ LowQuad
    PROVE  \E sent \in Nat, units \in 0..2 : Written(sent, units)
<1>0. buf \in StringBuffers /\ sa \in Generators  BY DEF Held, Nested
<1>1. ASSUME NEW units \in {1, 2}, NEW e \in {AppendUnits(buf, units), AppendUnicode(buf, units)}, Write(e, units)
      PROVE  \E sent \in Nat : Written(sent, units)
  BY <1>1, Appending, Writing
<1>2. ASSUME NEW c, NEW units \in {1, 2}, WriteUnicode(c, units)
      PROVE  \E sent \in Nat, n \in 0..2 : Written(sent, n)
  <2>1. CASE Write(AppendUnicode(buf, units), units)  BY <1>1, <2>1
  <2>2. CASE Write(AppendUnicode(buf, 1), 1)  BY <1>1, <2>2
  <2>3. CASE Good /\ Buffers /\ UNCHANGED <<stack, sa>>
    <3>1. Written(0, 0)  BY <1>0, <2>3 DEF Written, Good, Buffers, StringBuffers, Generators
    <3> QED  BY <3>1
  <2> QED  BY <1>2, <2>1, <2>2, <2>3 DEF WriteUnicode
<1>3. CASE Escape
  <2> DEFINE first == AppendUnits(buf, 1)
             second == AppendUnits(first.buffer, 1)
             both == [second EXCEPT !.sent = @ + first.sent]
  <2>1. /\ first.sent \in Nat /\ Held(first.buffer)
        /\ first.sent + first.buffer.size = buf.size + 1
        /\ first.buffer.partial = buf.partial
        /\ ~buf.partial => first.sent = 0
    BY Appending
  <2>2. /\ second.sent \in Nat /\ Held(second.buffer)
        /\ second.sent + second.buffer.size = first.buffer.size + 1
        /\ second.buffer.partial = first.buffer.partial
        /\ ~first.buffer.partial => second.sent = 0
    BY <2>1, Appending
  <2>3. second = [sent |-> second.sent, buffer |-> second.buffer]
    <3> DEFINE x == Extend(first.buffer, 1)
    <3>1. x = [sent |-> x.sent, buffer |-> x.buffer]  BY DEF Extend
    <3>2. second = [x EXCEPT !.buffer.size = @ + 1]  BY DEF AppendUnits
    <3> HIDE DEF x, second
    <3> QED  BY <3>1, <3>2
  <2>4. Write(first, 1) \/ Write(both, 2)  BY <1>3 DEF Escape
  <2> HIDE DEF first, second
  <2>5. both.sent = second.sent + first.sent /\ both.buffer = second.buffer  BY <2>3
  <2> HIDE DEF both
  <2>6. /\ both.sent \in Nat /\ Held(both.buffer)
        /\ both.sent + both.buffer.size = buf.size + 2
        /\ both.buffer.partial = buf.partial
        /\ ~buf.partial => both.sent = 0
    BY <1>0, <2>1, <2>2, <2>5 DEF Held, StringBuffers
  <2>7. CASE Write(first, 1)
    <3>1. Written(first.sent, 1)  BY <2>1, <2>7, Writing
    <3> QED  BY <2>1, <3>1
  <2>8. CASE Write(both, 2)
    <3>1. Written(both.sent, 2)  BY <2>6, <2>8, Writing
    <3> QED  BY <2>6, <3>1
  <2> QED  BY <2>4, <2>7, <2>8
<1>4. CASE Ascii  BY <1>1, <1>4 DEF Ascii
<1>5. CASE Unicode  BY <1>2, <1>5 DEF Unicode
<1>6. CASE Quad  BY <1>2, <1>6 DEF Quad
<1>7. CASE LowQuad  BY <1>2, <1>7 DEF LowQuad
<1> QED  BY <1>3, <1>4, <1>5, <1>6, <1>7

\* The end of the root, when parse_end accepts it.
LEMMA EndComplete ==
    ASSUME NEW g, Nested(g), Len(g.markers) > 0, Complete(OnEnd(g))
    PROVE  LET h == OnParseEnd(OnEnd(g))
           IN  Nested(h) /\ h.markers = << >> /\ h.stack = << >> /\ h.result = Value
<1>1. Nested(OnEnd(g)) /\ Len(OnEnd(g).stack) = Marker(g) + 1 /\ OnEnd(g).stack[Marker(g) + 1] = Value
  BY Ending
<1>2. Marker(g) \in Nat  BY LenOf, ElementOfSeq DEF Marker, Nested, Generators
<1>3. Marker(g) = 0  BY <1>1, <1>2 DEF Complete
<1> QED  BY <1>1, <1>3, Completing

LEMMA MarkersStep ==
    ASSUME TypeInv, StackInv, MarkersInv, [Next]_vars
    PROVE  MarkersInv'
<1> USE DEF MarkersInv, Good, Buffers, Session
<1>0. /\ Len(stack) \in Nat /\ Len(sa.markers) \in Nat /\ Len(stack) <= Len(sa.markers)
      /\ stack \in Seq(Frames)
  BY LenOf DEF Nested, Generators, StackInv
<1>a. Nested(OnParseBegin(sa)) /\ OnParseBegin(sa).markers = sa.markers
  <2>1. "none" \in Codes  BY DEF Codes
  <2> QED  BY <2>1, Kept
<1>b. Nested(OnBegin(sa)) /\ Len(OnBegin(sa).markers) = Len(sa.markers) + 1
  BY Beginning
<1>c. Len(stack) > 0 => Nested(OnEnd(sa)) /\ Len(OnEnd(sa).markers) = Len(sa.markers) - 1
  BY <1>0, Ending
<1>d. Len(stack) > 0 =>
          \A code \in Codes :
              Nested(OnError(OnEnd(sa), code)) /\ OnError(OnEnd(sa), code).markers = OnEnd(sa).markers
  BY <1>c, Kept
<1>e. \A item \in Items : Nested(Push(sa, item)) /\ Push(sa, item).markers = sa.markers
  BY Pushing DEF Push, Nested, Generators
<1>f. opt.cached \in BOOLEAN /\ opt.strings \in BOOLEAN /\ num \in Nat /\ buf.size \in Nat
  BY ParserAssumption DEF TypeInv, OptionRecords, Held, StringBuffers
<1>g. Ascii \/ Unicode \/ Escape \/ Quad \/ LowQuad => \E sent, units : Written(sent, units)
  BY StringGrows DEF TypeInv
<1>1. ASSUME Document PROVE MarkersInv'
  <2>1. CASE Run  BY <2>1 DEF Run
  <2>2. CASE Refuse  BY <2>2, <1>0, Reporting DEF Refuse, Finish, Codes
  <2>3. CASE Parse  BY <2>3, <1>a DEF Parse
  <2>4. CASE ParseCanceled  BY <2>4, <1>0, Reporting DEF ParseCanceled, Raise, Code, Codes
  <2>5. CASE ParseText  BY <2>5 DEF ParseText
  <2>6. CASE Begin  BY <2>6, <1>0, <1>b, LengthMoves DEF Begin
  <2>7. CASE RootError  BY <2>7, <1>0, Reporting DEF RootError, Raise, Code, Codes
  <2>8. CASE RootEnd
    <3>1. Len(stack) = 1 /\ Leave  BY <2>8 DEF RootEnd
    <3>2. Len(stack') = 0  BY <1>0, <3>1, LengthMoves
    <3>3. \/ sa' = OnError(OnEnd(sa), "keyExists")
          \/ sa' = OnError(OnEnd(sa), "unexpected")
          \/ Complete(OnEnd(sa)) /\ sa' = OnParseEnd(OnEnd(sa))
      <4> DEFINE duplicate == InObject /\ opt.duplicates /\ HasDuplicates(sa)
      <4>1. \/ duplicate /\ sa' = OnError(OnEnd(sa), "keyExists")
            \/ ~duplicate /\ Complete(OnEnd(sa)) /\ sa' = OnParseEnd(OnEnd(sa))
            \/ ~duplicate /\ ~Complete(OnEnd(sa)) /\ sa' = OnError(OnEnd(sa), "unexpected")
        BY <2>8, Zenon DEF RootEnd
      <4> QED  BY <4>1
    <3>4. Complete(OnEnd(sa)) => Nested(OnParseEnd(OnEnd(sa)))
      BY <1>0, <3>1, EndComplete
    <3>5. Nested(sa')  BY <1>0, <1>d, <3>1, <3>3, <3>4 DEF Codes
    <3> QED  BY <3>2, <3>5, LenOf DEF Nested, Generators
  <2> QED  BY <1>1, <2>1, <2>2, <2>3, <2>4, <2>5, <2>6, <2>7, <2>8 DEF Document
<1>2. ASSUME Containers PROVE MarkersInv'
  <2>1. CASE First  BY <2>1 DEF First
  <2>2. CASE FirstError  BY <2>2, <1>0, Reporting DEF FirstError, Raise, Code, Codes
  <2>3. CASE Comma  BY <2>3, <1>0, LengthMoves DEF Comma
  <2>4. CASE NextValue  BY <2>4, <1>0, LengthMoves DEF NextValue
  <2>5. CASE Closed  BY <2>5 DEF Closed
  <2>6. CASE ArrayError  BY <2>6, <1>0, Reporting DEF ArrayError, Raise, Code, Codes
  <2>7. CASE ObjectError  BY <2>7, <1>0, Reporting DEF ObjectError, Raise, Code, Codes
  <2>8. CASE Key  BY <2>8 DEF Key
  <2>9. CASE KeyEnd  BY <2>9 DEF KeyEnd
  <2>10. CASE KeyValue  BY <2>10, <1>0, <1>e DEF KeyValue, OnKey, Items
  <2>11. CASE MemberError  BY <2>11 DEF MemberError, Fail
  <2>12. CASE ListError  BY <2>12, <1>0, Reporting DEF ListError, TypeInv, Raise, Codes
  <2>13. CASE EndValue
    <3>1. Len(stack) > 1 /\ Leave  BY <2>13 DEF EndValue
    <3>2. Len(stack') = Len(stack) - 1  BY <1>0, <3>1, LengthMoves
    <3>3. sa' = OnEnd(sa) \/ sa' = OnError(OnEnd(sa), "keyExists")  BY <2>13 DEF EndValue
    <3>4. Nested(sa') /\ Len(sa'.markers) = Len(sa.markers) - 1
      BY <1>0, <1>c, <1>d, <3>1, <3>3 DEF Codes
    <3> QED  BY <1>0, <3>2, <3>4
  <2>14. CASE Unwind
    <3>1. Len(stack) > 0  BY <2>14 DEF Unwind, StackInv, Inside
    <3> QED  BY <1>0, <2>14, <3>1, LengthMoves DEF Unwind
  <2> QED  BY <1>2, <2>1, <2>2, <2>3, <2>4, <2>5, <2>6, <2>7, <2>8, <2>9, <2>10, <2>11, <2>12, <2>13, <2>14 DEF Containers
<1>3. ASSUME Scalars PROVE MarkersInv'
  <2>1. CASE Literal  BY <2>1, <1>0, <1>e, Reporting DEF Literal, Raise, Code, Codes, OnLiteral, Items
  <2>2. CASE ValueError  BY <2>2, <1>0, Reporting DEF ValueError, Raise, Code, Codes
  <2>3. CASE Number  BY <2>3 DEF Number
  <2>4. CASE NumberCharacter  BY <2>4 DEF NumberCharacter
  <2>5. CASE NumberEnd  BY <2>5 DEF NumberEnd
  <2>6. CASE BadNumber  BY <2>6, <1>0, Reporting DEF BadNumber, Raise, Code, Codes
  <2>7. CASE NumberValue  BY <2>7, <1>0, <1>f, Receiving DEF NumberValue
  <2>8. CASE Overflow  BY <2>8, <1>0, Reporting DEF Overflow, Finish, Codes
  <2> QED  BY <1>3, <2>1, <2>2, <2>3, <2>4, <2>5, <2>6, <2>7, <2>8 DEF Scalars
<1>4. ASSUME Strings PROVE MarkersInv'
  <2>1. CASE String  BY <2>1 DEF String
  <2>2. CASE Ascii  BY <2>2, <1>0, <1>g DEF Ascii, Written
  <2>3. CASE Unicode  BY <2>3, <1>0, <1>g DEF Unicode, Written
  <2>4. CASE StringError  BY <2>4, <1>0, Reporting DEF StringError, Raise, Code, Codes
  <2>5. CASE Quote  BY <2>5 DEF Quote
  <2>6. CASE StringValue
    <3>1. sa' = OnValueString(sa, buf.size, FALSE, opt.cached).actions /\ stack' = stack
      BY <2>6 DEF StringValue
    <3> QED  BY <1>0, <1>f, <3>1, Receiving
  <2>7. CASE Backslash  BY <2>7 DEF Backslash
  <2>8. CASE Escape  BY <2>8, <1>0, <1>g DEF Escape, Written
  <2>9. CASE EscapeUnicode  BY <2>9 DEF EscapeUnicode
  <2>10. CASE Quad  BY <2>10, <1>0, <1>g DEF Quad, Written
  <2>11. CASE HighSurrogate  BY <2>11 DEF HighSurrogate
  <2>12. CASE LowQuad  BY <2>12, <1>0, <1>g DEF LowQuad, Written
  <2>13. CASE EscapeRejected  BY <2>13 DEF EscapeRejected, Fail
  <2>14. CASE EscapeError  BY <2>14, <1>0, Reporting DEF EscapeError, Raise, Code, Codes
  <2> QED  BY <1>4, <2>1, <2>2, <2>3, <2>4, <2>5, <2>6, <2>7, <2>8, <2>9, <2>10, <2>11, <2>12, <2>13, <2>14 DEF Strings
<1>5. ASSUME Loop PROVE MarkersInv'
  <2>1. CASE Parsed  BY <2>1 DEF Parsed, Finish
  <2>2. CASE LookBehind  BY <2>2 DEF LookBehind
  <2>3. CASE LoopEnd  BY <2>3 DEF LoopEnd, Finish
  <2>4. CASE NextDocument  BY <2>4 DEF NextDocument
  <2>5. CASE ExtraCharacters  BY <2>5, <1>0, Reporting DEF ExtraCharacters, Finish, Codes
  <2> QED  BY <1>5, <2>1, <2>2, <2>3, <2>4, <2>5 DEF Loop
<1>7. CASE SkipWhitespace  BY <1>7 DEF SkipWhitespace
<1>8. CASE \E cleared \in BOOLEAN : Again(cleared)
  <2>1. stack' = << >> /\ sa' \in {sa, OnClear(sa)}  BY <1>8 DEF Again
  <2>2. Nested(OnClear(sa)) /\ "none" \in Codes  BY Kept DEF Codes
  <2>3. Nested(sa')  BY <2>1, <2>2
  <2> QED  BY <2>1, <2>3, LenOf, EmptySeq DEF Nested, Generators
<1>9. CASE Cancel
  <2>1. "none" \in Codes  BY DEF Codes
  <2> QED  BY <1>0, <1>9, <2>1, Kept DEF Cancel
<1>10. CASE UNCHANGED vars  BY <1>10 DEF vars
<1> QED  BY <1>1, <1>2, <1>3, <1>4, <1>5, <1>7, <1>8, <1>9, <1>10 DEF Next, Step, Clear, Reuse

-----------------------------------------------------------------------------
(* Types and phases                                                        *)

\* Before a string, and behind one, the buffer is empty.
LEMMA Clearing ==
    ASSUME Held(buf)
    PROVE  /\ Drop => Held(buf') /\ buf'.size = 0 /\ ~buf'.partial /\ num' = 0 /\ want' = 0
           /\ Key => Held(buf') /\ buf'.size = 0 /\ ~buf'.partial /\ want' = 0
           /\ String => Held(buf') /\ buf'.size = 0 /\ buf'.partial /\ want' = 0
           /\ StringValue => Held(buf') /\ buf'.size = 0 /\ ~buf'.partial
<1>1. ASSUME NEW p \in BOOLEAN, buf' = Prepare(buf, p)
      PROVE  Held(buf') /\ buf'.size = 0 /\ buf'.partial = p
  <2>1. buf' \in StringBuffers  BY <1>1 DEF Held, Prepare, StringBuffers
  <2>2. buf'.size = 0  BY <1>1 DEF Held, Prepare, StringBuffers
  <2>3. buf'.partial = p  BY <1>1 DEF Held, Prepare, StringBuffers
  <2>4. buf'.cap \in Nat  BY <2>1 DEF StringBuffers
  <2> QED  BY <2>1, <2>2, <2>3, <2>4 DEF Held
<1> QED  BY <1>1, Zenon DEF Drop, Key, String, StringValue

LEMMA TypeStep ==
    ASSUME TypeInv, MarkersInv, [Next]_vars
    PROVE  TypeInv'
<1> USE DEF TypeInv, Codes, Outside, Inside, InsideString, InsideNumber,
            Goto, Good, Buffers, Session
<1>0. 0 \in 0..NumberSize /\ NumberSize \in Nat /\ Held(EmptyStringBuffer)
  BY StorageAssumption DEF Held, StringBuffers, EmptyStringBuffer
<1>a. sa.tmp \in Nat /\ buf.size \in Nat
  BY DEF MarkersInv, Nested, Generators, Held, StringBuffers
<1>b. StringValue => \E units \in Nat : want' = want - units
  BY <1>a DEF StringValue, OnValueString, Pushed
<1>c. NumberValue => \E units \in Nat : want' = want - units
  BY <1>a DEF NumberValue, OnValueNumber, OnValueString, Pushed
<1>d. Ascii \/ Unicode \/ Escape \/ Quad \/ LowQuad =>
          \E sent \in Nat, units \in 0..2 : Written(sent, units)
  BY StringGrows DEF MarkersInv
<1>1. ASSUME Document PROVE TypeInv'
  <2>1. CASE Run  BY <2>1 DEF Run
  <2>2. CASE Refuse  BY <2>2, <1>0, Clearing DEF Refuse, Finish
  <2>3. CASE Parse  BY <2>3 DEF Parse
  <2>4. CASE ParseCanceled  BY <2>4 DEF ParseCanceled, Raise, Report, Code
  <2>5. CASE ParseText  BY <2>5 DEF ParseText
  <2>6. CASE Begin  BY <2>6 DEF Begin
  <2>7. CASE RootError  BY <2>7 DEF RootError, Raise, Report, Code
  <2>8. CASE RootEnd  BY <2>8 DEF RootEnd
  <2> QED  BY <1>1, <2>1, <2>2, <2>3, <2>4, <2>5, <2>6, <2>7, <2>8 DEF Document
<1>2. ASSUME Containers PROVE TypeInv'
  <2>1. CASE First  BY <2>1 DEF First
  <2>2. CASE FirstError  BY <2>2 DEF FirstError, Raise, Report, Code
  <2>3. CASE Comma  BY <2>3 DEF Comma
  <2>4. CASE NextValue  BY <2>4 DEF NextValue
  <2>5. CASE Closed  BY <2>5 DEF Closed
  <2>6. CASE ArrayError  BY <2>6 DEF ArrayError, Raise, Report, Code
  <2>7. CASE ObjectError  BY <2>7 DEF ObjectError, Raise, Report, Code
  <2>8. CASE Key  BY <2>8, <1>0, Clearing DEF Key, Prepare
  <2>9. CASE KeyEnd  BY <2>9 DEF KeyEnd
  <2>10. CASE KeyValue  BY <2>10, <1>0, Clearing DEF KeyValue
  <2>11. CASE MemberError  BY <2>11, <1>0, Clearing DEF MemberError, Fail, Code
  <2>12. CASE ListError  BY <2>12 DEF ListError, Raise, Report, Code
  <2>13. CASE EndValue  BY <2>13 DEF EndValue
  <2>14. CASE Unwind  BY <2>14 DEF Unwind
  <2> QED  BY <1>2, <2>1, <2>2, <2>3, <2>4, <2>5, <2>6, <2>7, <2>8, <2>9, <2>10, <2>11, <2>12, <2>13, <2>14 DEF Containers
<1>3. ASSUME Scalars PROVE TypeInv'
  <2>1. CASE Literal  BY <2>1 DEF Literal, Raise, Report, Code, FailValue
  <2>2. CASE ValueError  BY <2>2 DEF ValueError, Raise, Report, Code, FailValue
  <2>3. CASE Number  BY <2>3, <1>0 DEF Number
  <2>4. CASE NumberCharacter  BY <2>4, <1>0 DEF NumberCharacter, NumberSteps, NumberFits
  <2>5. CASE NumberEnd  BY <2>5 DEF NumberEnd, GoodNumber
  <2>6. CASE BadNumber  BY <2>6, <1>0, Clearing DEF BadNumber, Raise, Code, FailValue
  <2>7. CASE NumberValue  BY <2>7, <1>0, <1>c DEF NumberValue
  <2>8. CASE Overflow  BY <2>8, <1>0, Clearing DEF Overflow, Finish
  <2> QED  BY <1>3, <2>1, <2>2, <2>3, <2>4, <2>5, <2>6, <2>7, <2>8 DEF Scalars
<1>4. ASSUME Strings PROVE TypeInv'
  <2>1. CASE String  BY <2>1, <1>0, Clearing DEF String, Prepare
  <2>2. CASE Ascii  BY <2>2, <1>0, <1>d DEF Ascii, Written
  <2>3. CASE Unicode  BY <2>3, <1>0, <1>d DEF Unicode, Written
  <2>4. CASE StringError  BY <2>4, <1>0, Clearing DEF StringError, Raise, Code, FailString
  <2>5. CASE Quote  BY <2>5 DEF Quote
  <2>6. CASE StringValue
    <3>1. Held(buf') /\ want' \in Int  BY <2>6, <1>b, Clearing
    <3>2. pc' = "after" /\ UNCHANGED <<num, err, told, opt>>  BY <2>6, Zenon DEF StringValue
    <3> QED  BY <3>1, <3>2
  <2>7. CASE Backslash  BY <2>7 DEF Backslash
  <2>8. CASE Escape  BY <2>8, <1>0, <1>d DEF Escape, Written
  <2>9. CASE EscapeUnicode  BY <2>9 DEF EscapeUnicode
  <2>10. CASE Quad  BY <2>10, <1>0, <1>d DEF Quad, Written
  <2>11. CASE HighSurrogate  BY <2>11 DEF HighSurrogate
  <2>12. CASE LowQuad  BY <2>12, <1>0, <1>d DEF LowQuad, Written
  <2>13. CASE EscapeRejected  BY <2>13, <1>0, Clearing DEF EscapeRejected, Fail, Code, FailString
  <2>14. CASE EscapeError  BY <2>14, <1>0, Clearing DEF EscapeError, Raise, Code, FailString
  <2> QED  BY <1>4, <2>1, <2>2, <2>3, <2>4, <2>5, <2>6, <2>7, <2>8, <2>9, <2>10, <2>11, <2>12, <2>13, <2>14 DEF Strings
<1>5. ASSUME Loop PROVE TypeInv'
  <2>1. CASE Parsed  BY <2>1, <1>0, Clearing DEF Parsed, Finish
  <2>2. CASE LookBehind  BY <2>2 DEF LookBehind
  <2>3. CASE LoopEnd  BY <2>3, <1>0, Clearing DEF LoopEnd, Finish
  <2>4. CASE NextDocument  BY <2>4 DEF NextDocument
  <2>5. CASE ExtraCharacters  BY <2>5, <1>0, Clearing DEF ExtraCharacters, Finish
  <2> QED  BY <1>5, <2>1, <2>2, <2>3, <2>4, <2>5 DEF Loop
<1>6. CASE SkipWhitespace  BY <1>6 DEF SkipWhitespace
<1>7. CASE \E cleared \in BOOLEAN : Again(cleared)
  <2>1. /\ pc' = "run" /\ buf' = EmptyStringBuffer /\ num' = 0 /\ want' = 0
        /\ err' = "none" /\ opt' = opt
    BY <1>7, Zenon DEF Again
  <2> QED  BY <1>0, <2>1
<1>8. CASE Cancel  BY <1>8 DEF Cancel
<1>9. CASE UNCHANGED vars  BY <1>9 DEF vars
<1> QED  BY <1>1, <1>2, <1>3, <1>4, <1>5, <1>6, <1>7, <1>8, <1>9 DEF Next, Step, Clear, Reuse

LEMMA FlagsStep ==
    ASSUME FlagsInv, [Next]_vars
    PROVE  FlagsInv'
<1> USE DEF FlagsInv, Good, Session, Fail, Raise, Report, Finish
<1>1. CASE Document
  BY <1>1, Zenon DEF Document, Run, Refuse, Parse, ParseCanceled, ParseText, Begin, RootError, RootEnd
<1>2. CASE Containers
  BY <1>2, Zenon
     DEF Containers, First, FirstError, Comma, NextValue, Closed, ArrayError, ObjectError,
         Key, KeyEnd, KeyValue, MemberError, ListError, EndValue, Unwind
<1>3. CASE Scalars
  BY <1>3, Zenon
     DEF Scalars, Literal, ValueError, Number, NumberCharacter, NumberEnd, BadNumber, NumberValue, Overflow
<1>4. CASE Strings
  BY <1>4, Zenon
     DEF Strings, String, Ascii, Unicode, StringError, Quote, StringValue, Backslash, Escape,
         EscapeUnicode, Quad, HighSurrogate, LowQuad, EscapeRejected, EscapeError, Write, WriteUnicode
<1>5. CASE Loop  BY <1>5, Zenon DEF Loop, Parsed, LookBehind, LoopEnd, NextDocument, ExtraCharacters
<1>6. CASE SkipWhitespace \/ Cancel  BY <1>6, Zenon DEF SkipWhitespace, Cancel
<1>7. CASE \E cleared \in BOOLEAN : Again(cleared)  BY <1>7, Zenon DEF Again
<1>8. CASE UNCHANGED vars  BY <1>8 DEF vars
<1> QED  BY <1>1, <1>2, <1>3, <1>4, <1>5, <1>6, <1>7, <1>8 DEF Next, Step, Clear, Reuse

\* Where an error may be and is pending.
PhaseInv ==
    /\ err # "none" => pc \in {"failed", "list", "parsed", "ended"}
    /\ pc \in {"failed", "list"} => err # "none"

\* What holds as long as nothing went wrong.
GoodInv ==
    err = "none" =>
        /\ pc # "ended" => ~told
        /\ pc \notin {"run", "start", "ended"} => sa.error = "none"
        /\ pc \in {"parsed", "trailing"} => sa.result = Value

LEMMA PhaseStep ==
    ASSUME PhaseInv, [Next]_vars
    PROVE  PhaseInv'
<1> USE DEF PhaseInv, Goto, Good
<1>1. ASSUME Document PROVE PhaseInv'
  <2>1. CASE Run  BY <2>1 DEF Run
  <2>2. CASE Refuse  BY <2>2 DEF Refuse, Finish
  <2>3. CASE Parse  BY <2>3 DEF Parse
  <2>4. CASE ParseCanceled  BY <2>4 DEF ParseCanceled, Raise, Code
  <2>5. CASE ParseText  BY <2>5 DEF ParseText
  <2>6. CASE Begin  BY <2>6 DEF Begin
  <2>7. CASE RootError  BY <2>7 DEF RootError, Raise, Code
  <2>8. CASE RootEnd  BY <2>8 DEF RootEnd
  <2> QED  BY <1>1, <2>1, <2>2, <2>3, <2>4, <2>5, <2>6, <2>7, <2>8 DEF Document
<1>2. ASSUME Containers PROVE PhaseInv'
  <2>1. CASE First  BY <2>1 DEF First
  <2>2. CASE FirstError  BY <2>2 DEF FirstError, Raise, Code
  <2>3. CASE Comma  BY <2>3 DEF Comma
  <2>4. CASE NextValue  BY <2>4 DEF NextValue
  <2>5. CASE Closed  BY <2>5 DEF Closed
  <2>6. CASE ArrayError  BY <2>6 DEF ArrayError, Raise, Code
  <2>7. CASE ObjectError  BY <2>7 DEF ObjectError, Raise, Code
  <2>8. CASE Key  BY <2>8 DEF Key
  <2>9. CASE KeyEnd  BY <2>9 DEF KeyEnd
  <2>10. CASE KeyValue  BY <2>10 DEF KeyValue
  <2>11. CASE MemberError  BY <2>11 DEF MemberError, Fail, Code
  <2>12. CASE ListError  BY <2>12 DEF ListError, Raise, Code
  <2>13. CASE EndValue  BY <2>13 DEF EndValue
  <2>14. CASE Unwind  BY <2>14 DEF Unwind
  <2> QED  BY <1>2, <2>1, <2>2, <2>3, <2>4, <2>5, <2>6, <2>7, <2>8, <2>9, <2>10, <2>11, <2>12, <2>13, <2>14 DEF Containers
<1>3. ASSUME Scalars PROVE PhaseInv'
  <2>1. CASE Literal  BY <2>1 DEF Literal, Raise, Code, FailValue
  <2>2. CASE ValueError  BY <2>2 DEF ValueError, Raise, Code, FailValue
  <2>3. CASE Number  BY <2>3 DEF Number
  <2>4. CASE NumberCharacter  BY <2>4 DEF NumberCharacter, NumberSteps
  <2>5. CASE NumberEnd  BY <2>5 DEF NumberEnd, GoodNumber
  <2>6. CASE BadNumber  BY <2>6 DEF BadNumber, Raise, Code, FailValue, InsideNumber
  <2>7. CASE NumberValue  BY <2>7 DEF NumberValue
  <2>8. CASE Overflow  BY <2>8 DEF Overflow, Finish, InsideNumber
  <2> QED  BY <1>3, <2>1, <2>2, <2>3, <2>4, <2>5, <2>6, <2>7, <2>8 DEF Scalars
<1>4. ASSUME Strings PROVE PhaseInv'
  <2>1. CASE String  BY <2>1 DEF String
  <2>2. CASE Ascii  BY <2>2 DEF Ascii, Write
  <2>3. CASE Unicode  BY <2>3 DEF Unicode, WriteUnicode, Write
  <2>4. CASE StringError  BY <2>4 DEF StringError, Raise, Code, FailString
  <2>5. CASE Quote  BY <2>5 DEF Quote
  <2>6. CASE StringValue  BY <2>6 DEF StringValue
  <2>7. CASE Backslash  BY <2>7 DEF Backslash
  <2>8. CASE Escape  BY <2>8 DEF Escape, Write
  <2>9. CASE EscapeUnicode  BY <2>9 DEF EscapeUnicode
  <2>10. CASE Quad  BY <2>10 DEF Quad, WriteUnicode, Write
  <2>11. CASE HighSurrogate  BY <2>11 DEF HighSurrogate
  <2>12. CASE LowQuad  BY <2>12 DEF LowQuad, WriteUnicode, Write
  <2>13. CASE EscapeRejected  BY <2>13 DEF EscapeRejected, Fail, Code, FailString
  <2>14. CASE EscapeError  BY <2>14 DEF EscapeError, Raise, Code, FailString
  <2> QED  BY <1>4, <2>1, <2>2, <2>3, <2>4, <2>5, <2>6, <2>7, <2>8, <2>9, <2>10, <2>11, <2>12, <2>13, <2>14 DEF Strings
<1>5. ASSUME Loop PROVE PhaseInv'
  <2>1. CASE Parsed  BY <2>1 DEF Parsed, Finish
  <2>2. CASE LookBehind  BY <2>2 DEF LookBehind
  <2>3. CASE LoopEnd  BY <2>3 DEF LoopEnd, Finish
  <2>4. CASE NextDocument  BY <2>4 DEF NextDocument
  <2>5. CASE ExtraCharacters  BY <2>5 DEF ExtraCharacters, Finish
  <2> QED  BY <1>5, <2>1, <2>2, <2>3, <2>4, <2>5 DEF Loop
<1>6. CASE SkipWhitespace  BY <1>6 DEF SkipWhitespace
<1>7. CASE \E cleared \in BOOLEAN : Again(cleared)
  <2>1. pc' = "run" /\ err' = "none"  BY <1>7, Zenon DEF Again
  <2> QED  BY <2>1
<1>8. CASE Cancel  BY <1>8 DEF Cancel
<1>9. CASE UNCHANGED vars  BY <1>9 DEF vars
<1> QED  BY <1>1, <1>2, <1>3, <1>4, <1>5, <1>6, <1>7, <1>8, <1>9 DEF Next, Step, Clear, Reuse

\* Two states of a generator that differ in what is being built only.
Alike(h, g) == h.error = g.error /\ h.result = g.result /\ h.canceled = g.canceled

LEMMA HandlersAlike ==
    ASSUME NEW g \in Generators, NEW item, NEW units, NEW hasMore, NEW flag
    PROVE  /\ Alike(OnBegin(g), g) /\ Alike(OnEnd(g), g) /\ Alike(Push(g, item), g)
           /\ Alike(OnValueString(g, units, hasMore, flag).actions, g)
           /\ Alike(OnValueNumber(g, units, flag).actions, g)
           /\ OnParseBegin(g).error = "none" /\ OnParseBegin(g).result = g.result
           /\ OnParseBegin(g).canceled = g.canceled
<1> USE DEF Alike, Generators
<1>1. /\ Alike(OnBegin(g), g) /\ Alike(OnEnd(g), g) /\ Alike(Push(g, item), g)
      /\ OnParseBegin(g).error = "none" /\ OnParseBegin(g).result = g.result
      /\ OnParseBegin(g).canceled = g.canceled
  BY DEF OnBegin, OnEnd, Push, OnParseBegin
<1>2. \A n : Alike(OnValueString(g, units, hasMore, n).actions, g)
  BY DEF OnValueString, Pushed, Push
<1>3. OnValueNumber(g, units, flag).actions
         \in {OnValueString(g, units, FALSE, FALSE).actions, Push(g, Value)}
  BY DEF OnValueNumber, Pushed
<1>4. Alike(OnValueString(g, units, FALSE, FALSE).actions, g)
  BY DEF OnValueString, Pushed, Push
<1>5. Alike(Push(g, Value), g)  BY DEF Push
<1>6. Alike(OnValueNumber(g, units, flag).actions, g)  BY <1>3, <1>4, <1>5
<1> QED  BY <1>1, <1>2, <1>6

\* Steps at which nothing is reported and no document ends.
Building ==
    \/ Run \/ ParseText \/ Begin
    \/ First \/ Comma \/ NextValue \/ Closed \/ Key \/ KeyEnd \/ KeyValue \/ Unwind
    \/ Number \/ NumberCharacter \/ NumberEnd \/ NumberValue
    \/ String \/ Ascii \/ Unicode \/ Quote \/ StringValue
    \/ Backslash \/ Escape \/ EscapeUnicode \/ Quad \/ HighSurrogate \/ LowQuad
    \/ LookBehind \/ NextDocument \/ SkipWhitespace

LEMMA BuildingIsQuiet ==
    ASSUME TypeInv, MarkersInv, Building
    PROVE  Alike(sa', sa) /\ UNCHANGED <<err, told>>
<1> USE DEF Good, Alike
<1>1. sa \in Generators  BY DEF MarkersInv, Nested
<1>2. CASE Begin  BY <1>1, <1>2, HandlersAlike DEF Begin
<1>3. CASE KeyValue  BY <1>1, <1>3, HandlersAlike DEF KeyValue, OnKey
<1>4. CASE NumberValue  BY <1>1, <1>4, HandlersAlike DEF NumberValue
<1>5. CASE StringValue
  <2>1. sa' = OnValueString(sa, buf.size, FALSE, opt.cached).actions /\ UNCHANGED <<err, told>>
    BY <1>5, Zenon DEF StringValue
  <2> HIDE DEF Alike
  <2>2. Alike(sa', sa)  BY <1>1, <2>1, HandlersAlike, Zenon
  <2> QED  BY <2>1, <2>2
<1>6. CASE Ascii \/ Unicode \/ Escape \/ Quad \/ LowQuad
  BY <1>6, StringGrows DEF Written, TypeInv, MarkersInv
<1>7. CASE Run \/ ParseText  BY <1>7 DEF Run, ParseText
<1>8. CASE First \/ Comma \/ NextValue \/ Closed \/ Key \/ KeyEnd \/ Unwind
  BY <1>8 DEF First, Comma, NextValue, Closed, Key, KeyEnd, Unwind
<1>9. CASE Number \/ NumberCharacter \/ NumberEnd  BY <1>9 DEF Number, NumberCharacter, NumberEnd
<1>10. CASE String \/ Quote \/ Backslash \/ EscapeUnicode \/ HighSurrogate
  BY <1>10 DEF String, Quote, Backslash, EscapeUnicode, HighSurrogate
<1>11. CASE LookBehind \/ NextDocument \/ SkipWhitespace
  BY <1>11 DEF LookBehind, NextDocument, SkipWhitespace
<1> QED  BY <1>2, <1>3, <1>4, <1>5, <1>6, <1>7, <1>8, <1>9, <1>10, <1>11 DEF Building

LEMMA BuildingStays ==
    ASSUME Building
    PROVE  /\ pc # "ended" /\ pc' # "ended"
           /\ pc \in {"run", "start"} => pc' = "start"
           /\ pc' = "parsed" => pc = "failed"
           /\ pc' = "trailing" => pc \in {"parsed", "trailing"}
           /\ pc \in {"failed", "list", "parsed"} => Unwind \/ err = "none"
<1> USE DEF Goto
<1>1. CASE Run \/ ParseText \/ Begin  BY <1>1 DEF Run, ParseText, Begin
<1>2. CASE First \/ Comma \/ NextValue \/ Closed  BY <1>2 DEF First, Comma, NextValue, Closed
<1>3. CASE Key \/ KeyEnd \/ KeyValue \/ Unwind  BY <1>3 DEF Key, KeyEnd, KeyValue, Unwind
<1>4. CASE Number \/ NumberCharacter \/ NumberEnd \/ NumberValue
  BY <1>4 DEF Number, NumberCharacter, NumberEnd, NumberValue, NumberSteps, GoodNumber
<1>5. CASE String \/ Ascii \/ Unicode \/ Quote  BY <1>5 DEF String, Ascii, Unicode, Quote
<1>6. CASE StringValue  BY <1>6, Zenon DEF StringValue
<1>7. CASE Backslash \/ Escape \/ EscapeUnicode \/ Quad \/ HighSurrogate \/ LowQuad
  BY <1>7 DEF Backslash, Escape, EscapeUnicode, Quad, HighSurrogate, LowQuad
<1>8. CASE LookBehind \/ NextDocument \/ SkipWhitespace
  BY <1>8 DEF LookBehind, NextDocument, SkipWhitespace
<1> QED  BY <1>1, <1>2, <1>3, <1>4, <1>5, <1>6, <1>7, <1>8 DEF Building

LEMMA GoodStep ==
    ASSUME TypeInv, MarkersInv, StackInv, PhaseInv, GoodInv, [Next]_vars
    PROVE  GoodInv'
<1> USE DEF GoodInv, Goto, Good
<1>0. sa \in Generators  BY DEF MarkersInv, Nested
<1>1. CASE Building  BY <1>1, BuildingIsQuiet, BuildingStays DEF Alike, PhaseInv
<1>2. CASE Refuse \/ LoopEnd \/ ExtraCharacters \/ Overflow \/ Parsed
  BY <1>2 DEF Refuse, LoopEnd, ExtraCharacters, Overflow, Parsed, Finish
<1>3. CASE Parse  BY <1>0, <1>3, HandlersAlike DEF Parse
<1>4. CASE ParseCanceled \/ RootError \/ FirstError \/ ArrayError \/ ObjectError
  BY <1>4 DEF ParseCanceled, RootError, FirstError, ArrayError, ObjectError, Raise, Code
<1>5. CASE MemberError \/ EscapeRejected  BY <1>5 DEF MemberError, EscapeRejected, Fail, Code
<1>6. CASE ListError  BY <1>6 DEF ListError, PhaseInv, Raise
<1>7. CASE ValueError \/ BadNumber \/ StringError \/ EscapeError
  BY <1>7 DEF ValueError, BadNumber, StringError, EscapeError, Raise, Code
<1>8. CASE Literal
  <2>1. CASE Good /\ pc = "value" /\ pc' = "after" /\ sa' = OnLiteral(sa)
    BY <1>0, <2>1, HandlersAlike DEF OnLiteral, Alike
  <2>2. CASE err' \in {"unexpectedEnd", "syntax"}  BY <2>2
  <2> QED  BY <1>8, <2>1, <2>2 DEF Literal, Raise, Code
<1>9. CASE EndValue
  <2>1. CASE err' = "keyExists"  BY <2>1
  <2>2. CASE Good /\ pc = "done" /\ pc' = "after" /\ sa' = OnEnd(sa)
    BY <1>0, <2>2, HandlersAlike DEF Alike
  <2> QED  BY <1>9, <2>1, <2>2, Zenon DEF EndValue
<1>10. CASE RootEnd
  <2>0. pc = "done" /\ Len(sa.markers) > 0  BY <1>10, LenOf DEF RootEnd, MarkersInv, Nested, Generators
  <2>1. CASE err' = "keyExists"  BY <2>1
  <2>2. CASE Complete(OnEnd(sa)) /\ sa' = OnParseEnd(OnEnd(sa)) /\ Good
    <3>1. sa'.result = Value  BY <2>0, <2>2, EndComplete DEF MarkersInv
    <3>2. Alike(OnEnd(sa), sa) /\ OnEnd(sa) \in Generators
      BY <1>0, <2>0, HandlersAlike, Ending DEF MarkersInv, Nested
    <3>3. sa'.error = sa.error  BY <2>2, <3>2 DEF OnParseEnd, Alike, Generators
    <3> QED  BY <2>0, <2>2, <3>1, <3>3
  <2>3. CASE pc' = "ended"  BY <2>3
  <2> QED  BY <1>10, <2>1, <2>2, <2>3, Zenon DEF RootEnd
<1>11. CASE \E cleared \in BOOLEAN : Again(cleared)
  <2>1. pc' = "run" /\ ~told'  BY <1>11, Zenon DEF Again
  <2> QED  BY <2>1
<1>12. CASE Cancel  BY <1>0, <1>12 DEF Cancel, Generators
<1>13. CASE UNCHANGED vars  BY <1>13 DEF vars
<1> QED
  BY <1>1, <1>2, <1>3, <1>4, <1>5, <1>6, <1>7, <1>8, <1>9, <1>10, <1>11, <1>12, <1>13, Zenon
     DEF Next, Step, Clear, Reuse, Building, Document, Containers, Scalars, Strings, Loop

\* The error the actions hold is the parser's.
HeldError == told /\ err # "none" => sa.error = err \/ sa.canceled

\* An error that is raised is the one the actions hold.
LEMMA Raising ==
    ASSUME Nested(sa), NEW code \in Codes, Raise(code)
    PROVE  HeldError' /\ told'
BY Reporting DEF Raise, HeldError

\* Steps that raise an error.
Raises ==
    \/ ParseCanceled \/ RootError \/ FirstError \/ ArrayError \/ ObjectError \/ ListError
    \/ ValueError \/ BadNumber \/ StringError \/ EscapeError

LEMMA RaisesOne ==
    ASSUME TypeInv, Raises
    PROVE  pc # "ended" /\ pc' # "ended" /\ \E code \in Codes : Raise(code)
<1> USE DEF Code, Codes, Goto
<1>1. CASE ParseCanceled \/ RootError \/ FirstError
  BY <1>1 DEF ParseCanceled, RootError, FirstError
<1>2. CASE ArrayError \/ ObjectError  BY <1>2 DEF ArrayError, ObjectError
<1>3. CASE ListError  BY <1>3 DEF ListError, TypeInv
<1>4. CASE ValueError \/ BadNumber  BY <1>4 DEF ValueError, BadNumber, FailValue, InsideNumber
<1>5. CASE StringError \/ EscapeError  BY <1>5 DEF StringError, EscapeError, FailString
<1> QED  BY <1>1, <1>2, <1>3, <1>4, <1>5 DEF Raises

LEMMA RaisesError ==
    ASSUME PhaseInv, Raises \/ MemberError \/ EscapeRejected
    PROVE  err' # "none"
<1>1. CASE Raises
  <2>1. CASE ListError  BY <2>1 DEF ListError, PhaseInv, Raise
  <2>2. CASE ParseCanceled \/ RootError \/ FirstError \/ ArrayError \/ ObjectError
    BY <2>2 DEF ParseCanceled, RootError, FirstError, ArrayError, ObjectError, Raise, Code
  <2>3. CASE ValueError \/ BadNumber \/ StringError \/ EscapeError
    BY <2>3 DEF ValueError, BadNumber, StringError, EscapeError, Raise, Code
  <2> QED  BY <1>1, <2>1, <2>2, <2>3 DEF Raises
<1>2. CASE MemberError \/ EscapeRejected
  BY <1>2 DEF MemberError, EscapeRejected, Fail, Code
<1> QED  BY <1>1, <1>2

LEMMA HeldErrorStep ==
    ASSUME TypeInv, MarkersInv, StackInv, PhaseInv, GoodInv, HeldError, [Next]_vars
    PROVE  HeldError'
<1>0. sa \in Generators /\ Nested(sa)  BY DEF MarkersInv, Nested
<1>1. CASE Building  BY <1>1, BuildingIsQuiet DEF Alike, HeldError
<1>2. CASE Raises  BY <1>0, <1>2, RaisesOne, Raising
<1>3. CASE Refuse \/ LoopEnd \/ ExtraCharacters \/ Overflow
  <2>1. err = "none"  BY <1>3 DEF PhaseInv, Refuse, LoopEnd, ExtraCharacters, Overflow, InsideNumber
  <2>2. err' = err  BY <1>3 DEF Refuse, LoopEnd, ExtraCharacters, Overflow, Finish
  <2> QED  BY <2>1, <2>2 DEF HeldError
<1>4. CASE Parsed  BY <1>4 DEF Parsed, Finish, HeldError
<1>5. CASE Parse  BY <1>5 DEF Parse, PhaseInv, HeldError, Good
<1>6. CASE MemberError \/ EscapeRejected
  <2>1. ~told  BY <1>6 DEF PhaseInv, GoodInv, MemberError, EscapeRejected
  <2>2. told' = told  BY <1>6 DEF MemberError, EscapeRejected, Fail
  <2> QED  BY <2>1, <2>2 DEF HeldError
<1>7. CASE Literal
  <2>1. CASE Good /\ pc = "value"  BY <2>1 DEF Good, PhaseInv, HeldError
  <2>2. CASE \E code \in Codes : Raise(code)  BY <1>0, <2>2, Raising
  <2> QED  BY <1>7, <2>1, <2>2 DEF Literal, Code, Codes
<1>8. CASE EndValue \/ RootEnd
  <2>1. CASE err' = "keyExists" /\ sa' = OnError(OnEnd(sa), "keyExists")
    <3>1. Len(stack) > 0
      <4>1. pc = "done"  BY <1>8 DEF EndValue, RootEnd
      <4> QED  BY <4>1 DEF StackInv, Inside
    <3>2. Len(sa.markers) \in Nat /\ Len(stack) \in Nat
      BY <1>0, LenOf DEF Generators, StackInv
    <3>3. Len(sa.markers) > 0  BY <3>1, <3>2 DEF MarkersInv
    <3>4. OnEnd(sa) \in Generators  BY <1>0, <3>3, Ending DEF Nested
    <3> QED  BY <2>1, <3>4 DEF OnError, Generators, HeldError
  <2>2. CASE err' = err /\ pc = "done"  BY <2>2 DEF PhaseInv, HeldError
  <2> QED  BY <1>8, <2>1, <2>2, Zenon DEF EndValue, RootEnd, Good
<1>9. CASE \E cleared \in BOOLEAN : Again(cleared)
  <2>1. err' = "none"  BY <1>9, Zenon DEF Again
  <2> QED  BY <2>1 DEF HeldError
<1>10. CASE Cancel  BY <1>0, <1>10 DEF Cancel, Good, Generators, HeldError
<1>11. CASE UNCHANGED vars  BY <1>11 DEF vars, HeldError
<1> QED
  BY <1>1, <1>2, <1>3, <1>4, <1>5, <1>6, <1>7, <1>8, <1>9, <1>10, <1>11, Zenon
     DEF Next, Step, Clear, Reuse, Building, Raises, Document, Containers, Scalars, Strings, Loop

LEMMA SilentStep ==
    ASSUME TypeInv, MarkersInv, StackInv, PhaseInv, SilentOnlyRejected, [Next]_vars
    PROVE  SilentOnlyRejected'
<1> USE DEF SilentOnlyRejected
<1>0. sa \in Generators /\ Nested(sa)  BY DEF MarkersInv, Nested
<1>1. CASE Unwind
  <2>1. Len(stack) > 0 /\ stack \in Seq(Frames)  BY <1>1 DEF Unwind, StackInv, Inside
  <2>2. pc' = "failed" => Len(stack) # 1 /\ stack[Len(stack) - 1].kind = "array"
    BY <1>1 DEF Unwind, Goto
  <2>3. pc' = "failed" => InArray'
    <3> SUFFICES ASSUME pc' = "failed" PROVE InArray'
      OBVIOUS
    <3>a. Len(stack) \in Nat /\ Len(stack) > 0 /\ Len(stack) # 1  BY <2>1, <2>2, LenOf
    <3>b. \A n \in Nat : n > 0 /\ n # 1 => n - 1 \in 1..n  OBVIOUS
    <3>1. Len(stack) - 1 \in 1..Len(stack)  BY <3>a, <3>b
    <3>2. stack' = SubSeq(stack, 1, Len(stack) - 1)  BY <1>1 DEF Unwind, Leave
    <3>3. Len(stack') = Len(stack) - 1 /\ stack'[Len(stack) - 1] = stack[Len(stack) - 1]
      BY <2>1, <3>1, <3>2, Prefix
    <3>4. stack' # << >>  BY <3>1, <3>3, EmptySeq
    <3> QED  BY <2>2, <3>3, <3>4 DEF InArray, Top
  <2> QED  BY <1>1, <2>3 DEF Unwind, Goto, Good
<1>2. CASE Building /\ ~Unwind
  <2>1. err = "none"  BY <1>2, BuildingStays DEF PhaseInv
  <2> QED  BY <1>2, <2>1, BuildingIsQuiet
<1>3. CASE Raises  BY <1>0, <1>3, RaisesOne, Raising
<1>4. CASE Refuse \/ ExtraCharacters \/ Overflow
  BY <1>4, Zenon DEF Refuse, ExtraCharacters, Overflow, Report
<1>5. CASE LoopEnd  BY <1>5 DEF LoopEnd, Finish, PhaseInv
<1>6. CASE Parsed  BY <1>6 DEF Parsed, Finish, Goto
<1>7. CASE Parse  BY <1>7 DEF Parse, Goto
<1>8. CASE MemberError  BY <1>8 DEF MemberError, Goto
<1>9. CASE EscapeRejected
  BY <1>9 DEF EscapeRejected, FailString, Fail, Goto, InArray, Top
<1>10. CASE Literal
  <2>1. CASE Good /\ pc = "value"  BY <2>1 DEF Good, PhaseInv
  <2>2. CASE \E code \in Codes : Raise(code)  BY <1>0, <2>2, Raising
  <2> QED  BY <1>10, <2>1, <2>2 DEF Literal, Code, Codes
<1>11. CASE EndValue \/ RootEnd
  <2>1. CASE told'  BY <2>1
  <2>2. CASE Good /\ pc = "done"  BY <2>2 DEF Good, PhaseInv
  <2> QED  BY <1>11, <2>1, <2>2, Zenon DEF EndValue, RootEnd
<1>12. CASE \E cleared \in BOOLEAN : Again(cleared)
  <2>1. err' = "none"  BY <1>12, Zenon DEF Again
  <2> QED  BY <2>1
<1>13. CASE Cancel  BY <1>13 DEF Cancel, Good, InArray, Top
<1>14. CASE UNCHANGED vars  BY <1>14 DEF vars, InArray, Top
<1> QED
  BY <1>1, <1>2, <1>3, <1>4, <1>5, <1>6, <1>7, <1>8, <1>9, <1>10, <1>11, <1>12, <1>13, <1>14, Zenon
     DEF Next, Step, Clear, Reuse, Building, Raises, Document, Containers, Scalars, Strings, Loop

\* What runWithBytes answers, as far as it depends on the run that ended.
AnswerInv ==
    pc = "ended" =>
        /\ success => err = "none" /\ ~told /\ sa.error = "none" /\ sa.result = Value
        /\ ~success => err # "none" \/ told

LEMMA AnswerStep ==
    ASSUME TypeInv, MarkersInv, PhaseInv, GoodInv, AnswerInv, [Next]_vars
    PROVE  AnswerInv'
<1> USE DEF AnswerInv, Goto
<1>0. sa \in Generators  BY DEF MarkersInv, Nested
<1>1. CASE Building  BY <1>1, BuildingStays
<1>2. CASE Raises  BY <1>2, RaisesOne
<1>3. CASE Refuse \/ ExtraCharacters \/ Overflow
  <2>1. told' /\ ~success'  BY <1>3, Zenon DEF Refuse, ExtraCharacters, Overflow, Report, Finish
  <2> QED  BY <2>1
<1>4. CASE LoopEnd
  <2>1. pc = "trailing" /\ UNCHANGED <<err, sa, told>> /\ success'
    BY <1>4, Zenon DEF LoopEnd, Finish
  <2>2. err = "none"  BY <2>1 DEF PhaseInv
  <2> QED  BY <2>1, <2>2 DEF GoodInv
<1>5. CASE Parsed
  <2>1. pc = "parsed" /\ UNCHANGED <<err, sa, told>> /\ success' = (err = "none")
    BY <1>5, Zenon DEF Parsed, Finish
  <2> QED  BY <2>1 DEF GoodInv
<1>6. CASE Parse \/ MemberError \/ EscapeRejected
  <2>1. pc' # "ended"
    BY <1>6 DEF Parse, MemberError, EscapeRejected, FailString
  <2> QED  BY <2>1
<1>7. CASE Literal \/ EndValue
  <2>1. pc' # "ended"
    BY <1>7 DEF Literal, FailValue, EndValue
  <2> QED  BY <2>1
<1>8. CASE RootEnd
  <2> HIDE DEF Goto, AnswerInv
  <2>1. Goto("parsed") \/ (told' /\ ~success')  BY <1>8, Zenon DEF RootEnd
  <2> USE DEF Goto, AnswerInv
  <2> QED  BY <2>1
<1>9. CASE \E cleared \in BOOLEAN : Again(cleared)
  <2>1. pc' = "run"  BY <1>9, Zenon DEF Again
  <2> QED  BY <2>1
<1>10. CASE Cancel
  BY <1>0, <1>10 DEF Cancel, Good, Session, Generators
<1>11. CASE UNCHANGED vars  BY <1>11 DEF vars
<1> QED
  BY <1>1, <1>2, <1>3, <1>4, <1>5, <1>6, <1>7, <1>8, <1>9, <1>10, <1>11, Zenon
     DEF Next, Step, Clear, Reuse, Building, Raises, Document, Containers, Scalars, Strings, Loop

\* What is left to do after an error builds nothing.
LEMMA ErrorStep ==
    ASSUME TypeInv, MarkersInv, PhaseInv, [Next]_vars, err # "none", pc # "ended"
    PROVE  sa'.stack = sa.stack /\ sa'.result = sa.result
<1>0. sa \in Generators /\ Nested(sa)  BY DEF MarkersInv, Nested
<1>1. pc \in {"failed", "list", "parsed"}  BY DEF PhaseInv
<1>2. CASE Building
  <2>1. Unwind  BY <1>1, <1>2, BuildingStays
  <2> QED  BY <2>1 DEF Unwind
<1>3. CASE Raises
  <2>1. \E code \in Codes : Raise(code)  BY <1>3, RaisesOne
  <2> QED  BY <1>0, <2>1, Reporting DEF Raise
<1>4. CASE Refuse \/ ExtraCharacters \/ Overflow \/ LoopEnd
  BY <1>1, <1>4 DEF Refuse, ExtraCharacters, Overflow, LoopEnd, InsideNumber
<1>5. CASE Parsed  BY <1>5 DEF Parsed
<1>6. CASE Parse \/ MemberError \/ EscapeRejected
  BY <1>1, <1>6 DEF Parse, MemberError, EscapeRejected
<1>7. CASE Literal \/ EndValue \/ RootEnd
  BY <1>1, <1>7 DEF Literal, EndValue, RootEnd
<1>8. CASE \E cleared \in BOOLEAN : Again(cleared)
  BY <1>8, Zenon DEF Again
<1>9. CASE Cancel  BY <1>0, <1>9 DEF Cancel, Generators
<1>10. CASE UNCHANGED vars  BY <1>10 DEF vars
<1> QED
  BY <1>2, <1>3, <1>4, <1>5, <1>6, <1>7, <1>8, <1>9, <1>10, Zenon
     DEF Next, Step, Clear, Reuse, Building, Raises, Document, Containers, Scalars, Strings, Loop

-----------------------------------------------------------------------------
(* Markers and recursion, buffers and values                               *)

\* The markers and the open containers agree, unless a run began with remains.
NestInv ==
    err = "none" /\ pc # "ended" /\ ~stale =>
        /\ Len(sa.markers) = Len(stack)
        /\ Len(stack) = 0 => Len(sa.stack) = 0
        /\ Len(stack) > 0 => sa.markers[1] = 0

LEMMA BuildingNests ==
    ASSUME TypeInv, StackInv, MarkersInv, Building, ~Begin, ~Unwind
    PROVE  /\ sa'.markers = sa.markers /\ Len(stack') = Len(stack) /\ stale' = stale
           /\ Len(stack) = 0 => sa'.stack = sa.stack
<1> USE DEF Session
<1>0. /\ sa \in Generators /\ Nested(sa) /\ stack \in Seq(Frames)
      /\ opt.cached \in BOOLEAN /\ opt.strings \in BOOLEAN /\ num \in Nat /\ buf.size \in Nat
  BY ParserAssumption DEF MarkersInv, Nested, StackInv, TypeInv, OptionRecords, Held, StringBuffers
<1>1. CASE Ascii \/ Unicode \/ Escape \/ Quad \/ LowQuad
  <2>1. PICK sent \in Nat, units \in 0..2 : Written(sent, units)
    BY <1>0, <1>1, StringGrows DEF TypeInv
  <2>2. stale' = stale  BY <1>1 DEF Ascii, Unicode, Escape, Quad, LowQuad
  <2> QED  BY <2>1, <2>2 DEF Written
<1>2. CASE KeyValue
  <2>1. Len(stack) > 0  BY <1>2 DEF KeyValue, StackInv, Inside
  <2> QED  BY <1>0, <1>2, <2>1 DEF KeyValue, OnKey, Push, Generators
<1>3. CASE NumberValue
  <2>1. Len(stack) > 0  BY <1>3 DEF NumberValue, StackInv, Inside
  <2>2. sa' = OnValueNumber(sa, num, opt.strings).actions /\ UNCHANGED <<stack, stale>>
    BY <1>3 DEF NumberValue
  <2>3. sa'.markers = sa.markers  BY <1>0, <2>2, Receiving
  <2> QED  BY <2>1, <2>2, <2>3
<1>4. CASE StringValue
  <2>1. sa' = OnValueString(sa, buf.size, FALSE, opt.cached).actions
    BY <1>4, Zenon DEF StringValue
  <2>2. pc = "closed" /\ UNCHANGED <<stack, stale>>  BY <1>4, Zenon DEF StringValue
  <2>3. Len(stack) > 0  BY <2>2 DEF StackInv, Inside, InsideString
  <2>4. sa'.markers = sa.markers  BY <1>0, <2>1, Receiving
  <2> QED  BY <2>2, <2>3, <2>4
<1>5. CASE Comma \/ NextValue
  <2>1. sa' = sa /\ stale' = stale /\ (stack' = stack \/ NextElement)
    BY <1>5 DEF Comma, NextValue
  <2> QED  BY <1>0, <2>1, LengthMoves
<1>6. CASE Run \/ ParseText \/ SkipWhitespace \/ LookBehind \/ NextDocument
  BY <1>6 DEF Run, ParseText, SkipWhitespace, LookBehind, NextDocument
<1>7. CASE First \/ Closed \/ Key \/ KeyEnd  BY <1>7 DEF First, Closed, Key, KeyEnd
<1>8. CASE Number \/ NumberCharacter \/ NumberEnd  BY <1>8 DEF Number, NumberCharacter, NumberEnd
<1>9. CASE String \/ Quote \/ Backslash \/ EscapeUnicode \/ HighSurrogate
  BY <1>9 DEF String, Quote, Backslash, EscapeUnicode, HighSurrogate
<1> QED  BY <1>1, <1>2, <1>3, <1>4, <1>5, <1>6, <1>7, <1>8, <1>9 DEF Building

LEMMA NestStep ==
    ASSUME TypeInv, StackInv, MarkersInv, PhaseInv, NestInv, [Next]_vars
    PROVE  NestInv'
<1> USE DEF Goto
<1>0. /\ sa \in Generators /\ Nested(sa) /\ stack \in Seq(Frames)
      /\ Len(stack) \in Nat /\ Len(sa.markers) \in Nat /\ Len(sa.stack) \in Nat
      /\ Len(stack) <= Len(sa.markers)
  BY LenOf DEF MarkersInv, Nested, Generators, StackInv
<1>1. CASE Building /\ ~Begin /\ ~Unwind
  <2>1. pc # "ended" /\ err' = err  BY <1>1, BuildingStays, BuildingIsQuiet
  <2>2. /\ sa'.markers = sa.markers /\ Len(stack') = Len(stack) /\ stale' = stale
        /\ Len(stack) = 0 => sa'.stack = sa.stack
    BY <1>1, BuildingNests
  <2> QED  BY <2>1, <2>2 DEF NestInv
<1>2. CASE Unwind  BY <1>2 DEF Unwind, PhaseInv, Good, NestInv
<1>3. CASE Begin
  <2>1. /\ sa' = OnBegin(sa) /\ err' = err /\ stale' = stale /\ pc # "ended"
        /\ Enter("array") \/ Enter("object")
    BY <1>3 DEF Begin, Good, Session
  <2>2. Len(stack') = Len(stack) + 1  BY <1>0, <2>1, LengthMoves
  <2>3. /\ Len(sa'.markers) = Len(sa.markers) + 1
        /\ sa'.markers[Len(sa.markers) + 1] = Len(sa.stack)
        /\ \A i \in 1..Len(sa.markers) : sa'.markers[i] = sa.markers[i]
    BY <1>0, <2>1, Beginning
  <2>4. CASE Len(stack) = 0  BY <1>0, <2>1, <2>2, <2>3, <2>4 DEF NestInv
  <2>5. CASE Len(stack) > 0
    <3>1. 1 \in 1..Len(sa.markers)  BY <1>0, <2>5
    <3> QED  BY <1>0, <2>1, <2>2, <2>3, <2>5, <3>1 DEF NestInv
  <2> QED  BY <1>0, <2>4, <2>5
<1>4. CASE Raises \/ MemberError \/ EscapeRejected
  BY <1>4, RaisesError DEF NestInv
<1>5. CASE Refuse \/ LoopEnd \/ ExtraCharacters \/ Overflow \/ Parsed
  <2>1. pc' = "ended"  BY <1>5 DEF Refuse, LoopEnd, ExtraCharacters, Overflow, Parsed, Finish
  <2> QED  BY <2>1 DEF NestInv
<1>6. CASE Parse
  <2>1. sa'.markers = sa.markers /\ sa'.stack = sa.stack
    BY <1>0, <1>6 DEF Parse, OnParseBegin, Generators
  <2>2. pc # "ended" /\ UNCHANGED <<stack, err, stale>>  BY <1>6 DEF Parse, Good, Session
  <2> QED  BY <2>1, <2>2 DEF NestInv
<1>7. CASE Literal
  <2>1. CASE pc = "value" /\ sa' = OnLiteral(sa) /\ UNCHANGED <<stack, err, stale>>
    <3>1. Len(stack) > 0  BY <2>1 DEF StackInv, Inside
    <3>2. sa'.markers = sa.markers  BY <1>0, <2>1 DEF OnLiteral, Push, Generators
    <3> QED  BY <1>0, <2>1, <3>1, <3>2 DEF NestInv
  <2>2. CASE err' # "none"  BY <2>2 DEF NestInv
  <2> QED  BY <1>7, <2>1, <2>2 DEF Literal, Raise, Code, Good, Session
<1>8. CASE EndValue
  <2>1. CASE err' = "keyExists"  BY <2>1 DEF NestInv
  <2>2. CASE /\ pc = "done" /\ Len(stack) > 1 /\ Leave
             /\ sa' = OnEnd(sa) /\ UNCHANGED <<err, stale>>
    <3>1. Len(stack') = Len(stack) - 1  BY <1>0, <2>2, LengthMoves
    <3>2. Len(sa.markers) > 0  BY <1>0, <2>2
    <3>3. /\ Len(sa'.markers) = Len(sa.markers) - 1
          /\ \A i \in 1..(Len(sa.markers) - 1) : sa'.markers[i] = sa.markers[i]
      BY <1>0, <2>2, <3>2, Ending
    <3>4. 1 \in 1..(Len(sa.markers) - 1)  BY <1>0, <2>2
    <3>5. sa'.markers[1] = sa.markers[1]  BY <3>3, <3>4
    <3>6. Len(stack') > 0 /\ Len(stack) > 0  BY <1>0, <2>2, <3>1
    <3> QED  BY <1>0, <2>2, <3>1, <3>3, <3>5, <3>6 DEF NestInv
  <2> QED  BY <1>8, <2>1, <2>2, Zenon DEF EndValue, Good, Session
<1>9. CASE RootEnd
  <2>0. Len(stack) = 1 /\ Leave  BY <1>9, Zenon DEF RootEnd
  <2>1. CASE err' = "keyExists"  BY <2>1 DEF NestInv
  <2>2. CASE Complete(OnEnd(sa)) /\ sa' = OnParseEnd(OnEnd(sa))
    <3>1. Len(sa.markers) > 0 /\ Len(stack') = 0  BY <1>0, <2>0, LengthMoves
    <3>2. sa'.markers = << >> /\ sa'.stack = << >>  BY <1>0, <2>2, <3>1, EndComplete
    <3> QED  BY <3>1, <3>2, EmptySeq DEF NestInv
  <2>3. CASE pc' = "ended"  BY <2>3 DEF NestInv
  <2> QED  BY <1>9, <2>1, <2>2, <2>3, Zenon DEF RootEnd
<1>10. CASE \E cleared \in BOOLEAN : Again(cleared)
  <2>1. stack' = << >> /\ stale' = (sa'.stack # << >> \/ sa'.markers # << >>)
    BY <1>10, Zenon DEF Again
  <2>2. ~stale' => sa'.stack = << >> /\ sa'.markers = << >>  BY <2>1
  <2>3. Len(stack') = 0  BY <2>1, EmptySeq
  <2> QED  BY <2>2, <2>3, EmptySeq DEF NestInv
<1>11. CASE Cancel
  <2>1. sa'.markers = sa.markers /\ sa'.stack = sa.stack /\ UNCHANGED <<pc, stack, err, stale>>
    BY <1>0, <1>11 DEF Cancel, Generators, Good, Session
  <2> QED  BY <2>1 DEF NestInv
<1>12. CASE UNCHANGED vars  BY <1>12 DEF vars, NestInv
<1> QED
  BY <1>1, <1>2, <1>3, <1>4, <1>5, <1>6, <1>7, <1>8, <1>9, <1>10, <1>11, <1>12, Zenon
     DEF Next, Step, Clear, Reuse, Building, Raises, Document, Containers, Scalars, Strings, Loop

\* Nothing but remains of an earlier run makes parse_end throw.
LEMMA CompleteAtEnd ==
    ASSUME StackInv, MarkersInv, PhaseInv, NestInv
    PROVE  CompleteUnlessStale
<1> SUFFICES ASSUME pc = "done", Len(stack) = 1, ~stale PROVE Complete(OnEnd(sa))
  BY DEF CompleteUnlessStale
<1>1. err = "none"  BY DEF PhaseInv
<1>2. Len(sa.markers) = 1 /\ sa.markers[1] = 0  BY <1>1 DEF NestInv
<1>3. Nested(sa) /\ Nested(OnEnd(sa)) /\ Len(OnEnd(sa).stack) = 1 /\ Len(OnEnd(sa).markers) = 0
  BY <1>2, Ending DEF MarkersInv, Marker
<1> QED  BY <1>3, LenOf DEF Complete, Nested, Generators

\* What is in a buffer is what was read and is not yet in a value.
BufferInv ==
    /\ pc \in InsideString \cup {"colon"} /\ ~buf.partial => want = buf.size
    /\ pc \in InsideNumber \cup {"counted"} => want = num

\* A data string is read: a part of it may wait in the generator.
InData == pc \in InsideString /\ buf.partial

DataInv ==
    ~opt.cached =>
        /\ InData => want = buf.size + sa.tmp
        /\ err = "none" /\ pc \notin {"run", "start", "ended"} /\ ~InData => sa.tmp = 0
        /\ pc \notin InsideString \cup InsideNumber \cup {"colon", "counted"} => want = 0

\* Steps after which nothing is in the buffers, and those that leave them alone.
Empties ==
    Refuse \/ LoopEnd \/ ExtraCharacters \/ Overflow \/ Parsed
        \/ KeyValue \/ MemberError \/ BadNumber \/ StringError \/ EscapeRejected \/ EscapeError
Passes ==
    Run \/ Parse \/ ParseCanceled \/ ParseText \/ Begin \/ RootError \/ RootEnd
        \/ First \/ FirstError \/ Comma \/ NextValue \/ Closed \/ ArrayError \/ ObjectError
        \/ ListError \/ EndValue \/ Unwind \/ Literal \/ ValueError \/ LookBehind \/ NextDocument

LEMMA Emptying ==
    ASSUME Held(buf), Empties
    PROVE  /\ buf'.size = 0 /\ ~buf'.partial /\ num' = 0 /\ want' = 0 /\ opt' = opt
           /\ pc' \notin InsideString \cup InsideNumber
           /\ KeyValue \/ err' # "none" \/ pc' = "ended"
<1> USE DEF Goto, InsideString, InsideNumber
<1>1. CASE Refuse \/ LoopEnd \/ ExtraCharacters \/ Overflow \/ Parsed
  <2>1. Drop /\ opt' = opt /\ pc' = "ended"
    BY <1>1, Zenon DEF Refuse, LoopEnd, ExtraCharacters, Overflow, Parsed, Finish
  <2> QED  BY <2>1, Clearing
<1>2. CASE KeyValue
  <2>1. Drop /\ opt' = opt /\ pc' = "value"  BY <1>2, Zenon DEF KeyValue, Session
  <2> QED  BY <1>2, <2>1, Clearing
<1>3. CASE MemberError \/ EscapeRejected
  <2>1. Drop /\ opt' = opt /\ pc' \in {"list", "failed"} /\ err' # "none"
    BY <1>3 DEF MemberError, EscapeRejected, FailString, Fail, Code, Session
  <2> QED  BY <2>1, Clearing
<1>4. CASE BadNumber \/ StringError \/ EscapeError
  <2>1. Drop /\ opt' = opt /\ pc' \in {"list", "failed"} /\ err' # "none"
    BY <1>4 DEF BadNumber, StringError, EscapeError, FailValue, FailString, Raise, Code, Session
  <2> QED  BY <2>1, Clearing
<1> QED  BY <1>1, <1>2, <1>3, <1>4 DEF Empties

LEMMA Passing ==
    ASSUME Passes
    PROVE  /\ UNCHANGED <<buf, num, want, opt>>
           /\ {pc, pc'} \cap (InsideString \cup InsideNumber \cup {"colon", "counted"}) = {}
<1> USE DEF Goto, Buffers, Session, InsideString, InsideNumber
<1>1. CASE Run \/ Parse \/ ParseCanceled \/ ParseText \/ Begin \/ RootError
  BY <1>1 DEF Run, Parse, ParseCanceled, ParseText, Begin, RootError
<1>2. CASE RootEnd
  <2>1. Buffers /\ opt' = opt /\ pc = "done" /\ (pc' = "parsed" \/ pc' = "ended")
    BY <1>2, Zenon DEF RootEnd
  <2> QED  BY <2>1
<1>3. CASE First \/ FirstError \/ Comma \/ NextValue \/ Closed
  BY <1>3 DEF First, FirstError, Comma, NextValue, Closed
<1>4. CASE ArrayError \/ ObjectError \/ ListError \/ Unwind
  BY <1>4 DEF ArrayError, ObjectError, ListError, Unwind
<1>5. CASE EndValue  BY <1>5 DEF EndValue
<1>6. CASE Literal \/ ValueError  BY <1>6 DEF Literal, ValueError, FailValue
<1>7. CASE LookBehind \/ NextDocument  BY <1>7 DEF LookBehind, NextDocument
<1> QED  BY <1>1, <1>2, <1>3, <1>4, <1>5, <1>6, <1>7 DEF Passes

LEMMA PassingOn ==
    ASSUME PhaseInv, Passes
    PROVE  /\ err' = "none" => err = "none"
           /\ pc # "ended" /\ (pc \in {"run", "start"} => Parse \/ pc' = "start")
<1> USE DEF Goto, Good, Raise, Code
<1>1. CASE Run \/ ParseText \/ Begin \/ First \/ Comma \/ NextValue \/ Closed \/ Unwind
          \/ LookBehind \/ NextDocument
  <2>1. Good  BY <1>1, Zenon DEF Run, ParseText, Begin, First, Comma, NextValue, Closed, Unwind,
                                 LookBehind, NextDocument
  <2> QED  BY <1>1, <2>1, BuildingStays DEF Building
<1>2. CASE Parse  BY <1>2 DEF Parse
<1>3. CASE ParseCanceled \/ RootError \/ FirstError \/ ArrayError \/ ObjectError \/ ValueError
  BY <1>3 DEF ParseCanceled, RootError, FirstError, ArrayError, ObjectError, ValueError
<1>4. CASE ListError  BY <1>4 DEF ListError, PhaseInv
<1>5. CASE Literal  BY <1>5 DEF Literal
<1>6. CASE EndValue \/ RootEnd
  <2>1. pc = "done"  BY <1>6, Zenon DEF EndValue, RootEnd
  <2>2. err = "none"  BY <2>1 DEF PhaseInv
  <2> QED  BY <2>1, <2>2
<1> QED  BY <1>1, <1>2, <1>3, <1>4, <1>5, <1>6, Zenon DEF Passes

LEMMA BufferStep ==
    ASSUME TypeInv, MarkersInv, BufferInv, [Next]_vars
    PROVE  BufferInv'
<1> USE DEF BufferInv, Goto, Buffers
<1>0. Held(buf) /\ buf.size \in Nat /\ want \in Int /\ num \in Nat /\ Nested(sa)
  BY DEF TypeInv, Held, StringBuffers, MarkersInv
<1>1. CASE Empties  BY <1>0, <1>1, Emptying
<1>2. CASE Passes  BY <1>2, Passing
<1>3. CASE Ascii \/ Unicode \/ Escape \/ Quad \/ LowQuad
  <2>1. PICK sent \in Nat, units \in 0..2 : Written(sent, units)
    BY <1>0, <1>3, StringGrows
  <2>2. pc \in InsideString /\ pc' = "string"
    BY <1>3 DEF Ascii, Unicode, Escape, Quad, LowQuad, InsideString
  <2>3. buf'.size \in Nat  BY <2>1 DEF Written, Held, StringBuffers
  <2>4. pc' \in InsideString /\ pc' \notin InsideNumber \cup {"counted"}
    BY <2>2 DEF InsideString, InsideNumber
  <2> QED  BY <1>0, <2>1, <2>2, <2>3, <2>4 DEF Written
<1>4. CASE Quote \/ Backslash \/ EscapeUnicode \/ HighSurrogate \/ KeyEnd
  BY <1>4 DEF Quote, Backslash, EscapeUnicode, HighSurrogate, KeyEnd, InsideString, InsideNumber
<1>5. CASE Key \/ String
  <2>1. buf'.size = 0 /\ want' = 0  BY <1>0, <1>5, Clearing
  <2>2. pc' = "string"  BY <1>5, Zenon DEF Key, String
  <2> QED  BY <2>1, <2>2 DEF InsideNumber
<1>6. CASE StringValue \/ NumberValue
  <2>1. pc' = "after"  BY <1>6, Zenon DEF StringValue, NumberValue
  <2> QED  BY <2>1 DEF InsideString, InsideNumber
<1>7. CASE Number  BY <1>7 DEF Number, InsideString, InsideNumber
<1>8. CASE NumberCharacter
  <2>1. pc \in InsideNumber /\ pc' \in InsideNumber /\ num' = num + 1 /\ want' = want + 1
    BY <1>8 DEF NumberCharacter, NumberSteps, InsideNumber
  <2>2. pc' \notin InsideString \cup {"colon"}  BY <2>1 DEF InsideNumber, InsideString
  <2> QED  BY <2>1, <2>2
<1>9. CASE NumberEnd  BY <1>9 DEF NumberEnd, GoodNumber, InsideNumber, InsideString
<1>10. CASE SkipWhitespace \/ Cancel  BY <1>10 DEF SkipWhitespace, Cancel
<1>11. CASE \E cleared \in BOOLEAN : Again(cleared)
  <2>1. pc' = "run"  BY <1>11, Zenon DEF Again
  <2> QED  BY <2>1 DEF InsideString, InsideNumber
<1>12. CASE UNCHANGED vars  BY <1>12 DEF vars
<1> QED
  BY <1>1, <1>2, <1>3, <1>4, <1>5, <1>6, <1>7, <1>8, <1>9, <1>10, <1>11, <1>12, Zenon
     DEF Next, Step, Clear, Reuse, Empties, Passes, Document, Containers, Scalars, Strings, Loop

\* The handlers that do not receive a part of a string.
LEMMA TmpStays ==
    ASSUME Nested(sa), Passes, Len(sa.markers) > 0 \/ ~(EndValue \/ RootEnd)
    PROVE  sa'.tmp = sa.tmp \/ (Parse /\ sa'.tmp = 0)
<1>0. sa \in Generators  BY DEF Nested
<1>1. CASE Parse  BY <1>0, <1>1 DEF Parse, OnParseBegin, Generators
<1>2. CASE Begin  BY <1>0, <1>2 DEF Begin, OnBegin, Generators
<1>3. CASE ParseCanceled \/ RootError \/ FirstError \/ ArrayError \/ ObjectError \/ ValueError
  <2>1. \E code : Raise(code)
    BY <1>3, Zenon DEF ParseCanceled, RootError, FirstError, ArrayError, ObjectError, ValueError
  <2> QED  BY <1>0, <2>1 DEF Raise, Report, OnError, Generators
<1>4. CASE ListError
  <2>1. \E code : Raise(code)  BY <1>4, Zenon DEF ListError
  <2> QED  BY <1>0, <2>1 DEF Raise, Report, OnError, Generators
<1>5. CASE Literal
  <2>1. sa' = OnLiteral(sa) \/ \E code : Raise(code)  BY <1>5, Zenon DEF Literal
  <2> QED  BY <1>0, <2>1 DEF OnLiteral, Push, Raise, Report, OnError, Generators
<1>6. CASE EndValue \/ RootEnd
  <2>1. OnEnd(sa) \in Generators /\ OnEnd(sa).tmp = sa.tmp
    BY <1>0, <1>6, Ending DEF Nested, OnEnd, Generators
  <2>2. \/ sa' = OnEnd(sa) \/ sa' = OnParseEnd(OnEnd(sa))
        \/ sa' = OnError(OnEnd(sa), "keyExists") \/ sa' = OnError(OnEnd(sa), "unexpected")
    BY <1>6, Zenon DEF EndValue, RootEnd
  <2> QED  BY <2>1, <2>2 DEF OnParseEnd, OnError, Generators
<1>7. CASE Run \/ ParseText \/ First \/ Comma \/ NextValue \/ Closed \/ Unwind \/ LookBehind \/ NextDocument
  BY <1>7, Zenon DEF Run, ParseText, First, Comma, NextValue, Closed, Unwind, LookBehind, NextDocument
<1> QED  BY <1>1, <1>2, <1>3, <1>4, <1>5, <1>6, <1>7, Zenon DEF Passes

LEMMA DataStep ==
    ASSUME TypeInv, StackInv, MarkersInv, PhaseInv, BufferInv, DataInv, [Next]_vars
    PROVE  DataInv'
<1> USE DEF Goto, Buffers
<1> SUFFICES ASSUME ~opt'.cached PROVE DataInv'
  BY DEF DataInv
<1>0. /\ Held(buf) /\ buf.size \in Nat /\ want \in Int /\ num \in Nat /\ Nested(sa)
      /\ sa \in Generators /\ sa.tmp \in Nat
  BY DEF TypeInv, Held, StringBuffers, MarkersInv, Nested, Generators
<1>a. pc \in InsideString \cup InsideNumber \cup {"value", "member", "colon", "counted"} =>
          err = "none" /\ pc \notin {"run", "start", "ended"}
  BY DEF PhaseInv, InsideString, InsideNumber
<1>1. CASE Empties
  <2>1. /\ buf'.size = 0 /\ ~buf'.partial /\ want' = 0 /\ opt' = opt
        /\ pc' \notin InsideString
        /\ KeyValue \/ err' # "none" \/ pc' = "ended"
    BY <1>0, <1>1, Emptying
  <2>2. CASE KeyValue
    <3>1. pc = "colon" /\ \E k : sa' = OnKey(sa, k)  BY <2>2, Zenon DEF KeyValue
    <3>2. sa'.tmp = sa.tmp  BY <1>0, <3>1 DEF OnKey, Push, Generators
    <3>3. ~InData  BY <3>1 DEF InData, InsideString
    <3>4. sa.tmp = 0  BY <1>a, <2>1, <3>1, <3>3 DEF DataInv
    <3> QED  BY <2>1, <3>2, <3>4 DEF DataInv, InData
  <2>3. CASE err' # "none" \/ pc' = "ended"  BY <2>1, <2>3 DEF DataInv, InData
  <2> QED  BY <2>1, <2>2, <2>3
<1>2. CASE Passes
  <2>1. /\ UNCHANGED <<buf, num, want, opt>>
        /\ {pc, pc'} \cap (InsideString \cup InsideNumber \cup {"colon", "counted"}) = {}
    BY <1>2, Passing
  <2>2. ~InData /\ ~InData' /\ want' = 0  BY <2>1 DEF InData, DataInv
  <2>3. /\ err' = "none" => err = "none"
        /\ pc # "ended" /\ (pc \in {"run", "start"} => Parse \/ pc' = "start")
    BY <1>2, PassingOn
  <2>4. Len(sa.markers) > 0 \/ ~(EndValue \/ RootEnd)
    <3>1. ASSUME EndValue \/ RootEnd PROVE Len(sa.markers) > 0
      <4>1. pc = "done"  BY <3>1, Zenon DEF EndValue, RootEnd
      <4>2. Len(stack) > 0  BY <4>1 DEF StackInv, Inside
      <4>3. Len(stack) \in Nat /\ Len(sa.markers) \in Nat  BY <1>0, LenOf DEF StackInv, Generators
      <4> QED  BY <4>2, <4>3 DEF MarkersInv
    <3> QED  BY <3>1
  <2>5. sa'.tmp = sa.tmp \/ (Parse /\ sa'.tmp = 0)  BY <1>0, <1>2, <2>4, TmpStays
  <2>6. CASE Parse /\ sa'.tmp = 0  BY <2>2, <2>6 DEF DataInv
  <2>7. CASE sa'.tmp = sa.tmp
    <3>1. CASE err' = "none" /\ pc' \notin {"run", "start", "ended"}
      <4>1. CASE Parse
        <5>1. sa'.tmp = 0  BY <1>0, <4>1 DEF Parse, OnParseBegin, Generators
        <5> QED  BY <2>2, <5>1 DEF DataInv
      <4>2. CASE ~Parse
        <5>1. sa.tmp = 0  BY <2>1, <2>2, <2>3, <3>1, <4>2 DEF DataInv
        <5> QED  BY <2>2, <2>7, <5>1 DEF DataInv
      <4> QED  BY <4>1, <4>2
    <3>2. CASE ~(err' = "none" /\ pc' \notin {"run", "start", "ended"})
      BY <2>2, <3>2 DEF DataInv
    <3> QED  BY <3>1, <3>2
  <2> QED  BY <2>5, <2>6, <2>7
<1>3. CASE Ascii \/ Unicode \/ Escape \/ Quad \/ LowQuad
  <2>1. PICK sent \in Nat, units \in 0..2 : Written(sent, units)
    BY <1>0, <1>3, StringGrows
  <2>2. pc \in InsideString /\ pc' = "string" /\ opt' = opt
    BY <1>3 DEF Ascii, Unicode, Escape, Quad, LowQuad, InsideString, Session
  <2>3. buf'.size \in Nat  BY <2>1 DEF Written, Held, StringBuffers
  <2>4. pc' \in InsideString  BY <2>2 DEF InsideString
  <2>5. /\ sa'.tmp = sa.tmp + sent /\ sent + buf'.size = buf.size + units
        /\ want' = want + units /\ buf'.partial = buf.partial /\ (~buf.partial => sent = 0)
    BY <2>1 DEF Written
  <2>6. CASE buf.partial
    <3>1. want = buf.size + sa.tmp  BY <2>2, <2>6 DEF InData, DataInv
    <3>2. want' = buf'.size + sa'.tmp  BY <1>0, <2>3, <2>5, <3>1
    <3> QED  BY <2>4, <2>5, <2>6, <3>2 DEF InData, DataInv
  <2>7. CASE ~buf.partial
    <3>1. sa.tmp = 0  BY <1>a, <2>2, <2>7 DEF InData, DataInv
    <3>2. sa'.tmp = 0  BY <2>5, <2>7, <3>1
    <3> QED  BY <2>4, <2>5, <2>7, <3>2 DEF InData, DataInv
  <2> QED  BY <2>6, <2>7
<1>4. CASE Quote \/ Backslash \/ EscapeUnicode \/ HighSurrogate
  <2>1. /\ pc \in InsideString /\ pc' \in InsideString
        /\ UNCHANGED <<buf, want, sa, err, opt>>
    BY <1>4 DEF Quote, Backslash, EscapeUnicode, HighSurrogate, InsideString, Good, Session
  <2> QED  BY <1>a, <2>1 DEF DataInv, InData
<1>5. CASE KeyEnd
  <2>1. /\ pc \in InsideString /\ pc' = "colon" /\ ~buf.partial
        /\ UNCHANGED <<buf, want, sa, err, opt>>
    BY <1>5 DEF KeyEnd, InsideString, Good, Session
  <2>2. pc' \notin InsideString  BY <2>1 DEF InsideString
  <2> QED  BY <1>a, <2>1, <2>2 DEF DataInv, InData
<1>6. CASE Key \/ String
  <2>1. buf'.size = 0 /\ want' = 0  BY <1>0, <1>6, Clearing
  <2>2. pc \in {"value", "member"} /\ pc' = "string" /\ UNCHANGED <<sa, err, opt>>
    BY <1>6, Zenon DEF Key, String, Good, Session
  <2>3. ~InData  BY <2>2 DEF InData, InsideString
  <2>4. sa.tmp = 0  BY <1>a, <2>2, <2>3 DEF DataInv
  <2> QED  BY <2>1, <2>2, <2>4 DEF DataInv
<1>7. CASE StringValue
  <2>1. /\ pc = "closed" /\ buf.partial /\ pc' = "after" /\ UNCHANGED <<err, opt>>
        /\ sa' = OnValueString(sa, buf.size, FALSE, opt.cached).actions
        /\ want' = want - OnValueString(sa, buf.size, FALSE, opt.cached).units
    BY <1>7, Zenon DEF StringValue, Good, Session
  <2>2. want = buf.size + sa.tmp  BY <2>1 DEF DataInv, InData, InsideString
  <2>3. ~opt.cached  BY <2>1
  <2>4. /\ sa' = Push([sa EXCEPT !.tmp = 0], Value)
        /\ want' = want - (sa.tmp + buf.size)
    BY <2>1, <2>3 DEF OnValueString, Pushed
  <2>5. want' = 0 /\ sa'.tmp = 0  BY <1>0, <2>2, <2>4 DEF Push, Generators
  <2>6. pc' \notin InsideString  BY <2>1 DEF InsideString
  <2> QED  BY <2>5, <2>6 DEF DataInv, InData
<1>8. CASE NumberValue
  <2>1. /\ pc = "counted" /\ pc' = "after" /\ UNCHANGED <<err, opt>>
        /\ sa' = OnValueNumber(sa, num, opt.strings).actions
        /\ want' = want - OnValueNumber(sa, num, opt.strings).units
    BY <1>8 DEF NumberValue, Good, Session
  <2>2. want = num  BY <2>1 DEF BufferInv
  <2>3. ~InData  BY <2>1 DEF InData, InsideString
  <2>4. sa.tmp = 0  BY <1>a, <2>1, <2>3 DEF DataInv
  <2>5. \/ sa' = Push([sa EXCEPT !.tmp = 0], Value) /\ want' = want - (sa.tmp + num)
        \/ sa' = Push(sa, Value) /\ want' = want - num
    BY <2>1 DEF OnValueNumber, OnValueString, Pushed
  <2>a. want' = 0  BY <1>0, <2>2, <2>4, <2>5
  <2>b. sa'.tmp = 0
    <3>1. Push([sa EXCEPT !.tmp = 0], Value).tmp = 0  BY <1>0 DEF Push, Generators
    <3>2. Push(sa, Value).tmp = 0  BY <1>0, <2>4 DEF Push, Generators
    <3> QED  BY <2>5, <3>1, <3>2
  <2>6. want' = 0 /\ sa'.tmp = 0  BY <2>a, <2>b
  <2>7. pc' \notin InsideString  BY <2>1 DEF InsideString
  <2> QED  BY <2>6, <2>7 DEF DataInv, InData
<1>9. CASE Number \/ NumberCharacter \/ NumberEnd
  <2>1. /\ pc \in InsideNumber \cup {"value"} /\ pc' \in InsideNumber \cup {"counted"}
        /\ UNCHANGED <<sa, err, opt>>
    BY <1>9 DEF Number, NumberCharacter, NumberEnd, NumberSteps, InsideNumber, GoodNumber, Good, Session
  <2>2. ~InData /\ pc' \notin InsideString  BY <2>1 DEF InData, InsideString, InsideNumber
  <2>3. sa.tmp = 0  BY <1>a, <2>1, <2>2 DEF DataInv
  <2> QED  BY <2>1, <2>2, <2>3 DEF DataInv, InData
<1>10. CASE SkipWhitespace
  <2>1. UNCHANGED <<pc, buf, want, sa, err, opt>>
    BY <1>10 DEF SkipWhitespace, Good, Session
  <2> QED  BY <2>1 DEF DataInv, InData
<1>11. CASE Cancel
  <2>1. UNCHANGED <<pc, buf, want, err, opt>> /\ sa'.tmp = sa.tmp
    BY <1>0, <1>11 DEF Cancel, Good, Session, Generators
  <2> QED  BY <2>1 DEF DataInv, InData
<1>12. CASE \E cleared \in BOOLEAN : Again(cleared)
  <2>1. pc' = "run" /\ want' = 0  BY <1>12, Zenon DEF Again
  <2>2. pc' \notin InsideString  BY <2>1 DEF InsideString
  <2> QED  BY <2>1, <2>2 DEF DataInv, InData
<1>13. CASE UNCHANGED vars  BY <1>13 DEF vars, DataInv, InData
<1> QED
  BY <1>1, <1>2, <1>3, <1>4, <1>5, <1>6, <1>7, <1>8, <1>9, <1>10, <1>11, <1>12, <1>13, Zenon
     DEF Next, Step, Clear, Reuse, Empties, Passes, Document, Containers, Scalars, Strings, Loop

-----------------------------------------------------------------------------
(* The inductive invariant and what follows from it                        *)

\* The inductive invariant.
IInv ==
    /\ TypeInv /\ FlagsInv /\ StackInv /\ MarkersInv /\ PhaseInv /\ GoodInv
    /\ HeldError /\ SilentOnlyRejected /\ AnswerInv /\ NestInv /\ BufferInv /\ DataInv

LEMMA IInvHolds == Spec => []IInv
<1>1. Init => IInv
  <2> SUFFICES ASSUME Init PROVE IInv
    OBVIOUS
  <2>1. /\ pc = "run" /\ cur = "?" /\ stack = << >> /\ err = "none"
        /\ buf = EmptyStringBuffer /\ num = 0 /\ sa = NewGenerator
        /\ opt \in Options
        /\ told = FALSE /\ success = FALSE /\ want = 0 /\ stale = FALSE
    BY Zenon DEF Init
  <2>2. Len(stack) = 0 /\ stack \in Seq(Frames)  BY <2>1, EmptySeq
  <2>3. 0 \in 0..NumberSize /\ MaxDepth \in Nat  BY StorageAssumption, ParserAssumption
  <2>4. TypeInv
    BY <2>1, <2>3 DEF TypeInv, Outside, Held, EmptyStringBuffer, StringBuffers, Codes
  <2>5. FlagsInv  BY <2>1, Zenon DEF FlagsInv
  <2>6. StackInv  BY <2>1, <2>2, <2>3 DEF StackInv, Inside, InsideString, InsideNumber
  <2>7. MarkersInv
    <3>1. sa.markers = << >> /\ sa.stack = << >>  BY <2>1 DEF NewGenerator
    <3>2. sa \in Generators  BY <2>1, EmptySeq DEF NewGenerator, Generators, Codes
    <3> QED  BY <2>2, <3>1, <3>2, EmptySeq DEF MarkersInv, Nested
  <2>8. PhaseInv /\ AnswerInv  BY <2>1 DEF PhaseInv, AnswerInv
  <2>9. GoodInv /\ HeldError /\ SilentOnlyRejected
    BY <2>1 DEF GoodInv, HeldError, SilentOnlyRejected
  <2>10. NestInv
    <3>1. Len(sa.markers) = 0 /\ Len(sa.stack) = 0  BY <2>1, EmptySeq DEF NewGenerator
    <3> QED  BY <2>2, <3>1 DEF NestInv
  <2>11. BufferInv  BY <2>1 DEF BufferInv, InsideString, InsideNumber
  <2>12. DataInv  BY <2>1 DEF DataInv, InData, InsideString
  <2> QED  BY <2>4, <2>5, <2>6, <2>7, <2>8, <2>9, <2>10, <2>11, <2>12 DEF IInv
<1>2. IInv /\ [Next]_vars => IInv'
  BY TypeStep, FlagsStep, StackStep, MarkersStep, PhaseStep, GoodStep, HeldErrorStep,
     SilentStep, AnswerStep, NestStep, BufferStep, DataStep, Zenon DEF IInv
<1> QED  BY <1>1, <1>2, PTL DEF Spec

\* Every variable keeps its type, for any options, bounds and buffer sizes.
THEOREM TypeCorrect == Spec => []TypeOK
<1>1. IInv => TypeOK
  <2> SUFFICES ASSUME IInv PROVE TypeOK
    OBVIOUS
  <2>1. pc \in Outside \cup Inside \cup {"ended"} /\ opt \in Options
        /\ buf \in StringBuffers /\ num \in 0..NumberSize /\ want \in Int
    BY DEF IInv, TypeInv, Held
  <2>2. /\ sa.stack \in Seq(Items) /\ sa.markers \in Seq(Nat) /\ sa.tmp \in Nat
        /\ sa.result \in {nil, Value} /\ sa.canceled \in BOOLEAN
    BY DEF IInv, MarkersInv, Nested, Generators
  <2>3. {told, success, stale, sa.canceled} \subseteq BOOLEAN
    BY <2>2, Zenon DEF IInv, FlagsInv
  <2>4. stack \in Seq(Frames) /\ Len(stack) <= MaxDepth  BY DEF IInv, StackInv
  <2> QED  BY <2>1, <2>2, <2>3, <2>4 DEF TypeOK, Outside, Inside, InsideString
<1> QED  BY <1>1, IInvHolds, PTL

\* string_buffer never writes behind its end: append_ascii and append_unicode
\* make the room they use first, whatever sizes the storage is built with.
THEOREM NothingBehindTheEnd == Spec => []BufferFits
<1>1. IInv => BufferFits  BY DEF IInv, TypeInv, Held, BufferFits
<1> QED  BY <1>1, IInvHolds, PTL

\* parse_key hands over a key in one piece, of any length: MIN_CHUNK_SIZE and
\* the growth of the buffer do not matter to it.
THEOREM KeysAreWhole == Spec => []KeyWhole
<1>1. IInv => KeyWhole
  BY DEF IInv, BufferInv, KeyWhole, InsideString
<1> QED  BY <1>1, IInvHolds, PTL

\* value_string and value_number together receive every unit that was read,
\* in chunks of any size, unless the strings are cached.
THEOREM DataIsWhole == Spec => []DataWhole
<1>1. IInv => DataWhole
  BY DEF IInv, DataInv, DataWhole, InsideString, InsideNumber
<1> QED  BY <1>1, IInvHolds, PTL

\* The logic error of parse_end needs remains of an earlier, failed run.
THEOREM EndIsComplete == Spec => []CompleteUnlessStale
<1>1. IInv => CompleteUnlessStale  BY CompleteAtEnd DEF IInv
<1> QED  BY <1>1, IInvHolds, PTL

\* The only error that parser::parse does not report to the semantic actions
\* is a rejected escape, and it travels through arrays only.
THEOREM SilenceIsRejection == Spec => []SilentOnlyRejected
<1>1. IInv => SilentOnlyRejected  BY DEF IInv
<1> QED  BY <1>1, IInvHolds, PTL

\* What runWithBytes returns, what it leaves in state_ and what the semantic
\* actions hold agree, for every text and after any number of runs.
THEOREM VerdictAgrees == Spec => []Verdict
<1>1. IInv => Verdict  BY Zenon DEF IInv, AnswerInv, HeldError, Verdict
<1> QED  BY <1>1, IInvHolds, PTL

\* On the way out of an error the parser calls no handler that builds.
THEOREM ErrorsEndBuilding == Spec => NothingBuiltAfterError
<1>1. IInv /\ [Next]_vars =>
          [err # "none" /\ pc # "ended" => sa'.stack = sa.stack /\ sa'.result = sa.result]_vars
  <2> SUFFICES ASSUME IInv, [Next]_vars, err # "none", pc # "ended"
               PROVE  sa'.stack = sa.stack /\ sa'.result = sa.result
    OBVIOUS
  <2> QED  BY ErrorStep DEF IInv
<1> QED  BY <1>1, IInvHolds, PTL DEF Spec, NothingBuiltAfterError

-----------------------------------------------------------------------------
(***************************************************************************)
(* JsonParser implements ValueTree, again for all options and bounds.      *)
(*                                                                         *)
(* The open containers are the frames of the recursion, each with the      *)
(* slice of the generator's stack between its marker and the next one.     *)
(* Each handler changes these slices like the tree changes its containers  *)
(* (OpenedPush, OpenedBegin, OpenedEnd).  That the parser calls them in an *)
(* order the tree allows is TreeInv: in every open object keys and values  *)
(* are in turn, and the point the parser is at says which comes next.      *)
(***************************************************************************)

\* The open containers that stand for the frames st over a generator g.
Pieces == [kind : {"array", "object"}, items : Seq(Items)]

Base(st, g, k) == g.markers[Len(g.markers) - Len(st) + k]
Bound(st, g, k) ==
    IF k = Len(st) THEN Len(g.stack) ELSE g.markers[Len(g.markers) - Len(st) + k + 1]
Piece(st, g, k) ==
    [kind |-> st[k].kind, items |-> SubSeq(g.stack, Base(st, g, k) + 1, Bound(st, g, k))]
Opened(st, g) == [k \in 1..Len(st) |-> Piece(st, g, k)]

Deep(st, g) == st \in Seq(Frames) /\ Nested(g) /\ Len(st) <= Len(g.markers)

LEMMA OpenIs ==
    OpenContainers = IF err # "none" \/ pc = "ended" THEN << >> ELSE Opened(stack, sa)
BY DEF OpenContainers, Opened, Piece, Base, Bound

-----------------------------------------------------------------------------
(* Slices of a sequence                                                    *)

LEMMA Slice ==
    ASSUME NEW S, NEW s \in Seq(S), NEW e \in 0..Len(s), NEW b \in 0..e
    PROVE  /\ SubSeq(s, b + 1, e) \in Seq(S) /\ Len(SubSeq(s, b + 1, e)) = e - b
           /\ \A p \in 1..(e - b) : SubSeq(s, b + 1, e)[p] = s[b + p]
<1>1. Len(s) \in Nat /\ b \in Nat /\ e \in Nat  BY LenProperties
<1>2. \A i \in (b + 1)..e : s[i] \in S  BY <1>1, ElementOfSeq
<1>3. /\ SubSeq(s, b + 1, e) \in Seq(S)
      /\ Len(SubSeq(s, b + 1, e)) = IF b + 1 <= e THEN e - (b + 1) + 1 ELSE 0
      /\ \A i \in 1..(e - (b + 1) + 1) : SubSeq(s, b + 1, e)[i] = s[b + 1 + i - 1]
  <2>1. b + 1 \in Int /\ e \in Int  BY <1>1
  <2> QED  BY <1>2, <2>1, SubSeqProperties
<1> QED  BY <1>1, <1>3

\* A slice depends on its elements only.
LEMMA SameSlice ==
    ASSUME NEW S, NEW s \in Seq(S), NEW t \in Seq(S),
           NEW e \in 0..Len(s), e <= Len(t), NEW b \in 0..e,
           \A p \in 1..e : s[p] = t[p]
    PROVE  SubSeq(s, b + 1, e) = SubSeq(t, b + 1, e)
<1>1. Len(t) \in Nat /\ e \in Nat /\ e \in 0..Len(t) /\ b \in Nat  BY LenProperties
<1> DEFINE x == SubSeq(s, b + 1, e)  y == SubSeq(t, b + 1, e)
<1>2. /\ x \in Seq(S) /\ Len(x) = e - b
      /\ \A p \in 1..(e - b) : x[p] = s[b + p]
  BY Slice
<1>3. /\ y \in Seq(S) /\ Len(y) = e - b
      /\ \A p \in 1..(e - b) : y[p] = t[b + p]
  BY <1>1, Slice
<1> HIDE DEF x, y
<1>4. \A p \in 1..(e - b) : x[p] = y[p]  BY <1>1, <1>2, <1>3
<1>5. x = y  BY <1>2, <1>3, <1>4, SeqEqual
<1> QED  BY <1>5 DEF x, y

\* A slice with one element more.
LEMMA LongerSlice ==
    ASSUME NEW S, NEW s \in Seq(S), NEW t \in Seq(S),
           NEW e \in 0..Len(s), e + 1 <= Len(t), NEW b \in 0..e,
           \A p \in 1..e : s[p] = t[p]
    PROVE  SubSeq(t, b + 1, e + 1) = Append(SubSeq(s, b + 1, e), t[e + 1])
<1>1. Len(t) \in Nat /\ e \in Nat /\ e + 1 \in 0..Len(t) /\ b \in Nat /\ b \in 0..(e + 1)
  BY LenProperties
<1> DEFINE x == SubSeq(s, b + 1, e)  y == SubSeq(t, b + 1, e + 1)  z == Append(x, t[e + 1])
<1>2. /\ x \in Seq(S) /\ Len(x) = e - b
      /\ \A p \in 1..(e - b) : x[p] = s[b + p]
  BY Slice
<1>3. /\ y \in Seq(S) /\ Len(y) = e + 1 - b
      /\ \A p \in 1..(e + 1 - b) : y[p] = t[b + p]
  BY <1>1, Slice
<1>4. t[e + 1] \in S  BY <1>1, ElementOfSeq
<1> HIDE DEF x, y
<1>5. /\ z \in Seq(S) /\ Len(z) = e - b + 1 /\ z[e - b + 1] = t[e + 1]
      /\ \A p \in 1..(e - b) : z[p] = x[p]
  <2> DEFINE last == t[e + 1]
  <2> HIDE DEF last
  <2>1. last \in S /\ z = Append(x, last) /\ e - b + 1 = Len(x) + 1  BY <1>1, <1>2, <1>4 DEF last
  <2> HIDE DEF z
  <2>2. /\ Append(x, last) \in Seq(S) /\ Len(Append(x, last)) = Len(x) + 1
        /\ Append(x, last)[Len(x) + 1] = last
        /\ \A p \in 1..Len(x) : Append(x, last)[p] = x[p]
    BY <1>2, <2>1, AppendProperties
  <2> QED  BY <1>2, <2>1, <2>2 DEF last
<1> HIDE DEF z
<1>6. \A p \in 1..(e + 1 - b) : y[p] = z[p]
  <2> TAKE p \in 1..(e + 1 - b)
  <2>0. p = e - b + 1 \/ p \in 1..(e - b)  BY <1>1
  <2>1. CASE p = e - b + 1  BY <1>1, <1>3, <1>5, <2>1
  <2>2. CASE p \in 1..(e - b)  BY <1>1, <1>2, <1>3, <1>5, <2>2
  <2> QED  BY <2>0, <2>1, <2>2
<1>7. Len(y) = Len(z)  BY <1>1, <1>3, <1>5
<1>8. y = z  BY <1>3, <1>5, <1>6, <1>7, SeqEqual
<1> QED  BY <1>8 DEF x, y, z

-----------------------------------------------------------------------------
(* The open containers, and what the handlers do to them                   *)

\* A frame has its slice of the stack.
LEMMA PieceIs ==
    ASSUME NEW st, NEW g, Deep(st, g), NEW k \in 1..Len(st)
    PROVE  /\ Bound(st, g, k) \in 0..Len(g.stack) /\ Base(st, g, k) \in 0..Bound(st, g, k)
           /\ Piece(st, g, k) \in Pieces
           /\ g.stack \in Seq(Items)
<1>1. /\ Len(st) \in Nat /\ Len(g.markers) \in Nat /\ Len(g.stack) \in Nat
      /\ g.stack \in Seq(Items) /\ g.markers \in Seq(Nat) /\ k \in Nat
      /\ Len(st) <= Len(g.markers)
  BY LenOf DEF Deep, Nested, Generators
<1> DEFINE i == Len(g.markers) - Len(st) + k
<1>2. i \in 1..Len(g.markers) /\ (k # Len(st) => i + 1 \in 1..Len(g.markers) /\ i <= i + 1)  BY <1>1
<1> HIDE DEF i
<1>3. g.markers[i] \in Nat /\ g.markers[i] <= Len(g.stack)
  BY <1>1, <1>2, ElementOfSeq DEF Deep, Nested
<1>4. k # Len(st) =>
          g.markers[i + 1] \in Nat /\ g.markers[i + 1] <= Len(g.stack) /\ g.markers[i] <= g.markers[i + 1]
  BY <1>1, <1>2, ElementOfSeq DEF Deep, Nested
<1>5. Base(st, g, k) = g.markers[i] /\ Bound(st, g, k) = IF k = Len(st) THEN Len(g.stack) ELSE g.markers[i + 1]
  BY DEF Base, Bound, i
<1>6. Bound(st, g, k) \in 0..Len(g.stack) /\ Base(st, g, k) \in 0..Bound(st, g, k)
  BY <1>1, <1>3, <1>4, <1>5
<1>7. SubSeq(g.stack, Base(st, g, k) + 1, Bound(st, g, k)) \in Seq(Items)
  BY <1>1, <1>6, Slice
<1>8. st[k] \in Frames  BY ElementOfSeq DEF Deep
<1> QED  BY <1>1, <1>6, <1>7, <1>8 DEF Piece, Pieces, Frames

LEMMA OpenedIs ==
    ASSUME NEW st, NEW g, Deep(st, g)
    PROVE  /\ Len(st) \in Nat
           /\ Opened(st, g) \in Seq(Pieces) /\ Len(Opened(st, g)) = Len(st)
           /\ \A k \in 1..Len(st) :
                 Opened(st, g)[k] = Piece(st, g, k) /\ Opened(st, g)[k].kind = st[k].kind
<1>1. Len(st) \in Nat  BY LenOf DEF Deep
<1>2. Opened(st, g) \in [1..Len(st) -> Pieces]  BY PieceIs DEF Opened
<1>3. \A k \in 1..Len(st) : Opened(st, g)[k] = Piece(st, g, k)  BY DEF Opened
<1>4. ASSUME NEW k \in 1..Len(st)  PROVE Opened(st, g)[k].kind = st[k].kind
  <2>1. Opened(st, g)[k] = Piece(st, g, k)  BY <1>3
  <2> QED  BY <2>1 DEF Piece
<1> QED  BY <1>1, <1>2, <1>3, <1>4

\* Of the frames only their kinds matter, of the generator its elements and markers.
LEMMA OpenedAlike ==
    ASSUME NEW st, NEW g, NEW t, NEW h, h.stack = g.stack, h.markers = g.markers,
           Len(t) = Len(st), \A k \in 1..Len(st) : t[k].kind = st[k].kind
    PROVE  Opened(t, h) = Opened(st, g)
BY DEF Opened, Piece, Base, Bound

LEMMA WithIs ==
    ASSUME NEW o \in Seq(Pieces), Len(o) > 0, NEW item \in Items
    PROVE  LET n == Len(o)
               last == [kind |-> o[n].kind, items |-> Append(o[n].items, item)]
           IN  Tree!With(o, item) = [o EXCEPT ![n] = last] /\ last \in Pieces
<1> DEFINE n == Len(o)  top == o[n]  last == [kind |-> top.kind, items |-> Append(top.items, item)]
<1>1. n \in 1..n  BY LenOf
<1>2. top \in Pieces  BY <1>1, ElementOfSeq
<1> HIDE DEF top
<1>3. last = [top EXCEPT !.items = Append(@, item)]
  <2> DEFINE items == Append(top.items, item)
  <2> HIDE DEF items
  <2>1. [kind |-> top.kind, items |-> items] = [top EXCEPT !.items = items]  BY <1>2 DEF Pieces
  <2> QED  BY <2>1 DEF items
<1>4. last \in Pieces
  <2>1. Append(top.items, item) \in Seq(Items) /\ top.kind \in {"array", "object"}
    BY <1>2, AppendProperties DEF Pieces
  <2> QED  BY <2>1 DEF Pieces
<1> HIDE DEF last
<1>5. Tree!With(o, item) = [o EXCEPT ![n] = [top EXCEPT !.items = Append(@, item)]]
  BY <1>1 DEF Tree!With, top
<1> QED  BY <1>3, <1>4, <1>5 DEF last, top

\* A handler that pushes: one element more in the innermost container.
LEMMA OpenedPush ==
    ASSUME NEW st, NEW g, Deep(st, g), Len(st) > 0,
           NEW h, Deep(st, h), NEW item \in Items,
           h.stack = Append(g.stack, item), h.markers = g.markers
    PROVE  Opened(st, h) = Tree!With(Opened(st, g), item)
<1> DEFINE n == Len(st)  o == Opened(st, g)  q == Opened(st, h)
           last == [kind |-> o[n].kind, items |-> Append(o[n].items, item)]
<1>1. /\ n \in Nat /\ n \in 1..n
      /\ o \in Seq(Pieces) /\ Len(o) = n /\ q \in Seq(Pieces) /\ Len(q) = n
      /\ \A k \in 1..n : o[k] = Piece(st, g, k) /\ q[k] = Piece(st, h, k)
  BY OpenedIs
<1>2. /\ g.stack \in Seq(Items) /\ h.stack \in Seq(Items) /\ Len(g.stack) \in Nat
      /\ Len(h.stack) = Len(g.stack) + 1 /\ h.stack[Len(g.stack) + 1] = item
      /\ \A p \in 1..Len(g.stack) : g.stack[p] = h.stack[p]
  BY LenOf, AppendProperties DEF Deep, Nested, Generators
<1>3. ASSUME NEW k \in 1..n, k # n  PROVE Piece(st, h, k) = Piece(st, g, k)
  <2>1. Base(st, h, k) = Base(st, g, k) /\ Bound(st, h, k) = Bound(st, g, k)
    BY <1>3 DEF Base, Bound
  <2>2. Bound(st, g, k) \in 0..Len(g.stack) /\ Base(st, g, k) \in 0..Bound(st, g, k)
    BY PieceIs
  <2>3. SubSeq(g.stack, Base(st, g, k) + 1, Bound(st, g, k))
           = SubSeq(h.stack, Base(st, g, k) + 1, Bound(st, g, k))
    <3>1. Bound(st, g, k) <= Len(h.stack) /\ \A p \in 1..Bound(st, g, k) : g.stack[p] = h.stack[p]
      BY <1>2, <2>2
    <3> QED  BY <1>2, <2>2, <3>1, SameSlice
  <2> QED  BY <2>1, <2>3 DEF Piece
<1>4. Piece(st, h, n) = last
  <2>1. Base(st, h, n) = Base(st, g, n) /\ Bound(st, h, n) = Len(h.stack) /\ Bound(st, g, n) = Len(g.stack)
    BY DEF Base, Bound
  <2>2. Base(st, g, n) \in 0..Len(g.stack)  BY <1>1, <2>1, PieceIs
  <2>3. SubSeq(h.stack, Base(st, g, n) + 1, Len(g.stack) + 1)
           = Append(SubSeq(g.stack, Base(st, g, n) + 1, Len(g.stack)), item)
    <3>1. Len(g.stack) \in 0..Len(g.stack) /\ Len(g.stack) + 1 <= Len(h.stack)  BY <1>2
    <3> QED  BY <1>2, <2>2, <3>1, LongerSlice
  <2>4. o[n] = Piece(st, g, n)  BY <1>1
  <2> DEFINE old == SubSeq(g.stack, Base(st, g, n) + 1, Len(g.stack))
             new == SubSeq(h.stack, Base(st, g, n) + 1, Len(g.stack) + 1)
  <2>5. o[n] = [kind |-> st[n].kind, items |-> old]  BY <2>1, <2>4 DEF Piece
  <2>6. Piece(st, h, n) = [kind |-> st[n].kind, items |-> new]  BY <1>2, <2>1 DEF Piece
  <2>7. new = Append(old, item)  BY <2>3
  <2> HIDE DEF o, old, new
  <2>8. o[n].kind = st[n].kind /\ o[n].items = old  BY <2>5
  <2> QED  BY <2>6, <2>7, <2>8
<1>5. last \in Pieces
  <2> HIDE DEF last
  <2> QED  BY <1>1, <1>4, PieceIs
<1> HIDE DEF o, q, n, last
<1>6. /\ [o EXCEPT ![n] = last] \in Seq(Pieces) /\ Len([o EXCEPT ![n] = last]) = n
      /\ \A k \in 1..n : [o EXCEPT ![n] = last][k] = IF k = n THEN last ELSE o[k]
  BY <1>1, <1>5, ExceptSeq
<1>7. q = [o EXCEPT ![n] = last]
  <2>1. \A k \in 1..n : q[k] = [o EXCEPT ![n] = last][k]  BY <1>1, <1>3, <1>4, <1>6
  <2> QED  BY <1>1, <1>6, <2>1, SeqEqual
<1>8. Tree!With(o, item) = [o EXCEPT ![n] = last]  <2>1. Len(o) > 0 /\ Len(o) = n  BY <1>1
  <2>2. Tree!With(o, item) = [o EXCEPT ![Len(o)] =
            [kind |-> o[Len(o)].kind, items |-> Append(o[Len(o)].items, item)]]
    BY <1>1, <2>1, WithIs
  <2> QED  BY <2>1, <2>2, Zenon DEF last
<1> QED  BY <1>7, <1>8 DEF o, q

\* begin_array and begin_object: one container more, without elements.
LEMMA OpenedBegin ==
    ASSUME NEW st, NEW g, Deep(st, g), NEW t, Deep(t, OnBegin(g)),
           NEW kind \in {"array", "object"},
           t = Append(st, [kind |-> kind, index |-> 0])
    PROVE  Opened(t, OnBegin(g)) = Append(Opened(st, g), [kind |-> kind, items |-> << >>])
<1> DEFINE h == OnBegin(g)  n == Len(st)  o == Opened(st, g)  q == Opened(t, h)
           last == [kind |-> kind, items |-> << >>]
<1>1. /\ n \in Nat /\ Len(g.markers) \in Nat /\ Len(g.stack) \in Nat
      /\ n <= Len(g.markers) /\ g.stack \in Seq(Items)
  BY LenOf DEF Deep, Nested, Generators
<1>2. /\ h.stack = g.stack /\ Len(h.markers) = Len(g.markers) + 1
      /\ h.markers[Len(g.markers) + 1] = Len(g.stack)
      /\ \A i \in 1..Len(g.markers) : h.markers[i] = g.markers[i]
  <2>1. h.stack = g.stack  BY DEF OnBegin, Deep, Nested, Generators
  <2> QED  BY <2>1, Beginning DEF Deep
<1>3. /\ Len(t) = n + 1 /\ t[n + 1].kind = kind
      /\ \A k \in 1..n : t[k] = st[k]
  <2>1. t[n + 1] = [kind |-> kind, index |-> 0] /\ Len(t) = n + 1 /\ \A k \in 1..n : t[k] = st[k]
    BY <1>1 DEF Deep
  <2> QED  BY <2>1
<1>4. /\ o \in Seq(Pieces) /\ Len(o) = n /\ \A k \in 1..n : o[k] = Piece(st, g, k)
      /\ q \in Seq(Pieces) /\ Len(q) = n + 1 /\ \A k \in 1..(n + 1) : q[k] = Piece(t, h, k)
  <2>1. o \in Seq(Pieces) /\ Len(o) = n /\ \A k \in 1..n : o[k] = Piece(st, g, k)
    BY OpenedIs
  <2>2. q \in Seq(Pieces) /\ Len(q) = Len(t) /\ \A k \in 1..Len(t) : q[k] = Piece(t, h, k)
    BY OpenedIs
  <2> HIDE DEF o, q, h
  <2> QED  BY <1>3, <2>1, <2>2
<1> HIDE DEF h
<1>5. ASSUME NEW k \in 1..n  PROVE Piece(t, h, k) = Piece(st, g, k)
  <2> DEFINE i == Len(g.markers) - n + k
  <2>0. \A a, b \in Nat : \A j \in 1..b : b <= a =>
            /\ a - b + j \in 1..a /\ (j # b => a - b + j + 1 \in 1..a)
            /\ (j = b => a - b + j = a) /\ j # b + 1
            /\ (a + 1) - (b + 1) + j = a - b + j
    OBVIOUS
  <2>1. /\ i \in 1..Len(g.markers) /\ (k # n => i + 1 \in 1..Len(g.markers))
        /\ (k = n => i = Len(g.markers)) /\ k # n + 1
        /\ (Len(g.markers) + 1) - (n + 1) + k = i
    <3> HIDE DEF n
    <3> QED  BY <1>1, <2>0
  <2>2. Len(h.markers) - Len(t) + k = i
    <3> HIDE DEF n, i
    <3> QED  BY <1>2, <1>3, <2>1
  <2> HIDE DEF i
  <2>3. Base(t, h, k) = Base(st, g, k)
    <3>1. Base(t, h, k) = h.markers[i] /\ Base(st, g, k) = g.markers[i]  BY <2>2 DEF Base, i
    <3> QED  BY <1>2, <2>1, <3>1
  <2>4. Bound(t, h, k) = Bound(st, g, k)
    <3>1. Bound(t, h, k) = h.markers[i + 1]  BY <1>3, <2>1, <2>2 DEF Bound
    <3>2. CASE k = n
      <4>1. Bound(st, g, k) = Len(g.stack)  BY <3>2 DEF Bound
      <4> QED  BY <1>2, <2>1, <3>1, <3>2, <4>1
    <3>3. CASE k # n
      <4>1. Bound(st, g, k) = g.markers[i + 1]  BY <3>3 DEF Bound, i
      <4> QED  BY <1>2, <2>1, <3>1, <3>3, <4>1
    <3> QED  BY <3>2, <3>3
  <2> QED  BY <1>2, <1>3, <2>3, <2>4 DEF Piece
<1>6. Piece(t, h, n + 1) = last
  <2>1. Bound(t, h, n + 1) = Len(g.stack)  BY <1>2, <1>3 DEF Bound
  <2>2. Base(t, h, n + 1) = Len(g.stack)
    <3>1. Len(h.markers) - Len(t) + (n + 1) = Len(g.markers) + 1  BY <1>1, <1>2, <1>3
    <3> QED  BY <1>2, <3>1 DEF Base
  <2>3. SubSeq(g.stack, Len(g.stack) + 1, Len(g.stack)) = << >>
    <3>1. Len(g.stack) + 1 \in Int /\ Len(g.stack) \in Int /\ Len(g.stack) < Len(g.stack) + 1  BY <1>1
    <3> QED  BY <3>1, SubSeqEmpty
  <2> QED  BY <1>2, <1>3, <2>1, <2>2, <2>3 DEF Piece
<1>7. last \in Pieces  BY EmptySeq DEF Pieces
<1> HIDE DEF o, q, n, last
<1>8. /\ Append(o, last) \in Seq(Pieces) /\ Len(Append(o, last)) = n + 1
      /\ Append(o, last)[n + 1] = last /\ \A k \in 1..n : Append(o, last)[k] = o[k]
  BY <1>4, <1>7, AppendProperties
<1>9. \A k \in 1..(n + 1) : q[k] = Append(o, last)[k]
  <2> TAKE k \in 1..(n + 1)
  <2>1. k \in 1..n \/ k = n + 1  BY <1>1
  <2> QED  BY <1>4, <1>5, <1>6, <1>8, <2>1
<1>10. q = Append(o, last)  BY <1>4, <1>8, <1>9, SeqEqual
<1> QED  BY <1>10 DEF o, q, last, h

\* end_array and end_object: the container around gets one element more.
LEMMA OpenedEnd ==
    ASSUME NEW st, NEW g, Deep(st, g), Len(st) > 1,
           NEW t, t = SubSeq(st, 1, Len(st) - 1), Deep(t, OnEnd(g))
    PROVE  LET o == Opened(st, g)
           IN  Opened(t, OnEnd(g)) = Tree!With(SubSeq(o, 1, Len(o) - 1), Value)
<1> DEFINE h == OnEnd(g)  n == Len(st)  o == Opened(st, g)  q == Opened(t, h)
           r == SubSeq(o, 1, n - 1)  m == Marker(g)
           last == [kind |-> r[n - 1].kind, items |-> Append(r[n - 1].items, Value)]
<1>1. /\ n \in Nat /\ n > 1 /\ Len(g.markers) \in Nat /\ Len(g.stack) \in Nat
      /\ n <= Len(g.markers) /\ g.stack \in Seq(Items) /\ Value \in Items
  BY LenOf DEF Deep, Nested, Generators, Items
<1>2. /\ Len(h.stack) = m + 1 /\ h.stack[m + 1] = Value /\ h.stack \in Seq(Items)
      /\ Len(h.markers) = Len(g.markers) - 1
      /\ \A i \in 1..(Len(g.markers) - 1) : h.markers[i] = g.markers[i]
      /\ \A i \in 1..m : h.stack[i] = g.stack[i]
  <2>1. Nested(g) /\ Len(g.markers) > 0  BY <1>1 DEF Deep
  <2> QED  BY <2>1, Ending DEF Nested, Generators
<1>3. Len(t) = n - 1 /\ \A k \in 1..(n - 1) : t[k] = st[k]
  <2>1. n - 1 \in 0..n  BY <1>1
  <2> QED  BY <2>1, Prefix DEF Deep
<1>4. /\ o \in Seq(Pieces) /\ Len(o) = n /\ \A k \in 1..n : o[k] = Piece(st, g, k)
      /\ q \in Seq(Pieces) /\ Len(q) = n - 1 /\ \A k \in 1..(n - 1) : q[k] = Piece(t, h, k)
  BY <1>3, OpenedIs
<1>5. m = Base(st, g, n) /\ m = Bound(st, g, n - 1) /\ m \in 0..Len(g.stack)
  <2>1. Len(g.markers) - n + n = Len(g.markers) /\ Len(g.markers) - n + (n - 1) + 1 = Len(g.markers)
        /\ n - 1 # n /\ n - 1 \in 1..n
    BY <1>1
  <2>2. m = Base(st, g, n) /\ m = Bound(st, g, n - 1)  BY <2>1 DEF Base, Bound, Marker
  <2> QED  BY <2>1, <2>2, PieceIs
<1> HIDE DEF h, m
<1>6. ASSUME NEW k \in 1..(n - 1)
      PROVE  /\ t[k].kind = st[k].kind /\ Base(t, h, k) = Base(st, g, k)
             /\ Bound(st, g, k) \in 0..m /\ Base(st, g, k) \in 0..Bound(st, g, k)
             /\ k # n - 1 => Bound(t, h, k) = Bound(st, g, k)
             /\ k = n - 1 => Bound(t, h, k) = m + 1 /\ Bound(st, g, k) = m
  <2> DEFINE i == Len(g.markers) - n + k
  <2>1. /\ i \in 1..(Len(g.markers) - 1) /\ (k # n - 1 => i + 1 \in 1..(Len(g.markers) - 1))
        /\ k \in 1..n /\ k # n /\ k + 1 \in 1..n /\ i + 1 <= Len(g.markers)
        /\ i + 1 \in 1..Len(g.markers) /\ Len(g.markers) \in 1..Len(g.markers)
    BY <1>1
  <2>0. \A a, b \in Nat : \A j \in 1..b : (a - 1) - (b - 1) + j = a - b + j
    OBVIOUS
  <2>2. Len(h.markers) - Len(t) + k = i
    <3>1. (Len(g.markers) - 1) - (n - 1) + k = i
      <4> HIDE DEF n
      <4> QED  BY <1>1, <2>0, <2>1
    <3> HIDE DEF n, i
    <3> QED  BY <1>2, <1>3, <3>1
  <2> HIDE DEF i
  <2>3. Base(t, h, k) = Base(st, g, k)
    <3>1. Base(t, h, k) = h.markers[i] /\ Base(st, g, k) = g.markers[i]  BY <2>2 DEF Base, i
    <3> QED  BY <1>2, <2>1, <3>1
  <2>4. Bound(st, g, k) = g.markers[i + 1]  BY <2>1 DEF Bound, i
  <2>5. k # n - 1 => Bound(t, h, k) = Bound(st, g, k)
    <3>1. k # n - 1 => Bound(t, h, k) = h.markers[i + 1]  BY <1>3, <2>2 DEF Bound
    <3> QED  BY <1>2, <2>1, <2>4, <3>1
  <2>6. k = n - 1 => Bound(t, h, k) = m + 1 /\ Bound(st, g, k) = m
    <3>1. k = n - 1 => Bound(t, h, k) = Len(h.stack)  BY <1>3 DEF Bound
    <3> QED  BY <1>2, <1>5, <3>1
  <2>7. g.markers[i + 1] <= m  BY <2>1 DEF Deep, Nested, Marker, m
  <2>8. Bound(st, g, k) \in 0..Len(g.stack) /\ Base(st, g, k) \in 0..Bound(st, g, k)
    BY <2>1, PieceIs
  <2> QED  BY <1>1, <1>3, <1>5, <2>3, <2>4, <2>5, <2>6, <2>7, <2>8
<1>7. /\ r \in Seq(Pieces) /\ Len(r) = n - 1 /\ \A k \in 1..(n - 1) : r[k] = o[k]
  <2>1. n - 1 \in 0..Len(o)  BY <1>1, <1>4
  <2> HIDE DEF o, n
  <2> QED  BY <1>4, <2>1, Prefix
<1>8. ASSUME NEW k \in 1..(n - 1), k # n - 1  PROVE Piece(t, h, k) = Piece(st, g, k)
  <2>1. /\ t[k].kind = st[k].kind /\ Base(t, h, k) = Base(st, g, k) /\ Bound(t, h, k) = Bound(st, g, k)
        /\ Bound(st, g, k) \in 0..m /\ Base(st, g, k) \in 0..Bound(st, g, k)
    BY <1>6, <1>8
  <2>2. SubSeq(g.stack, Base(st, g, k) + 1, Bound(st, g, k))
           = SubSeq(h.stack, Base(st, g, k) + 1, Bound(st, g, k))
    <3>1. /\ Bound(st, g, k) \in 0..Len(g.stack) /\ Bound(st, g, k) <= Len(h.stack)
          /\ \A p \in 1..Bound(st, g, k) : g.stack[p] = h.stack[p]
      BY <1>1, <1>2, <1>5, <2>1
    <3> QED  BY <1>1, <1>2, <2>1, <3>1, SameSlice
  <2> QED  BY <2>1, <2>2 DEF Piece
<1>9. Piece(t, h, n - 1) = last
  <2> DEFINE b == Base(st, g, n - 1)
             old == SubSeq(g.stack, b + 1, m)
             new == SubSeq(h.stack, b + 1, m + 1)
  <2>1. /\ n - 1 \in 1..(n - 1) /\ t[n - 1].kind = st[n - 1].kind /\ Base(t, h, n - 1) = b
        /\ Bound(t, h, n - 1) = m + 1 /\ Bound(st, g, n - 1) = m /\ b \in 0..m
    <3>1. n - 1 \in 1..(n - 1)  BY <1>1
    <3> QED  BY <1>6, <3>1
  <2>2. new = Append(old, Value)
    <3>1. m \in 0..Len(g.stack) /\ m + 1 <= Len(h.stack) /\ \A p \in 1..m : g.stack[p] = h.stack[p]
      BY <1>1, <1>2, <1>5
    <3> HIDE DEF b
    <3>a. g.stack \in Seq(Items) /\ h.stack \in Seq(Items) /\ b \in 0..m
      BY <1>1, <1>2, <2>1
    <3>2. SubSeq(h.stack, b + 1, m + 1) = Append(SubSeq(g.stack, b + 1, m), h.stack[m + 1])
      BY <3>a, <3>1, LongerSlice
    <3> QED  BY <1>2, <3>2, Zenon
  <2>3. r[n - 1] = Piece(st, g, n - 1)
    <3>1. n - 1 \in 1..n  BY <1>1
    <3> QED  BY <1>4, <1>7, <2>1, <3>1
  <2>4. Piece(st, g, n - 1) = [kind |-> st[n - 1].kind, items |-> old]  BY <2>1 DEF Piece
  <2>5. Piece(t, h, n - 1) = [kind |-> st[n - 1].kind, items |-> new]  BY <2>1 DEF Piece
  <2> HIDE DEF old, new, r
  <2>6. r[n - 1].kind = st[n - 1].kind /\ r[n - 1].items = old  BY <2>3, <2>4
  <2> QED  BY <2>2, <2>5, <2>6
<1>10. Tree!With(r, Value) = [r EXCEPT ![n - 1] = last] /\ last \in Pieces
  <2>1. Len(r) > 0 /\ Len(r) = n - 1  BY <1>1, <1>7
  <2>2. /\ Tree!With(r, Value) = [r EXCEPT ![Len(r)] =
              [kind |-> r[Len(r)].kind, items |-> Append(r[Len(r)].items, Value)]]
        /\ [kind |-> r[Len(r)].kind, items |-> Append(r[Len(r)].items, Value)] \in Pieces
    BY <1>1, <1>7, <2>1, WithIs
  <2> QED  BY <2>1, <2>2, Zenon DEF last
<1> HIDE DEF o, q, r, n, last
<1>11. /\ [r EXCEPT ![n - 1] = last] \in Seq(Pieces) /\ Len([r EXCEPT ![n - 1] = last]) = n - 1
       /\ \A k \in 1..(n - 1) : [r EXCEPT ![n - 1] = last][k] = IF k = n - 1 THEN last ELSE r[k]
  <2>1. n - 1 \in 1..Len(r)  BY <1>1, <1>7
  <2> QED  BY <1>7, <1>10, <2>1, ExceptSeq
<1>12. q = [r EXCEPT ![n - 1] = last]
  <2>1. \A k \in 1..(n - 1) : q[k] = [r EXCEPT ![n - 1] = last][k]
    <3> TAKE k \in 1..(n - 1)
    <3>1. k \in 1..n  BY <1>1
    <3> QED  BY <1>4, <1>7, <1>8, <1>9, <1>11, <3>1
  <2> QED  BY <1>4, <1>11, <2>1, SeqEqual
<1>13. q = Tree!With(r, Value)  BY <1>10, <1>12
<1> QED  BY <1>4, <1>13 DEF o, q, r, n, h

-----------------------------------------------------------------------------
(* Keys and values in turn                                                 *)

Alternates(s) == \A p \in 1..Len(s) : IF p % 2 = 1 THEN s[p] \in Keys ELSE s[p] = Value

\* The objects are made of keys and values in turn; in each one around another
\* container a key waits for its value, and in the innermost one if a value is
\* expected next.
Proper(o, next) ==
    \A k \in 1..Len(o) :
        o[k].kind = "object" =>
            /\ Alternates(o[k].items)
            /\ Tree!Even(o[k].items) <=> (k = Len(o) /\ next = "key")

LEMMA TopIs ==
    ASSUME NEW o \in Seq(Pieces), Len(o) > 0
    PROVE  Len(o) \in Nat /\ Len(o) \in 1..Len(o) /\ Tree!Last(o) = o[Len(o)] /\ o[Len(o)] \in Pieces
<1>1. Len(o) \in Nat /\ Len(o) \in 1..Len(o)  BY LenOf
<1> QED  BY <1>1, ElementOfSeq DEF Tree!Last

\* Keys and values stay in turn when the one that is due comes next.
LEMMA Alternating ==
    ASSUME NEW s \in Seq(Items), Alternates(s), NEW item \in Items,
           IF Tree!Even(s) THEN item \in Keys ELSE item = Value
    PROVE  /\ Alternates(Append(s, item))
           /\ Tree!Even(Append(s, item)) <=> ~Tree!Even(s)
<1> DEFINE t == Append(s, item)
<1>1. /\ Len(s) \in Nat /\ Len(t) = Len(s) + 1 /\ t[Len(s) + 1] = item
      /\ \A p \in 1..Len(s) : t[p] = s[p]
  BY LenOf, AppendProperties
<1> HIDE DEF t
<1>2. Tree!Even(t) <=> ~Tree!Even(s)
  <2>1. \A n \in Nat : (n + 1) % 2 = 0 <=> ~(n % 2 = 0)  OBVIOUS
  <2> QED  BY <1>1, <2>1 DEF Tree!Even
<1>3. ASSUME NEW p \in 1..Len(t)
      PROVE  IF p % 2 = 1 THEN t[p] \in Keys ELSE t[p] = Value
  <2>0. p = Len(s) + 1 \/ p \in 1..Len(s)  BY <1>1
  <2>1. CASE p = Len(s) + 1
    <3>1. \A n \in Nat : (n + 1) % 2 = 1 <=> n % 2 = 0  OBVIOUS
    <3>2. p % 2 = 1 <=> Tree!Even(s)  BY <1>1, <2>1, <3>1 DEF Tree!Even
    <3> QED  BY <1>1, <2>1, <3>2
  <2>2. CASE p \in 1..Len(s)  BY <1>1, <2>2 DEF Alternates
  <2> QED  BY <2>0, <2>1, <2>2
<1>4. Alternates(t)  BY <1>3 DEF Alternates
<1> QED  BY <1>2, <1>4 DEF t

LEMMA WithProper ==
    ASSUME NEW o \in Seq(Pieces), Len(o) > 0, NEW item \in Items,
           NEW next, NEW then, Proper(o, next),
           \/ next = "value" /\ then = "key" /\ item = Value
           \/ next = "key" /\ then = "value" /\ item \in Keys
    PROVE  Proper(Tree!With(o, item), then)
<1> DEFINE n == Len(o)
           last == [kind |-> o[n].kind, items |-> Append(o[n].items, item)]
           q == [o EXCEPT ![n] = last]
<1>1. n \in 1..n /\ o[n] \in Pieces  BY TopIs
<1>2. Tree!With(o, item) = q /\ last \in Pieces  BY WithIs
<1>3. last.kind = o[n].kind /\ last.items = Append(o[n].items, item)  OBVIOUS
<1> HIDE DEF last
<1>4. Len(q) = n /\ \A k \in 1..n : q[k] = IF k = n THEN last ELSE o[k]
  BY <1>1, <1>2, ExceptSeq
<1> HIDE DEF q
<1>5. ASSUME NEW k \in 1..n, q[k].kind = "object"
      PROVE  Alternates(q[k].items) /\ (Tree!Even(q[k].items) <=> (k = n /\ then = "key"))
  <2>1. CASE k = n
    <3>1. q[k] = last /\ o[n].kind = "object"  BY <1>3, <1>4, <1>5, <2>1
    <3>2. Alternates(o[n].items) /\ (Tree!Even(o[n].items) <=> next = "key")
      BY <1>1, <3>1 DEF Proper
    <3>3. o[n].items \in Seq(Items)  BY <1>1 DEF Pieces
    <3>4. Alternates(last.items) /\ (Tree!Even(last.items) <=> ~Tree!Even(o[n].items))
      BY <1>3, <3>2, <3>3, Alternating
    <3> QED  BY <2>1, <3>1, <3>2, <3>4
  <2>2. CASE k # n
    <3>1. q[k] = o[k]  BY <1>4, <2>2
    <3> QED  BY <1>5, <2>2, <3>1 DEF Proper
  <2> QED  BY <2>1, <2>2
<1>6. Proper(q, then)  BY <1>4, <1>5 DEF Proper
<1> QED  BY <1>2, <1>6

\* A container is opened where a value is due.
LEMMA OpenProper ==
    ASSUME NEW o \in Seq(Pieces), NEW kind \in {"array", "object"},
           Len(o) = 0 \/ Proper(o, "value")
    PROVE  Proper(Append(o, [kind |-> kind, items |-> << >>]), "key")
<1> DEFINE n == Len(o)  last == [kind |-> kind, items |-> << >>]  q == Append(o, last)
<1>1. last \in Pieces  BY EmptySeq DEF Pieces
<1>2. Alternates(last.items) /\ Tree!Even(last.items)
  <2>1. Len(last.items) = 0  BY EmptySeq
  <2>2. 0 % 2 = 0  OBVIOUS
  <2> HIDE DEF last
  <2> QED  BY <2>1, <2>2 DEF Alternates, Tree!Even
<1> HIDE DEF last
<1>3. n \in Nat /\ Len(q) = n + 1 /\ q[n + 1] = last /\ \A k \in 1..n : q[k] = o[k]
  BY <1>1, LenOf, AppendProperties
<1> HIDE DEF q, n
<1>4. ASSUME NEW k \in 1..(n + 1), q[k].kind = "object"
      PROVE  Alternates(q[k].items) /\ (Tree!Even(q[k].items) <=> k = n + 1)
  <2>0. k = n + 1 \/ (k \in 1..n /\ k # n + 1)  BY <1>3
  <2>1. CASE k = n + 1  BY <1>2, <1>3, <2>1
  <2>2. CASE k \in 1..n /\ k # n + 1
    <3>1. Len(o) # 0  BY <1>3, <2>2 DEF n
    <3>2. Proper(o, "value")  BY <3>1
    <3> QED  BY <1>3, <1>4, <2>2, <3>2 DEF Proper, n
  <2> QED  BY <2>0, <2>1, <2>2
<1>5. Proper(q, "key")  BY <1>3, <1>4 DEF Proper
<1> QED  BY <1>5 DEF q, last

\* The container around one that is closed waits for a value.
LEMMA ShorterProper ==
    ASSUME NEW o \in Seq(Pieces), Len(o) > 1, NEW next, Proper(o, next)
    PROVE  LET r == SubSeq(o, 1, Len(o) - 1)
           IN  r \in Seq(Pieces) /\ Len(r) > 0 /\ Proper(r, "value")
<1> DEFINE n == Len(o)  r == SubSeq(o, 1, n - 1)
<1>1. n \in Nat /\ n > 1  BY LenOf
<1>2. n - 1 \in 0..n /\ n - 1 > 0  BY <1>1
<1>3. r \in Seq(Pieces) /\ Len(r) = n - 1 /\ \A k \in 1..(n - 1) : r[k] = o[k]
  BY <1>2, Prefix
<1> HIDE DEF r, n
<1>4. ASSUME NEW k \in 1..(n - 1)  PROVE k \in 1..n /\ k # n
  BY <1>1
<1>5. Proper(r, "value")  BY <1>3, <1>4 DEF Proper, n
<1> QED  BY <1>2, <1>3, <1>5 DEF r, n

\* In an array the next element is always a value.
LEMMA ArrayProper ==
    ASSUME NEW o \in Seq(Pieces), NEW next, NEW then, Proper(o, next),
           Len(o) = 0 \/ o[Len(o)].kind = "array" \/ next = then
    PROVE  Proper(o, then)
BY DEF Proper

\* Without two equal keys among the inserted ones, all keys are different.
LEMMA DistinctKeys ==
    ASSUME NEW g, Nested(g), Len(g.markers) > 0, ~HasDuplicates(g),
           NEW c, c.items = Inserted(g), Alternates(c.items), Tree!Even(c.items)
    PROVE  Tree!Distinct(c)
<1> DEFINE s == c.items  n == Len(s)
<1>1. s \in Seq(Items)
  <2>1. Len(g.markers) \in 1..Len(g.markers) /\ Len(g.stack) \in Nat /\ g.stack \in Seq(Items)
    BY LenOf DEF Nested, Generators
  <2>2. Marker(g) \in 0..Len(g.stack) /\ Len(g.stack) \in 0..Len(g.stack)
    BY <2>1, ElementOfSeq DEF Marker, Nested, Generators
  <2> QED  BY <2>1, <2>2, Slice DEF Inserted
<1>2. n \in Nat /\ n % 2 = 0  BY <1>1, LenOf DEF Tree!Even
<1>3. \A a, b \in 1..(n \div 2) : a # b => s[2 * a - 1] # s[2 * b - 1]
  BY DEF HasDuplicates
<1>4. \A p \in 1..n : IF p % 2 = 1 THEN s[p] \in Keys ELSE s[p] = Value
  BY DEF Alternates
<1> HIDE DEF s, n
<1>5. ASSUME NEW i \in 1..n, NEW j \in 1..n, i # j, s[i] \in Keys, s[i] = s[j]
      PROVE  FALSE
  <2>1. i % 2 = 1 /\ j % 2 = 1  BY <1>4, <1>5, ItemsAssumption
  <2>2. ASSUME NEW m \in Nat, m % 2 = 0, NEW p \in 1..m, p % 2 = 1
        PROVE  \E a \in 1..(m \div 2) : p = 2 * a - 1
    <3>1. ((p + 1) \div 2) \in 1..(m \div 2) /\ p = 2 * ((p + 1) \div 2) - 1  BY <2>2
    <3> QED  BY <3>1
  <2>3. PICK a \in 1..(n \div 2) : i = 2 * a - 1  BY <1>2, <2>1, <2>2
  <2>4. PICK b \in 1..(n \div 2) : j = 2 * b - 1  BY <1>2, <2>1, <2>2
  <2>5. a # b  BY <1>5, <2>3, <2>4
  <2> QED  BY <1>3, <1>5, <2>3, <2>4, <2>5
<1> QED  BY <1>5 DEF Tree!Distinct, s, n

-----------------------------------------------------------------------------
(* The parser keeps keys and values in turn                                *)

\* What the innermost container gets next.
Awaited == IF pc \in {"value", "counted"} \cup InsideNumber \/ InData THEN "value" ELSE "key"

TreeInv == err = "none" /\ pc # "ended" => Proper(Opened(stack, sa), Awaited)

\* Members and keys are read in objects only, the next value in arrays.
KindInv ==
    /\ pc \in {"member", "colon"} => InObject
    /\ pc \in InsideString /\ ~buf.partial => InObject
    /\ pc = "next" => InArray

LEMMA KindsStay ==
    ASSUME stack \in Seq(Frames), Len(stack) > 0, stack' = stack \/ NextElement
    PROVE  /\ Len(stack') = Len(stack) /\ \A k \in 1..Len(stack) : stack'[k].kind = stack[k].kind
           /\ (InObject => InObject') /\ (InArray => InArray')
<1> DEFINE n == Len(stack)
<1>1. n \in Nat /\ n \in 1..n /\ \A k \in 1..n : stack[k] \in Frames  BY LenOf, ElementOfSeq
<1>2. Len(stack') = n /\ \A k \in 1..n : stack'[k].kind = stack[k].kind
  <2>1. CASE stack' = stack  BY <2>1
  <2>2. CASE NextElement
    <3> DEFINE next == [stack[n] EXCEPT !.index = @ + 1]
    <3>1. next.kind = stack[n].kind  BY <1>1 DEF Frames
    <3>2. stack' = [stack EXCEPT ![n] = next]  BY <2>2 DEF NextElement
    <3> HIDE DEF next
    <3>3. \A k \in 1..n : stack'[k] = IF k = n THEN next ELSE stack[k]  BY <1>1, <3>2
    <3>4. Len(stack') = n  BY <2>2, LengthMoves
    <3> QED  BY <3>1, <3>3, <3>4
  <2> QED  BY <2>1, <2>2
<1>3. stack' # << >> /\ Top'.kind = Top.kind
  <2>1. stack' # << >>
    <3>1. stack' = << >> => Len(stack') = 0  BY EmptySeq
    <3> QED  BY <1>2, <3>1
  <2> QED  BY <1>1, <1>2, <2>1 DEF Top
<1> QED  BY <1>2, <1>3 DEF InObject, InArray

LEMMA KindStep ==
    ASSUME TypeInv, StackInv, MarkersInv, KindInv, [Next]_vars
    PROVE  KindInv'
<1> USE DEF Goto
<1>0. stack \in Seq(Frames) /\ Held(buf) /\ Nested(sa) /\ want \in Int
  BY DEF StackInv, TypeInv, MarkersInv
<1>a. Len(stack) > 0 => (InArray <=> ~InObject)
  <2> SUFFICES ASSUME Len(stack) > 0 PROVE InArray <=> ~InObject
    OBVIOUS
  <2>1. Top \in Frames /\ stack # << >>
    <3>1. Len(stack) \in 1..Len(stack) /\ stack # << >>  BY <1>0, LenOf, EmptySeq
    <3> QED  BY <1>0, <3>1, ElementOfSeq DEF Top
  <2> QED  BY <2>1 DEF InArray, InObject, Frames
<1>b. stack' = stack /\ Len(stack) > 0 => (InObject => InObject') /\ (InArray => InArray')
  BY <1>0, KindsStay
<1>c. pc' \notin {"member", "colon", "next"} \cup InsideString => KindInv'
  BY DEF KindInv
<1>1. CASE Empties
  <2>1. pc' \in {"ended", "value", "list", "failed"}
    BY <1>1 DEF Empties, Refuse, LoopEnd, ExtraCharacters, Overflow, Parsed, Finish, KeyValue,
                MemberError, BadNumber, StringError, EscapeRejected, EscapeError, FailValue, FailString
  <2> QED  BY <1>c, <2>1 DEF InsideString
<1>2. CASE First
  <2>1. /\ pc = "first" /\ stack' = stack
        /\ (pc' = "done" \/ pc' = "value" \/ (~InArray /\ pc' = "member"))
    BY <1>2 DEF First
  <2>2. Len(stack) > 0  BY <2>1 DEF StackInv, Inside
  <2>3. CASE ~InArray /\ pc' = "member"
    <3>1. InObject'  BY <1>a, <1>b, <2>1, <2>2, <2>3
    <3> QED  BY <2>3, <3>1 DEF KindInv, InsideString
  <2> QED  BY <1>c, <2>1, <2>3 DEF InsideString
<1>3. CASE Comma
  <2>1. /\ pc = "after"
        /\ \/ InArray /\ pc' = "next" /\ stack' = stack
           \/ ~InArray /\ pc' = "member" /\ NextElement
    BY <1>3 DEF Comma
  <2>2. Len(stack) > 0  BY <2>1 DEF StackInv, Inside
  <2>3. (pc' = "next" /\ InArray') \/ (pc' = "member" /\ InObject')
    BY <1>0, <1>a, <2>1, <2>2, KindsStay
  <2> QED  BY <2>3 DEF KindInv, InsideString
<1>4. CASE Key
  <2>1. pc = "member" /\ pc' = "string" /\ stack' = stack  BY <1>4, Zenon DEF Key
  <2>2. Len(stack) > 0  BY <2>1 DEF StackInv, Inside
  <2>3. InObject'  BY <1>b, <2>1, <2>2 DEF KindInv
  <2> QED  BY <2>1, <2>3 DEF KindInv
<1>5. CASE KeyEnd
  <2>1. pc = "closed" /\ ~buf.partial /\ pc' = "colon" /\ stack' = stack  BY <1>5 DEF KeyEnd
  <2>2. Len(stack) > 0 /\ InObject  BY <2>1 DEF StackInv, Inside, InsideString, KindInv
  <2>3. InObject'  BY <1>b, <2>1, <2>2
  <2> QED  BY <2>1, <2>3 DEF KindInv
<1>6. CASE String
  <2>1. pc' = "string" /\ buf'.partial
    <3>1. pc' = "string"  BY <1>6, Zenon DEF String
    <3> QED  BY <1>0, <1>6, <3>1, Clearing
  <2> QED  BY <2>1 DEF KindInv
<1>7. CASE Ascii \/ Unicode \/ Escape \/ Quad \/ LowQuad
  <2>1. PICK sent \in Nat, units \in 0..2 : Written(sent, units)
    BY <1>0, <1>7, StringGrows
  <2>2. pc \in InsideString /\ pc' = "string"
    BY <1>7 DEF Ascii, Unicode, Escape, Quad, LowQuad, InsideString
  <2>3. Len(stack) > 0  BY <2>2 DEF StackInv, Inside
  <2>4. stack' = stack /\ buf'.partial = buf.partial  BY <2>1 DEF Written
  <2>5. ~buf.partial => InObject'  BY <1>b, <2>2, <2>3, <2>4 DEF KindInv
  <2> QED  BY <2>2, <2>4, <2>5 DEF KindInv
<1>8. CASE Quote \/ Backslash \/ EscapeUnicode \/ HighSurrogate
  <2>1. pc \in InsideString /\ pc' \in InsideString /\ UNCHANGED <<stack, buf>>
    BY <1>8 DEF Quote, Backslash, EscapeUnicode, HighSurrogate, InsideString, Buffers
  <2>2. Len(stack) > 0  BY <2>1 DEF StackInv, Inside
  <2>3. ~buf.partial => InObject'  BY <1>b, <2>1, <2>2 DEF KindInv
  <2> QED  BY <2>1, <2>3 DEF KindInv, InsideString
<1>9. CASE SkipWhitespace \/ Cancel \/ UNCHANGED vars
  <2>1. UNCHANGED <<pc, stack, buf>>  BY <1>9 DEF SkipWhitespace, Cancel, vars, Buffers
  <2> QED  BY <2>1 DEF KindInv, InObject, InArray, Top
<1>10. CASE StringValue \/ NumberValue \/ NextValue \/ Closed
  <2>1. pc' \in {"after", "value", "done"}
    <3>1. CASE StringValue \/ NumberValue  BY <3>1, Zenon DEF StringValue, NumberValue
    <3>2. CASE NextValue \/ Closed  BY <3>2 DEF NextValue, Closed
    <3> QED  BY <1>10, <3>1, <3>2
  <2> QED  BY <1>c, <2>1 DEF InsideString
<1>11. CASE Number \/ NumberCharacter \/ NumberEnd
  <2>1. pc' \in InsideNumber \cup {"counted"}
    BY <1>11 DEF Number, NumberCharacter, NumberSteps, NumberEnd, InsideNumber
  <2> QED  BY <1>c, <2>1 DEF InsideString, InsideNumber
<1>12. CASE Run \/ Parse \/ ParseCanceled \/ ParseText \/ Begin \/ RootError
  <2>1. pc' \in {"start", "text", "parsed", "root", "first"}
    BY <1>12 DEF Run, Parse, ParseCanceled, ParseText, Begin, RootError
  <2> QED  BY <1>c, <2>1 DEF InsideString
<1>13. CASE RootEnd \/ EndValue
  <2>1. pc' \in {"parsed", "ended", "failed", "list", "after"}
    <3>1. CASE RootEnd
      <4>1. pc' = "parsed" \/ pc' = "ended"  BY <3>1, Zenon DEF RootEnd
      <4> QED  BY <4>1
    <3>2. CASE EndValue  BY <3>2 DEF EndValue
    <3> QED  BY <1>13, <3>1, <3>2
  <2> QED  BY <1>c, <2>1 DEF InsideString
<1>14. CASE FirstError \/ ArrayError \/ ObjectError \/ ListError \/ Unwind
  <2>1. pc' \in {"failed", "list", "parsed"}
    BY <1>14 DEF FirstError, ArrayError, ObjectError, ListError, Unwind
  <2> QED  BY <1>c, <2>1 DEF InsideString
<1>15. CASE Literal \/ ValueError \/ LookBehind \/ NextDocument
  <2>1. pc' \in {"after", "failed", "list", "trailing", "start"}
    BY <1>15 DEF Literal, ValueError, FailValue, LookBehind, NextDocument
  <2> QED  BY <1>c, <2>1 DEF InsideString
<1>16. CASE \E cleared \in BOOLEAN : Again(cleared)
  <2>1. pc' = "run"  BY <1>16, Zenon DEF Again
  <2> QED  BY <1>c, <2>1 DEF InsideString
<1> QED
  BY <1>1, <1>2, <1>3, <1>4, <1>5, <1>6, <1>7, <1>8, <1>9, <1>10, <1>11, <1>12, <1>13, <1>14,
     <1>15, <1>16, Zenon
     DEF Next, Step, Clear, Reuse, Empties, Document, Containers, Scalars, Strings, Loop

-----------------------------------------------------------------------------
(* The steps of the parser as steps of the tree                            *)

LEMMA OptStays ==
    ASSUME TypeInv, [Next]_vars
    PROVE  opt' = opt
<1> USE DEF Session
<1>1. CASE Empties  BY <1>1, Emptying DEF TypeInv
<1>2. CASE Passes  BY <1>2, Passing
<1>3. CASE Ascii \/ Unicode \/ Escape \/ Quad \/ LowQuad
  BY <1>3, Zenon DEF Ascii, Unicode, Escape, Quad, LowQuad
<1>4. CASE Quote \/ Backslash \/ EscapeUnicode \/ HighSurrogate \/ KeyEnd \/ Key \/ String
  BY <1>4, Zenon DEF Quote, Backslash, EscapeUnicode, HighSurrogate, KeyEnd, Key, String
<1>5. CASE StringValue \/ NumberValue \/ Number \/ NumberCharacter \/ NumberEnd
  BY <1>5, Zenon DEF StringValue, NumberValue, Number, NumberCharacter, NumberEnd
<1>6. CASE SkipWhitespace \/ Cancel \/ \E cleared \in BOOLEAN : Again(cleared)
  BY <1>6, Zenon DEF SkipWhitespace, Cancel, Again
<1>7. CASE UNCHANGED vars  BY <1>7 DEF vars
<1> QED
  BY <1>1, <1>2, <1>3, <1>4, <1>5, <1>6, <1>7, Zenon
     DEF Next, Step, Clear, Reuse, Empties, Passes, Document, Containers, Scalars, Strings, Loop

\* Where a run goes wrong or ends, the last result stays.
LEMMA ResultStays ==
    ASSUME TypeInv, StackInv, MarkersInv, PhaseInv, [Next]_vars, err' # "none" \/ pc' = "ended"
    PROVE  sa'.result = sa.result
<1> USE DEF Goto
<1>0. sa \in Generators /\ Nested(sa)  BY DEF MarkersInv, Nested
<1>1. CASE Building  BY <1>1, BuildingIsQuiet DEF Alike
<1>2. CASE Raises
  <2>1. \E code \in Codes : Raise(code)  BY <1>2, RaisesOne
  <2> QED  BY <1>0, <2>1, Reporting DEF Raise
<1>3. CASE Refuse \/ ExtraCharacters \/ Overflow
  <2>1. \E code \in Codes : Report(code)
    BY <1>3 DEF Refuse, ExtraCharacters, Overflow, Codes
  <2> QED  BY <1>0, <2>1, Reporting
<1>4. CASE LoopEnd \/ Parsed \/ MemberError \/ EscapeRejected
  BY <1>4 DEF LoopEnd, Parsed, MemberError, EscapeRejected, Fail
<1>5. CASE Parse  BY <1>0, <1>5, HandlersAlike DEF Parse
<1>6. CASE Literal
  <2>1. CASE sa' = OnLiteral(sa)  BY <1>0, <2>1, HandlersAlike DEF OnLiteral, Alike
  <2>2. CASE \E code \in Codes : Report(code)  BY <1>0, <2>2, Reporting
  <2> QED  BY <1>6, <2>1, <2>2 DEF Literal, Raise, Code, Codes
<1>7. CASE EndValue \/ RootEnd
  <2>1. pc = "done" /\ Len(stack) >= 1
    <3>1. pc = "done"  BY <1>7, Zenon DEF EndValue, RootEnd
    <3> QED  BY <3>1, LenOf DEF StackInv, Inside
  <2>2. Len(sa.markers) > 0
    BY <2>1, LenOf DEF StackInv, MarkersInv, Nested, Generators
  <2>3. OnEnd(sa) \in Generators /\ Nested(OnEnd(sa)) /\ OnEnd(sa).result = sa.result
    BY <1>0, <2>2, Ending, HandlersAlike DEF Nested, Alike
  <2>4. \/ sa' = OnEnd(sa)
        \/ sa' = OnError(OnEnd(sa), "keyExists")
        \/ sa' = OnError(OnEnd(sa), "unexpected")
        \/ Good /\ pc' = "parsed"
    BY <1>7, Zenon DEF EndValue, RootEnd
  <2>5. ~(Good /\ pc' = "parsed")  BY <2>1 DEF Good, PhaseInv
  <2>6. \A code : OnError(OnEnd(sa), code).result = sa.result
    BY <2>3 DEF OnError, Generators
  <2> QED  BY <2>3, <2>4, <2>5, <2>6
<1>8. CASE \E cleared \in BOOLEAN : Again(cleared)
  <2>1. pc' = "run" /\ err' = "none"  BY <1>8, Zenon DEF Again
  <2> QED  BY <2>1
<1>9. CASE Cancel  BY <1>0, <1>9 DEF Cancel, Generators
<1>10. CASE UNCHANGED vars  BY <1>10 DEF vars
<1> QED
  BY <1>1, <1>2, <1>3, <1>4, <1>5, <1>6, <1>7, <1>8, <1>9, <1>10, Zenon
     DEF Next, Step, Clear, Reuse, Building, Raises, Document, Containers, Scalars, Strings, Loop

\* A run that has failed or ended is only taken up again as a whole.
LEMMA Surviving ==
    ASSUME TypeInv, MarkersInv, PhaseInv, [Next]_vars, err' = "none", pc' # "ended",
           ~ \E cleared \in BOOLEAN : Again(cleared)
    PROVE  err = "none" /\ pc # "ended"
<1>1. CASE Empties
  <2>1. KeyValue  BY <1>1, Emptying DEF TypeInv
  <2> QED  BY <2>1 DEF KeyValue, PhaseInv
<1>2. CASE Passes  BY <1>2, PassingOn
<1>3. CASE Building  BY <1>3, BuildingIsQuiet, BuildingStays
<1>4. CASE Cancel \/ UNCHANGED vars  BY <1>4 DEF Cancel, vars, Good
<1> QED
  BY <1>1, <1>2, <1>3, <1>4, Zenon
     DEF Next, Step, Clear, Reuse, Building, Empties, Passes, Document, Containers, Scalars, Strings, Loop

\* Steps that read on without a change to what is being built.
Reading ==
    \/ Run \/ Parse \/ ParseText \/ First \/ Comma \/ NextValue \/ Closed \/ Key \/ KeyEnd
    \/ Number \/ NumberCharacter \/ NumberEnd
    \/ String \/ Ascii \/ Unicode \/ Quote
    \/ Backslash \/ Escape \/ EscapeUnicode \/ Quad \/ HighSurrogate \/ LowQuad
    \/ LookBehind \/ NextDocument \/ SkipWhitespace \/ Cancel \/ UNCHANGED vars

LEMMA ReadingIs ==
    ASSUME TypeInv, StackInv, MarkersInv, KindInv, Reading
    PROVE  /\ sa'.stack = sa.stack /\ sa'.markers = sa.markers /\ sa'.result = sa.result
           /\ stack' = stack \/ (Len(stack) > 0 /\ NextElement)
           /\ Awaited' = Awaited \/ (Len(stack) > 0 /\ InArray)
<1> USE DEF Goto
<1>0. /\ sa \in Generators /\ Nested(sa) /\ Held(buf) /\ want \in Int
      /\ \A p : p \in InsideString =>
            p \notin {"value", "counted"} \cup InsideNumber
  BY DEF MarkersInv, Nested, TypeInv, InsideString, InsideNumber
<1>1. CASE Run \/ Parse \/ ParseText
  <2>1. {pc, pc'} \subseteq Outside /\ stack' = stack /\ sa' \in {sa, OnParseBegin(sa)}
    BY <1>1 DEF Run, Parse, ParseText, Outside
  <2>2. Awaited = "key" /\ Awaited' = "key"
    BY <2>1 DEF Awaited, InData, Outside, InsideString, InsideNumber
  <2> QED  BY <1>0, <2>1, <2>2 DEF OnParseBegin, Generators
<1>2. CASE First
  <2>1. /\ pc = "first" /\ UNCHANGED <<stack, sa>>
        /\ (pc' \in {"done", "member"} \/ (pc' = "value" /\ InArray))
    BY <1>2 DEF First
  <2>2. Len(stack) > 0  BY <2>1 DEF StackInv, Inside
  <2>3. pc' \in {"done", "member"} => Awaited' = Awaited
    BY <2>1 DEF Awaited, InData, InsideString, InsideNumber
  <2> QED  BY <2>1, <2>2, <2>3
<1>3. CASE Comma
  <2>1. /\ pc = "after" /\ sa' = sa /\ pc' \in {"next", "member"}
        /\ stack' = stack \/ NextElement
    BY <1>3 DEF Comma
  <2>2. Len(stack) > 0  BY <2>1 DEF StackInv, Inside
  <2>3. Awaited' = Awaited  BY <2>1 DEF Awaited, InData, InsideString, InsideNumber
  <2> QED  BY <2>1, <2>2, <2>3
<1>4. CASE NextValue
  <2>1. pc = "next" /\ sa' = sa /\ NextElement  BY <1>4 DEF NextValue
  <2>2. Len(stack) > 0 /\ InArray  BY <2>1 DEF StackInv, Inside, KindInv
  <2> QED  BY <2>1, <2>2
<1>5. CASE Closed \/ LookBehind \/ NextDocument
  <2>1. {pc, pc'} \subseteq {"after", "done", "parsed", "trailing", "start"} /\ UNCHANGED <<stack, sa>>
    BY <1>5 DEF Closed, LookBehind, NextDocument
  <2> QED  BY <2>1 DEF Awaited, InData, InsideString, InsideNumber
<1>6. CASE Key
  <2>1. pc = "member" /\ pc' = "string" /\ UNCHANGED <<stack, sa>>  BY <1>6, Zenon DEF Key
  <2>2. ~buf'.partial  BY <1>0, <1>6, Clearing
  <2> QED  BY <2>1, <2>2 DEF Awaited, InData, InsideString, InsideNumber
<1>7. CASE KeyEnd
  <2>1. pc = "closed" /\ pc' = "colon" /\ ~buf.partial /\ UNCHANGED <<stack, sa>>
    BY <1>7 DEF KeyEnd
  <2> QED  BY <2>1 DEF Awaited, InData, InsideString, InsideNumber
<1>8. CASE Number \/ NumberCharacter \/ NumberEnd
  <2>1. {pc, pc'} \subseteq {"value", "counted"} \cup InsideNumber /\ UNCHANGED <<stack, sa>>
    BY <1>8 DEF Number, NumberCharacter, NumberEnd, NumberSteps, GoodNumber, InsideNumber
  <2>2. Awaited = "value" /\ Awaited' = "value"  BY <2>1 DEF Awaited
  <2> QED  BY <2>1, <2>2
<1>9. CASE String
  <2>1. pc = "value" /\ pc' = "string" /\ UNCHANGED <<stack, sa>>  BY <1>9, Zenon DEF String
  <2>2. buf'.partial  BY <1>0, <1>9, Clearing
  <2> QED  BY <2>1, <2>2 DEF Awaited, InData, InsideString
<1>10. CASE Ascii \/ Unicode \/ Escape \/ Quad \/ LowQuad
  <2>1. PICK sent \in Nat, units \in 0..2 : Written(sent, units)
    BY <1>0, <1>10, StringGrows
  <2>2. pc \in InsideString /\ pc' \in InsideString
    BY <1>10 DEF Ascii, Unicode, Escape, Quad, LowQuad, InsideString
  <2> QED  BY <1>0, <2>1, <2>2 DEF Written, Awaited, InData
<1>11. CASE Quote \/ Backslash \/ EscapeUnicode \/ HighSurrogate
  <2>1. pc \in InsideString /\ pc' \in InsideString /\ UNCHANGED <<stack, sa, buf>>
    BY <1>11 DEF Quote, Backslash, EscapeUnicode, HighSurrogate, InsideString, Buffers
  <2> QED  BY <1>0, <2>1 DEF Awaited, InData
<1>12. CASE SkipWhitespace \/ Cancel \/ UNCHANGED vars
  <2>1. UNCHANGED <<pc, stack, buf>> /\ sa' \in {sa, [sa EXCEPT !.canceled = TRUE]}
    BY <1>12 DEF SkipWhitespace, Cancel, vars, Buffers
  <2> QED  BY <1>0, <2>1 DEF Awaited, InData, Generators
<1> QED
  BY <1>1, <1>2, <1>3, <1>4, <1>5, <1>6, <1>7, <1>8, <1>9, <1>10, <1>11, <1>12 DEF Reading

\* Steps that hand over a scalar value.
Scalar == NumberValue \/ StringValue \/ (Literal /\ err' = "none")

LEMMA ScalarIs ==
    ASSUME TypeInv, StackInv, MarkersInv, PhaseInv, Scalar
    PROVE  /\ sa'.stack = Append(sa.stack, Value) /\ sa'.markers = sa.markers
           /\ sa'.result = sa.result /\ stack' = stack /\ Len(stack) > 0
           /\ Awaited = "value" /\ Awaited' = "key"
<1>0. sa \in Generators  BY DEF MarkersInv, Nested
<1>a. ASSUME NEW g, g \in {sa, [sa EXCEPT !.tmp = 0]}
      PROVE  LET h == Push(g, Value)
             IN  /\ h.stack = Append(sa.stack, Value) /\ h.markers = sa.markers
                 /\ h.result = sa.result
  BY <1>0, <1>a DEF Push, Generators
<1>b. pc' = "after" => Awaited' = "key"  BY DEF Awaited, InData, InsideString, InsideNumber
<1>1. CASE NumberValue
  <2>1. pc = "counted" /\ pc' = "after" /\ stack' = stack
    BY <1>1, Zenon DEF NumberValue, Goto
  <2>2. sa' = OnValueNumber(sa, num, opt.strings).actions  BY <1>1 DEF NumberValue
  <2>3. sa' = Push(sa, Value) \/ sa' = Push([sa EXCEPT !.tmp = 0], Value)
    BY <2>2 DEF OnValueNumber, OnValueString, Pushed
  <2>4. Len(stack) > 0 /\ Awaited = "value"  BY <2>1 DEF StackInv, Inside, Awaited
  <2> QED  BY <1>a, <1>b, <2>1, <2>3, <2>4
<1>2. CASE StringValue
  <2>1. pc = "closed" /\ buf.partial /\ pc' = "after" /\ stack' = stack
    BY <1>2, Zenon DEF StringValue, Goto
  <2>2. sa' = OnValueString(sa, buf.size, FALSE, opt.cached).actions
    BY <1>2, Zenon DEF StringValue
  <2>3. OnValueString(sa, buf.size, FALSE, opt.cached).actions
           \in {Push(sa, Value), Push([sa EXCEPT !.tmp = 0], Value)}
    BY DEF OnValueString, Pushed
  <2>4. Len(stack) > 0 /\ Awaited = "value"
    BY <2>1 DEF StackInv, Inside, Awaited, InData, InsideString
  <2> QED  BY <1>a, <1>b, <2>1, <2>2, <2>3, <2>4
<1>3. CASE Literal /\ err' = "none"
  <2>1. pc = "value" /\ stack' = stack
    BY <1>3 DEF Literal
  <2>2. pc' = "after" /\ sa' = Push(sa, Value)
    BY <1>3 DEF Literal, Goto, Raise, Code, OnLiteral
  <2>3. Len(stack) > 0 /\ Awaited = "value"  BY <2>1 DEF StackInv, Inside, Awaited
  <2> QED  BY <1>a, <1>b, <2>1, <2>2, <2>3
<1> QED  BY <1>1, <1>2, <1>3 DEF Scalar

LEMMA OpenNow ==
    ASSUME StackInv, MarkersInv, err = "none", pc # "ended"
    PROVE  Deep(stack, sa) /\ OpenContainers = Opened(stack, sa)
BY OpenIs DEF Deep, StackInv, MarkersInv

LEMMA OpenNext ==
    /\ StackInv' /\ MarkersInv' => Deep(stack', sa')
    /\ OpenContainers' =
          IF err' # "none" \/ pc' = "ended" THEN << >> ELSE Opened(stack', sa')
<1>1. StackInv' /\ MarkersInv' => Deep(stack', sa')
  BY DEF Deep, StackInv, MarkersInv, Nested
<1>2. OpenContainers' =
          IF err' # "none" \/ pc' = "ended" THEN << >> ELSE Opened(stack', sa')
  BY DEF OpenContainers, Opened, Piece, Base, Bound
<1> QED  BY <1>1, <1>2

LEMMA OpenEmpty ==
    ASSUME NEW st, NEW g, Deep(st, g), Len(st) = 0
    PROVE  Opened(st, g) = << >>
<1>1. Opened(st, g) \in Seq(Pieces) /\ Len(Opened(st, g)) = 0  BY OpenedIs
<1> QED  BY <1>1, LenOf

\* The innermost open container, seen from both sides.
LEMMA TopPiece ==
    ASSUME StackInv, MarkersInv, TreeInv, err = "none", pc # "ended", Len(stack) > 0
    PROVE  LET o == Opened(stack, sa)
               c == Tree!Last(o)
           IN  /\ o \in Seq(Pieces) /\ Len(o) = Len(stack) /\ o # << >>
               /\ c \in Pieces /\ c.items = Inserted(sa)
               /\ c.kind = "object" <=> InObject
               /\ c.kind = "array" <=> InArray
               /\ c = o[Len(o)] /\ Proper(o, Awaited)
               /\ InObject => Alternates(c.items) /\ (Tree!Even(c.items) <=> Awaited = "key")
               /\ Awaited = "value" => Tree!ExpectsValue(c)
<1> DEFINE o == Opened(stack, sa)  n == Len(stack)  c == Tree!Last(o)
<1>1. /\ Deep(stack, sa) /\ n \in Nat /\ n \in 1..n /\ stack \in Seq(Frames)
  BY OpenNow, LenOf DEF StackInv
<1>2. /\ o \in Seq(Pieces) /\ Len(o) = n
      /\ o[n] = Piece(stack, sa, n) /\ o[n].kind = stack[n].kind
  BY <1>1, OpenedIs
<1>3. c = o[n] /\ c \in Pieces /\ o # << >>
  BY <1>1, <1>2, TopIs, LenOf
<1>4. Proper(o, Awaited)  BY DEF TreeInv
<1>5. (InObject <=> stack[n].kind = "object") /\ (InArray <=> stack[n].kind = "array")
  BY <1>1, LenOf DEF InObject, InArray, Top
<1>6. o[n].items = Inserted(sa)
  <2>1. Len(sa.markers) \in Nat  BY <1>1, LenOf DEF Deep, Nested, Generators
  <2>2. Len(sa.markers) - n + n = Len(sa.markers)
    <3>1. \A a, b \in Nat : a - b + b = a  OBVIOUS
    <3> QED  BY <1>1, <2>1, <3>1
  <2>3. Base(stack, sa, n) = Marker(sa) /\ Bound(stack, sa, n) = Len(sa.stack)
    BY <2>2 DEF Base, Bound, Marker
  <2>4. Piece(stack, sa, n) = [kind |-> stack[n].kind, items |-> Inserted(sa)]
    BY <2>3, Zenon DEF Piece, Inserted
  <2> QED  BY <1>2, <2>4
<1> HIDE DEF o, c, n
<1>7. InObject => Alternates(c.items) /\ (Tree!Even(c.items) <=> Awaited = "key")
  <2> SUFFICES ASSUME InObject
               PROVE  Alternates(c.items) /\ (Tree!Even(c.items) <=> Awaited = "key")
    OBVIOUS
  <2>1. n \in 1..Len(o) /\ o[n].kind = "object"  BY <1>1, <1>2, <1>5
  <2> QED  BY <1>2, <1>3, <1>4, <2>1 DEF Proper
<1>8. Awaited = "value" => Tree!ExpectsValue(c)
  BY <1>2, <1>3, <1>5, <1>7 DEF Tree!ExpectsValue
<1> QED  BY <1>2, <1>3, <1>4, <1>5, <1>6, <1>7, <1>8 DEF o, c, n

LEMMA MayEnd ==
    ASSUME TypeInv, StackInv, MarkersInv, TreeInv, err = "none", pc = "done", Len(stack) > 0,
           ~(InObject /\ opt.duplicates /\ HasDuplicates(sa))
    PROVE  Tree!MayClose(Tree!Last(Opened(stack, sa)))
<1> DEFINE c == Tree!Last(Opened(stack, sa))
<1>0. Awaited = "key"  BY DEF Awaited, InData, InsideString, InsideNumber
<1>1. /\ c \in Pieces /\ c.items = Inserted(sa)
      /\ c.kind = "object" <=> InObject
      /\ InObject => Alternates(c.items) /\ Tree!Even(c.items)
  BY <1>0, TopPiece
<1>2. Nested(sa) /\ Len(sa.markers) > 0
  <2>1. Len(sa.markers) \in Nat /\ Len(stack) \in Nat /\ Len(stack) <= Len(sa.markers)
    BY LenOf DEF StackInv, MarkersInv, Nested, Generators
  <2> QED  BY <2>1 DEF MarkersInv
<1> HIDE DEF c
<1>3. InObject /\ opt.duplicates => Tree!Distinct(c)
  BY <1>1, <1>2, DistinctKeys
<1> QED  BY <1>1, <1>3 DEF Tree!MayClose, c


LEMMA ReadingStutters ==
    ASSUME TypeInv, StackInv, MarkersInv, KindInv, TreeInv, StackInv', MarkersInv',
           err = "none", pc # "ended", err' = "none", pc' # "ended", Reading
    PROVE  /\ TreeInv' /\ OpenContainers' = OpenContainers /\ sa'.result = sa.result
<1> DEFINE o == Opened(stack, sa)
<1>1. /\ sa'.stack = sa.stack /\ sa'.markers = sa.markers /\ sa'.result = sa.result
      /\ stack' = stack \/ (Len(stack) > 0 /\ NextElement)
      /\ Awaited' = Awaited \/ (Len(stack) > 0 /\ InArray)
  BY ReadingIs
<1>2. Deep(stack, sa) /\ OpenContainers = o  BY OpenNow
<1>3. OpenContainers' = Opened(stack', sa')  BY OpenNext
<1>4. Len(stack') = Len(stack) /\ \A k \in 1..Len(stack) : stack'[k].kind = stack[k].kind
  BY <1>1, KindsStay DEF StackInv
<1>5. Opened(stack', sa') = o
  <2> DEFINE t == stack'  h == sa'
  <2>1. h.stack = sa.stack /\ h.markers = sa.markers /\ Len(t) = Len(stack)
        /\ \A k \in 1..Len(stack) : t[k].kind = stack[k].kind
    BY <1>1, <1>4
  <2> HIDE DEF t, h
  <2>2. Opened(t, h) = Opened(stack, sa)  BY <2>1, OpenedAlike
  <2> QED  BY <2>2 DEF t, h
<1>6. Proper(o, Awaited')
  <2>1. Proper(o, Awaited) /\ o \in Seq(Pieces)  BY <1>2, OpenedIs DEF TreeInv
  <2>2. CASE Awaited' = Awaited  BY <2>1, <2>2
  <2>3. CASE Len(stack) > 0 /\ InArray
    <3>1. o[Len(o)].kind = "array"  BY <2>3, TopPiece
    <3> HIDE DEF o
    <3> QED  BY <2>1, <3>1, ArrayProper
  <2> QED  BY <1>1, <2>2, <2>3
<1>7. TreeInv'
  <2>1. Proper(Opened(stack', sa'), Awaited')  BY <1>5, <1>6, Zenon
  <2> QED  BY <2>1 DEF TreeInv
<1> QED  BY <1>1, <1>2, <1>3, <1>5, <1>7

\* A scalar, and a key, for the innermost container.
LEMMA ItemArrives ==
    ASSUME StackInv, MarkersInv, TreeInv, StackInv', MarkersInv',
           err = "none", pc # "ended", err' = "none", pc' # "ended",
           NEW item \in Items, Len(stack) > 0, stack' = stack,
           sa'.stack = Append(sa.stack, item), sa'.markers = sa.markers,
           \/ Awaited = "value" /\ Awaited' = "key" /\ item = Value
           \/ Awaited = "key" /\ Awaited' = "value" /\ item \in Keys
    PROVE  TreeInv' /\ OpenContainers' = Tree!With(OpenContainers, item)
<1> DEFINE o == Opened(stack, sa)  h == sa'
<1>1. Deep(stack, sa) /\ OpenContainers = o  BY OpenNow
<1>2. Deep(stack, h) /\ OpenContainers' = Opened(stack, h)
  BY OpenNext
<1>3. Opened(stack, h) = Tree!With(o, item)
  <2>1. h.stack = Append(sa.stack, item) /\ h.markers = sa.markers  OBVIOUS
  <2> HIDE DEF h
  <2> QED  BY <1>1, <1>2, <2>1, OpenedPush
<1>4. Proper(Tree!With(o, item), Awaited')
  <2>1. o \in Seq(Pieces) /\ Len(o) > 0 /\ Proper(o, Awaited)  BY TopPiece
  <2> DEFINE next == Awaited  then == Awaited'
  <2>2. \/ next = "value" /\ then = "key" /\ item = Value
        \/ next = "key" /\ then = "value" /\ item \in Keys
    OBVIOUS
  <2>3. Proper(o, next)  BY <2>1
  <2> HIDE DEF o, next, then
  <2>4. Proper(Tree!With(o, item), then)  BY <2>1, <2>2, <2>3, WithProper
  <2> QED  BY <2>4 DEF then
<1>5. TreeInv'
  <2>1. Proper(Opened(stack', sa'), Awaited')  BY <1>3, <1>4, Zenon
  <2> QED  BY <2>1 DEF TreeInv
<1> QED  BY <1>1, <1>2, <1>3, <1>5

LEMMA ContainerOpens ==
    ASSUME TypeInv, StackInv, MarkersInv, TreeInv, StackInv', MarkersInv',
           err = "none", pc # "ended", err' = "none", pc' # "ended", Begin
    PROVE  /\ TreeInv' /\ sa'.result = sa.result
           /\ \E kind \in {"array", "object"} :
                 /\ OpenContainers' = Append(OpenContainers, [kind |-> kind, items |-> << >>])
                 /\ OpenContainers # << >> => Tree!ExpectsValue(Tree!Last(OpenContainers))
<1> DEFINE o == Opened(stack, sa)
<1>1. /\ pc \in {"root", "value"} /\ pc' = "first" /\ sa' = OnBegin(sa)
  BY DEF Begin, Goto
<1>2. PICK kind \in {"array", "object"} : stack' = Append(stack, [kind |-> kind, index |-> 0])
  BY DEF Begin, Enter
<1> DEFINE added == [kind |-> kind, items |-> << >>]
<1>3. Deep(stack, sa) /\ OpenContainers = o /\ o \in Seq(Pieces) /\ Len(o) = Len(stack)
  BY OpenNow, OpenedIs
<1>4. Deep(stack', OnBegin(sa)) /\ OpenContainers' = Opened(stack', OnBegin(sa))
  BY <1>1, OpenNext
<1>5. Opened(stack', OnBegin(sa)) = Append(o, added)
  <2> DEFINE t == stack'
  <2>1. t = Append(stack, [kind |-> kind, index |-> 0]) /\ Deep(t, OnBegin(sa))  BY <1>2, <1>4
  <2> HIDE DEF t
  <2>2. Opened(t, OnBegin(sa)) = Append(o, added)  BY <1>3, <2>1, OpenedBegin
  <2> QED  BY <2>2 DEF t
<1>6. Len(stack) = 0 \/ (Len(stack) > 0 /\ Awaited = "value")
  BY <1>1, LenOf DEF StackInv, Outside, Awaited
<1>7. Len(o) = 0 \/ Proper(o, "value")
  <2>1. CASE Len(stack) > 0 /\ Awaited = "value"
    <3>1. Proper(o, Awaited)  BY <2>1, TopPiece
    <3> QED  BY <2>1, <3>1
  <2> QED  BY <1>3, <1>6, <2>1
<1>8. OpenContainers # << >> => Tree!ExpectsValue(Tree!Last(OpenContainers))
  <2>1. CASE Len(stack) = 0  BY <1>3, <2>1, LenOf
  <2>2. CASE Len(stack) > 0 /\ Awaited = "value"  BY <1>3, <2>2, TopPiece
  <2> QED  BY <1>6, <2>1, <2>2
<1>9. Proper(Append(o, added), "key")
  <2> HIDE DEF o
  <2> QED  BY <1>3, <1>7, OpenProper
<1>10. TreeInv'
  <2>1. Awaited' = "key"  BY <1>1 DEF Awaited, InData, InsideString, InsideNumber
  <2>2. Proper(Opened(stack', sa'), Awaited')  BY <1>1, <1>5, <1>9, <2>1, Zenon
  <2> QED  BY <2>2 DEF TreeInv
<1>11. sa'.result = sa.result  BY <1>1, HandlersAlike DEF MarkersInv, Nested, Alike
<1> QED  BY <1>3, <1>4, <1>5, <1>8, <1>10, <1>11

LEMMA ElementCloses ==
    ASSUME TypeInv, StackInv, MarkersInv, TreeInv, StackInv', MarkersInv',
           err = "none", pc # "ended", err' = "none", pc' # "ended", EndValue
    PROVE  LET o == OpenContainers
           IN  /\ TreeInv' /\ sa'.result = sa.result
               /\ Len(o) > 1 /\ Tree!MayClose(Tree!Last(o))
               /\ o' = Tree!With(SubSeq(o, 1, Len(o) - 1), Value)
<1> DEFINE o == Opened(stack, sa)  r == SubSeq(o, 1, Len(o) - 1)
<1>1. pc = "done" /\ Len(stack) > 1 /\ stack' = SubSeq(stack, 1, Len(stack) - 1)
  BY DEF EndValue, Leave
<1>2. ~(InObject /\ opt.duplicates /\ HasDuplicates(sa)) /\ pc' = "after" /\ sa' = OnEnd(sa)
  BY Zenon DEF EndValue, Goto
<1>3. /\ Deep(stack, sa) /\ OpenContainers = o /\ o \in Seq(Pieces) /\ Len(o) = Len(stack)
      /\ Len(stack) \in Nat
  BY OpenNow, OpenedIs
<1>4. Deep(stack', OnEnd(sa)) /\ OpenContainers' = Opened(stack', OnEnd(sa))
  BY <1>2, OpenNext
<1>5. Opened(stack', OnEnd(sa)) = Tree!With(r, Value)
  <2> DEFINE t == stack'
  <2>1. t = SubSeq(stack, 1, Len(stack) - 1) /\ Deep(t, OnEnd(sa))  BY <1>1, <1>4
  <2> HIDE DEF t
  <2>2. Opened(t, OnEnd(sa)) = Tree!With(r, Value)  BY <1>1, <1>3, <2>1, OpenedEnd
  <2> QED  BY <2>2 DEF t
<1>6. Len(stack) > 0  BY <1>1, <1>3
<1>7. Tree!MayClose(Tree!Last(o))  BY <1>1, <1>2, <1>6, MayEnd
<1>8. Proper(Tree!With(r, Value), "key")
  <2>1. Proper(o, Awaited)  BY <1>6, TopPiece
  <2> HIDE DEF o
  <2>2. r \in Seq(Pieces) /\ Len(r) > 0 /\ Proper(r, "value")
    BY <1>1, <1>3, <2>1, ShorterProper
  <2> HIDE DEF r
  <2> QED  BY <2>2, WithProper DEF Items
<1>9. TreeInv'
  <2>1. Awaited' = "key"  BY <1>2 DEF Awaited, InData, InsideString, InsideNumber
  <2>2. Proper(Opened(stack', sa'), Awaited')  BY <1>2, <1>5, <1>8, <2>1, Zenon
  <2> QED  BY <2>2 DEF TreeInv
<1>10. sa'.result = sa.result  BY <1>2, HandlersAlike DEF MarkersInv, Nested, Alike
<1> QED  BY <1>1, <1>3, <1>4, <1>5, <1>7, <1>9, <1>10

LEMMA RootCloses ==
    ASSUME TypeInv, StackInv, MarkersInv, TreeInv, StackInv', MarkersInv',
           err = "none", pc # "ended", err' = "none", pc' # "ended", RootEnd
    PROVE  /\ TreeInv' /\ sa'.result = Value
           /\ Len(OpenContainers) = 1 /\ Tree!MayClose(Tree!Last(OpenContainers))
           /\ OpenContainers' = << >>
<1> DEFINE o == Opened(stack, sa)
<1>1. pc = "done" /\ Len(stack) = 1 /\ Leave  BY Zenon DEF RootEnd
<1>2. /\ ~(InObject /\ opt.duplicates /\ HasDuplicates(sa))
      /\ Complete(OnEnd(sa)) /\ sa' = OnParseEnd(OnEnd(sa))
  BY Zenon DEF RootEnd, Goto
<1>3. OpenContainers = o /\ Len(o) = 1 /\ Len(sa.markers) > 0 /\ Nested(sa)
  <2>1. Len(sa.markers) \in Nat /\ Len(stack) <= Len(sa.markers) /\ Nested(sa)
    BY LenOf DEF MarkersInv, Nested, Generators
  <2> QED  BY <1>1, <2>1, OpenNow, OpenedIs
<1>4. Tree!MayClose(Tree!Last(o))  BY <1>1, <1>2, MayEnd
<1>5. sa'.result = Value  BY <1>2, <1>3, EndComplete
<1>6. Opened(stack', sa') = << >>
  <2> DEFINE t == stack'  h == sa'
  <2>1. Len(t) = 0  BY <1>1, LengthMoves DEF StackInv
  <2>2. Deep(t, h)  BY OpenNext
  <2> HIDE DEF t, h
  <2>3. Opened(t, h) = << >>  BY <2>1, <2>2, OpenEmpty
  <2> QED  BY <2>3 DEF t, h
<1>7. TreeInv'
  <2>1. \A next : Proper(<< >>, next)  BY EmptySeq DEF Proper
  <2>2. Proper(Opened(stack', sa'), Awaited')  BY <1>6, <2>1, Zenon
  <2> QED  BY <2>2 DEF TreeInv
<1> QED  BY <1>3, <1>4, <1>5, <1>6, <1>7, OpenNext

LEMMA RunBegins ==
    ASSUME StackInv, MarkersInv, StackInv', MarkersInv', PhaseInv,
           NEW cleared \in BOOLEAN, Again(cleared)
    PROVE  /\ TreeInv' /\ OpenContainers = << >> /\ OpenContainers' = << >>
           /\ sa'.result = sa.result \/ sa'.result = nil
<1>1. /\ pc = "ended" /\ pc' = "run" /\ err' = "none" /\ stack' = << >>
      /\ sa' \in {sa, OnClear(sa)}
  BY DEF Again, Goto
<1>2. Opened(stack', sa') = << >>
  <2> DEFINE t == stack'  h == sa'
  <2>1. Len(t) = 0 /\ Deep(t, h)  BY <1>1, OpenNext, EmptySeq
  <2> HIDE DEF t, h
  <2>2. Opened(t, h) = << >>  BY <2>1, OpenEmpty
  <2> QED  BY <2>2 DEF t, h
<1>3. TreeInv'
  <2>1. \A next : Proper(<< >>, next)  BY EmptySeq DEF Proper
  <2>2. Proper(Opened(stack', sa'), Awaited')  BY <1>2, <2>1, Zenon
  <2> QED  BY <2>2 DEF TreeInv
<1>4. OnClear(sa).result = nil  BY DEF OnClear, MarkersInv, Nested, Generators
<1> QED  BY <1>1, <1>2, <1>3, <1>4, OpenIs, OpenNext

LEMMA KeyArrives ==
    ASSUME TypeInv, StackInv, MarkersInv, KindInv, TreeInv, StackInv', MarkersInv',
           err = "none", pc # "ended", err' = "none", pc' # "ended", KeyValue
    PROVE  /\ TreeInv' /\ sa'.result = sa.result
           /\ OpenContainers # << >> /\ ~Tree!ExpectsValue(Tree!Last(OpenContainers))
           /\ \E k \in Keys : OpenContainers' = Tree!With(OpenContainers, k)
<1>1. pc = "colon" /\ pc' = "value" /\ stack' = stack  BY Zenon DEF KeyValue, Goto
<1>2. PICK k \in Keys : sa' = Push(sa, k)  BY Zenon DEF KeyValue, OnKey
<1>3. /\ sa'.stack = Append(sa.stack, k) /\ sa'.markers = sa.markers /\ sa'.result = sa.result
  BY <1>2 DEF Push, MarkersInv, Nested, Generators
<1>4. Len(stack) > 0 /\ InObject  BY <1>1 DEF StackInv, Inside, KindInv
<1>5. Awaited = "key" /\ Awaited' = "value"
  BY <1>1 DEF Awaited, InData, InsideString, InsideNumber
<1>6. TreeInv' /\ OpenContainers' = Tree!With(OpenContainers, k)
  <2>1. k \in Items  BY DEF Items
  <2> QED  BY <1>1, <1>3, <1>4, <1>5, <2>1, ItemArrives
<1>7. OpenContainers # << >> /\ ~Tree!ExpectsValue(Tree!Last(OpenContainers))
  BY <1>4, <1>5, OpenNow, TopPiece DEF Tree!ExpectsValue
<1> QED  BY <1>3, <1>6, <1>7

\* Every step of the parser is a step of the tree, or none.
LEMMA TreeStep ==
    ASSUME IInv, IInv', KindInv, TreeInv, [Next]_vars
    PROVE  TreeInv' /\ [Tree!Next]_(Tree!vars)
<1>0. /\ TypeInv /\ StackInv /\ MarkersInv /\ PhaseInv /\ StackInv' /\ MarkersInv'
      /\ opt' = opt
  <2>1. TypeInv /\ StackInv /\ MarkersInv /\ PhaseInv  BY DEF IInv
  <2>2. StackInv' /\ MarkersInv'  BY DEF IInv
  <2> QED  BY <2>1, <2>2, OptStays
<1> USE DEF Tree!Next, Tree!vars
<1>1. CASE err' # "none" \/ pc' = "ended"
  <2>1. OpenContainers' = << >>  BY <1>1, OpenNext
  <2>2. sa'.result = sa.result  BY <1>0, <1>1, ResultStays
  <2>3. Tree!Abandon  BY <1>0, <2>1, <2>2 DEF Tree!Abandon
  <2> QED  BY <1>1, <2>3 DEF TreeInv
<1>2. CASE \E cleared \in BOOLEAN : Again(cleared)
  <2>1. /\ TreeInv' /\ OpenContainers = << >> /\ OpenContainers' = << >>
        /\ sa'.result = sa.result \/ sa'.result = nil
    BY <1>0, <1>2, RunBegins
  <2>2. Tree!Abandon \/ Tree!Forget  BY <1>0, <2>1 DEF Tree!Abandon, Tree!Forget
  <2> QED  BY <2>1, <2>2
<1>3. CASE /\ err' = "none" /\ pc' # "ended"
           /\ ~ \E cleared \in BOOLEAN : Again(cleared)
  <2>0. err = "none" /\ pc # "ended" /\ err' = "none" /\ pc' # "ended"
    BY <1>0, <1>3, Surviving
  <2>1. CASE Reading
    <3>1. TreeInv' /\ OpenContainers' = OpenContainers /\ sa'.result = sa.result
      BY <1>0, <2>0, <2>1, ReadingStutters
    <3> QED  BY <1>0, <3>1
  <2>2. CASE Scalar
    <3>1. /\ sa'.stack = Append(sa.stack, Value) /\ sa'.markers = sa.markers
          /\ sa'.result = sa.result /\ stack' = stack /\ Len(stack) > 0
          /\ Awaited = "value" /\ Awaited' = "key"
      BY <1>0, <2>2, ScalarIs
    <3>2. TreeInv' /\ OpenContainers' = Tree!With(OpenContainers, Value)
      <4>1. Value \in Items  BY DEF Items
      <4> QED  BY <1>0, <2>0, <3>1, <4>1, ItemArrives
    <3>3. OpenContainers # << >> /\ Tree!ExpectsValue(Tree!Last(OpenContainers))
      BY <1>0, <2>0, <3>1, OpenNow, TopPiece
    <3>4. Tree!AddValue  BY <1>0, <3>1, <3>2, <3>3 DEF Tree!AddValue
    <3> QED  BY <3>2, <3>4
  <2>3. CASE KeyValue
    <3>1. /\ TreeInv' /\ sa'.result = sa.result
          /\ OpenContainers # << >> /\ ~Tree!ExpectsValue(Tree!Last(OpenContainers))
          /\ \E k \in Keys : OpenContainers' = Tree!With(OpenContainers, k)
      BY <1>0, <2>0, <2>3, KeyArrives
    <3>2. \E k \in Keys : Tree!AddKey(k)  BY <1>0, <3>1 DEF Tree!AddKey
    <3> QED  BY <3>1, <3>2
  <2>4. CASE Begin
    <3>1. /\ TreeInv' /\ sa'.result = sa.result
          /\ \E kind \in {"array", "object"} :
                /\ OpenContainers' = Append(OpenContainers, [kind |-> kind, items |-> << >>])
                /\ OpenContainers # << >> => Tree!ExpectsValue(Tree!Last(OpenContainers))
      BY <1>0, <2>0, <2>4, ContainerOpens
    <3>2. \E kind \in {"array", "object"} : Tree!Open(kind)  BY <1>0, <3>1 DEF Tree!Open
    <3> QED  BY <3>1, <3>2
  <2>5. CASE EndValue
    <3>1. LET o == OpenContainers
          IN  /\ TreeInv' /\ sa'.result = sa.result
              /\ Len(o) > 1 /\ Tree!MayClose(Tree!Last(o))
              /\ o' = Tree!With(SubSeq(o, 1, Len(o) - 1), Value)
      BY <1>0, <2>0, <2>5, ElementCloses
    <3>2. Tree!Close  BY <1>0, <3>1 DEF Tree!Close
    <3> QED  BY <3>1, <3>2
  <2>6. CASE RootEnd
    <3>1. /\ TreeInv' /\ sa'.result = Value
          /\ Len(OpenContainers) = 1 /\ Tree!MayClose(Tree!Last(OpenContainers))
          /\ OpenContainers' = << >>
      BY <1>0, <2>0, <2>6, RootCloses
    <3>2. Tree!CloseRoot  BY <1>0, <3>1 DEF Tree!CloseRoot
    <3> QED  BY <3>1, <3>2
  <2>7. CASE Unwind
    <3>1. err # "none"  BY <1>0, <2>7 DEF Unwind, PhaseInv
    <3> QED  BY <2>0, <3>1
  <2>8. CASE Raises \/ MemberError \/ EscapeRejected
    BY <1>0, <2>0, <2>8, RaisesError
  <2>9. CASE Refuse \/ LoopEnd \/ ExtraCharacters \/ Overflow \/ Parsed
    <3>1. pc' = "ended"
      BY <2>9 DEF Refuse, LoopEnd, ExtraCharacters, Overflow, Parsed, Finish, Goto
    <3> QED  BY <2>0, <3>1
  <2> HIDE DEF Tree!Next, Tree!vars
  <2> QED
    BY <1>3, <2>0, <2>1, <2>2, <2>3, <2>4, <2>5, <2>6, <2>7, <2>8, <2>9, Zenon
       DEF Next, Step, Clear, Reuse, Reading, Scalar, Raises,
           Document, Containers, Scalars, Strings, Loop
<1> QED  BY <1>1, <1>2, <1>3

\* The calls the parser makes to the semantic actions build the tree of the
\* text: for every nesting, every mix of options, every sequence of runs and
\* every way a run can fail, each key gets one value, containers close in the
\* order they were opened, no completed object has two equal keys when
\* checkDuplicateKey is on, and a result is the root of a complete tree.
THEOREM TreeIsBuilt == Spec => BuildsTree
<1>1. Init => Tree!Init /\ KindInv /\ TreeInv
  <2> SUFFICES ASSUME Init PROVE Tree!Init /\ KindInv /\ TreeInv
    OBVIOUS
  <2>1. pc = "run" /\ stack = << >> /\ err = "none" /\ sa = NewGenerator /\ opt \in Options
    BY Zenon DEF Init
  <2>2. Len(stack) = 0  BY <2>1, EmptySeq
  <2>3. Opened(stack, sa) = << >>  BY <2>2 DEF Opened
  <2>4. Tree!Init
    <3>1. sa.result = nil  BY <2>1 DEF NewGenerator
    <3>2. opt.duplicates \in BOOLEAN  BY <2>1, ParserAssumption DEF OptionRecords
    <3>3. OpenContainers = << >>  BY <2>3, OpenIs
    <3> QED  BY <3>1, <3>2, <3>3 DEF Tree!Init
  <2>5. TreeInv  BY <2>3, EmptySeq DEF TreeInv, Proper
  <2>6. KindInv  BY <2>1 DEF KindInv, InsideString
  <2> QED  BY <2>4, <2>5, <2>6
<1>2. IInv /\ KindInv /\ [Next]_vars => KindInv'  BY KindStep DEF IInv
<1>3. IInv /\ IInv' /\ KindInv /\ TreeInv /\ [Next]_vars => TreeInv' /\ [Tree!Next]_(Tree!vars)
  BY TreeStep
<1> QED  BY <1>1, <1>2, <1>3, IInvHolds, PTL DEF Spec, BuildsTree, Tree!Spec
=============================================================================
