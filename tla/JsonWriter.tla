---------------------------- MODULE JsonWriter -----------------------------
(***************************************************************************)
(* JPJsonWriter.mm: a tree of Foundation objects is written as JSON text   *)
(* to an NSData, to an output stream or to a stream buffer of the caller.  *)
(* A frame of the stack is a call of JPJson_serializeTo; its ops are the   *)
(* statements of serializeJsonArray, serializeJsonObject and of the        *)
(* scalars' methods still to be executed.  The writer of json::value       *)
(* (write_value.hpp) is the function CppText.                              *)
(***************************************************************************)
EXTENDS Integers, Sequences, TLC, Bitwise

CONSTANTS Values,           \* the objects: [kind, ...], see Program
          BufferSize,       \* of the conversion of strings that are no Unicode inside (128)
          WriteBufferSize,  \* of the buffer in front of an output stream (1024)
          MaxRefusals       \* how often a stream buffer answers NO

VARIABLES value, options, encoding,
          sink,    \* "data", "stream" or "custom", the caller's stream buffer
          pc,      \* "call", "write", "flush", "close", "returned", "hang", "overrun"
          stack, result,
          held,    \* characters in the buffer of an output stream
          out,     \* characters that came through
          lost,    \* what was refused: the kinds of the writes
          refusals, error

vars == <<value, options, encoding, sink, pc, stack, result, held, out, lost, refusals, error>>

LOCAL Concat(ss) == LET cat[i \in 0..Len(ss)] == IF i = 0 THEN <<>> ELSE cat[i - 1] \o ss[i] IN cat[Len(ss)]
LOCAL Smaller(a, b) == IF a < b THEN a ELSE b
Pretty == "PrettyPrint" \in options
-----------------------------------------------------------------------------
(* Strings: code units are "lead" and "trail" of a surrogate pair or classes of characters. *)

\* escape_convert_one_unsafe_slowpath: a control character without a letter gets a newline, no reverse solidus
Escape(u) ==
  CASE u \in {"quote", "backslash"} -> <<"backslash", u>>
    [] u = "solidus" /\ "EscapeSolidus" \in options -> <<"backslash", u>>
    [] u = "tab" -> <<"backslash", "t">>
    [] u = "control" -> <<"newline", "u00xx">>
    [] OTHER -> <<u>>

\* escape_convert_unsafe: a lead is converted with the code unit behind it, without a look at the end
Converted(units) ==
  LET from[i \in 1..(Len(units) + 1)] ==
        IF i > Len(units) THEN <<>>
        ELSE IF units[i] = "lead"
        THEN <<"lead", "trail">> \o (IF i < Len(units) THEN from[i + 2] ELSE <<>>)
        ELSE Escape(units[i]) \o from[i + 1]
  IN  from[1]
Overruns(units) == units # <<>> /\ units[Len(units)] = "lead"
\* string_encoder, which the comments call its successor, converts the same
EncodeString(units) == Converted(units)

\* the encoding of a string's characters in memory, and NSStringEncoding of the text's
InternalEncoding(string) == IF string.storage = "utf8" THEN "NSUTF8" ELSE "NSUTF16LittleEndian"
NSStringEncoding == [utf8 |-> "NSUTF8", utf16be |-> "NSUTF16BigEndian", other |-> "none"]
\* escape_convert: an error for an encoding it does not know
EscapeConvert(units, from, to) ==
  [error |-> from \notin {"NSUTF8", "NSUTF16BigEndian", "NSUTF16LittleEndian"} \/ to # "NSUTF8",
   chars |-> Converted(units)]

\* in one piece, or through a buffer of UTF-16 when CFString has no pointer to Unicode
Pieces(string) ==
  IF string.units = <<>> THEN <<>>
  ELSE IF string.storage # "other" THEN <<string.units>>
  ELSE [k \in 1..((Len(string.units) + BufferSize - 1) \div BufferSize) |->
          SubSeq(string.units, (k - 1) * BufferSize + 1, Smaller(k * BufferSize, Len(string.units)))]
-----------------------------------------------------------------------------
(* The statements.  A write has the payloads of its calls of write:length:;
   guarded: only if ok; chained: while ok; a string's characters go to the
   streambuf without a look at the result. *)

Write(kind, payloads, guarded, chained) ==
  [do |-> "write", kind |-> kind, payloads |-> payloads, guarded |-> guarded, chained |-> chained]
Do(what) == [do |-> what]
Call(v) == [do |-> "call", v |-> v]

Tabs(n) == [g \in 1..((n + 9) \div 10) |-> [i \in 1..Smaller(10, n - (g - 1) * 10) |-> "\t"]]
NewLine(n) == <<<<"\n">>>> \o Tabs(n)
When(cond, ops) == IF cond THEN ops ELSE <<>>

\* Mutant: a separator after the last element too
ArrayOps_trailing(items, level) ==
  <<Write("bracket", <<<<"[">>>>, FALSE, TRUE)>>
  \o Concat([i \in DOMAIN items |-> <<Call(items[i]), Write("separator", <<<<",">>>>, FALSE, TRUE)>>])
  \o <<Write("bracket", <<<<"]">>>>, TRUE, TRUE), Do("return")>>

ArrayOps(items, level) ==
  LET n == Len(items) IN
  <<Write("bracket", <<<<"[">>>>, FALSE, TRUE)>>
  \o When(Pretty /\ n > 0, <<Write("format", NewLine(level + 1), TRUE, TRUE)>>)
  \o <<Do("check")>>
  \o Concat([i \in 1..n |->
       <<Call(items[i])>>
       \o When(i < n, <<Write("separator", <<<<",">>>>, FALSE, TRUE)>>
                      \o When(Pretty, <<Write("format", NewLine(level + 1), TRUE, TRUE)>>))])
  \o When(Pretty /\ n > 0, <<Write("format", NewLine(level), TRUE, FALSE)>>)
  \o <<Write("bracket", <<<<"]">>>>, TRUE, TRUE), Do("return")>>

\* options & JPJsonWriterSortKeys & [object respondsToSelector:...]: the flag is 2, YES is 1
KeysAreSorted == ((IF "SortKeys" \in options THEN 2 ELSE 0) & 2 & 1) # 0
Members(object) ==
  IF KeysAreSorted
  THEN CHOOSE m \in {[i \in DOMAIN object.members |-> object.members[p[i]]] :
                       p \in [DOMAIN object.members -> DOMAIN object.members]} :
         \A i, j \in DOMAIN m : i < j => m[i].key.rank < m[j].key.rank
  ELSE object.members

ObjectOps(members, level) ==
  LET n == Len(members) IN
  <<Write("bracket", <<<<"{">>>>, FALSE, TRUE)>>
  \o When(Pretty /\ n > 0, <<Write("format", NewLine(level + 1), TRUE, FALSE)>>)
  \o <<Do("check")>>
  \o Concat([i \in 1..n |->
       <<Call(members[i].key),
         Write("colon", <<IF Pretty THEN <<" ", ":", " ">> ELSE <<":">>>>, FALSE, TRUE),
         Do("check"),
         Call(members[i].value)>>
       \o When(i < n, <<IF Pretty
                        THEN Write("separator", <<<<",", "\n">>>> \o Tabs(level + 1), FALSE, TRUE)
                        ELSE Write("separator", <<<<",">>>>, FALSE, TRUE)>>)])
  \o <<Do("check")>>
  \o When(Pretty /\ n > 0, <<Write("format", NewLine(level), FALSE, TRUE)>>)
  \o <<Write("bracket", <<<<"}">>>>, TRUE, TRUE), Do("return")>>

\* back_insert_iterator, without a look at the result
Inserted(kind, chars) == Write(kind, <<chars>>, FALSE, FALSE)
\* both encodings are known here, so there is no error to return
StringOps(string) ==
  LET converted == [k \in DOMAIN Pieces(string) |->
                      EscapeConvert(Pieces(string)[k], InternalEncoding(string), NSStringEncoding[encoding])]
  IN  <<Inserted("string", <<"\"">>)>>
      \o Concat([k \in DOMAIN converted |->
           When(~converted[k].error, <<Inserted("string", converted[k].chars)>>)
           \o When(Overruns(Pieces(string)[k]), <<Do("overrun")>>)])
      \o <<Inserted("string", <<"\"">>), Do("return")>>

\* an NSNumber of type char is a boolean if it is 0 or 1
NumberLiteral(v) == IF v.number = 0 THEN "false" ELSE IF v.number = 1 THEN "true" ELSE "number"
NullLiteral == "null"
Literal(v) == IF v.kind = "null" THEN NullLiteral ELSE NumberLiteral(v)

Program(v, level) ==
  CASE v.kind = "array" -> ArrayOps(v.items, level)
    [] v.kind = "object" -> ObjectOps(Members(v), level)
    [] v.kind = "string" -> StringOps(v)
    [] OTHER -> <<Write("scalar", <<<<Literal(v)>>>>, FALSE, TRUE), Do("return")>>
-----------------------------------------------------------------------------
Init ==
  /\ value \in Values
  /\ options \in SUBSET {"PrettyPrint", "SortKeys", "WriteBOM", "EscapeSolidus"}
  /\ encoding \in DOMAIN NSStringEncoding
  /\ sink \in {"data", "stream", "custom"}
  /\ sink = "custom" => encoding = "utf8" /\ value.kind \in {"array", "object"}
  /\ pc = "call" /\ stack = <<>> /\ result = 0 /\ held = <<>> /\ out = <<>>
  /\ lost = {} /\ refusals = 0 /\ error = 0

Input == <<value, options, encoding, sink>>
Frame(v) == [ops |-> Program(v, Len(stack)), ok |-> TRUE]
Bom == When("WriteBOM" \in options, <<Inserted("bom", <<"BOM">>)>>)

ParameterError ==
  IF value.kind = "nil" THEN 1 ELSE IF value.kind = "other" THEN 2
  ELSE CASE encoding = "utf8" -> 0 [] encoding = "utf16be" -> 6 [] OTHER -> 3

\* dataWithObject: and serializeObject:toStream:
CallWriter ==
  /\ pc = "call" /\ sink # "custom"
  /\ error' = ParameterError
  /\ IF error' # 0 THEN pc' = "returned" /\ UNCHANGED stack
     ELSE pc' = "write" /\ stack' = <<[Frame(value) EXCEPT !.ops = Bom \o @]>>
  /\ UNCHANGED <<Input, result, held, out, lost, refusals>>

\* serializeObjectAsJSONArray: and serializeObjectAsJSONObject:, without a check
CallExtension ==
  /\ pc = "call" /\ sink = "custom"
  /\ pc' = "write" /\ stack' = <<Frame(value)>>
  /\ UNCHANGED <<Input, result, held, out, lost, refusals, error>>

Top == stack[Len(stack)]
Op == Head(Top.ops)
Running(what) == pc = "write" /\ stack # <<>> /\ Op.do = what
\* the top frame goes on with these statements
Goes(ops, ok) == stack' = [stack EXCEPT ![Len(stack)] = [ops |-> ops, ok |-> ok]]

\* one call of write:length: that succeeds
Accepted ==
  /\ Running("write") /\ (Op.guarded => Top.ok)
  /\ IF sink = "stream" THEN /\ Len(held) < WriteBufferSize
                             /\ held' = held \o Op.payloads[1] /\ UNCHANGED out
     ELSE out' = out \o Op.payloads[1] /\ UNCHANGED held
  /\ Goes(When(Len(Op.payloads) > 1, <<[Op EXCEPT !.payloads = Tail(@), !.guarded = FALSE]>>) \o Tail(Top.ops), TRUE)
  /\ UNCHANGED <<Input, pc, result, lost, refusals, error>>

\* one call that answers NO; what follows is written unless the code looks at ok
Refused ==
  /\ Running("write") /\ (Op.guarded => Top.ok)
  /\ sink = "custom" /\ refusals < MaxRefusals
  /\ refusals' = refusals + 1 /\ lost' = lost \cup {Op.kind}
  /\ Goes(When(Len(Op.payloads) > 1 /\ ~Op.chained, <<[Op EXCEPT !.payloads = Tail(@), !.guarded = FALSE]>>)
            \o Tail(Top.ops),
          Op.kind = "string")
  /\ UNCHANGED <<Input, pc, result, held, out, error>>

Skip ==
  /\ Running("write") /\ Op.guarded /\ ~Top.ok
  /\ Goes(Tail(Top.ops), FALSE)
  /\ UNCHANGED <<Input, pc, result, held, out, lost, refusals, error>>

SerializeMember ==
  /\ Running("call")
  /\ stack' = Append([stack EXCEPT ![Len(stack)].ops = Tail(@)], Frame(Op.v))
  /\ UNCHANGED <<Input, pc, result, held, out, lost, refusals, error>>

\* Mutant: the result of a member's call is not handed up
Return_result0 ==
  /\ Running("return") \/ (Running("check") /\ ~Top.ok)
  /\ result' = 0
  /\ IF Len(stack) > 1 THEN stack' = SubSeq(stack, 1, Len(stack) - 1) /\ UNCHANGED pc
     ELSE stack' = <<>> /\ pc' = "flush"
  /\ UNCHANGED <<Input, held, out, lost, refusals, error>>

\* a negative result is handed up through all callers
Return ==
  /\ Running("return") \/ (Running("check") /\ ~Top.ok)
  /\ result' = IF Top.ok THEN 0 ELSE -1
  /\ IF Top.ok /\ Len(stack) > 1 THEN stack' = SubSeq(stack, 1, Len(stack) - 1) /\ UNCHANGED pc
     ELSE stack' = <<>> /\ pc' = "flush"
  /\ UNCHANGED <<Input, held, out, lost, refusals, error>>

CheckOk ==
  /\ Running("check") /\ Top.ok
  /\ Goes(Tail(Top.ops), TRUE)
  /\ UNCHANGED <<Input, pc, result, held, out, lost, refusals, error>>

\* the converter has read and passed the end of its range
Overrun ==
  /\ Running("overrun")
  /\ pc' = "overrun"
  /\ UNCHANGED <<Input, stack, result, held, out, lost, refusals, error>>

(* NSOutputStreamSink2::write: until the stream has taken everything *)
Draining == sink = "stream" /\ held # <<>> /\ (pc = "flush" \/ (Running("write") /\ Len(held) >= WriteBufferSize))

StreamTakes == \E n \in 1..Len(held) :
  /\ Draining
  /\ out' = out \o SubSeq(held, 1, n) /\ held' = SubSeq(held, n + 1, Len(held))
  /\ UNCHANGED <<Input, pc, stack, result, lost, refusals, error>>

\* CFWriteStreamWrite returns 0 or -1, and the loop has no exit for it
StreamFails ==
  /\ Draining
  /\ pc' = "hang"
  /\ UNCHANGED <<Input, stack, result, held, out, lost, refusals, error>>

FinishData ==
  /\ pc = "flush" /\ sink = "data"
  /\ error' = IF result < 0 THEN 5 ELSE 0
  /\ pc' = "returned"
  /\ UNCHANGED <<Input, stack, result, held, out, lost, refusals>>

\* the caller gets the number
FinishExtension ==
  /\ pc = "flush" /\ sink = "custom"
  /\ pc' = "returned"
  /\ UNCHANGED <<Input, stack, result, held, out, lost, refusals, error>>

\* flush, and the bytes that the buffer's device has written
FinishStream ==
  /\ pc = "flush" /\ sink = "stream"
  /\ IF result < 0 THEN error' = 5 /\ pc' = "returned" /\ UNCHANGED result
     ELSE held = <<>> /\ pc' = "close" /\ result' = Len(out) /\ UNCHANGED error
  /\ UNCHANGED <<Input, stack, held, out, lost, refusals>>

Close ==
  /\ pc = "close" /\ held = <<>>
  /\ pc' = "returned"
  /\ UNCHANGED <<Input, stack, result, held, out, lost, refusals, error>>

Next == \/ CallWriter \/ CallExtension \/ Accepted \/ Refused \/ Skip \/ SerializeMember \/ Return \/ CheckOk
        \/ Overrun \/ StreamTakes \/ StreamFails \/ FinishData \/ FinishExtension \/ FinishStream \/ Close

Spec == Init /\ [][Next]_vars
-----------------------------------------------------------------------------
(* write_value.hpp *)

RECURSIVE CppText(_, _)
CppText(v, level) ==
  LET quoted(s) == <<"\"">> \o EncodeString(s.units) \o <<"\"">>
      line(n) == IF Pretty THEN <<"\n">> \o [i \in 1..n |-> "\t"] ELSE <<>>
  IN  CASE v.kind = "array" ->
             <<"[">>
             \o Concat([i \in DOMAIN v.items |->
                  line(level + 1) \o CppText(v.items[i], level + 1) \o (IF i < Len(v.items) THEN <<",">> ELSE <<>>)])
             \o (IF v.items # <<>> THEN line(level) ELSE <<>>) \o <<"]">>
        [] v.kind = "object" ->
             <<"{">>
             \o Concat([i \in DOMAIN v.members |->
                  line(level + 1) \o quoted(v.members[i].key)
                  \o (IF Pretty THEN <<" ", ":", " ">> ELSE <<":">>)
                  \o CppText(v.members[i].value, level + 1) \o (IF i < Len(v.members) THEN <<",">> ELSE <<>>)])
             \o (IF v.members # <<>> THEN line(level) ELSE <<>>) \o <<"}">>
        [] v.kind = "string" -> quoted(v)
        [] OTHER -> <<Literal(v)>>
-----------------------------------------------------------------------------
(* RFC 4627 *)

Standard(u) == IF u = "control" THEN <<"backslash", "u00xx">> ELSE Escape(u)
RECURSIVE Strings(_)
Strings(v) ==
  CASE v.kind = "array" -> UNION {Strings(v.items[i]) : i \in DOMAIN v.items}
    [] v.kind = "object" -> UNION {Strings(v.members[i].key) \cup Strings(v.members[i].value) : i \in DOMAIN v.members}
    [] v.kind = "string" -> {v}
    [] OTHER -> {}
HasControl(v) == \E s \in Strings(v) : \E i \in DOMAIN s.units : s.units[i] = "control"

RECURSIVE Text(_)
Text(v) ==
  CASE v.kind = "array" ->
         <<"[">> \o Concat([i \in DOMAIN v.items |-> (IF i = 1 THEN <<>> ELSE <<",">>) \o Text(v.items[i])]) \o <<"]">>
    [] v.kind = "object" ->
         <<"{">> \o Concat([i \in DOMAIN v.members |->
                      (IF i = 1 THEN <<>> ELSE <<",">>) \o Text(v.members[i].key) \o <<":">> \o Text(v.members[i].value)])
         \o <<"}">>
    [] v.kind = "string" -> <<"\"">> \o Concat([i \in DOMAIN v.units |-> Standard(v.units[i])]) \o <<"\"">>
    [] OTHER -> <<Literal(v)>>
WithoutLayout(s) == SelectSeq(s, LAMBDA c : c \notin {"\n", "\t", " "})

TypeOK ==
  /\ pc \in {"call", "write", "flush", "close", "returned", "hang", "overrun"}
  /\ result \in Nat \cup {-1} /\ error \in {0, 1, 2, 3, 5, 6} /\ refusals \in 0..MaxRefusals
  /\ lost \subseteq {"bracket", "format", "separator", "colon", "string", "scalar"}
  /\ \A i \in DOMAIN stack : stack[i].ok \in BOOLEAN

\* the value with the members of its objects in each order they may have
RECURSIVE Rearranged(_)
Rearranged(v) ==
  LET each(f, g) == {h \in [DOMAIN f -> UNION {g[i] : i \in DOMAIN f}] : \A i \in DOMAIN f : h[i] \in g[i]}
  IN  CASE v.kind = "array" ->
             {[v EXCEPT !.items = items] : items \in each(v.items, [i \in DOMAIN v.items |-> Rearranged(v.items[i])])}
        [] v.kind = "object" ->
             LET member(i) == {[v.members[i] EXCEPT !.value = w] : w \in Rearranged(v.members[i].value)}
             IN  {[v EXCEPT !.members = [i \in DOMAIN v.members |-> members[p[i]]]] :
                    members \in each(v.members, [i \in DOMAIN v.members |-> member(i)]),
                    p \in Permutations(DOMAIN v.members)}
        [] OTHER -> {v}

RECURSIVE HasSortedKeys(_)
HasSortedKeys(v) ==
  CASE v.kind = "array" -> \A i \in DOMAIN v.items : HasSortedKeys(v.items[i])
    [] v.kind = "object" ->
         /\ \A i, j \in DOMAIN v.members : i < j => v.members[i].key.rank < v.members[j].key.rank
         /\ \A i \in DOMAIN v.members : HasSortedKeys(v.members[i].value)
    [] OTHER -> TRUE

Succeeded == pc = "returned" /\ error = 0 /\ result >= 0 /\ lost = {}
Written == IF "WriteBOM" \in options /\ sink # "custom" THEN Tail(out) ELSE out

\* What is returned as the text of a value is its JSON text, members in the
\* order the dictionary enumerates them (in any order when sorted keys are asked
\* for, see SortsKeys), layout only where it is asked for, and the same as
\* write_value writes; it is no JSON text exactly when a string has a control
\* character without a letter of its own.
WritesValue ==
  Succeeded =>
    /\ \E v \in IF "SortKeys" \in options THEN Rearranged(value) ELSE {value} :
         /\ Written = CppText(v, 0)
         /\ (WithoutLayout(Written) = Text(v)) <=> ~HasControl(v)
    /\ ~Pretty => WithoutLayout(Written) = Written
    /\ held = <<>>

\* When it is asked for sorted keys, the members of each object are written in
\* the order of their keys: "Keys in JSON Objects will be sorted" (JPJsonWriter.h:37).
SortsKeys ==
  Succeeded /\ "SortKeys" \in options =>
    \E v \in Rearranged(value) : HasSortedKeys(v) /\ Written = CppText(v, 0)

\* A writer that answers success has lost nothing but separators, layout and
\* parts of strings, whose refusal the code does not look at or forgets, and one
\* that answers an error was refused something; it does not return from a stream
\* that has failed, and reads behind a string only if it cut a pair in two.
ReportsLosses ==
  /\ pc = "returned" /\ error = 0 /\ result >= 0 => lost \subseteq {"separator", "format", "string"}
  /\ pc = "returned" /\ (error = 5 \/ result < 0) => lost # {}
  /\ pc = "hang" => sink = "stream"
  /\ pc = "overrun" => \E s \in Strings(value) : /\ s.storage = "other"
                                                 /\ \E i \in DOMAIN s.units : s.units[i] = "lead" /\ i % BufferSize = 0
=============================================================================
