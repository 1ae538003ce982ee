----------------------------- MODULE JsonParser -----------------------------
(***************************************************************************)
(* json::parser, the loop around it that parses one document or a stream   *)
(* of documents, and JPJsonParser's runWithBytes, which runs the loop and  *)
(* turns exceptions into errors, over the semantic actions of module       *)
(* RepresentationGenerator and the buffers of module StringStorage.        *)
(*                                                                         *)
(* The text is not fixed in advance: a character is chosen when the parser *)
(* first looks at it.  cur is that character, "?" while nobody looked, and *)
(* "eof" for the end.  A symbol stands for the characters the parser does  *)
(* not tell apart at that point: "lit" for the letter a literal starts     *)
(* with, "x" for any character without a meaning there; brackets, braces   *)
(* and the comma are spelled as words.  The rest of a literal and the four *)
(* hex digits of an escape are one symbol each.                            *)
(*                                                                         *)
(* stack is the recursion of parse_array and parse_object, innermost last. *)
(***************************************************************************)
EXTENDS RepresentationGenerator, StringStorage, Integers, FiniteSets

CONSTANTS
    Options,      \* the option records to consider
    MaxDepth,     \* bound: containers open at a time
    MaxElements,  \* bound: elements of a container
    MaxString,    \* bound: units of a string
    MaxLeft       \* bound: elements and markers an abandoned run leaves in a generator

OptionRecords ==
    [utf32 : BOOLEAN,     \* the encoding of the text, UTF-8 or UTF-16 otherwise
     filter : {"allow", "signal", "substitute", "remove"},  \* noncharacter and null handling
     escaped : BOOLEAN,    \* passEscapdedString
     multi : BOOLEAN,      \* parseMultipleDocuments
     ignore : BOOLEAN,     \* ignoreSpuriousTrailingBytes
     duplicates : BOOLEAN, \* checkDuplicateKey
     cached : BOOLEAN,     \* cacheDataStrings
     strings : BOOLEAN,    \* NumberGeneratorGenerateString
     client : {"waits", "cancels", "reuses"}]  \* what the client does during and after a run

ASSUME ParserAssumption ==
    /\ Options \subseteq OptionRecords
    /\ {MaxDepth, MaxElements, MaxString, MaxLeft} \subseteq Nat

VARIABLES
    pc,       \* where the parser is
    cur,      \* the character at p_
    stack,    \* the active parse_array and parse_object
    err,      \* state_.error()
    buf,      \* string_buffer_
    num,      \* the characters in number_string_buffer_
    sa,       \* the semantic actions
    opt,      \* and their options
    told,     \* whether this run has reported an error to them
    success,  \* what runWithBytes returns
    want,     \* history: the units read of a string or number and not yet in a value
    stale     \* history: the run began with what a failed one left behind

vars == <<pc, cur, stack, err, buf, num, sa, opt, told, success, want, stale>>

Frames == [kind : {"array", "object"}, index : 0..MaxElements]
Top == stack[Len(stack)]
InArray == stack # << >> /\ Top.kind = "array"
InObject == stack # << >> /\ Top.kind = "object"

\* The symbols to tell apart behind a value or a string, before one, in a number,
\* in a string, within the bounds.
Behind ==
    {"ws", "rbrack", "rbrace", ":", "nul", "x"}
        \cup (IF stack # << >> /\ Top.index + 1 < MaxElements THEN {"comma"} ELSE {})
Text ==
    Behind \cup {"quote", "-", "0", "1", "lit"}
        \cup (IF Len(stack) < MaxDepth THEN {"lbrack", "lbrace"} ELSE {})
InNumber == Behind \cup {"-", "0", "1", ".", "e", "+"}
InString ==
    {"quote", "control", "illformed", "broken"}
        \cup (IF want + 1 <= MaxString THEN {"x", "nonch", "nul"} ELSE {})
        \cup (IF want + 2 <= MaxString THEN {"pair", "backslash"} ELSE {})

\* What the parser may find at p_, and the text that is left open.
Seen(symbols) == IF cur = "?" THEN symbols \cup {"eof"} ELSE {cur}

Init ==
    /\ pc = "run" /\ cur = "?" /\ stack = << >> /\ err = "none"
    /\ buf = EmptyStringBuffer /\ num = 0
    /\ sa = NewGenerator
    /\ opt \in Options
    /\ told = FALSE /\ success = FALSE /\ want = 0 /\ stale = FALSE

Goto(l) == pc' = l
Consume == cur' = "?"
Enter(kind) == stack' = Append(stack, [kind |-> kind, index |-> 0])
Leave == stack' = SubSeq(stack, 1, Len(stack) - 1)
NextElement == stack' = [stack EXCEPT ![Len(stack)].index = @ + 1]

\* At an error it no longer matters which character it was, only whether p_ is
\* at the end.  Of the error codes those are told apart that matter later on.
StopAt(c) == cur' = IF c = "eof" THEN c ELSE "x"
Code(c) == IF c = "eof" THEN "unexpectedEnd" ELSE "syntax"

\* state_.error() is set, and with Raise also reported.
Fail(code) == err' = code /\ UNCHANGED <<told, sa>>
Report(code) == told' = TRUE /\ sa' = OnError(sa, code)
Raise(code) == err' = code /\ Report(code)
Good == UNCHANGED <<err, told>>

Buffers == UNCHANGED <<buf, num, want>>
\* What is in a buffer is cleared before the next string or number.
Drop == buf' = Prepare(buf, FALSE) /\ num' = 0 /\ want' = 0
Session == UNCHANGED <<opt, success, stale>>

-----------------------------------------------------------------------------
(* runWithBytes: a run of the loop, and another one with the same actions  *)

Finish(result) ==
    /\ Goto("ended") /\ success' = result
    /\ UNCHANGED <<stack, err, opt, stale>> /\ Drop

Run ==
    /\ pc = "run" /\ Goto("start")
    /\ UNCHANGED <<cur, stack, sa>> /\ Good /\ Buffers /\ Session

\* No text at all, or one whose encoding cannot be told: nothing is parsed.
Refuse ==
    /\ pc = "run" /\ Finish(FALSE) /\ UNCHANGED cur
    /\ \E code \in {"empty", "client"} : Report(code)

\* Another run with the same actions, after clear or just so.
Again(cleared) ==
    /\ opt.client = "reuses"
    /\ pc = "ended" /\ Goto("run") /\ Consume /\ stack' = << >>
    /\ err' = "none" /\ told' = FALSE /\ success' = FALSE
    /\ buf' = EmptyStringBuffer /\ num' = 0 /\ want' = 0
    /\ sa' = IF cleared THEN OnClear(sa) ELSE sa
    /\ stale' = (sa'.stack # << >> \/ sa'.markers # << >>)
    /\ UNCHANGED opt

Clear == Again(TRUE)
Reuse == ~stale /\ Len(sa.stack \o sa.markers) <= MaxLeft /\ Again(FALSE)

\* From any thread, or from a handler.
Cancel ==
    /\ opt.client = "cancels"
    /\ sa' = [sa EXCEPT !.canceled = TRUE]
    /\ UNCHANGED <<pc, cur, stack>> /\ Good /\ Buffers /\ Session

-----------------------------------------------------------------------------
(* The beginning of a document                                             *)

\* skip_whitespaces, where the parser skips before it looks.
SkipWhitespace ==
    /\ pc \in {"root", "first", "member", "colon", "closed", "counted", "after", "next", "trailing"}
    /\ "ws" \in Seen(Text)
    /\ Consume
    /\ UNCHANGED <<pc, stack, sa>> /\ Good /\ Buffers /\ Session

Parse ==
    /\ pc = "start" /\ Goto("text")
    /\ sa' = OnParseBegin(sa)
    /\ UNCHANGED <<cur, stack>> /\ Good /\ Buffers /\ Session

ParseCanceled ==
    /\ pc = "text" /\ sa.canceled
    /\ Goto("parsed") /\ Raise("canceled")
    /\ UNCHANGED <<cur, stack>> /\ Buffers /\ Session

ParseText ==
    /\ pc = "text" /\ ~sa.canceled
    /\ Goto("root")
    /\ UNCHANGED <<cur, stack, sa>> /\ Good /\ Buffers /\ Session

\* begin_array and begin_object, of the root and of a value.
Begin ==
    /\ pc \in {"root", "value"}
    /\ \/ "lbrack" \in Seen(Text) /\ Enter("array")
       \/ "lbrace" \in Seen(Text) /\ Enter("object")
    /\ Goto("first") /\ Consume
    /\ sa' = OnBegin(sa)
    /\ Good /\ Buffers /\ Session

RootError ==
    /\ pc = "root" /\ Goto("parsed")
    /\ \E c \in Seen(Text) \ {"lbrack", "lbrace", "ws"} :
          StopAt(c) /\ Raise(IF c = "eof" THEN "empty" ELSE "syntax")
    /\ UNCHANGED stack /\ Buffers /\ Session

-----------------------------------------------------------------------------
(* parse_array, parse_object and parse_key_value_list                      *)

Closing == IF InArray THEN "rbrack" ELSE "rbrace"

\* A container that is empty, and one with a first element.
First ==
    /\ pc = "first"
    /\ \E c \in Seen(Text) \ {"ws", "nul", "eof"} :
          /\ cur' = c
          /\ Goto(IF c = Closing THEN "done" ELSE IF InArray THEN "value" ELSE "member")
    /\ UNCHANGED <<stack, sa>> /\ Good /\ Buffers /\ Session

FirstError ==
    /\ pc = "first" /\ Goto("failed")
    /\ \E c \in Seen(Text) \cap {"nul", "eof"} :
          StopAt(c) /\ Raise(Code(c))
    /\ UNCHANGED stack /\ Buffers /\ Session

\* After a value: a comma, the end of the container, or an error.
Comma ==
    /\ pc = "after" /\ "comma" \in Seen(Behind)
    /\ Consume
    /\ IF InArray THEN Goto("next") /\ UNCHANGED stack ELSE Goto("member") /\ NextElement
    /\ UNCHANGED sa /\ Good /\ Buffers /\ Session

NextValue ==
    /\ pc = "next" /\ Goto("value")
    /\ \E c \in Seen(Text) \ {"ws", "eof"} : cur' = c
    /\ NextElement
    /\ UNCHANGED sa /\ Good /\ Buffers /\ Session

Closed ==
    /\ pc = "after" /\ Goto("done")
    /\ Closing \in Seen(Behind) /\ cur' = Closing
    /\ UNCHANGED <<stack, sa>> /\ Good /\ Buffers /\ Session

ArrayError ==
    /\ InArray /\ Goto("failed")
    /\ \/ pc = "after" /\ \E c \in Seen(Behind) \ {"ws", "comma", "rbrack"} :
             StopAt(c) /\ Raise(Code(c))
       \/ pc = "next" /\ "eof" \in Seen(Text) /\ cur' = "eof" /\ Raise("unexpectedEnd")
    /\ UNCHANGED stack /\ Buffers /\ Session

ObjectError ==
    /\ pc = "after" /\ InObject /\ Goto("failed")
    /\ \E c \in Seen(Behind) \ {"ws", "comma", "rbrace", "eof"} :
          StopAt(c) /\ Raise("syntax")
    /\ UNCHANGED stack /\ Buffers /\ Session

Key ==
    /\ pc = "member" /\ "quote" \in Seen(Text)
    /\ Goto("string") /\ Consume
    /\ buf' = Prepare(buf, FALSE) /\ want' = 0
    /\ UNCHANGED <<stack, sa, num>> /\ Good /\ Session

KeyEnd ==
    /\ pc = "closed" /\ ~buf.partial /\ ":" \in Seen(Behind)
    /\ Goto("colon") /\ Consume
    /\ UNCHANGED <<stack, sa>> /\ Good /\ Buffers /\ Session

\* Which keys of an object are equal is left open.  What stays in the buffer is
\* cleared before it is used again.
KeyValue ==
    /\ pc = "colon" /\ Goto("value")
    /\ \E c \in Seen(Text) \ {"ws", "eof"} : cur' = c
    /\ \E k \in Keys : sa' = OnKey(sa, k)
    /\ Drop
    /\ UNCHANGED stack /\ Good /\ Session

\* The ways out of the loop over the members: the state is set here and
\* reported behind the loop.
MemberError ==
    /\ Goto("list")
    /\ \/ pc = "member" /\ \E c \in Seen(Text) \ {"ws", "quote"} :
             StopAt(c) /\ Fail(Code(c))
       \/ pc = "closed" /\ ~buf.partial /\ \E c \in Seen(Behind) \ {"ws", ":"} :
             StopAt(c) /\ Fail(Code(c))
       \/ pc \in {"colon", "after"} /\ InObject /\ "eof" \in Seen(Text)
             /\ cur' = "eof" /\ Fail("unexpectedEnd")
    /\ UNCHANGED stack /\ Drop /\ Session

\* Mutant: a list whose last character was read does not report its error.
ListError_silentAtEnd ==
    /\ pc = "list" /\ Goto("failed")
    /\ \E c \in Seen({"x"}) :
          /\ cur' = c
          /\ IF c = "eof" THEN Fail("unexpectedEnd") ELSE Raise(err)
    /\ UNCHANGED stack /\ Buffers /\ Session

ListError ==
    /\ pc = "list" /\ Goto("failed")
    /\ \E c \in Seen({"x"}) :
          cur' = c /\ Raise(IF c = "eof" THEN "unexpectedEnd" ELSE err)
    /\ UNCHANGED stack /\ Buffers /\ Session

\* Mutant: an object that is an element is completed without the check.
EndValue_unchecked ==
    /\ pc = "done" /\ Len(stack) > 1
    /\ Consume /\ Goto("after") /\ Good /\ sa' = OnEnd(sa)
    /\ Leave
    /\ Buffers /\ Session

\* The handlers of a complete container that is an element of another one.
EndValue ==
    /\ pc = "done" /\ Len(stack) > 1
    /\ IF InObject /\ opt.duplicates /\ HasDuplicates(sa)
       THEN /\ \E c \in {"x", "eof"} : cur' = c
            /\ Goto(IF stack[Len(stack) - 1].kind = "array" THEN "failed" ELSE "list")
            /\ err' = "keyExists" /\ told' = TRUE /\ sa' = OnError(OnEnd(sa), "keyExists")
       ELSE Consume /\ Goto("after") /\ Good /\ sa' = OnEnd(sa)
    /\ Leave
    /\ Buffers /\ Session

\* Mutant: the end of a failed container is reported as if it were complete.
Unwind_ends ==
    /\ pc = "failed" /\ Leave
    /\ Goto(IF Len(stack) = 1 THEN "parsed"
            ELSE IF stack[Len(stack) - 1].kind = "array" THEN "failed" ELSE "list")
    /\ sa' = OnEnd(sa)
    /\ UNCHANGED cur /\ Good /\ Buffers /\ Session

\* A failed container makes the value it is in its parent fail: an array
\* returns without a report, a list of members reports.
Unwind ==
    /\ pc = "failed" /\ Leave
    /\ Goto(IF Len(stack) = 1 THEN "parsed"
            ELSE IF stack[Len(stack) - 1].kind = "array" THEN "failed" ELSE "list")
    /\ UNCHANGED <<cur, sa>> /\ Good /\ Buffers /\ Session

\* Where a failed scalar value leads.
FailValue == Goto(IF InArray THEN "failed" ELSE "list")

-----------------------------------------------------------------------------
(* parse_value: literals and numbers                                       *)

\* match: the rest of the literal is there, another character, or nothing.
Literal ==
    /\ pc = "value" /\ cur = "lit"
    /\ UNCHANGED stack /\ Buffers /\ Session
    /\ \/ Consume /\ Goto("after") /\ sa' = OnLiteral(sa) /\ Good
       \/ \E c \in {"x", "eof"} :
             cur' = c /\ FailValue /\ Raise(Code(c))

ValueError ==
    /\ pc = "value" /\ cur \notin {"quote", "lbrack", "lbrace", "lit", "-", "0", "1"}
    /\ FailValue /\ StopAt(cur) /\ Raise("syntax")
    /\ UNCHANGED stack /\ Buffers /\ Session

Number ==
    /\ pc = "value" /\ cur \in {"-", "0", "1"}
    /\ Goto("number") /\ num' = 0 /\ want' = 0
    /\ UNCHANGED <<cur, stack, sa, buf>> /\ Good /\ Session

\* How parse_number reads on: <<what it has read, the next character, then>>.
NumberSteps ==
    {<<"number", "-", "minus">>, <<"zero", ".", "point">>, <<"int", ".", "point">>}
        \cup ({"number", "minus"} \X {"0"} \X {"zero"})
        \cup ({"number", "minus"} \X {"1"} \X {"int"})
        \cup ({"int"} \X {"0", "1"} \X {"int"})
        \cup ({"point", "frac"} \X {"0", "1"} \X {"frac"})
        \cup ({"zero", "int", "frac"} \X {"e"} \X {"e"})
        \cup ({"e"} \X {"-", "+"} \X {"sign"})
        \cup ({"e", "sign", "exp"} \X {"0", "1"} \X {"exp"})
InsideNumber == {"number", "minus", "zero", "int", "point", "frac", "e", "sign", "exp"}
GoodNumber == {"zero", "int", "frac", "exp"}
ReadsOn(c) == \E s \in NumberSteps : s[1] = pc /\ s[2] = c

NumberCharacter ==
    /\ NumberFits(num) /\ num' = num + 1 /\ want' = want + 1
    /\ \E s \in NumberSteps : pc = s[1] /\ s[2] \in Seen(InNumber) /\ Goto(s[3])
    /\ Consume
    /\ UNCHANGED <<stack, sa, buf>> /\ Good /\ Session

NumberEnd ==
    /\ pc \in GoodNumber /\ NumberFits(num) /\ Goto("counted")
    /\ \E c \in Seen(InNumber) :
          ~ReadsOn(c) /\ cur' = IF c \in Behind \cup {"eof"} THEN c ELSE "x"
    /\ UNCHANGED <<stack, sa>> /\ Good /\ Buffers /\ Session

BadNumber ==
    /\ pc \in InsideNumber \ GoodNumber /\ FailValue
    /\ \E c \in Seen(InNumber) : ~ReadsOn(c) /\ StopAt(c)
    /\ Raise("syntax")
    /\ UNCHANGED stack /\ Drop /\ Session

NumberValue ==
    /\ pc = "counted" /\ Goto("after")
    /\ \E c \in Seen(Behind) \ {"ws"} : cur' = c
    /\ LET pushed == OnValueNumber(sa, num, opt.strings)
       IN  sa' = pushed.actions /\ want' = want - pushed.units
    /\ num' = 0
    /\ UNCHANGED <<stack, buf>> /\ Good /\ Session

-----------------------------------------------------------------------------
(* parse_string, escape_sequence and escaped_unicode                       *)

String ==
    /\ pc = "value" /\ cur = "quote"
    /\ Goto("string") /\ Consume
    /\ buf' = Prepare(buf, TRUE) /\ want' = 0
    /\ UNCHANGED <<stack, sa, num>> /\ Good /\ Session

\* Append to the string buffer; a chunk it has to write goes to the actions.
Write(e, units) ==
    /\ buf' = e.buffer /\ want' = want + units
    /\ sa' = IF e.sent > 0 THEN OnValueString(sa, e.sent, TRUE, opt.cached).actions ELSE sa
    /\ Good /\ UNCHANGED <<stack, num>>

\* string_buffer_pushback_unicode: what the filter does with the character,
\* which takes that many units when it is let through.
Filter(c) == IF c \in {"nonch", "nul"} THEN opt.filter ELSE "allow"
WriteUnicode(c, units) ==
    \/ Filter(c) = "allow" /\ Write(AppendUnicode(buf, units), units)
    \/ Filter(c) = "substitute" /\ Write(AppendUnicode(buf, 1), 1)
    \/ Filter(c) = "remove" /\ Good /\ Buffers /\ UNCHANGED <<stack, sa>>

FailString == Goto(IF buf.partial /\ InArray THEN "failed" ELSE "list")

Ascii ==
    /\ pc = "string" /\ "x" \in Seen(InString)
    /\ Consume /\ UNCHANGED pc
    /\ Write(AppendUnits(buf, 1), 1)
    /\ Session

\* Mutant: a character that is removed from the string is not passed over.
Unicode_notConsumed ==
    /\ pc = "string" /\ UNCHANGED pc
    /\ \E c \in Seen(InString) \cap {"pair", "nonch", "nul"} :
          /\ WriteUnicode(c, IF c = "pair" THEN 2 ELSE 1)
          /\ cur' = IF Filter(c) = "remove" THEN c ELSE "?"
    /\ Session

\* In UTF-32 the conversion of one character does not step over it: the next
\* step finds and writes it again, here until the bound of a string.
Unicode ==
    /\ pc = "string" /\ UNCHANGED pc
    /\ \E c \in Seen(InString) \cap InString \cap {"pair", "nonch", "nul"} :
          /\ WriteUnicode(c, IF c = "pair" THEN 2 ELSE 1)
          /\ cur' = IF opt.utf32 THEN c ELSE "?"
    /\ Session

StringError ==
    /\ pc = "string" /\ FailString
    /\ \/ \E c \in Seen(InString) \cap {"control", "illformed", "broken", "eof"} :
             LET stop == IF c = "broken" THEN "eof" ELSE c
             IN  StopAt(stop) /\ Raise(Code(stop))
       \/ /\ {"nonch", "nul"} \cap Seen(InString) # {} /\ opt.filter = "signal"
          /\ Consume /\ Raise("rejected")
    /\ UNCHANGED stack /\ Drop /\ Session

Quote ==
    /\ pc = "string" /\ "quote" \in Seen(InString)
    /\ Goto("closed") /\ Consume
    /\ UNCHANGED <<stack, sa>> /\ Good /\ Buffers /\ Session

\* flush, after the white space behind a data string.
StringValue ==
    /\ pc = "closed" /\ buf.partial /\ Goto("after")
    /\ \E c \in Seen(Behind) \ {"ws"} : cur' = c
    /\ LET pushed == OnValueString(sa, buf.size, FALSE, opt.cached)
       IN  sa' = pushed.actions /\ want' = want - pushed.units
    /\ buf' = Prepare(buf, FALSE)
    /\ UNCHANGED <<stack, num>> /\ Good /\ Session

Backslash ==
    /\ pc = "string" /\ "backslash" \in Seen(InString)
    /\ Goto("escape") /\ Consume
    /\ UNCHANGED <<stack, sa>> /\ Good /\ Buffers /\ Session

\* An escape that stands for an ASCII character, or is passed on as it is.
Escape ==
    LET first == AppendUnits(buf, 1)
        second == AppendUnits(first.buffer, 1)
    IN  /\ pc = "escape" /\ Goto("string") /\ Consume
        /\ IF opt.escaped
           THEN Write([second EXCEPT !.sent = @ + first.sent], 2)
           ELSE Write(first, 1)
        /\ Session

\* \u, and between the halves of a surrogate pair.
EscapeUnicode ==
    /\ pc \in {"escape", "low"} /\ Consume
    /\ Goto(IF pc = "low" THEN "lowQuad" ELSE "quad")
    /\ UNCHANGED <<stack, sa>> /\ Good /\ Buffers /\ Session

Quad ==
    /\ pc = "quad" /\ Goto("string") /\ Consume
    /\ \E c \in {"plain", "nul", "nonch"} : WriteUnicode(c, 1)
    /\ Session

HighSurrogate ==
    /\ pc = "quad" /\ Goto("low") /\ Consume
    /\ UNCHANGED <<stack, sa>> /\ Good /\ Buffers /\ Session

LowQuad ==
    /\ pc = "lowQuad" /\ Goto("string") /\ Consume
    /\ \E c \in {"plain", "nonch"} : WriteUnicode(c, 2)
    /\ Session

\* The state is set, but nothing in parse_string reports it.
EscapeRejected ==
    /\ pc \in {"quad", "lowQuad"} /\ opt.filter = "signal"
    /\ FailString /\ Consume
    /\ Fail("rejected")
    /\ UNCHANGED stack /\ Drop /\ Session

EscapeError ==
    /\ pc \in {"escape", "quad", "low", "lowQuad"} /\ FailString
    /\ \/ \E c \in {"x", "eof"} : cur' = c /\ Raise(Code(c))
       \/ pc \in {"quad", "lowQuad"} /\ Consume /\ Raise("syntax")
    /\ UNCHANGED stack /\ Drop /\ Session

-----------------------------------------------------------------------------
(* The end of a document, of the loop and of the run                       *)

\* The root is complete: its end and the end of the document.
RootEnd ==
    LET g == OnEnd(sa)
        duplicate == InObject /\ opt.duplicates /\ HasDuplicates(sa)
    IN  /\ pc = "done" /\ Len(stack) = 1
        /\ Leave /\ UNCHANGED cur
        /\ \/ duplicate /\ Goto("parsed")
                /\ err' = "keyExists" /\ told' = TRUE /\ sa' = OnError(g, "keyExists")
                /\ UNCHANGED success
           \/ ~duplicate /\ Complete(g) /\ Goto("parsed")
                /\ sa' = OnParseEnd(g) /\ Good /\ UNCHANGED success
           \/ ~duplicate /\ ~Complete(g) /\ Goto("ended")
                /\ told' = TRUE /\ sa' = OnError(g, "unexpected") /\ success' = FALSE
                /\ UNCHANGED err
        /\ Buffers /\ UNCHANGED <<opt, stale>>

\* Where the loop stops, at an error or because it does not look any further.
Parsed ==
    /\ pc = "parsed"
    /\ err = "none" => opt.ignore /\ ~opt.multi
    /\ Finish(err = "none")
    /\ UNCHANGED <<cur, sa, told>>

LookBehind ==
    /\ pc = "parsed" /\ err = "none" /\ (opt.multi \/ ~opt.ignore)
    /\ Goto("trailing") /\ Consume
    /\ UNCHANGED <<stack, sa>> /\ Good /\ Buffers /\ Session

\* Nothing but white space until the end or a null character, or, with ignore,
\* anything that does not begin a document.
LoopEnd ==
    /\ pc = "trailing"
    /\ \E c \in Seen(Text) :
          /\ \/ c \in {"eof", "nul"}
             \/ opt.ignore /\ c \notin {"ws", "lbrack", "lbrace"}
          /\ cur' = c
    /\ Finish(TRUE) /\ UNCHANGED <<sa, told>>

NextDocument ==
    /\ pc = "trailing" /\ opt.multi
    /\ \E c \in Seen(Text) :
          /\ IF opt.ignore THEN c \in {"lbrack", "lbrace"} ELSE c \notin {"ws", "eof", "nul"}
          /\ cur' = c
    /\ Goto("start")
    /\ UNCHANGED <<stack, sa>> /\ Good /\ Buffers /\ Session

ExtraCharacters ==
    /\ pc = "trailing" /\ ~opt.multi
    /\ \E c \in Seen(Text) \ {"ws", "eof", "nul"} : cur' = c
    /\ Finish(FALSE) /\ Report("extraCharacters")

\* An overflow of the number buffer is thrown out of the whole run.
Overflow ==
    /\ pc \in InsideNumber /\ ~NumberFits(num)
    /\ \E c \in Seen(InNumber) : (ReadsOn(c) \/ pc \in GoodNumber) /\ StopAt(c)
    /\ Finish(FALSE) /\ Report("unexpected")

Document == Run \/ Refuse \/ Parse \/ ParseCanceled \/ ParseText \/ Begin \/ RootError \/ RootEnd
Containers ==
    \/ First \/ FirstError \/ Comma \/ NextValue \/ Closed \/ ArrayError \/ ObjectError
    \/ Key \/ KeyEnd \/ KeyValue \/ MemberError \/ ListError \/ EndValue \/ Unwind
Scalars ==
    \/ Literal \/ ValueError
    \/ Number \/ NumberCharacter \/ NumberEnd \/ BadNumber \/ NumberValue \/ Overflow
Strings ==
    \/ String \/ Ascii \/ Unicode \/ StringError \/ Quote \/ StringValue
    \/ Backslash \/ Escape \/ EscapeUnicode \/ Quad \/ HighSurrogate \/ LowQuad
    \/ EscapeRejected \/ EscapeError
Loop == Parsed \/ LookBehind \/ LoopEnd \/ NextDocument \/ ExtraCharacters

Step == SkipWhitespace \/ Document \/ Containers \/ Scalars \/ Strings \/ Loop
Next == Step \/ Clear \/ Reuse \/ Cancel

Spec == Init /\ [][Next]_vars /\ WF_vars(Step)

-----------------------------------------------------------------------------
(* Properties                                                              *)

\* Every variable keeps its type: the generator's record, the buffer, and the
\* depth and width of what is open.
TypeOK ==
    /\ pc \in {"run", "start", "text", "root", "first", "value", "after", "next", "member", "colon",
               "string", "escape", "quad", "low", "lowQuad", "closed", "counted", "done", "failed",
               "list", "parsed", "trailing", "ended"} \cup InsideNumber
    /\ stack \in Seq(Frames) /\ Len(stack) <= MaxDepth
    /\ buf \in StringBuffers /\ num \in 0..NumberSize /\ want \in Int
    /\ sa.stack \in Seq(Items) /\ sa.markers \in Seq(Nat) /\ sa.tmp \in Nat
    /\ sa.result \in {nil, Value} /\ {told, success, stale, sa.canceled} \subseteq BOOLEAN
    /\ opt \in Options

\* Nothing is ever written behind the end of the string buffer, whatever mix
\* of ASCII characters, surrogate pairs and escapes filled it.
BufferFits == buf.size <= buf.cap

\* A key is handed over in one piece, however long it is.
KeyWhole == pc \in {"closed", "colon"} /\ ~buf.partial => buf.size = want

\* The generator's demand on the end of a document, one element and no marker,
\* can fail only when a failed run left elements behind and nobody cleared
\* them: parse_begin does not.
CompleteUnlessStale ==
    pc = "done" /\ Len(stack) = 1 /\ ~stale => Complete(OnEnd(sa))

\* A document fails without parserDetectedError only for an escaped character
\* that the filters reject, and only while no object is open around it.
SilentOnlyRejected ==
    pc \in {"failed", "parsed", "ended"} /\ err # "none" /\ ~told =>
        /\ err = "rejected"
        /\ pc = "failed" => InArray

\* What runWithBytes returns agrees with what the semantic actions know: YES
\* comes with a representation and no error; after NO, the error they hold is
\* the one the parser stopped at, unless the run was canceled.
Verdict ==
    pc = "ended" =>
        /\ success => err = "none" /\ ~told /\ sa.error = "none" /\ sa.result = Value
        /\ ~success => err # "none" \/ told
        /\ told /\ err # "none" => sa.error = err \/ sa.canceled

\* A string arrives complete, in whatever chunks the buffer sent it, and so
\* does a number: no digit is dropped at the limit of its buffer.  With
\* cacheDataStrings this fails once a chunk has been left behind: the string
\* lacks it, and a later number represented as a string begins with it.
DataWhole == pc = "after" => want = 0 \/ opt.cached

\* After an error nothing more is built: no element is added, and no result is
\* replaced, until the actions are used for another run.
NothingBuiltAfterError ==
    [][err # "none" /\ pc # "ended" => sa'.stack = sa.stack /\ sa'.result = sa.result]_vars

\* The stack with its markers is the nesting of the containers that are open.
OpenContainers ==
    LET below == Len(sa.markers) - Len(stack)
        first(i) == sa.markers[below + i] + 1
        last(i) == IF i = Len(stack) THEN Len(sa.stack) ELSE sa.markers[below + i + 1]
    IN  IF err # "none" \/ pc = "ended" THEN << >>
        ELSE [i \in 1..Len(stack) |->
                 [kind |-> stack[i].kind, items |-> SubSeq(sa.stack, first(i), last(i))]]

Tree == INSTANCE ValueTree
    WITH open <- OpenContainers, result <- sa.result, unique <- opt.duplicates

\* The events build the tree of values: every key gets one value, containers
\* close in the order they were opened, no object is completed with two equal
\* keys when they are checked, and a result is the root of a complete tree.
BuildsTree == Tree!Spec

\* Every character the parser stops at is eventually consumed, unless the run
\* ends: no state of the parser reads the same position forever, with one
\* exception, the characters behind ASCII in a string of a UTF-32 text.
Repeats == opt.utf32 /\ pc = "string" /\ cur \in {"pair", "nonch", "nul"}
Progress == (cur \notin {"?", "eof"} /\ ~Repeats) ~> (cur = "?" \/ pc = "ended")
=============================================================================
