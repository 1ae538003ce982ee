---------------------------- MODULE InputStream ----------------------------
(***************************************************************************)
(* How the bytes of a JSON text become the code units the parser reads:    *)
(* detect_bom, detect_encoding, the two functions run that dispatch on the *)
(* encoding, the streambuf over the buffers of the synchronous queue       *)
(* (syncqueue_streambuf.hpp) and the category of NSData that only asks for *)
(* the encoding.  The transfer of the buffers is the module SyncQueue's;   *)
(* here a buffer, or nil after the last one, is there when it is wanted.   *)
(***************************************************************************)
EXTENDS Integers, Sequences

CONSTANTS Texts,    \* [bytes, form, skip]: a text, its encoding ("none": malformed), the length of its BOM
          ByteOrder \* of this machine: "little" or "big"

VARIABLES text,
          source,   \* "queue": JPAsyncJsonParser, "data", "string": JPJsonParser, "probe": NSData
          given,    \* the encoding the caller names, "unknown" to have it detected; how a string is stored
          requested,  \* the encoding run is given
          buffers,  \* the division of the text into the buffers the queue delivers
          pc, got,  \* got: how many buffers were taken, nil included
          buffer,   \* the get area, [eback, egptr)
          at, base, \* gptr - eback, and base_pos_
          window,   \* c: what a detection has read
          encoding, units

vars == <<text, source, given, requested, buffers, pc, got, buffer, at, base, window, encoding, units>>

Forms == {"utf8", "utf16le", "utf16be", "utf32le", "utf32be"}
Size(form) == CASE form = "utf8" -> 1 [] form \in {"utf16le", "utf16be"} -> 2 [] OTHER -> 4

\* jp_add_host_endianness: JPUnicodeEncoding_UTF16 and UTF32 stand for the machine's
AddHostEndianness(e) ==
  CASE e = "utf16" -> IF ByteOrder = "little" THEN "utf16le" ELSE "utf16be"
    [] e = "utf32" -> IF ByteOrder = "little" THEN "utf32le" ELSE "utf32be"
    [] OTHER -> e

Bom == [utf8 |-> <<239, 187, 191>>, utf16le |-> <<255, 254>>, utf16be |-> <<254, 255>>,
        utf32le |-> <<255, 254, 0, 0>>, utf32be |-> <<0, 0, 254, 255>>]
BomStarts == UNION {{SubSeq(Bom[f], 1, n) : n \in 1..(Len(Bom[f]) - 1)} : f \in Forms}

(* detect_encoding: what the first bytes are, 0 for zero, 1 for ASCII, 2 for others. *)
Class(b) == IF b = 0 THEN 0 ELSE IF b < 128 THEN 1 ELSE 2
EncodingStarts == {<<0>>, <<1>>, <<0, 0>>, <<1, 0>>, <<0, 0, 0>>, <<1, 0, 0>>, <<0, 0, 0, 0>>}
\* c has room for four classes
Shifted(c) == IF Len(c) > 4 THEN Tail(c) ELSE c
Patterns ==  \* the third line is 0x00000001, which three bytes make too
  [f \in Forms |-> CASE f = "utf8" -> {<<1, 1>>}
                     [] f = "utf16be" -> {<<0, 1>>}
                     [] f = "utf32be" -> {<<0, 0, 0, 1>>, <<0, 0, 1>>}
                     [] f = "utf16le" -> {<<1, 0, 1>>}
                     [] f = "utf32le" -> {<<1, 0, 0, 0>>}]
-----------------------------------------------------------------------------
Min4(n) == IF n < 4 THEN n ELSE 4

\* every division of the bytes into three buffers, some of them empty
Divisions(bytes) == {<<SubSeq(bytes, 1, i), SubSeq(bytes, i + 1, j), SubSeq(bytes, j + 1, Len(bytes))>> :
                       i \in 0..Len(bytes), j \in 0..Len(bytes)}

Init ==
  /\ text \in Texts
  /\ source \in {"queue", "data", "string", "probe"}
  /\ given \in CASE source = "data" -> {"unknown"} \cup Forms
                 [] source = "string" -> {"utf8 pointer", "utf16 pointer", "no pointer"}
                 [] OTHER -> {"unknown"}
  /\ source = "string" => text.bytes = <<>> \/ text.form = AddHostEndianness(IF given = "utf8 pointer" THEN "utf8" ELSE "utf16")
  /\ requested = "unknown"
  /\ buffers \in CASE source = "queue" -> {d \in Divisions(text.bytes) :
                                             Len(d[1]) + Len(d[2]) + Len(d[3]) = Len(text.bytes)}
                   [] source = "probe" -> {<<SubSeq(text.bytes, 1, Min4(Len(text.bytes)))>>}
                   [] OTHER -> {<<text.bytes>>}
  /\ pc = IF source \in {"data", "string"} THEN "call" ELSE "start"
  /\ got = 0 /\ buffer = <<>> /\ at = 0 /\ base = 0
  /\ window = <<>> /\ encoding = "unknown" /\ units = <<>>

Input == <<text, source, given, requested, buffers>>
AtEnd == at = Len(buffer)

\* underflow: take the next buffer; nil or an empty one is the end of the input, nothing comes after nil
Underflow ==
  /\ got <= Len(buffers)
  /\ got' = got + 1 /\ at' = 0
  /\ buffer' = IF got < Len(buffers) THEN buffers[got + 1] ELSE <<>>
  /\ base' = base + Len(buffer)

\* ++first: the streambuf fetches a buffer as soon as the last byte is passed; memory ends there
Snextc(n) ==
  IF at + n < Len(buffer) \/ source # "queue"
  THEN at' = at + n /\ UNCHANGED <<got, buffer, base>>
  ELSE Underflow

\* Mutant: the start of the current buffer is taken for the start of the text
Rewind_anyBuffer(next) == at' = 0 /\ pc' = next /\ UNCHANGED <<got, buffer, base>>

\* seekoff to the start of the text: only inside the current buffer
Rewind(next) ==
  /\ IF base = 0 \/ source # "queue" THEN at' = 0 /\ pc' = next ELSE pc' = "threw" /\ UNCHANGED at
  /\ UNCHANGED <<got, buffer, base>>

\* runWithBytes: an empty text is an error of its own
RunWithBytes ==
  /\ pc' = IF text.bytes = <<>> THEN "empty" ELSE "start"
  /\ UNCHANGED <<text, source, given, buffers, got, buffer, at, base, window, encoding, units>>

\* parseString: the string's own characters as UTF-16 or UTF-8, or a copy as UTF-16
CallString ==
  /\ pc = "call" /\ source = "string"
  /\ requested' = CASE given = "utf16 pointer" -> "unknown" [] given = "utf8 pointer" -> "utf8" [] OTHER -> "utf16"
  /\ RunWithBytes

\* parseData: and parseData:encoding:, which asks for detection all the same
CallData == pc = "call" /\ source = "data" /\ UNCHANGED requested /\ RunWithBytes

\* the encoding is detected when none is requested
Start ==
  /\ pc = "start"
  /\ IF requested = "unknown" THEN pc' = "bom" /\ UNCHANGED encoding
     ELSE pc' = "open" /\ encoding' = AddHostEndianness(requested)
  /\ Underflow
  /\ UNCHANGED <<Input, window, units>>

(* detect_bom, one byte at a time *)
ReadBom ==
  /\ pc = "bom" /\ ~AtEnd
  /\ LET seen == Append(window, buffer[at + 1])
         complete == {f \in Forms : seen = Bom[f]} \ {"utf16le"}
     IN  \/ /\ seen \in BomStarts
            /\ Snextc(1) /\ window' = seen /\ UNCHANGED <<pc, encoding>>
         \/ /\ complete # {}
            /\ Snextc(1) /\ encoding' \in complete /\ pc' = "open" /\ UNCHANGED window
         \/ /\ seen \notin BomStarts /\ window = Bom["utf16le"]   \* first is not incremented
            /\ encoding' = "utf16le" /\ pc' = "open" /\ UNCHANGED <<window, got, buffer, at, base>>
         \/ /\ seen \notin BomStarts /\ complete = {} /\ window # Bom["utf16le"]
            /\ Rewind("encoding") /\ window' = <<>> /\ UNCHANGED encoding
  /\ UNCHANGED <<Input, units>>

BomAtEnd ==
  /\ pc = "bom" /\ AtEnd
  /\ IF window = Bom["utf16le"] THEN encoding' = "utf16le" /\ pc' = "open"
     ELSE pc' = "threw" /\ UNCHANGED encoding
  /\ UNCHANGED <<Input, got, buffer, at, base, window, units>>

(* detect_encoding, one byte at a time *)
ReadEncoding ==
  /\ pc = "encoding" /\ ~AtEnd
  /\ LET seen == Shifted(Append(window, Class(buffer[at + 1])))
         found == {f \in Forms : seen \in Patterns[f]}
     IN  \/ /\ seen \in EncodingStarts
            /\ Snextc(1) /\ window' = seen /\ UNCHANGED <<pc, encoding>>
         \/ /\ found # {}
            /\ Rewind("open") /\ encoding' \in found /\ UNCHANGED window
         \/ /\ seen \notin EncodingStarts /\ found = {}
            /\ pc' = "threw" /\ UNCHANGED <<encoding, window, got, buffer, at, base>>
  /\ UNCHANGED <<Input, units>>

EncodingAtEnd ==
  /\ pc = "encoding" /\ AtEnd
  /\ pc' = "threw"
  /\ UNCHANGED <<Input, got, buffer, at, base, window, encoding, units>>

Aligned(bytes) == Len(bytes) % Size(encoding) = 0

\* whole code units of the memory
OpenMemory ==
  /\ pc = "open" /\ source \in {"data", "string"}
  /\ buffer' = SubSeq(buffer, 1, Len(buffer) - ((Len(buffer) - at) % Size(encoding)))
  /\ pc' = "parse"
  /\ UNCHANGED <<Input, got, at, base, window, encoding, units>>

\* a new streambuf over the current buffer unless it is UTF-8
OpenQueue ==
  /\ pc = "open" /\ source = "queue"
  /\ CASE encoding = "utf8" -> pc' = "parse" /\ UNCHANGED <<at, base>>
       [] encoding # "utf8" /\ Aligned(buffer) -> pc' = "parse" /\ at' = at - (at % Size(encoding)) /\ base' = 0
       [] OTHER -> pc' = "threw" /\ UNCHANGED <<at, base>>
  /\ UNCHANGED <<Input, got, buffer, window, encoding, units>>

Answer ==
  /\ pc = "open" /\ source = "probe"
  /\ pc' = "done"
  /\ UNCHANGED <<Input, got, buffer, at, base, window, encoding, units>>

\* the parser's iterator: a code unit, or the buffer it is in
ReadUnit ==
  /\ pc = "parse" /\ ~AtEnd
  /\ units' = Append(units, SubSeq(buffer, at + 1, at + Size(encoding)))
  /\ at' = at + Size(encoding)
  /\ UNCHANGED <<Input, pc, got, buffer, base, window, encoding>>

ReadBuffer ==
  /\ pc = "parse" /\ AtEnd
  /\ IF source = "queue"
     THEN /\ Underflow
          /\ pc' = IF ~Aligned(buffer') THEN "threw" ELSE IF buffer' = <<>> THEN "done" ELSE "parse"
     ELSE pc' = "done" /\ UNCHANGED <<got, buffer, at, base>>
  /\ UNCHANGED <<Input, window, encoding, units>>

Next == \/ CallString \/ CallData \/ Start \/ ReadBom \/ BomAtEnd \/ ReadEncoding \/ EncodingAtEnd
        \/ OpenMemory \/ OpenQueue \/ Answer \/ ReadUnit \/ ReadBuffer

Spec == Init /\ [][Next]_vars
-----------------------------------------------------------------------------
TypeOK ==
  /\ pc \in {"call", "empty", "start", "bom", "encoding", "open", "parse", "done", "threw"}
  /\ got \in 0..(Len(buffers) + 1) /\ at \in 0..Len(buffer) /\ base \in 0..Len(text.bytes)
  /\ Len(window) <= 4 /\ encoding \in Forms \cup {"unknown"}
  /\ requested \in {"unknown", "utf8", "utf16"}
  /\ encoding # "unknown" => \A i \in DOMAIN units : Len(units[i]) = Size(encoding)

\* where the buffers k of the queue end in the text
Ends == LET end[k \in 0..Len(buffers)] == IF k = 0 THEN 0 ELSE end[k - 1] + Len(buffers[k]) IN end
\* the empty buffer that is fetched when the mark has been read, and which nobody sees
Unseen(k) == text.skip > 0 /\ Ends[k] = text.skip /\ \A l \in DOMAIN buffers : buffers[l] = <<>> => l >= k
\* the bytes before the first empty buffer: the rest is not read
Visible == LET empty == {k \in DOMAIN buffers : buffers[k] = <<>> /\ ~Unseen(k)}
           IN  IF empty = {} THEN Len(text.bytes) ELSE Ends[CHOOSE k \in empty : \A l \in empty : k <= l]
\* a boundary inside a mark, off the boundaries of the code units
Straddles == \E k \in DOMAIN buffers : Ends[k] \in 1..(text.skip - 1) /\ Ends[k] % Size(text.form) # 0
Skipped == IF requested = "unknown" THEN text.skip ELSE 0

\* The encoding of every well-formed text is detected, with a mark or without,
\* from the whole text or from its first four bytes, and the parser is given the
\* code units after the mark, all of them and in order, up to the first empty
\* buffer, however the text is divided: except that it starts inside the mark
\* when a division falls into it off a code unit's boundary, and passes over an
\* empty buffer right behind the mark.  Where nothing is detected the mark is the
\* parser's first code unit.
ReadsText ==
  pc \in {"parse", "done"} /\ text.form # "none" /\ ~(source = "queue" /\ Straddles) =>
    /\ encoding = text.form
    /\ LET size == Size(encoding)
       IN  /\ \A i \in DOMAIN units :
                 units[i] = SubSeq(text.bytes, Skipped + (i - 1) * size + 1, Skipped + i * size)
           /\ pc = "done" /\ source # "probe" => Skipped + Len(units) * size = Visible

\* A well-formed text is refused only for its division: a boundary among the
\* first four bytes, which a reset of the stream cannot pass or an empty buffer
\* ends, or a buffer that is no whole number of code units.
RefusesOnly ==
  pc = "threw" /\ text.form # "none" =>
    /\ source = "queue"
    /\ \/ \E k \in DOMAIN buffers : Ends[k] < Min4(Len(text.bytes))
       \/ \E k \in DOMAIN buffers : Len(buffers[k]) % Size(text.form) # 0
=============================================================================
