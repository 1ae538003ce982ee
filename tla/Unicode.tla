------------------------------ MODULE Unicode ------------------------------
(***************************************************************************)
(* unicode/unicode_converter.hpp and unicode_conversion.hpp: the parsers   *)
(* of UTF-8, UTF-16 and UTF-32, the actions that turn what they find into  *)
(* another encoding, and convert(), which feeds them a text in chunks and  *)
(* may replace ill-formed parts.  Every step is one turn of the parser's   *)
(* loop or one of its resume labels.  Code units are numbers in the byte   *)
(* order of the host: the byte swaps are left out.                         *)
(***************************************************************************)
EXTENDS CodePoints

CONSTANTS Texts,      \* for "utf8", "utf16", "utf32": the texts, sequences of code units
          Threshold   \* treshhold_length, at least 5: longer random access ranges take the fast path

VARIABLES form,     \* the encoding of the text
          option,   \* ConvertOption: "None" or "ReplaceIllFormed"; "Unsafe" stands for convert_unsafe
          keeps,    \* the overload of convert: with an mb_state, or without
          state,    \* during a call on the fast path: the caller's mb_state
          text, pc, first, last,
          limit,    \* the end of the range the parser was given: last, or last1 on the fast path
          pending,  \* state_ and buffer_: the code units of a partial character, State_0 when none
          chars     \* what the actions were called with; Ill for a replacement character

vars == <<form, option, keeps, state, text, pc, first, last, limit, pending, chars>>

Ill == <<>>
kReplacementCharacter == 65533

UnicodeConstants == /\ Threshold \in Nat /\ Threshold >= 5
                    /\ DOMAIN Texts \subseteq {"utf8", "utf16", "utf32"}
                    /\ \A f \in DOMAIN Texts : Texts[f] \subseteq Seq(Nat)

LOCAL Concat(ss) == LET cat[i \in 0..Len(ss)] == IF i = 0 THEN <<>> ELSE cat[i - 1] \o ss[i] IN cat[Len(ss)]
-----------------------------------------------------------------------------
(* The parsers' actions: what they write for the code units b of one character. *)

Utf8ToUtf8(b) == b
Utf8ToUtf16(b) ==
  IF Len(b) < 4 THEN <<Utf8ToCodepoint(b)>>
  ELSE <<utf16_get_lead(Utf8ToCodepoint(b)), utf16_get_trail(Utf8ToCodepoint(b))>>
Utf8ToUtf32(b) == <<Utf8ToCodepoint(b)>>
\* action_single_byte, double, triple and surrogate_pair: the length of the output is decided by the parser
Utf16ToUtf8(b) == LET cp == Utf16ToCodepoint(b) IN
  CASE Len(b) = 1 /\ b[1] <= 127 -> <<cp>>
    [] Len(b) = 1 /\ b[1] \in 128..2047 -> <<192 + cp \div 64, Trail(cp)>>
    [] Len(b) = 1 /\ b[1] > 2047 -> <<224 + cp \div 4096, Trail(cp \div 64), Trail(cp)>>
    [] Len(b) = 2 -> <<240 + cp \div 262144, Trail(cp \div 4096), Trail(cp \div 64), Trail(cp)>>
Utf16ToUtf16(b) == b
Utf16ToUtf32(b) == <<Utf16ToCodepoint(b)>>
Utf32ToUtf8(b) == Utf8(b[1])
Utf32ToUtf16(b) == Utf16(b[1])
Utf32ToUtf32(b) == b

(* The converters: what they write for the characters cs.  They hand them to the
   parser, which calls the actions for the target. *)
LOCAL Each(Write(_), cs) == Concat([i \in DOMAIN cs |-> Write(cs[i])])

Utf8ToCodepoints(cs) == Each(LAMBDA b : <<Utf8ToCodepoint(b)>>, cs)
ConvertUtf8(to, cs) ==
  CASE to = "utf8" -> Each(Utf8ToUtf8, cs) [] to = "utf16" -> Each(Utf8ToUtf16, cs)
    [] to = "utf32" -> Each(Utf8ToUtf32, cs)
Utf16ToCodepoints(cs) == Each(LAMBDA b : <<Utf16ToCodepoint(b)>>, cs)
ConvertUtf16(to, cs) ==
  CASE to = "utf8" -> Each(Utf16ToUtf8, cs) [] to = "utf16" -> Each(Utf16ToUtf16, cs)
    [] to = "utf32" -> Each(Utf16ToUtf32, cs)
Utf32ToCodepoints(cs) == Each(LAMBDA b : b, cs)
ConvertUtf32(to, cs) ==
  CASE to = "utf8" -> Each(Utf32ToUtf8, cs) [] to = "utf16" -> Each(Utf32ToUtf16, cs)
    [] to = "utf32" -> Each(Utf32ToUtf32, cs)

\* escapes: four hexadecimal digits are written as one number
Escape(cp) == IF cp <= 65535 THEN <<"\\u", cp>>
              ELSE <<"\\u", "\\u", utf16_get_lead(cp), "\\u", utf16_get_trail(cp)>>
EscapeUtf8(cs) == Each(LAMBDA b : Escape(Utf8ToCodepoint(b)), cs)
\* only the first character is read into code_point, the others are written behind it
Undefined == <<"undefined">>
EscapeUtf16(cs) == IF Len(cs) > 1 THEN Undefined ELSE Each(LAMBDA b : Escape(Utf16ToCodepoint(b)), cs)
-----------------------------------------------------------------------------
(* The parsers' tests of one code unit. *)

is_trail(u) ==
  CASE form = "utf8" -> utf8_is_trail(u) [] form = "utf16" -> utf16_is_trail(u) [] OTHER -> FALSE

\* what the converter's Validation leaves out: comparing first with last, and with
\* it the test of trailing code units and of UTF-32's scalar values
NoCheckLast == pc = "fast"
NoCheckTrails == option = "Unsafe"
NoCheckValidUnicode == option = "Unsafe"

\* the code units that follow u, -1 when u starts no character
Utf8Trails(u) ==
  CASE utf8_is_single(u) -> 0 [] u \in 194..223 -> 1 [] u \in 224..239 -> 2 [] u \in 240..244 -> 3 [] OTHER -> -1
Utf16Trails(u) ==
  CASE utf16_is_single(u) -> 0 [] utf16_is_lead(u) -> 1 [] OTHER -> IF NoCheckTrails THEN 1 ELSE -1
Utf32Trails(u) == IF NoCheckValidUnicode \/ isUnicodeScalarValue(u) THEN 0 ELSE -1
Trails(u) ==
  CASE form = "utf8" -> Utf8Trails(u) [] form = "utf16" -> Utf16Trails(u) [] OTHER -> Utf32Trails(u)

\* Mutant: overlong sequences and surrogates are let through
Utf8TrailFits_anyTrail(b, u) == utf8_is_trail(u)

Utf8TrailFits(b, u) ==
  IF Len(b) > 1 THEN utf8_is_trail(u)
  ELSE CASE b[1] = 224 -> u \in 160..191
         [] b[1] = 237 -> u \in 128..159
         [] b[1] = 240 -> u \in 144..191
         [] b[1] = 244 -> u \in 128..143
         [] OTHER -> utf8_is_trail(u)
TrailFits(b, u) == NoCheckTrails \/ IF form = "utf8" THEN Utf8TrailFits(b, u) ELSE utf16_is_trail(u)

\* the state_ of an mb_state whose buffer_ holds b, and so the label at which a
\* call resumes: the number of code units to come, and of those that have
Utf8State(b) == IF b = <<>> THEN 0 ELSE 10 * Utf8Trails(b[1]) + Len(b) - 1
Utf16State(b) == Len(b)
State(b) == IF form = "utf8" THEN Utf8State(b) ELSE Utf16State(b)
Utf8States == {0, 10, 20, 21, 30, 31, 32}
Utf16States == {0, 1}
mb_state == [utf8 |-> Utf8States, utf16 |-> Utf16States, utf32 |-> {0}]
-----------------------------------------------------------------------------
(* The definition of the Unicode Standard: a sequence is well-formed if it is the
   encoding of a scalar value, an ill-formed text is cut into maximal subparts. *)

Codepoint(b) ==
  CASE form = "utf8" -> Utf8ToCodepoint(b) [] form = "utf16" -> Utf16ToCodepoint(b) [] OTHER -> b[1]
Encode(cp) ==
  CASE form = "utf8" -> Utf8(cp) [] form = "utf16" -> Utf16(cp) [] OTHER -> Utf32(cp)
WellFormed(s) == isUnicodeScalarValue(Codepoint(s)) /\ Encode(Codepoint(s)) = s

\* a partial character is completed by the smallest or by the largest trailing code units, if at all
Completions == IF form = "utf8" THEN UNION {[1..n -> {128, 191}] : n \in 1..3}
               ELSE IF form = "utf16" THEN {<<56320>>} ELSE {}
IsPartial(s) == \E c \in Completions : Len(s \o c) <= 4 /\ WellFormed(s \o c)

\* the length of the part of text that starts at i: a character or a maximal subpart
PartLength(i, end) ==
  LET part(n) == SubSeq(text, i, i + n - 1)
      sizes == 1..(IF end + 1 - i < 4 THEN end + 1 - i ELSE 4)
      good == {n \in sizes : WellFormed(part(n)) \/ IsPartial(part(n))}
  IN  IF \E n \in sizes : WellFormed(part(n)) THEN CHOOSE n \in sizes : WellFormed(part(n))
      ELSE IF good = {} THEN 1
      ELSE CHOOSE n \in good : \A m \in good : m <= n

\* the whole text is well-formed: it can be cut into characters
IsText ==
  \E starts \in SUBSET (1..(Len(text) + 1)) :
    /\ 1 \in starts
    /\ \A i \in starts \ {Len(text) + 1} :
         \E n \in 1..4 : i + n \in starts /\ WellFormed(SubSeq(text, i, i + n - 1))
-----------------------------------------------------------------------------
Init ==
  /\ form \in DOMAIN Texts /\ text \in Texts[form]
  /\ option \in {"None", "ReplaceIllFormed"} \cup (IF IsText THEN {"Unsafe"} ELSE {})
  /\ keeps \in BOOLEAN
  /\ pc = "idle" /\ first = 1 /\ last = 1 /\ limit = 1
  /\ state = <<>> /\ pending = <<>> /\ chars = <<>>

Configuration == <<form, option, keeps, text>>

\* A parser that resumes a partial character jumps into its loop, behind the
\* comparison of first with last: an empty chunk is read beyond its end.
Enters(n) == IF n = 0 /\ State(pending) # 0 THEN "overrun" ELSE "safe"

\* convert with a state is called with the next chunk: for iterators that are not
\* random access, or a short chunk
CallConvert(n) ==
  /\ pc = "idle" /\ keeps /\ option # "Unsafe"
  /\ last' = first + n /\ limit' = first + n /\ pc' = Enters(n)
  /\ UNCHANGED <<Configuration, state, first, pending, chars>>

\* convert without a state: the whole text is one call
CallConvertWhole ==
  /\ pc = "idle" /\ ~keeps /\ option # "Unsafe" /\ first = 1
  /\ last' = Len(text) + 1 /\ limit' = Len(text) + 1 /\ pc' = "safe"
  /\ UNCHANGED <<Configuration, state, first, pending, chars>>

\* last1: three back from the end, and on back over trailing code units
Last1(n) == CHOOSE i \in first..(first + n - 3) :
              /\ i = first \/ ~is_trail(text[i])
              /\ \A j \in (i + 1)..(first + n - 3) : is_trail(text[j])

\* Mutant: the fast path ends three before the end, also inside a character
CallConvertFast_noStepBack(n) ==
  /\ pc = "idle" /\ n > Threshold /\ option # "Unsafe"
  /\ last' = first + n /\ pc' = "fast" /\ limit' = first + n - 3 /\ state' = pending
  /\ UNCHANGED <<Configuration, first, pending, chars>>

CallConvertFast(n) ==
  /\ pc = "idle" /\ n > Threshold /\ option # "Unsafe"
  /\ last' = first + n /\ pc' = "fast" /\ limit' = Last1(n) /\ state' = pending
  /\ UNCHANGED <<Configuration, first, pending, chars>>

\* convert_unsafe with a state, or with a short text
CallUnsafe(n) ==
  /\ pc = "idle" /\ option = "Unsafe"
  /\ last' = first + n /\ limit' = first + n /\ pc' = Enters(n)
  /\ UNCHANGED <<Configuration, state, first, pending, chars>>

\* convert_unsafe without a state, for iterators that are not random access
CallUnsafeWhole ==
  /\ pc = "idle" /\ option = "Unsafe" /\ ~keeps /\ first = 1
  /\ last' = Len(text) + 1 /\ limit' = Len(text) + 1 /\ pc' = "fast"
  /\ UNCHANGED <<Configuration, state, first, pending, chars>>

CallUnsafeFast(n) ==
  /\ pc = "idle" /\ option = "Unsafe" /\ n > Threshold
  /\ last' = first + n /\ pc' = "fast" /\ limit' = Last1(n) /\ state' = pending
  /\ UNCHANGED <<Configuration, first, pending, chars>>

Call == \/ CallConvertWhole \/ CallUnsafeWhole
        \/ \E n \in 0..(Len(text) + 1 - first) :
             /\ keeps \/ n = Len(text)
             /\ CallConvert(n) \/ CallConvertFast(n) \/ CallUnsafe(n) \/ CallUnsafeFast(n)

\* the parser dereferences first: in a character it compares it with last, unless it does not check it
Reads == /\ pc \in {"fast", "safe"} /\ first < last
         /\ first # limit \/ (NoCheckLast /\ State(pending) # 0)
Unit == text[first]

\* a character of one code unit
Single ==
  /\ Reads /\ State(pending) = 0 /\ Trails(Unit) = 0
  /\ chars' = Append(chars, <<Unit>>) /\ first' = first + 1
  /\ UNCHANGED <<Configuration, state, pc, last, limit, pending>>

\* a lead code unit; the next test, or the missing end of the range, is a step of its own
Lead ==
  /\ Reads /\ State(pending) = 0 /\ Trails(Unit) > 0
  /\ pending' = <<Unit>> /\ first' = first + 1
  /\ UNCHANGED <<Configuration, state, pc, last, limit, chars>>

\* the labels state_10 to state_32, also when a call resumes there
Continue ==
  /\ Reads /\ State(pending) # 0 /\ TrailFits(pending, Unit)
  /\ first' = first + 1
  /\ IF Len(pending) = Trails(pending[1])
     THEN pending' = <<>> /\ chars' = Append(chars, Append(pending, Unit))
     ELSE pending' = Append(pending, Unit) /\ UNCHANGED chars
  /\ UNCHANGED <<Configuration, state, pc, last, limit>>

\* convert's loop on an error: stop, or write a replacement character, clear the converter and go on
Fail(skipped) ==
  IF option # "ReplaceIllFormed" THEN /\ pc' = "failed" /\ UNCHANGED <<first, pending, chars>>
  ELSE /\ chars' = Append(chars, Ill) /\ pending' = <<>>
       /\ first' = first + skipped /\ UNCHANGED pc

StartError ==  \* E_INVALID_START_BYTE
  /\ Reads /\ State(pending) = 0 /\ Trails(Unit) = -1 /\ form # "utf32"
  /\ Fail(1)
  /\ UNCHANGED <<Configuration, state, last, limit>>

TrailError ==  \* E_TRAIL_EXPECTED
  /\ Reads /\ State(pending) # 0 /\ ~TrailFits(pending, Unit)
  /\ Fail(0)
  /\ UNCHANGED <<Configuration, state, last, limit>>

\* E_INVALID_UNICODE: convert skips only E_INVALID_START_BYTE, so it meets the same code unit for ever
CodepointError ==
  /\ Reads /\ form = "utf32" /\ Trails(Unit) = -1
  /\ pc' = IF option # "ReplaceIllFormed" THEN "failed" ELSE "hang"
  /\ UNCHANGED <<Configuration, state, first, last, limit, pending, chars>>

\* the fast path ends at last1 and the checking converter goes on from there
FastEnds ==
  /\ pc = "fast" /\ first = limit /\ pending = <<>>
  /\ option # "Unsafe" \/ state = <<>>
  /\ pc' = "safe" /\ limit' = last /\ state' = <<>>
  /\ UNCHANGED <<Configuration, first, last, pending, chars>>

\* convert_unsafe forgets to copy the first converter's state back: the second
\* starts from the caller's, with code units that were delivered before
Rereads ==
  /\ pc = "fast" /\ first = limit /\ pending = <<>> /\ option = "Unsafe" /\ state # <<>>
  /\ pc' = "rereads" /\ pending' = state
  /\ UNCHANGED <<Configuration, state, first, last, limit, chars>>

\* the fast path has passed last1 and comes to the end of the range
PassesEnd ==
  /\ pc = "fast" /\ first = last /\ (first # limit \/ State(pending) # 0)
  /\ pc' = "overrun"
  /\ UNCHANGED <<Configuration, state, first, last, limit, pending, chars>>

Returns ==
  /\ pc = "safe" /\ first = last /\ pending = <<>>
  /\ pc' = "idle"
  /\ UNCHANGED <<Configuration, state, first, last, limit, pending, chars>>

\* E_UNEXPECTED_ENDOFINPUT: the state is kept for the next call, or the text is at its end
ReturnsPartial ==
  /\ pc = "safe" /\ first = last /\ pending # <<>>
  /\ IF keeps THEN pc' = "idle" /\ UNCHANGED <<pending, chars>>
     ELSE IF option # "ReplaceIllFormed" THEN pc' = "failed" /\ UNCHANGED <<pending, chars>>
     ELSE pc' = "idle" /\ pending' = <<>> /\ chars' = Append(chars, Ill)
  /\ UNCHANGED <<Configuration, state, first, last, limit>>

Next == \/ Call \/ Single \/ Lead \/ Continue \/ StartError \/ TrailError \/ CodepointError
        \/ FastEnds \/ Rereads \/ PassesEnd \/ Returns \/ ReturnsPartial

Spec == Init /\ [][Next]_vars
-----------------------------------------------------------------------------
TypeOK ==
  /\ pc \in {"idle", "fast", "safe", "failed", "hang", "overrun", "rereads"}
  /\ first \in 1..(Len(text) + 1) /\ last \in 1..(Len(text) + 1) /\ limit \in 1..last
  /\ State(pending) \in mb_state[form] /\ State(state) \in mb_state[form]
  /\ \A i \in DOMAIN chars : Len(chars[i]) \in 0..4

\* At all times the characters that were delivered are those of the text, cut
\* as the Unicode Standard cuts it, each ill-formed part replaced once and none
\* delivered after an error, wherever the chunks are divided and whichever of
\* the fast and the checking converter has read them.
Decodes ==
  LET \* the position after the k first deliveries
      at[k \in 0..Len(chars)] ==
        IF k = 0 THEN 1 ELSE LET i == at[k - 1] IN i + PartLength(i, Len(text))
  IN  /\ pc # "rereads" => /\ at[Len(chars)] + Len(pending) = first \/ (~keeps /\ first = Len(text) + 1)
                           /\ pending = SubSeq(text, first - Len(pending), first - 1)
      /\ \A k \in DOMAIN chars :
           LET part == SubSeq(text, at[k - 1], at[k] - 1)
           IN  IF chars[k] = Ill THEN ~WellFormed(part) /\ option = "ReplaceIllFormed"
               ELSE chars[k] = part /\ WellFormed(part)
      /\ pc = "failed" => pending # <<>> \/ Trails(Unit) = -1

\* Each converter writes the same characters: what it writes for one is the
\* encoding of its code point in the target's form.  The escaped form is right
\* inside the basic plane only, above it an introducer "\u" is written too often,
\* and from UTF-16 for one character only.
Transcodes ==
  LET cs == SelectSeq(chars, LAMBDA b : b # Ill)
      cps == [i \in DOMAIN cs |-> Codepoint(cs[i])]
      utf == [utf8 |-> Each(Utf8, cps), utf16 |-> Each(Utf16, cps), utf32 |-> cps]
      escapes == Each(LAMBDA u : <<"\\u", u>>, utf.utf16)
      basic == \A i \in DOMAIN cps : cps[i] <= 65535
  IN  CASE form = "utf8" -> /\ Utf8ToCodepoints(cs) = cps
                            /\ \A to \in DOMAIN utf : ConvertUtf8(to, cs) = utf[to]
                            /\ EscapeUtf8(cs) = escapes <=> basic
        [] form = "utf16" -> /\ Utf16ToCodepoints(cs) = cps
                             /\ \A to \in DOMAIN utf : ConvertUtf16(to, cs) = utf[to]
                             /\ EscapeUtf16(cs) = escapes <=> Len(cs) <= 1 /\ basic
        [] OTHER -> /\ Utf32ToCodepoints(cs) = cps
                    /\ \A to \in DOMAIN utf : ConvertUtf32(to, cs) = utf[to]

\* a call with nothing to read, while a partial character is kept from the last one
EmptyChunk == keeps /\ pending # <<>> /\ first = last /\ limit = last

\* convert reads inside its range and comes to an end, except: a partial character
\* that is resumed with an empty chunk reads behind it, and the fast path passes
\* the end when it resumes one in a long chunk without the start of another one;
\* the replacement of an invalid UTF-32 code unit is written for ever, and
\* convert_unsafe reads a partial character that it resumed in a long chunk a
\* second time.
StaysInRange ==
  /\ pc = "overrun" => \/ EmptyChunk
                       \/ /\ option = "ReplaceIllFormed" /\ keeps
                          /\ \E i \in 2..(last - Threshold) :
                               \A j \in i..(last - 3) : is_trail(text[j])
  /\ pc = "hang" => form = "utf32" /\ option = "ReplaceIllFormed"
  /\ pc = "rereads" => option = "Unsafe" /\ keeps /\ pending # <<>>
  /\ pc = "safe" => first <= limit
=============================================================================
