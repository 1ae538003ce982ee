----------------------------- MODULE Encodings -----------------------------
(***************************************************************************)
(* The encodings of unicode/unicode_traits.hpp and the byte swaps of       *)
(* endian/: a converter writes the code points of a text into memory, in   *)
(* an encoding form or scheme and perhaps behind its byte order mark; a    *)
(* reader takes them from there with the same traits, with the encoding    *)
(* that the type of its iterator stands for, or as a CFString.  An integer *)
(* is the sequence of its bytes, the most significant first; how they lie  *)
(* in memory is the host's.                                                *)
(***************************************************************************)
EXTENDS CodePoints, SequencesExt

CONSTANTS CodePointsOf,   \* what the writer is given
          MaxCodes

VARIABLES host,     \* "little" or "big"
          tag,      \* the encoding of the text
          bom_,     \* the mark was written
          codes,    \* the code points that were written
          memory,   \* bytes
          reader,   \* the encoding of the reader, "none" before there is one
          offset, partial, back
vars == <<host, tag, bom_, codes, memory, reader, offset, partial, back>>
-----------------------------------------------------------------------------
(* Integers and memory. *)

Bytes(v, width) == [i \in 1..width |-> (v \div 256 ^ (width - i)) % 256]
\* above 2^24 there is no code point, one number stands for all
Number(b) == IF Len(b) = 4 /\ b[1] # 0 THEN 16777216
             ELSE FoldLeft(LAMBDA v, byte : v * 256 + byte, 0, b)
Layout(b) == IF host = "little" THEN Reverse(b) ELSE b   \* its own inverse

swap_bytes(v) == IF Len(v) = 1 THEN v ELSE Reverse(v)
byte_swap(from, to, v) == IF from = to THEN v ELSE swap_bytes(v)
-----------------------------------------------------------------------------
(* The traits.  An encoding form has no byte order. *)

UTF_8 == [form |-> "utf8", width |-> 1, endian |-> host]
UTF_16 == [form |-> "utf16", width |-> 2, endian |-> "none"]
UTF_16BE == [form |-> "utf16", width |-> 2, endian |-> "big"]
UTF_16LE == [form |-> "utf16", width |-> 2, endian |-> "little"]
UTF_32 == [form |-> "utf32", width |-> 4, endian |-> "none"]
UTF_32BE == [form |-> "utf32", width |-> 4, endian |-> "big"]
UTF_32LE == [form |-> "utf32", width |-> 4, endian |-> "little"]
platform == [form |-> "platform", width |-> 4, endian |-> host]
code_point_t == [form |-> "platform", width |-> 4, endian |-> host]

\* the enumeration Encoding, and the tag of each of its constants
Constant == [UTF_8 |-> 1, UTF_16 |-> 2, UTF_16BE |-> 3, UTF_16LE |-> 4, UTF_32 |-> 5, UTF_32BE |-> 6,
             UTF_32LE |-> 7, platform |-> -1, code_point_t |-> -1]
encoding_to_tag(e) == CHOOSE t \in DOMAIN Constant \ {"code_point_t"} : Constant[t] = e
Tags == DOMAIN Constant
Traits(t) ==
  CASE t = "UTF_8" -> UTF_8 [] t = "UTF_16" -> UTF_16 [] t = "UTF_16BE" -> UTF_16BE
    [] t = "UTF_16LE" -> UTF_16LE [] t = "UTF_32" -> UTF_32 [] t = "UTF_32BE" -> UTF_32BE
    [] t = "UTF_32LE" -> UTF_32LE [] t = "platform" -> platform [] t = "code_point_t" -> code_point_t

to_host_endianness(t) ==
  CASE Traits(t).form = "utf16" -> IF host = "little" THEN "UTF_16LE" ELSE "UTF_16BE"
    [] Traits(t).form = "utf32" -> IF host = "little" THEN "UTF_32LE" ELSE "UTF_32BE"
    [] OTHER -> t
add_endianness(t) == IF t \in {"UTF_16", "UTF_32"} THEN to_host_endianness(t) ELSE t

\* the default encoding of an iterator, by the width of what it points to, and of a character type
iterator_encoding(width) ==
  CASE width = 1 -> "UTF_8" [] width = 2 -> to_host_endianness("UTF_16")
    [] width = 4 -> to_host_endianness("UTF_32")
char_type_to_encoding(type) ==
  CASE type = "char" -> "UTF_8" [] type = "char16_t" -> to_host_endianness("UTF_16")
    [] type = "char32_t" -> to_host_endianness("UTF_32") [] type = "wchar_t" -> "platform"

\* bom(), and for a code unit in the encoding's byte order: to_uint, is_single, is_lead, is_trail
bom(t) ==
  CASE t = "UTF_8" -> <<<<239>>, <<187>>, <<191>>>>
    [] t \in {"UTF_16", "UTF_32"} -> <<Bytes(65279, Traits(t).width)>>
    [] OTHER -> <<byte_swap(host, Traits(t).endian, Bytes(65279, Traits(t).width))>>
to_uint(t, unit) ==
  Number(IF Traits(t).endian = "none" THEN unit ELSE byte_swap(Traits(t).endian, host, unit))
is_single(t, unit) == LET u == to_uint(t, unit) IN
  CASE Traits(t).form = "utf8" -> utf8_is_single(u) [] Traits(t).form = "utf16" -> utf16_is_single(u)
    [] OTHER -> TRUE
is_lead(t, unit) == LET u == to_uint(t, unit) IN
  CASE Traits(t).form = "utf8" -> utf8_is_lead(u) [] Traits(t).form = "utf16" -> utf16_is_lead(u)
    [] OTHER -> FALSE
is_trail(t, unit) == LET u == to_uint(t, unit) IN
  CASE Traits(t).form = "utf8" -> utf8_is_trail(u) [] Traits(t).form = "utf16" -> utf16_is_trail(u)
    [] OTHER -> FALSE

\* the tokens of JSON's grammar in an encoding
token_traits(t, c) == byte_swap(host, Traits(t).endian, Bytes(c, Traits(t).width))

\* the encoding that the constants for NSString and CFString name; a text that is not
\* an external representation has the host's byte order under kCFStringEncodingUnicode
ns_unicode_encoding_traits(t) == [form |-> Traits(t).form, endian |-> Traits(t).endian]
cf_unicode_encoding_traits(t) ==
  [form |-> Traits(t).form,
   endian |-> IF Traits(t).form = "utf16" /\ Traits(t).endian = host THEN "unicode" ELSE Traits(t).endian]
-----------------------------------------------------------------------------
Store(units) == memory \o FlattenSeq([i \in DOMAIN units |-> Layout(units[i])])

\* copyBOM
WriteBom ==
  /\ reader = "none" /\ memory = <<>> /\ tag \notin {"platform", "code_point_t"}
  /\ memory' = Store(bom(tag)) /\ bom_' = TRUE
  /\ UNCHANGED <<host, tag, codes, reader, offset, partial, back>>

\* a converter: its target is add_endianness of what it was given
Write(cp) ==
  /\ reader = "none" /\ Len(codes) < MaxCodes /\ tag # "platform"
  /\ LET target == Traits(add_endianness(tag))
         numbers == CASE target.form = "utf8" -> Utf8(cp) [] target.form = "utf16" -> Utf16(cp) [] OTHER -> Utf32(cp)
         units == [i \in DOMAIN numbers |-> byte_swap(host, target.endian, Bytes(numbers[i], target.width))]
     IN  memory' = Store(units)
  /\ codes' = IF isUnicodeScalarValue(cp) THEN Append(codes, cp) ELSE codes
  /\ UNCHANGED <<host, tag, bom_, reader, offset, partial, back>>

WriteToken(c) ==
  /\ reader = "none" /\ Len(codes) < MaxCodes /\ Traits(tag).endian # "none"
  /\ memory' = Store(<<token_traits(tag, c)>>) /\ codes' = Append(codes, c)
  /\ UNCHANGED <<host, tag, bom_, reader, offset, partial, back>>

\* a reader behind the mark: with the encoding's traits, or with those of its iterator
Turn ==
  /\ reader = "none"
  /\ reader' \in {add_endianness(tag), iterator_encoding(Traits(tag).width)}
  /\ offset' = IF bom_ THEN Len(bom(tag)) * Traits(tag).width ELSE 0
  /\ UNCHANGED <<host, tag, bom_, codes, memory, partial, back>>

Unit == Layout(SubSeq(memory, offset + 1, offset + Traits(reader).width))
HasUnit == reader # "none" /\ offset < Len(memory)
ReadSingle ==
  /\ HasUnit /\ partial = <<>> /\ is_single(reader, Unit)
  /\ back' = Append(back, to_uint(reader, Unit)) /\ offset' = offset + Traits(reader).width
  /\ UNCHANGED <<host, tag, bom_, codes, memory, reader, partial>>
ReadLead ==
  /\ HasUnit /\ partial = <<>> /\ is_lead(reader, Unit)
  /\ partial' = <<to_uint(reader, Unit)>> /\ offset' = offset + Traits(reader).width
  /\ UNCHANGED <<host, tag, bom_, codes, memory, reader, back>>
ReadTrail ==
  /\ HasUnit /\ partial # <<>> /\ is_trail(reader, Unit)
  /\ LET read == Append(partial, to_uint(reader, Unit))
         utf8 == Traits(reader).form = "utf8"
         whole == IF utf8 THEN Len(partial) = utf8_num_trails(partial[1]) ELSE TRUE
     IN  IF whole THEN /\ partial' = <<>>
                       /\ back' = Append(back, IF utf8 THEN Utf8ToCodepoint(read) ELSE Utf16ToCodepoint(read))
         ELSE partial' = read /\ UNCHANGED back
  /\ offset' = offset + Traits(reader).width
  /\ UNCHANGED <<host, tag, bom_, codes, memory, reader>>

\* createString: CFStringCreateWithBytes reads the bytes in the encoding that it is named
ByteOrder(endian) == IF endian = "unicode" THEN host ELSE endian
StringOf(bytes, cf) ==
  LET width == CASE cf.form = "utf8" -> 1 [] cf.form = "utf16" -> 2 [] OTHER -> 4
      Ordered(b) == IF ByteOrder(cf.endian) = "little" THEN Reverse(b) ELSE b
  IN  [i \in 1..(Len(bytes) \div width) |-> Number(Ordered(SubSeq(bytes, (i - 1) * width + 1, i * width)))]
createString == StringOf(memory, cf_unicode_encoding_traits(add_endianness(tag)))
NSStringOf == StringOf(memory, ns_unicode_encoding_traits(add_endianness(tag)))

Init ==
  /\ host \in {"little", "big"} /\ tag \in Tags
  /\ bom_ = FALSE /\ codes = <<>> /\ memory = <<>> /\ reader = "none" /\ offset = 0 /\ partial = <<>> /\ back = <<>>
Next == \/ WriteBom \/ Turn \/ ReadSingle \/ ReadLead \/ ReadTrail
        \/ \E cp \in CodePointsOf : Write(cp)
        \/ \E c \in {91, 102} : WriteToken(c)
-----------------------------------------------------------------------------
TypeOK ==
  /\ host \in {"little", "big"} /\ tag \in Tags /\ reader \in Tags \cup {"none"}
  /\ offset \in 0..Len(memory) /\ \A i \in DOMAIN memory : memory[i] \in 0..255

\* The tables of the trailing bytes agree: all know the trailing bytes of a byte that
\* starts a character; and there are 66 noncharacters.
TablesAgree ==
  /\ \A b \in 0..255 :
       /\ utf8_is_single(b) \/ utf8_is_lead(b) <=> utf8_num_trails(b) >= 0
       /\ utf8_num_trails(b) >= 0 => /\ utf8_num_trails_unsafe(b) = utf8_num_trails(b)
                                     /\ utf8_num_trails_no_ctrl(b) = IF b < 32 THEN -2 ELSE utf8_num_trails(b)
       /\ utf8_is_trail(b) => utf8_num_trails_unsafe(b) = -1
  /\ \A p \in 0..17, x \in {0, 64975, 64976, 65007, 65008, 65533, 65534, 65535} :
       isNonCharacter(p * 65536 + x) <=> p <= 16 /\ (x >= 65534 \/ (p = 0 /\ x \in 64976..65007))

\* In memory are on every host the bytes of the encoding scheme of the Unicode
\* Standard, of a form without byte order those of the host's, the mark as well;
\* the traits tell the units of its characters apart and read the same code points
\* back, an iterator's default encoding does where it has the text's byte order;
\* and the Foundation reads a text without a mark in the encoding it is named.
Serializes ==
  LET t == Traits(tag)
      order == IF t.endian = "none" THEN host ELSE t.endian
      Ordered(b) == IF order = "little" THEN Reverse(b) ELSE b
      Standard(cp) == CASE t.form = "utf8" -> Utf8(cp)
                        [] t.form = "utf16" -> FlattenSeq([i \in DOMAIN Utf16(cp) |-> Ordered(Bytes(Utf16(cp)[i], 2))])
                        [] OTHER -> Ordered(Bytes(cp, 4))
      text == (IF bom_ THEN <<65279>> ELSE <<>>) \o codes
      own == t.width = 1 \/ order = host
      numbers == FlattenSeq([i \in DOMAIN codes |-> CASE t.form = "utf8" -> Utf8(codes[i])
                                                      [] t.form = "utf16" -> Utf16(codes[i])
                                                      [] OTHER -> Utf32(codes[i])])
  IN  /\ memory = FlattenSeq([i \in DOMAIN text |-> Standard(text[i])])
      /\ reader # "none" /\ (own \/ reader = tag) =>
           /\ IsPrefix(back, codes)
           /\ offset = Len(memory) => back = codes
           /\ HasUnit => IF partial = <<>> THEN is_single(reader, Unit) \/ is_lead(reader, Unit)
                         ELSE is_trail(reader, Unit)
      /\ ~bom_ /\ t.form # "platform" => createString = numbers /\ NSStringOf = numbers
      /\ TablesAgree
      /\ t.form # "platform" => encoding_to_tag(Constant[tag]) = tag
=============================================================================
