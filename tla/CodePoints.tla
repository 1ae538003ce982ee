----------------------------- MODULE CodePoints ----------------------------
(***************************************************************************)
(* unicode/unicode_utilities.hpp: the classes of code points and of the    *)
(* code units of UTF-8 and UTF-16, the lengths of what they encode, and    *)
(* the conversions of one code point of unicode_converter.hpp, all in the  *)
(* byte order of the host.                                                 *)
(***************************************************************************)
EXTENDS Integers, Sequences

isCodePoint(u) == u <= 1114111
isHighSurrogate(u) == u \in 55296..56319
isLowSurrogate(u) == u \in 56320..57343
isSurrogate(u) == isHighSurrogate(u) \/ isLowSurrogate(u)
isUnicodeScalarValue(u) == u < 55296 \/ (u >= 57344 /\ u <= 1114111)
isNonCharacter(u) == isCodePoint(u) /\ (u % 65536 >= 65534 \/ u \in 64976..65007)
-----------------------------------------------------------------------------
(* UTF-8 *)

utf8_is_single(b) == b < 128
utf8_is_lead(b) == b \in 194..244
utf8_is_trail(b) == b \in 128..191

utf8_encoded_length_unsafe(cp) ==
  IF cp <= 127 THEN 1 ELSE IF cp <= 2047 THEN 2 ELSE IF cp <= 65535 THEN 3 ELSE IF cp <= 1114111 THEN 4 ELSE 0
utf8_encoded_length(cp) == IF isSurrogate(cp) THEN 0 ELSE utf8_encoded_length_unsafe(cp)

\* the tables: by the five upper bits, also of bytes that must not occur, and by the whole byte
utf8_num_trails_unsafe(b) ==
  LET upper == b \div 8
  IN CASE upper < 16 -> 0 [] upper \in 24..27 -> 1 [] upper \in 28..29 -> 2 [] upper = 30 -> 3 [] OTHER -> -1
utf8_num_trails(b) == IF utf8_is_single(b) \/ utf8_is_lead(b) THEN utf8_num_trails_unsafe(b) ELSE -1
utf8_num_trails_no_ctrl(b) == IF b < 32 THEN -2 ELSE utf8_num_trails(b)
-----------------------------------------------------------------------------
(* UTF-16 *)

utf16_is_single(u) == ~isSurrogate(u)
utf16_is_lead(u) == isHighSurrogate(u)
utf16_is_trail(u) == isLowSurrogate(u)
utf16_encoded_length_unsafe(cp) == IF cp <= 65535 THEN 1 ELSE IF cp <= 1114111 THEN 2 ELSE 0
utf16_encoded_length(cp) == IF isSurrogate(cp) THEN 0 ELSE utf16_encoded_length_unsafe(cp)
utf16_surrogate_pair_to_code_point(high, low) == (high - 55296) * 1024 + (low - 56320) + 65536
utf16_get_lead(cp) == cp \div 1024 + 55232
utf16_get_trail(cp) == 56320 + (cp % 1024)
-----------------------------------------------------------------------------
(* The converters from code points: nothing is written for what is none. *)

Trail(v) == 128 + (v % 64)
Utf8(cp) ==
  CASE utf8_encoded_length(cp) = 1 -> <<cp>>
    [] utf8_encoded_length(cp) = 2 -> <<192 + cp \div 64, Trail(cp)>>
    [] utf8_encoded_length(cp) = 3 -> <<224 + cp \div 4096, Trail(cp \div 64), Trail(cp)>>
    [] utf8_encoded_length(cp) = 4 ->
         <<240 + cp \div 262144, Trail(cp \div 4096), Trail(cp \div 64), Trail(cp)>>
    [] OTHER -> <<>>
Utf16(cp) ==
  CASE utf16_encoded_length(cp) = 1 -> <<cp>>
    [] utf16_encoded_length(cp) = 2 -> <<utf16_get_lead(cp), utf16_get_trail(cp)>>
    [] OTHER -> <<>>
Utf32(cp) == IF isUnicodeScalarValue(cp) THEN <<cp>> ELSE <<>>

(* The code point of the code units b of one character. *)
Utf8ToCodepoint(b) ==
  CASE Len(b) = 1 -> b[1]
    [] Len(b) = 2 -> ((b[1] * 64) % 2048) + (b[2] % 64)
    [] Len(b) = 3 -> ((b[1] * 4096) % 65536) + ((b[2] * 64) % 4096) + (b[3] % 64)
    [] Len(b) = 4 -> ((b[1] * 262144) % 2097152) + ((b[2] * 4096) % 262144) + ((b[3] * 64) % 4096) + (b[4] % 64)
Utf16ToCodepoint(b) == IF Len(b) = 1 THEN b[1] ELSE utf16_surrogate_pair_to_code_point(b[1], b[2])
=============================================================================
