------------------------------- MODULE Base64 ------------------------------
(***************************************************************************)
(* json::utility::encodeBase64 and decodeBase64.  A step is one round of   *)
(* their loops: three bytes, four characters, or what there is less at the *)
(* end.  A character is its place in the alphabet, Pad or another one.     *)
(***************************************************************************)
EXTENDS Integers, Sequences

CONSTANTS ByteTexts, Base64Texts

VARIABLES direction, input, place, output, thrown, origin
vars == <<direction, input, place, output, thrown, origin>>

Base64Constants == ByteTexts \subseteq Seq(0..255) /\ Base64Texts \subseteq Seq(Nat)

Left == Len(input) - place + 1
Pad == 64
IsCharacter(c) == c \in 0..63
-----------------------------------------------------------------------------
\* encodeBase64: three bytes are four times six bits
Encode ==
  /\ direction = "encode" /\ Left > 0
  /\ LET byte(i) == IF i < Left THEN input[place + i] ELSE 0
         n == byte(0) * 65536 + byte(1) * 256 + byte(2)
     IN output' = output \o <<(n \div 262144) % 64, (n \div 4096) % 64,
                              IF Left >= 2 THEN (n \div 64) % 64 ELSE Pad, IF Left >= 3 THEN n % 64 ELSE Pad>>
  /\ place' = IF Left >= 3 THEN place + 3 ELSE Len(input) + 1
  /\ UNCHANGED <<direction, input, thrown, origin>>

\* a client decodes what it has encoded
Turn ==
  /\ direction = "encode" /\ Left = 0
  /\ direction' = "decode" /\ input' = output /\ output' = <<>> /\ place' = 1
  /\ UNCHANGED <<thrown, origin>>

\* decodeBase64: the round ends without an error, the characters it has read,
\* the bytes it writes
Decoded(count, bytes) ==
  /\ place' = place + count /\ output' = output \o bytes
  /\ UNCHANGED <<direction, input, thrown, origin>>
Character(i) == i < Left /\ IsCharacter(input[place + i])
Padding(i) == i < Left /\ input[place + i] = Pad
Number(i, k) == input[place + i] * 64 + input[place + k]

Four == \A i \in 0..3 : Character(i)
ThreePadded == (\A i \in 0..2 : Character(i)) /\ Padding(3) /\ Left = 4
TwoPadded == (\A i \in 0..1 : Character(i)) /\ Padding(2) /\ Padding(3) /\ Left = 4

DecodeThree ==
  /\ direction = "decode" /\ Four
  /\ LET n == Number(0, 1) * 4096 + Number(2, 3) IN Decoded(4, <<(n \div 65536) % 256, (n \div 256) % 256, n % 256>>)
DecodeTwo ==
  /\ direction = "decode" /\ ThreePadded
  /\ LET n == Number(0, 1) * 64 + input[place + 2] IN Decoded(4, <<(n \div 1024) % 256, (n \div 4) % 256>>)
DecodeOne ==
  /\ direction = "decode" /\ TwoPadded
  /\ LET n == Number(0, 1) IN Decoded(4, <<(n \div 16) % 256>>)

\* every other round is an error, and an exception
Error ==
  CASE ~Character(0) -> "invalid character"
    [] Character(0) /\ ~Character(1) -> IF Left = 1 THEN "unexpected EOF" ELSE "invalid character"
    [] OTHER ->
         CASE Left <= 3 -> "unexpected EOF"
           [] Left > 3 /\ Character(2) -> IF Padding(3) THEN "spurious bytes" ELSE "invalid character"
           [] Left > 3 /\ Padding(2) -> IF Padding(3) THEN "spurious bytes" ELSE "expected padding character"
           [] OTHER -> "invalid character"
Fail ==
  /\ direction = "decode" /\ Left > 0 /\ thrown = "no"
  /\ ~(Four \/ ThreePadded \/ TwoPadded)
  /\ thrown' = Error
  /\ UNCHANGED <<direction, input, place, output, origin>>

Init ==
  /\ \/ direction = "encode" /\ input \in ByteTexts
     \/ direction = "decode" /\ input \in Base64Texts
  /\ place = 1 /\ output = <<>> /\ thrown = "no" /\ origin = [direction |-> direction, input |-> input]
Next == Encode \/ Turn \/ DecodeThree \/ DecodeTwo \/ DecodeOne \/ Fail
Spec == Init /\ [][Next]_vars
-----------------------------------------------------------------------------
TypeOK ==
  /\ direction \in {"encode", "decode"} /\ place \in 1..(Len(input) + 1)
  /\ \A i \in DOMAIN output : output[i] \in 0..255

\* fours of characters, the last of which may end in padding
WellFormed(s) ==
  /\ Len(s) % 4 = 0
  /\ \A i \in DOMAIN s : IsCharacter(s[i]) \/ (s[i] = Pad /\ i >= Len(s) - 1)
  /\ s # <<>> /\ s[Len(s) - 1] = Pad => s[Len(s)] = Pad
Pads(s) == IF s = <<>> \/ s[Len(s)] # Pad THEN 0 ELSE IF s[Len(s) - 1] # Pad THEN 1 ELSE 2

\* What is encoded is decoded again, and has four characters for every three bytes.
\* Of a given text the decoder takes exactly the well-formed ones: fours of
\* characters, the last of which may end in padding; with what a padded four has
\* of bits too many it bears.
Recodes ==
  direction = "decode" =>
    /\ thrown # "no" => origin.direction = "decode" /\ ~WellFormed(input)
    /\ Left = 0 /\ thrown = "no" =>
         /\ WellFormed(input)
         /\ origin.direction = "encode" => /\ output = origin.input
                                      /\ Len(input) = 4 * ((Len(output) + 2) \div 3)
         /\ Len(output) = 3 * (Len(input) \div 4) - Pads(input)
=============================================================================
