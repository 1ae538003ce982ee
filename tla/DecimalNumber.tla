--------------------------- MODULE DecimalNumber ---------------------------
(***************************************************************************)
(* json::decimal_number: a number text packed two characters to a byte in  *)
(* an array of fixed size, and unpacked again; and the two                 *)
(* is_valid_json_number, which check such a text.                          *)
(*                                                                         *)
(* A cell of data_ is half a byte: the code of a character, 0 behind the   *)
(* last, or what was in the memory.                                        *)
(***************************************************************************)
EXTENDS Integers, Sequences

CONSTANTS Texts, Capacity, Uninitialized

VARIABLES pc, spelling, data_, unpacked, position, verdicts
vars == <<pc, spelling, data_, unpacked, position, verdicts>>

DataSize == Capacity \div 2 + 1
Characters == <<"0", "1", "2", "3", "4", "5", "6", "7", "8", "9", ".", "-", "+", "E">>
Digits == {Characters[i] : i \in 1..10}
Code(c) == IF c = "e" THEN 14 ELSE CHOOSE i \in DOMAIN Characters : Characters[i] = c
Packable(c) == c = "e" \/ \E i \in DOMAIN Characters : Characters[i] = c
-----------------------------------------------------------------------------
\* pack: the codes, half a byte 0 when they are odd in number, and a byte 0 if
\* there is room for it
pack(s) ==
  LET codes == [i \in DOMAIN s |-> Code(s[i])]
      bytes == IF Len(s) % 2 = 1 THEN Append(codes, 0) ELSE codes
      ended == IF Len(bytes) < 2 * DataSize THEN bytes \o <<0, 0>> ELSE bytes
  IN ended \o [i \in 1..(2 * DataSize - Len(ended)) |-> Uninitialized]

\* the constructor asserts that pack succeeds
Construct ==
  /\ pc = "given"
  /\ IF Len(spelling) <= Capacity /\ \A i \in DOMAIN spelling : Packable(spelling[i])
       THEN data_' = pack(spelling) /\ pc' = "held"
       ELSE pc' = "aborted" /\ UNCHANGED data_
  /\ UNCHANGED <<spelling, unpacked, position, verdicts>>

\* to_string
ToString ==
  /\ pc = "held"
  /\ pc' = "unpacking" /\ unpacked' = <<>> /\ position' = 1
  /\ UNCHANGED <<spelling, data_, verdicts>>

\* one round of the loop of unpack
unpack ==
  /\ pc = "unpacking" /\ position \in DOMAIN data_
  /\ \/ /\ data_[position] = 0
        /\ pc' = "held"
        /\ UNCHANGED <<unpacked, position>>
     \/ /\ data_[position] \in DOMAIN Characters
        /\ unpacked' = Append(unpacked, Characters[data_[position]])
        /\ position' = position + 1
        /\ UNCHANGED pc
  /\ UNCHANGED <<spelling, data_, verdicts>>
-----------------------------------------------------------------------------
\* the first position from which there is no digit
SkipDigits(s, i) == CHOOSE j \in i..(Len(s) + 1) :
                      /\ \A k \in i..(j - 1) : s[k] \in Digits
                      /\ j <= Len(s) => s[j] \notin Digits
\* ... of the loop that steps over the character it has found not to be a digit
SwallowDigits(s, i) == LET j == SkipDigits(s, i) IN IF j <= Len(s) THEN j + 1 ELSE j
Skip(s, i, swallows) == IF swallows THEN SwallowDigits(s, i) ELSE SkipDigits(s, i)

At(s, i) == IF i <= Len(s) THEN s[i] ELSE "end"
\* a digit and those behind it, from i on: where they end, or 0
DigitsFrom(s, i, swallows) == IF At(s, i) \in Digits THEN Skip(s, i + 1, swallows) ELSE 0
\* behind the sign, the fraction, the exponent
Sign(s, i) == IF At(s, i) = "-" THEN i + 1 ELSE i
FractionFrom(s, i, swallows) == IF At(s, i) = "." THEN DigitsFrom(s, i + 1, swallows) ELSE i
ExponentFrom(s, i, swallows) ==
  IF At(s, i) \in {"e", "E"} THEN DigitsFrom(s, IF At(s, i + 1) \in {"-", "+"} THEN i + 2 ELSE i + 1, swallows) ELSE i

\* where the scan of a text ends, 0 if there is no number
Scan(s, swallows) ==
  LET i == DigitsFrom(s, Sign(s, 1), swallows)
      j == IF i = 0 THEN 0 ELSE FractionFrom(s, i, swallows)
  IN IF j = 0 THEN 0 ELSE ExponentFrom(s, j, swallows)

\* is_valid_json_number of a range, and of a string that ends in NUL
ValidRange(s) == Scan(s, TRUE) # 0
ValidString(s) == Scan(s, FALSE) = Len(s) + 1

Validate ==
  /\ pc = "given" /\ verdicts = <<>>
  /\ verdicts' = <<ValidRange(spelling), ValidString(spelling)>>
  /\ UNCHANGED <<pc, spelling, data_, unpacked, position>>

Init ==
  /\ spelling \in Texts
  /\ pc = "given" /\ verdicts = <<>> /\ unpacked = <<>> /\ position = 1
  /\ data_ = [i \in 1..(2 * DataSize) |-> Uninitialized]
Next == Construct \/ ToString \/ unpack \/ Validate
-----------------------------------------------------------------------------
TypeOK ==
  /\ pc \in {"given", "held", "unpacking", "aborted"} /\ spelling \in Texts
  /\ Len(data_) = 2 * DataSize /\ position \in 1..(2 * DataSize + 1) /\ Len(verdicts) \in {0, 2}

\* The grammar's numbers (RFC 4627, 2.4), with leading zeros.
Number(s) ==
  \E i, j, k \in 1..(Len(s) + 1) :
    LET Part(a, b) == SubSeq(s, a, b - 1)
        AllDigits(q) == q # <<>> /\ \A n \in DOMAIN q : q[n] \in Digits
    IN /\ i <= j /\ j <= k
       /\ Part(1, i) \in {<<>>, <<"-">>} /\ AllDigits(Part(i, j))
       /\ Part(j, k) # <<>> => Part(j, k)[1] = "." /\ AllDigits(Tail(Part(j, k)))
       /\ LET e == Part(k, Len(s) + 1)
          IN e # <<>> => /\ e[1] \in {"e", "E"}
                         /\ AllDigits(Tail(e)) \/ (Len(e) > 2 /\ e[2] \in {"-", "+"} /\ AllDigits(Tail(Tail(e))))

\* What is packed comes out again, for the letter of the exponent in upper case; the
\* reading never leaves data_ nor the buffer of Capacity + 1 characters, and meets
\* no memory that pack has not written.
Unpacks ==
  /\ pc = "unpacking" => /\ position \in DOMAIN data_ /\ data_[position] # Uninitialized
                         /\ Len(unpacked) <= Capacity
  /\ pc = "held" /\ unpacked # <<>> => unpacked = [i \in DOMAIN spelling |-> IF spelling[i] = "e" THEN "E" ELSE spelling[i]]

\* Of a string the check is exact, leading zeros apart; of a range it is passed by every
\* number, and by what is none: it steps over the character behind the digits.
Validates == verdicts # <<>> => /\ verdicts[2] <=> Number(spelling)
                                /\ Number(spelling) => verdicts[1]
=============================================================================
