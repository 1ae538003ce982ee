------------------------------ MODULE Numbers ------------------------------
(***************************************************************************)
(* A number on its way from a JSON text into a value and back: the         *)
(* representation generator's value_number_imp with the number description *)
(* that the parser fills, json::utility::string_to_number and              *)
(* number_to_string, json::integral_number and json::float_number, and     *)
(* JPJsonWriter's categories of NSNumber and NSDecimalNumber.              *)
(*                                                                         *)
(* A number is sign * m * base ^ exp.  A numeral is a number in base ten   *)
(* with the count of its digits, the leading and trailing zeros included,  *)
(* and whether it has an exponent.  The widths of the types are parameters *)
(* and small; what numeric_limits says of them follows from the widths.    *)
(* boost's qi and karma, NSScanner, CFNumberFormatter and NSDecimalNumber  *)
(* round to the nearest number they can give.                              *)
(***************************************************************************)
EXTENDS Integers, TLC

CONSTANTS Numerals,          \* the number texts
          Given,             \* the NSNumbers of a client
          IntBits, LongBits, LongLongBits, DoubleBits, LongDoubleBits,
          DecimalDigits,     \* of an NSDecimal
          MaxRounds          \* readings of what the writer wrote

VARIABLES pc, conversion, numeral, number, warned, written, rounds
vars == <<pc, conversion, numeral, number, warned, written, rounds>>
-----------------------------------------------------------------------------
Numerator(v) == v.m * (IF v.exp > 0 THEN v.base^v.exp ELSE 1)
Denominator(v) == IF v.exp < 0 THEN v.base^(-v.exp) ELSE 1
SameNumber(v, w) ==
  /\ IF v.base = w.base
       THEN LET least == IF v.exp < w.exp THEN v.exp ELSE w.exp
            IN v.m * v.base^(v.exp - least) = w.m * w.base^(w.exp - least)
       ELSE Numerator(v) * Denominator(w) = Numerator(w) * Denominator(v)
  /\ v.sign = w.sign \/ v.m = 0

\* std::numeric_limits, of a binary type with that many bits of significand or value
digits10(bits) == CHOOSE d \in 0..bits : 10^d <= 2^(bits - 1) /\ 10^(d + 1) > 2^(bits - 1)
max_digits10(bits) == 1 + CHOOSE d \in 1..bits : 10^d >= 2^bits /\ 10^(d - 1) < 2^(bits)

RECURSIVE Nearest(_, _, _, _, _)
\* the number of len digits in the base that is nearest to n / d * base ^ x, ties to even
Nearest(n, d, base, len, x) ==
  CASE n = 0 -> [m |-> 0, exp |-> 0]
    [] n > 0 /\ n < d * base^(len - 1) -> Nearest(n * base, d, base, len, x - 1)
    [] n >= d * base^len -> Nearest(n, d * base, base, len, x + 1)
    [] OTHER -> LET below == n \div d
                    twice == 2 * (n % d)
                    up == twice > d \/ (twice = d /\ below % 2 = 1)
                    m == IF up THEN below + 1 ELSE below
                IN IF m = base^len THEN [m |-> base^(len - 1), exp |-> x + 1] ELSE [m |-> m, exp |-> x]
Rounded(v, base, len) ==
  [sign |-> v.sign, base |-> base] @@ Nearest(Numerator(v), Denominator(v), base, len, 0)

RECURSIVE Length(_)
Length(n) == IF n < 10 THEN 1 ELSE 1 + Length(n \div 10)
-----------------------------------------------------------------------------
\* number_description
is_integer(t) == ~t.scientific /\ t.exp = 0
is_scientific(t) == t.scientific

Typed(type, v) == [type |-> type, sign |-> v.sign, m |-> v.m, base |-> v.base, exp |-> v.exp]
FitsIn(bits, v) == v.m < 2^(bits - 1) \/ (v.m = 2^(bits - 1) /\ v.sign = -1)
None == [type |-> "none"]
Thrown == [type |-> "thrown"]

\* string_to_number for the integral types: qi fails when the type has no room
ToInteger(type, bits, t) == IF FitsIn(bits, t) THEN Typed(type, t) ELSE Thrown
\* ... for double
ToDouble(t) == Typed("d", Rounded(t, 2, DoubleBits))
newDecimalNumberFromString(t) == Typed("decimal", IF Length(t.m) <= DecimalDigits THEN t ELSE Rounded(t, 10, DecimalDigits))

\* NumberGenerateAuto and NumberGenerateAutoWithDecimal, without the limit of an
\* NSDecimal
AutoInteger(t) ==
  CASE t.digits <= digits10(IntBits) -> ToInteger("i", IntBits, t)
    [] t.digits > digits10(IntBits) /\ t.digits <= digits10(LongBits) -> ToInteger("q", LongBits, t)
    [] t.digits > digits10(LongBits) /\ t.digits <= digits10(LongLongBits) -> ToInteger("q", LongLongBits, t)
    [] OTHER -> IF conversion = "auto with decimal" THEN newDecimalNumberFromString(t) ELSE ToDouble(t)
AutoFixed(t) ==
  IF t.digits <= max_digits10(DoubleBits) \/ conversion = "auto" THEN ToDouble(t) ELSE newDecimalNumberFromString(t)
Auto(t) == IF is_integer(t) THEN AutoInteger(t) ELSE IF is_scientific(t) THEN ToDouble(t) ELSE AutoFixed(t)

push_number_string(t) == Typed("string", t)

\* the number classes of json::value, and the generator's choice
integral_number(t) == ToInteger("integral_number", LongBits, t)
float_number(t) == Typed("float_number", Rounded(t, 2, DoubleBits))
ToValue(t) == IF is_integer(t) THEN integral_number(t) ELSE float_number(t)

\* what the generator logs a warning about
Warns(t) ==
  CASE conversion \in {"string", "value"} -> FALSE
    [] conversion = "decimal" -> t.digits > DecimalDigits
    [] OTHER -> CASE is_integer(t) -> /\ t.digits > digits10(LongLongBits)
                                      /\ (conversion = "auto" \/ t.digits > DecimalDigits)
                  [] is_scientific(t) -> t.digits > max_digits10(DoubleBits)
                  [] OTHER -> /\ t.digits > max_digits10(DoubleBits)
                              /\ (conversion = "auto" \/ t.digits > DecimalDigits)

value_number_imp ==
  /\ pc = "read"
  /\ number' = CASE conversion = "value" -> ToValue(numeral)
                 [] conversion = "string" -> push_number_string(numeral)
                 [] conversion = "decimal" -> newDecimalNumberFromString(numeral)
                 [] OTHER -> Auto(numeral)
  /\ warned' = Warns(numeral)
  /\ pc' = IF number' = Thrown THEN "thrown" ELSE "held"
  /\ UNCHANGED <<conversion, numeral, written, rounds>>
-----------------------------------------------------------------------------
Numeral(sign, m, digits, exp, scientific) ==
  [sign |-> sign, m |-> m, base |-> 10, exp |-> exp, digits |-> digits, scientific |-> scientific]
IntegerText(v) == Numeral(IF v.m = 0 THEN 1 ELSE v.sign, v.m, Length(v.m), 0, FALSE)
\* one digit in front of the point and that many behind it
Scientific(v, precision) ==
  LET r == Rounded(v, 10, precision + 1) IN Numeral(r.sign, r.m, precision + 1, r.exp, TRUE)
\* descriptionWithLocale of an NSDecimalNumber: no exponent
RECURSIVE Trimmed(_, _)
Trimmed(m, exp) == IF m > 0 /\ m % 10 = 0 /\ exp < 0 THEN Trimmed(m \div 10, exp + 1)
                   ELSE [m |-> m, exp |-> IF m = 0 THEN 0 ELSE exp]
Fixed(v) == IF v.exp >= 0 THEN IntegerText([v EXCEPT !.m = v.m * 10^v.exp])
            ELSE LET r == Trimmed(v.m, v.exp)
                     fraction == -r.exp
                     digits == IF Length(r.m) > fraction THEN Length(r.m) ELSE fraction + 1
                 IN Numeral(v.sign, r.m, digits, r.exp, FALSE)

\* digits behind the point
scientific_policy == digits10(DoubleBits) + 1
json_float_number_policy == digits10(LongDoubleBits) + 1

\* JPJson_serializeTo of NSNumber: the two values of a char are the Booleans
SerializesBoolean(v) == v.type = "c" /\ v.sign = 1 /\ v.m \in {0, 1}
\* serializeNumberIntoBuffer: an unsigned number that CFNumberGetValue cannot
\* give as a signed one goes through the formatter, so does an unknown type
serializeNumberIntoBuffer(v) ==
  CASE v.type \in {"c", "s", "i", "l", "q", "I", "L", "Q"} -> IntegerText(v)
    [] v.type \in {"f", "d"} -> Scientific(v, scientific_policy)
    [] v.type \in {"nan", "inf"} -> v
\* write_value of json::value, by write_number, and the to_string of its classes
write_number(v) ==
  IF v.type = "integral_number" THEN IntegerText(v) ELSE Scientific(v, json_float_number_policy)
to_string(v) ==
  IF v.type = "integral_number" THEN IntegerText(v) ELSE Scientific(v, scientific_policy)

Write ==
  /\ pc = "held" /\ number.type # "string"
  /\ \/ number.type \in {"integral_number", "float_number"} /\ written' \in {write_number(number), to_string(number)}
     \/ number.type = "decimal" /\ written' = Fixed(number)
     \/ SerializesBoolean(number) /\ written' = [type |-> "boolean"]
     \/ /\ number.type \notin {"integral_number", "float_number", "decimal"}
        /\ ~SerializesBoolean(number)
        /\ written' = serializeNumberIntoBuffer(number)
  /\ pc' = "written"
  /\ UNCHANGED <<conversion, numeral, number, warned, rounds>>

\* a client parses the text again
ReadAgain ==
  /\ pc = "written" /\ "digits" \in DOMAIN written
  /\ rounds < MaxRounds
  /\ rounds' = rounds + 1 /\ numeral' = written /\ pc' = "read"
  /\ UNCHANGED <<conversion, number, warned, written>>

Conversions == {"auto", "auto with decimal", "decimal", "string", "value"}
Init ==
  /\ conversion \in Conversions
  /\ warned = FALSE /\ written = None /\ rounds = 0
  /\ \/ pc = "read" /\ numeral \in Numerals /\ number = None
     \/ pc = "held" /\ conversion \in {"auto", "decimal"} /\ numeral = None /\ number \in Given

Next == value_number_imp \/ Write \/ ReadAgain
-----------------------------------------------------------------------------
TypeOK ==
  /\ pc \in {"read", "held", "thrown", "written"} /\ conversion \in Conversions
  /\ warned \in BOOLEAN /\ rounds \in 0..MaxRounds
  /\ pc = "held" => \/ number.type \in {"nan", "inf"}
                    \/ number.m \in Nat /\ number.sign \in {-1, 1}

\* The numeral can be read off a double: the nearest decimal of as many digits.
Recoverable(v, t) == SameNumber(Rounded(v, 10, Length(t.m)), t)

\* A number with a fraction or an exponent of more digits than a double can tell,
\* but no more than a double may need: value_number_imp compares with
\* max_digits10 (RepresentationGenerator.hpp:974, 989).
TooFine(t) == ~is_integer(t) /\ t.digits \in (digits10(DoubleBits) + 1)..max_digits10(DoubleBits)

\* What the generator holds is the number of the text, or a double of which the
\* text can be told, or it has logged a warning, but for TooFine numbers and for
\* json::float_number, which says nothing.  Only the integral numbers of json::value
\* are refused, those that its type has no room for.
Holds ==
  /\ pc = "held" /\ numeral # None =>
       \/ SameNumber(number, numeral) \/ warned
       \/ number.type \in {"d", "float_number"} /\ Recoverable(number, numeral)
       \/ number.type = "d" /\ TooFine(numeral)
       \/ number.type = "float_number" /\ numeral.digits > digits10(DoubleBits)
  /\ pc = "thrown" => conversion = "value" /\ is_integer(numeral) /\ ~FitsIn(LongBits, numeral)

\* What the writer wrote reads as the number, or the double, it had, and when read
\* and written again is still the same, or a warning was logged, or it is TooFine (an
\* NSDecimalNumber may be, which drops trailing zeros).  The doubles that are no
\* numbers are written as nan and inf, which no JSON parser reads.
Rereads ==
  pc = "written" =>
    \/ number.type \in {"nan", "inf"} /\ written.type = number.type
    \/ SerializesBoolean(number)
    \/ /\ "digits" \in DOMAIN written
       /\ SameNumber(written, number) \/ number.type \in {"d", "f", "float_number"}
       /\ number.type \in {"d", "float_number"} => SameNumber(Rounded(written, 2, DoubleBits), number)
       /\ rounds > 0 /\ number.type # "float_number" => SameNumber(written, numeral) \/ warned \/ TooFine(numeral)
=============================================================================
