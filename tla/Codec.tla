------------------------------- MODULE Codec --------------------------------
(***************************************************************************)
(* The conversions of Util.h: bytes to hexadecimal text and back, the      *)
(* length field of a gauge message, and the float that is put together by  *)
(* hand.  A text is a sequence of ASCII codes.                             *)
(***************************************************************************)
EXTENDS Integers, Sequences, SequencesExt

CONSTANTS
  MantissaBits,  \* 23 in the code
  PowerBits      \* 8 in the code

ASSUME Mantissa   == MantissaBits \in Nat \ {0, 1}
ASSUME PowerWidth == PowerBits \in Nat \ {0, 1}

HexCode(n) == IF n < 10 THEN 48 + n ELSE 55 + n

HexToStr(byte) == <<HexCode(byte \div 16), HexCode(byte % 16)>>

UCharArrToStr(bytes) == FlattenSeq([i \in DOMAIN bytes |-> HexToStr(bytes[i])])

\* strtol of a code of either case, for the texts that are hexadecimal
HexOf(c) == IF c < 58 THEN c - 48 ELSE IF c < 71 THEN c - 55 ELSE c - 87

\* Nothing is taken from a text of odd length.
StrToUCharArr(text) ==
  IF Len(text) % 2 = 1 THEN <<>>
  ELSE [i \in 1..(Len(text) \div 2) |-> 16 * HexOf(text[2 * i - 1]) + HexOf(text[2 * i])]

\* "%d" of a number of 32 bits
Digits(n)  == CHOOSE k \in 1..10 : (k = 10 \/ n < 10 ^ k) /\ (k = 1 \/ n >= 10 ^ (k - 1))
Decimal(n) == [i \in 1..Digits(n) |-> 48 + ((n \div 10 ^ (Digits(n) - i)) % 10)]

\* Decimal, in spite of its name, and of even length: a 0 comes before a
\* single digit, and takes the place of the last but one of three.
UIntToHexStr(n) ==
  LET text == Decimal(n)
      len  == Len(text)
  IN  IF len % 2 = 0 THEN text
      ELSE SubSeq(text, 1, len - 2) \o <<48, text[len]>>

\* "%.4f" of a number of ten-thousandths
FloatToStr(n) ==
  LET rest == n % 10 ^ 4
  IN  Decimal(n \div 10 ^ 4)
      \o <<46, 48 + (rest \div 1000), 48 + ((rest \div 100) % 10),
           48 + ((rest \div 10) % 10), 48 + (rest % 10)>>

\* Mutant: one byte for two characters.
DataLengthHalf(gauge, text) == HexToStr(Len(text) \div 2)

\* The length field of a gauge whose value is a text.
DataLength(gauge, text) ==
  CASE gauge \in {"speed", "rpm"} -> UIntToHexStr(Len(text))
    [] gauge = "subtotal"         -> HexToStr(Len(text) \div 2)
    [] OTHER                      -> HexToStr(Len(text))

-----------------------------------------------------------------------------
(* Floats: a word is its three fields, and the size of a float is counted   *)
(* in the smallest number, 2 ^ (1 - Bias - MantissaBits)                    *)

Pow2[n \in Nat] == IF n = 0 THEN 1 ELSE 2 * Pow2[n - 1]

One == Pow2[MantissaBits]

\* a / b rounded to an integer, a half to the even one
RoundedDiv(a, b) ==
  LET q == a \div b
      r == a % b
  IN  IF 2 * r < b \/ (2 * r = b /\ q % 2 = 0) THEN q ELSE q + 1

\* The power of two that brings a / b to the width of a mantissa.
Scale(a, b) ==
  CHOOSE s \in 0..(2 * MantissaBits + 1) :
    LET q == (a * Pow2[s]) \div b IN One <= q /\ q < 2 * One

\* Mutant: the leading 1 of the mantissa is forgotten, but at zero.
FractionOnly(m) == IF m = 0 THEN One ELSE m

\* 1 + (float) m / 0x7fffff, in units of 2 ^ -MantissaBits.  The division and
\* the sum are rounded; the divisor is one too small.
MantissaOf(m) ==
  LET s == Scale(m, One - 1)
      q == RoundedDiv(m * Pow2[s], One - 1)
  IN  IF m = 0 THEN One ELSE RoundedDiv((Pow2[s] + q) * One, Pow2[s])

Bias  == Pow2[PowerBits - 1] - 1
Words == [negative : BOOLEAN, power : 0..(2 * Bias + 1), fraction : 0..(One - 1)]

\* The size of an infinite float.
Infinity == One * Pow2[2 * Bias]

\* The product is a double, which is rounded when it is returned as a float: to
\* the smallest numbers below the normal ones, and to infinity above them.
ToFloat(mantissa, power) ==
  IF power = 0 THEN RoundedDiv(mantissa, 2)
  ELSE IF mantissa * Pow2[power - 1] >= Infinity THEN Infinity
  ELSE mantissa * Pow2[power - 1]

\* No power has a case of its own: that of zero and of the denormal numbers is
\* the one below the first, that of infinity and NaN the one above the last.
IEE754_HexToFloat(word) ==
  [negative |-> word.negative,
   size     |-> ToFloat(MantissaOf(word.fraction), word.power)]

=============================================================================
