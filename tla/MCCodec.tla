------------------------------ MODULE MCCodec -------------------------------
(***************************************************************************)
(* The conversions of Codec and Pages on inputs that grow: a mantissa, the *)
(* number of a gauge, the node of a warning.  MCConversions has the texts  *)
(* and the files.                                                          *)
(***************************************************************************)
EXTENDS Pages

\* The views of view.xml, and pepsswitchtoPStart.
Views == DOMAIN HMI_MGS_WARNING_ID
Nodes == [view : Views \ DoorViews, on : BOOLEAN, doors : {{}}]
         \cup {n \in [view : DoorViews, on : BOOLEAN, doors : SUBSET Doors] :
                 n.on <=> n.doors # {}}

Gauges == {"speed", "rpm", "mileage", "subtotal", "endurance", "averageFuel"}

VARIABLES
  kind,   \* the conversion
  input   \* its input

vars == <<kind, input>>

\* The next word, as the bytes count.
Greatest(word)  == word.power = 2 * Bias + 1 /\ word.fraction = One - 1
Following(word) ==
  IF word.fraction < One - 1 THEN [word EXCEPT !.fraction = @ + 1]
  ELSE [word EXCEPT !.power = @ + 1, !.fraction = 0]

NextWord ==
  /\ kind = "float"
  /\ \/ ~Greatest(input) /\ input' = Following(input)
     \/ input' = [input EXCEPT !.negative = ~@]

\* One digit more, up to 9999.9999.
TypeDigit ==
  /\ kind = "gauge" /\ input < 10000000
  /\ \E d \in {0, 5, 9} : input' = 10 * input + d

ChangeNode == kind = "node" /\ input' \in Nodes \ {input}

-----------------------------------------------------------------------------
(* Properties *)

\* The size that IEEE 754 gives to a normal word; the first word above them is
\* infinity.
Size(word) == (One + word.fraction) * Pow2[word.power - 1]

\* The float of the code is the number of the four bytes or the next one, which
\* for the greatest is infinity.  The words of zero and of the denormal numbers
\* are read as numbers of half the smallest normal one or more, and never as
\* more than that one; all those above the normal words as infinity.  The sign
\* is kept, and of two words the greater is never read as the smaller: a speed
\* is at the right side of a threshold, but for one unit in the last place.
FloatClose ==
  LET float == IEE754_HexToFloat(input)
  IN  kind = "float" =>
        /\ float.negative = input.negative
        /\ input.power = 0 => One <= 2 * float.size /\ float.size <= One
        /\ input.power \in 1..(2 * Bias) => float.size \in {Size(input), Size(Following(input))}
        /\ input.power > 2 * Bias => float.size = Infinity
        /\ ~Greatest(input) => float.size <= IEE754_HexToFloat(Following(input)).size

\* The length field of a gauge, read as the hexadecimal number it is meant as,
\* is the number of characters of its text, for the subtotal mileage the half of
\* it: below 10000.0000, where the decimal length of the speeds is the
\* hexadecimal one.
LengthTold ==
  LET text == FloatToStr(input)
      told(gauge) == StrToUCharArr(DataLength(gauge, text))
  IN  kind = "gauge" =>
        /\ \A gauge \in Gauges \ {"subtotal"} : told(gauge) = <<Len(text)>>
        /\ told("subtotal") = <<Len(text) \div 2>>

\* Every node has a page, its length field counts its bytes, no two nodes have
\* the same page, and the flags by which two door warnings are compared differ
\* exactly when their pages do.
PageTells ==
  LET page  == GetWarnPageDataToHMI(input)
      bytes == StrToUCharArr(page)
  IN  kind = "node" =>
        /\ Len(bytes) > 3 /\ bytes[3] = Len(bytes) - 3
        /\ \A n \in Nodes :
             /\ GetWarnPageDataToHMI(n) = page => n = input
             /\ n.view = input.view /\ n.view \in DoorViews =>
                  (GetDoorInfoFlagStr(n) = GetDoorInfoFlagStr(input) <=> n = input)

-----------------------------------------------------------------------------
(* What comments say                                                       *)

\* 41 EF 00 00, of whose fraction the first seven bits are not 0, is 30.875, or
\* the next number (CoreMsgHandler.cpp:1270); it is read as 29.875.
Coolant == [negative |-> FALSE, power |-> Bias + 4, fraction |-> 111 * Pow2[MantissaBits - 7]]
CoolantAsTold ==
  kind = "float" /\ input = Coolant =>
    LET eighths(n) == n * Pow2[MantissaBits + Bias - 4]
    IN  /\ eighths(247) <= IEE754_HexToFloat(input).size
        /\ IEE754_HexToFloat(input).size <= eighths(247) + Pow2[Bias + 3]

\* The speed has a length in bytes, each of two characters, as in the message
\* 02 01 04 000006F1 (CoreMsgHandler.cpp:1080).
SpeedAsTold ==
  LET text == FloatToStr(input)
  IN  kind = "gauge" => 2 * StrToUCharArr(DataLength("speed", text))[1] = Len(text)

=============================================================================
