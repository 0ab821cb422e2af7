------------------------- MODULE ConversionProofs --------------------------
(***************************************************************************)
(* What the conversions do with every input: the float that is put         *)
(* together by hand, for any width of the mantissa; the length field of a  *)
(* gauge; the texts of JSON, which are printed inside their buffers and    *)
(* parsed to what was printed, whatever their length and depth; the two    *)
(* configuration files, whatever is in them; and the pages of the display. *)
(***************************************************************************)
EXTENDS ConversionTerms, TLAPS, SequenceTheorems, WellFoundedInduction

-----------------------------------------------------------------------------
(* Induction on numbers, by a smallest counterexample: the theorems of the *)
(* library have a predicate as their parameter, which the provers cannot    *)
(* instantiate; this one has a set.                                         *)

\* The numbers are well founded by their order.
LEMMA LessWellFounded == IsWellFoundedOn(Less, Nat)
  BY NatLessThanWellFounded, Zenon DEF OpToRel, Less

\* A set of numbers that is not empty has a smallest one.
LEMMA SmallestOf ==
  ASSUME NEW T, T \subseteq Nat, T # {}
  PROVE  \E x \in T : \A y \in T : x <= y
<1>1. PICK x \in T : \A y \in T : ~(<<y,x>> \in Less)
  BY WFMin, LessWellFounded, Zenon
<1>2. ASSUME NEW y \in T PROVE x <= y
  <2>1. x \in Nat /\ y \in Nat
    OBVIOUS
  <2>2. ~(y < x)
    BY <1>1, <2>1 DEF Less
  <2>3. QED
    BY <2>1, <2>2
<1>3. QED
  BY <1>2

\* Induction, over a set in place of a predicate.
LEMMA Induction ==
  ASSUME NEW S, 0 \in S, \A n \in Nat : n \in S => n + 1 \in S
  PROVE  Nat \subseteq S
<1> SUFFICES ASSUME NEW k \in Nat, k \notin S PROVE FALSE
  OBVIOUS
<1> DEFINE T == {n \in Nat : n \notin S}
<1>1. T \subseteq Nat /\ T # {}
  OBVIOUS
<1>2. PICK x \in T : \A y \in T : x <= y
  BY <1>1, SmallestOf, Zenon
<1>3. x # 0 /\ x - 1 \in Nat /\ x - 1 \notin T
  BY <1>2
<1>4. QED
  BY <1>2, <1>3

-----------------------------------------------------------------------------
(* Powers of two: the recursive function exists *)

\* Two functions that double from 1 on agree as far as both go.
LEMMA DoublesSame ==
  ASSUME NEW n \in Nat, NEW m \in Nat, NEW f, NEW g, Doubles(f, n), Doubles(g, m)
  PROVE  \A i \in Nat : i <= n /\ i <= m => f[i] = g[i]
<1> DEFINE S == {i \in Nat : i <= n /\ i <= m => f[i] = g[i]}
<1>1. 0 \in S
  BY DEF Doubles
<1>2. ASSUME NEW i \in Nat, i \in S PROVE i + 1 \in S
  <2> SUFFICES ASSUME i + 1 <= n, i + 1 <= m PROVE f[i+1] = g[i+1]
    OBVIOUS
  <2>1. i + 1 \in 1..n /\ i + 1 \in 1..m /\ (i + 1) - 1 = i /\ f[i] = g[i]
    BY <1>2
  <2>2. QED
    BY <2>1 DEF Doubles
<1>3. Nat \subseteq S
  <2> HIDE DEF S
  <2> QED BY <1>1, <1>2, Induction
<1>4. QED
  BY <1>3

\* Such a function exists up to any number.
LEMMA DoublesExist == \A n \in Nat : \E f : Doubles(f, n)
<1> DEFINE S == {n \in Nat : \E f : Doubles(f, n)}
<1>1. 0 \in S
  <2>1. Doubles([i \in 0..0 |-> 1], 0)
    BY DEF Doubles
  <2>2. QED
    BY <2>1
<1>2. ASSUME NEW n \in Nat, n \in S PROVE n + 1 \in S
  <2>1. PICK f : Doubles(f, n)
    BY <1>2
  <2>2. Doubles([i \in 0..(n+1) |-> IF i = n + 1 THEN 2 * f[n] ELSE f[i]], n + 1)
    <3>1. PICK g : g = [i \in 0..(n+1) |-> IF i = n + 1 THEN 2 * f[n] ELSE f[i]]
      OBVIOUS
    <3>2. g \in [0..(n+1) -> Nat] /\ g[0] = 1
      BY <2>1, <3>1 DEF Doubles
    <3>3. \A i \in 1..(n+1) : g[i] = 2 * g[i - 1]
      BY <2>1, <3>1, SMTT(60) DEF Doubles
    <3>4. QED
      BY <3>1, <3>2, <3>3 DEF Doubles
  <2>3. QED
    BY <2>2
<1>3. Nat \subseteq S
  <2> HIDE DEF S
  <2> QED BY <1>1, <1>2, Induction
<1>4. QED
  BY <1>3

\* The recursive function Pow2 has its equation.
LEMMA Pow2Defined == Pow2 = [n \in Nat |-> IF n = 0 THEN 1 ELSE 2 * Pow2[n - 1]]
<1> DEFINE D(f) == f = [n \in Nat |-> IF n = 0 THEN 1 ELSE 2 * f[n - 1]]
           p == [n \in Nat |-> (CHOOSE f : Doubles(f, n))[n]]
<1>1. \A n \in Nat : Doubles(CHOOSE f : Doubles(f, n), n)
  BY DoublesExist
<1>2. p[0] = 1 /\ \A n \in Nat \ {0} : p[n] = 2 * p[n - 1]
  <2>1. p[0] = 1
    BY <1>1 DEF Doubles
  <2>2. ASSUME NEW n \in Nat \ {0} PROVE p[n] = 2 * p[n - 1]
    <3>1. PICK f, g : f = (CHOOSE h : Doubles(h, n)) /\ g = (CHOOSE h : Doubles(h, n - 1))
      OBVIOUS
    <3>2. Doubles(f, n) /\ Doubles(g, n - 1) /\ n - 1 \in Nat
      BY <1>1, <3>1
    <3>3. f[n - 1] = g[n - 1]
      BY <3>2, DoublesSame
    <3>4. f[n] = 2 * f[n - 1]
      BY <3>2 DEF Doubles
    <3>5. p[n] = f[n] /\ p[n - 1] = g[n - 1]
      BY <3>1, <3>2
    <3>6. QED
      BY <3>3, <3>4, <3>5
  <2>3. QED
    BY <2>1, <2>2
<1>3. D(p)
  <2>1. p = [n \in Nat |-> p[n]]
    OBVIOUS
  <2> HIDE DEF p
  <2>2. QED
    BY <1>2, <2>1
<1>4. Pow2 = CHOOSE f : D(f)
  BY DEF Pow2
<1>5. QED
  <2> HIDE DEF p
  <2>1. D(CHOOSE f : D(f))
    <3> HIDE DEF D
    <3> QED BY <1>3
  <2>2. QED
    BY <1>4, <2>1


\* A power of two is a positive number.
LEMMA Pow2Type == \A n \in Nat : Pow2[n] \in Nat /\ Pow2[n] >= 1
<1> DEFINE S == {n \in Nat : Pow2[n] \in Nat /\ Pow2[n] >= 1}
<1>1. 0 \in S
  BY Pow2Defined
<1>2. ASSUME NEW n \in Nat, n \in S PROVE n + 1 \in S
  <2>1. Pow2[n + 1] = 2 * Pow2[n]
    BY Pow2Defined
  <2>2. QED
    BY <1>2, <2>1
<1>3. Nat \subseteq S
  <2> HIDE DEF S
  <2> QED BY <1>1, <1>2, Induction
<1>4. QED
  BY <1>3

\* The powers of two double.
LEMMA Pow2Next == ASSUME NEW n \in Nat PROVE Pow2[0] = 1 /\ Pow2[n + 1] = 2 * Pow2[n]
  BY Pow2Defined

\* The power of a sum is the product of the powers.
LEMMA Pow2Sum ==
  ASSUME NEW a \in Nat, NEW b \in Nat PROVE Pow2[a + b] = Pow2[a] * Pow2[b]
<1> DEFINE S == {n \in Nat : Pow2[a + n] = Pow2[a] * Pow2[n]}
<1>1. 0 \in S
  BY Pow2Next, Pow2Type
<1>2. ASSUME NEW n \in Nat, n \in S PROVE n + 1 \in S
  <2>1. Pow2[n + 1] = 2 * Pow2[n] /\ Pow2[(a + n) + 1] = 2 * Pow2[a + n]
    BY Pow2Next
  <2>2. a + (n + 1) = (a + n) + 1 /\ Pow2[a + n] = Pow2[a] * Pow2[n]
    BY <1>2
  <2>3. PICK x, y \in Nat : x = Pow2[a] /\ y = Pow2[n]
    BY Pow2Type
  <2>4. 2 * (x * y) = x * (2 * y)
    OBVIOUS
  <2>5. QED
    BY <2>1, <2>2, <2>3, <2>4
<1>3. Nat \subseteq S
  <2> HIDE DEF S
  <2> QED BY <1>1, <1>2, Induction
<1>4. QED
  BY <1>3

\* A factor keeps the order.
LEMMA MulLess ==
  ASSUME NEW p \in Nat, p >= 1, NEW x \in Int, NEW y \in Int
  PROVE  /\ x <= y => p * x <= p * y
         /\ p * x <= p * y => x <= y
         /\ p * x < p * y => x < y
  OBVIOUS

\* A number is its quotient and its remainder.
LEMMA DivParts ==
  ASSUME NEW a \in Nat, NEW b \in Nat, b >= 1
  PROVE  /\ a \div b \in Nat /\ a % b \in Nat
         /\ a = b * (a \div b) + (a % b) /\ a % b < b
  OBVIOUS

\* Powers of two grow with their exponents.
LEMMA Pow2Grows ==
  ASSUME NEW a \in Nat, NEW b \in Nat, a <= b PROVE Pow2[a] <= Pow2[b]
<1>1. Pow2[b] = Pow2[a] * Pow2[b - a]
  <2>1. b - a \in Nat /\ a + (b - a) = b
    OBVIOUS
  <2>2. QED
    BY <2>1, Pow2Sum
<1>2. PICK x, y \in Nat : x = Pow2[a] /\ y = Pow2[b - a] /\ y >= 1
  BY Pow2Type
<1>3. x * 1 <= x * y
  BY <1>2
<1>4. QED
  BY <1>1, <1>2, <1>3

-----------------------------------------------------------------------------
(* The float *)

\* Rounding is off by half a unit at most.
LEMMA RoundedClose ==
  ASSUME NEW a \in Nat, NEW b \in Nat, b >= 1
  PROVE  /\ RoundedDiv(a, b) \in Nat
         /\ 2 * (a - b * RoundedDiv(a, b)) <= b
         /\ 2 * (b * RoundedDiv(a, b) - a) <= b
         /\ RoundedDiv(a, b) >= a \div b
<1>1. PICK q, r \in Nat : q = a \div b /\ r = a % b /\ a = b * q + r /\ r < b
  BY DivParts
<1>2. PICK k \in Nat : k = RoundedDiv(a, b)
  BY <1>1 DEF RoundedDiv
<1>3. (k = q /\ 2 * r <= b) \/ (k = q + 1 /\ 2 * r >= b)
  BY <1>1, <1>2 DEF RoundedDiv
<1>4. b * (q + 1) = b * q + b
  OBVIOUS
<1>5. PICK z \in Int : z = b * q
  OBVIOUS
<1>6. 2 * (a - b * k) <= b /\ 2 * (b * k - a) <= b
  BY <1>1, <1>3, <1>4, <1>5
<1>7. QED
  BY <1>1, <1>2, <1>3, <1>6

\* A mantissa has a scale: the smallest power of two that brings the quotient
\* to One or above leaves it below twice One.
LEMMA ScaleExists ==
  ASSUME NEW m \in 1..(One - 1)
  PROVE  /\ One \in Nat /\ One >= 4 /\ Scale(m, One - 1) \in Nat
         /\ One <= (m * Pow2[Scale(m, One - 1)]) \div (One - 1)
<1>1. PICK o \in Nat : o = One /\ o >= 4
  <2>1. Pow2[2] = 4
    <3>1. Pow2[0 + 1] = 2 /\ Pow2[1 + 1] = 2 * Pow2[0 + 1]
      BY Pow2Next
    <3>2. QED
      BY <3>1
  <2>2. MantissaBits \in Nat /\ 2 <= MantissaBits
    BY Mantissa DEF Mantissa
  <2>3. QED
    BY <2>1, <2>2, Pow2Type, Pow2Grows DEF One
<1>2. PICK d \in Nat : d = o - 1 /\ d >= 3
  BY <1>1
<1>3. m \in Nat /\ 1 <= m /\ m <= d
  BY <1>1, <1>2
<1> DEFINE T == {s \in Nat : d * o <= m * Pow2[s]}
<1>4. MantissaBits + MantissaBits \in T
  <2>1. MantissaBits \in Nat
    BY Mantissa DEF Mantissa
  <2>2. Pow2[MantissaBits + MantissaBits] = o * o
    BY <1>1, <2>1, Pow2Sum DEF One
  <2>3. d * o <= o * o
    BY <1>1, <1>2
  <2>4. 1 * (o * o) <= m * (o * o)
    BY <1>3
  <2>5. QED
    BY <2>1, <2>2, <2>3, <2>4
<1>5. PICK s \in T : \A t \in T : s <= t
  <2>1. T \subseteq Nat /\ T # {}
    BY <1>4
  <2>2. QED
    BY <2>1, SmallestOf, Zenon
<1>6. s # 0
  <2>1. m * Pow2[0] = m
    BY <1>3, Pow2Next
  <2>2. d < d * o
    BY <1>1, <1>2
  <2>3. QED
    BY <1>2, <1>3, <1>5, <2>1, <2>2
<1>7. s - 1 \in Nat /\ s - 1 \notin T /\ s \in 0..(2 * MantissaBits + 1)
  BY <1>4, <1>5, <1>6, Mantissa DEF Mantissa
<1>8. PICK h \in Nat : h = Pow2[s - 1] /\ Pow2[s] = 2 * h
  BY <1>7, Pow2Type, Pow2Next
<1>9. PICK a \in Nat : a = m * Pow2[s] /\ d * o <= a /\ a < d * (2 * o)
  <2>1. m * (2 * h) = 2 * (m * h) /\ d * (2 * o) = 2 * (d * o)
    OBVIOUS
  <2>2. m * h < d * o
    BY <1>7, <1>8
  <2>3. QED
    BY <1>5, <1>8, <2>1, <2>2
<1>10. PICK q, r \in Nat : q = a \div d /\ a = d * q + r /\ r < d
  <2>1. a \in Nat /\ d \in Nat /\ d >= 1
    BY <1>2
  <2>2. /\ a \div d \in Nat /\ a % d \in Nat
        /\ a = d * (a \div d) + (a % d) /\ a % d < d
    BY <2>1, DivParts, Zenon
  <2>3. QED
    BY <2>2, Zenon
<1>11. o <= q /\ q < 2 * o
  <2>1. d * q < d * (2 * o)
    BY <1>9, <1>10, SMTT(60)
  <2>2. d * o < d * (q + 1)
    BY <1>9, <1>10, SMTT(60)
  <2>3. QED
    BY <1>2, <2>1, <2>2, MulLess
<1>12. \E t \in 0..(2 * MantissaBits + 1) :
         LET k == (m * Pow2[t]) \div (One - 1) IN One <= k /\ k < 2 * One
  BY <1>1, <1>2, <1>7, <1>9, <1>10, <1>11
<1>13. /\ Scale(m, One - 1) \in 0..(2 * MantissaBits + 1)
       /\ LET k == (m * Pow2[Scale(m, One - 1)]) \div (One - 1) IN One <= k /\ k < 2 * One
  BY <1>12 DEF Scale
<1>14. QED
  BY <1>1, <1>13

\* The quotient is at most a power of two, and that of the largest mantissa is
\* exact: the sum is less than one and a half units above the true one.
LEMMA MantissaClose ==
  ASSUME NEW m \in 0..(One - 1)
  PROVE  MantissaOf(m) \in {One + m, One + m + 1}
<1>1. CASE m = 0
  <2>1. One \in Nat
    BY Mantissa, Pow2Type DEF Mantissa, One
  <2>2. QED
    BY <1>1, <2>1 DEF MantissaOf
<1>2. CASE m # 0
  <2>1. PICK o, d \in Nat : o = One /\ d = o - 1 /\ o >= 4
    BY <1>2, ScaleExists
  <2>2. PICK p \in Nat : p = Pow2[Scale(m, One - 1)] /\ o <= (m * p) \div d /\ p >= 1
    <3>1. m \in 1..(One - 1) /\ o = One /\ d = One - 1
      BY <1>2, <2>1
    <3>2. /\ Scale(m, One - 1) \in Nat
          /\ One <= (m * Pow2[Scale(m, One - 1)]) \div (One - 1)
      BY <3>1, ScaleExists, Zenon
    <3>3. Pow2[Scale(m, One - 1)] \in Nat /\ Pow2[Scale(m, One - 1)] >= 1
      BY <3>2, Pow2Type, Zenon
    <3>4. QED
      BY <3>1, <3>2, <3>3, Zenon
  <2>3. m \in Nat /\ 1 <= m /\ m <= d /\ d >= 1
    BY <1>2, <2>1
  <2>4. PICK a \in Nat : a = m * p
    BY <2>3
  <2>5. PICK q \in Nat : /\ q = RoundedDiv(a, d) /\ q >= o
                         /\ 2 * (a - d * q) <= d /\ 2 * (d * q - a) <= d
    <3>1. /\ RoundedDiv(a, d) \in Nat /\ RoundedDiv(a, d) >= a \div d
          /\ 2 * (a - d * RoundedDiv(a, d)) <= d /\ 2 * (d * RoundedDiv(a, d) - a) <= d
      BY <2>3, RoundedClose, Zenon
    <3>2. a \div d \in Nat
      BY <2>3, DivParts, Zenon
    <3>3. PICK x \in Nat : x = a \div d /\ o <= x
      BY <2>2, <2>4, <3>2, Zenon
    <3>4. PICK q \in Nat : q = RoundedDiv(a, d) /\ q >= x
      BY <3>1, <3>3, Zenon
    <3>5. q >= o
      BY <2>1, <3>3, <3>4
    <3>6. QED
      BY <3>1, <3>4, <3>5, Zenon
  <2>6. a <= d * p
    BY <2>3, <2>4
  <2>7. q <= p
    <3>1. PICK x, y \in Int : x = d * q /\ y = d * p
      OBVIOUS
    <3>2. d * q < d * (p + 1)
      <4>1. d * (p + 1) = d * p + d
        OBVIOUS
      <4>2. QED
        BY <2>3, <2>5, <2>6, <3>1, <4>1
    <3>3. QED
      BY <2>3, <3>2, MulLess
  <2>8. d < p
    BY <2>1, <2>5, <2>7
  <2>9. PICK w \in Int : w = q + (d * q - a)
    OBVIOUS
  <2>10. 0 <= w /\ 2 * w < 3 * p
    BY <2>1, <2>5, <2>7, <2>8, <2>9
  <2>11. (p + q) * o = p * (o + m) + w
    <3>1. (p + q) * o = p * o + (q * d + q)
      BY <2>1
    <3>2. p * (o + m) = p * o + m * p
      OBVIOUS
    <3>3. q * d = d * q
      OBVIOUS
    <3>4. QED
      BY <2>4, <2>9, <3>1, <3>2, <3>3
  <2>12. PICK n, k \in Nat : n = (p + q) * o /\ k = o + m /\ n = p * k + w
    BY <2>11
  <2>13. PICK f \in Nat : /\ f = RoundedDiv(n, p)
                          /\ 2 * (n - p * f) <= p /\ 2 * (p * f - n) <= p
    BY <2>2, RoundedClose
  <2>14. p * k < p * (f + 1) /\ p * f < p * (k + 2)
    <3>1. p * (f + 1) = p * f + p /\ p * (k + 2) = p * k + 2 * p
      OBVIOUS
    <3>2. PICK x, y \in Int : x = p * f /\ y = p * k
      OBVIOUS
    <3>3. QED
      BY <2>2, <2>10, <2>12, <2>13, <3>1, <3>2
  <2>15. k <= f /\ f <= k + 1
    BY <2>2, <2>14, MulLess
  <2>16. MantissaOf(m) = f
    BY <1>2, <2>1, <2>2, <2>4, <2>5, <2>12, <2>13 DEF MantissaOf
  <2>17. QED
    BY <2>1, <2>12, <2>15, <2>16
<1>3. QED
  BY <1>1, <1>2

\* One is even and the bias positive.
LEMMA FloatParts ==
  /\ One \in Nat /\ One >= 4 /\ Bias \in Nat /\ Bias >= 1
  /\ \E half \in Nat : One = 2 * half
  /\ Infinity \in Nat /\ Infinity = One * Pow2[2 * Bias]
<1>1. MantissaBits \in Nat /\ MantissaBits - 1 \in Nat /\ MantissaBits - 1 >= 1
  BY Mantissa DEF Mantissa
<1>2. PowerBits - 1 \in Nat /\ PowerBits - 1 >= 1
  BY PowerWidth DEF PowerWidth
<1>3. Pow2[1] = 2
  <2>1. Pow2[0 + 1] = 2 * Pow2[0] /\ Pow2[0] = 1
    BY Pow2Next
  <2>2. QED
    BY <2>1
<1>4. One = 2 * Pow2[MantissaBits - 1]
  <2>1. Pow2[(MantissaBits - 1) + 1] = 2 * Pow2[MantissaBits - 1]
    BY <1>1, Pow2Next
  <2>2. (MantissaBits - 1) + 1 = MantissaBits
    BY <1>1
  <2>3. QED
    BY <2>1, <2>2 DEF One
<1>5. Pow2[MantissaBits - 1] \in Nat /\ Pow2[MantissaBits - 1] >= 2
  BY <1>1, <1>3, Pow2Type, Pow2Grows
<1>6. Pow2[PowerBits - 1] \in Nat /\ Pow2[PowerBits - 1] >= 2
  BY <1>2, <1>3, Pow2Type, Pow2Grows
<1>7. PICK b \in Nat : b = Bias /\ b >= 1
  BY <1>6 DEF Bias
<1>8. Pow2[2 * b] \in Nat
  BY <1>7, Pow2Type
<1>9. PICK o \in Nat : o = One /\ o >= 4 /\ \E half \in Nat : o = 2 * half
  BY <1>4, <1>5
<1>10. Infinity = o * Pow2[2 * b] /\ o * Pow2[2 * b] \in Nat
  BY <1>7, <1>8, <1>9 DEF Infinity
<1>11. QED
  BY <1>7, <1>9, <1>10

\* Half of a number is rounded by less than one, and in order.
LEMMA HalfRounded ==
  ASSUME NEW a \in Nat
  PROVE  /\ RoundedDiv(a, 2) \in Nat
         /\ 2 * RoundedDiv(a, 2) <= a + 1 /\ a <= 2 * RoundedDiv(a, 2) + 1
         /\ (\E h \in Nat : a = 2 * h) => 2 * RoundedDiv(a, 2) = a
  BY DEF RoundedDiv

\* The size of a normal power.
LEMMA NormalSize ==
  ASSUME NEW power \in 1..(2 * Bias + 1)
  PROVE  /\ power \in Nat /\ power - 1 \in Nat
         /\ Pow2[power - 1] \in Nat /\ Pow2[power - 1] >= 1
         /\ Pow2[power] = 2 * Pow2[power - 1]
         /\ power <= 2 * Bias => One * Pow2[power] <= Infinity
         /\ power > 2 * Bias => Infinity = One * Pow2[power - 1]
<1>1. PICK b \in Nat : b = Bias /\ b >= 1
  BY FloatParts
<1>2. power \in Nat /\ power - 1 \in Nat /\ 2 * b \in Nat /\ power <= 2 * b + 1
  BY <1>1
<1>3. Pow2[(power - 1) + 1] = 2 * Pow2[power - 1] /\ (power - 1) + 1 = power
  BY <1>2, Pow2Next
<1>4. Pow2[power - 1] \in Nat /\ Pow2[power - 1] >= 1 /\ Pow2[power] \in Nat /\ Pow2[2 * b] \in Nat
  BY <1>2, Pow2Type
<1>5. ASSUME power <= 2 * b PROVE One * Pow2[power] <= Infinity
  <2>1. Pow2[power] <= Pow2[2 * b]
    BY <1>2, <1>5, Pow2Grows
  <2>2. PICK o, x, y \in Nat : o = One /\ o >= 1 /\ x = Pow2[power] /\ y = Pow2[2 * b] /\ x <= y
    BY <1>4, <2>1, FloatParts
  <2>3. o * x <= o * y
    BY <2>2, MulLess
  <2>4. QED
    BY <1>1, <2>2, <2>3, FloatParts
<1>6. ASSUME power > 2 * b PROVE Infinity = One * Pow2[power - 1]
  <2>1. power - 1 = 2 * b
    BY <1>2, <1>6
  <2>2. QED
    BY <1>1, <2>1, FloatParts
<1>7. QED
  BY <1>1, <1>2, <1>3, <1>4, <1>5, <1>6

\* A float is never above the infinite one, and in the order of its mantissa.
LEMMA ToFloatOrder ==
  ASSUME NEW a \in Nat, NEW b \in Nat, a <= b, NEW power \in 0..(2 * Bias + 1)
  PROVE  ToFloat(a, power) <= ToFloat(b, power)
<1>1. CASE power = 0
  <2>1. PICK x, y \in Nat : /\ x = RoundedDiv(a, 2) /\ y = RoundedDiv(b, 2)
                            /\ 2 * x <= a + 1 /\ b <= 2 * y + 1
    BY HalfRounded
  <2>2. CASE a = b
    BY <1>1, <2>1, <2>2 DEF ToFloat
  <2>3. CASE a + 2 <= b
    BY <1>1, <2>1, <2>3 DEF ToFloat
  <2>4. CASE b = a + 1
    <3>1. (\E h \in Nat : a = 2 * h) \/ (\E h \in Nat : b = 2 * h)
      <4>1. PICK c \in Nat : c = a \div 2 /\ (a = 2 * c \/ a = 2 * c + 1)
        <5>1. a \div 2 \in Nat /\ (a = 2 * (a \div 2) \/ a = 2 * (a \div 2) + 1)
          OBVIOUS
        <5>2. QED
          BY <5>1
      <4>2. c + 1 \in Nat /\ (a = 2 * c \/ b = 2 * (c + 1))
        BY <2>4, <4>1
      <4>3. QED
        BY <4>1, <4>2
    <3>2. 2 * x = a \/ 2 * y = b
      BY <2>1, <3>1, HalfRounded
    <3>3. x <= y
      BY <2>1, <2>4, <3>2
    <3>4. QED
      BY <1>1, <2>1, <3>3 DEF ToFloat
  <2>5. QED
    BY <2>2, <2>3, <2>4
<1>2. CASE power # 0
  <2>1. PICK u, z \in Nat : u = Pow2[power - 1] /\ u >= 1 /\ z = Infinity
    BY <1>2, FloatParts, NormalSize
  <2>2. PICK x, y \in Nat : x = a * u /\ y = b * u /\ x <= y
    <3>1. u * a <= u * b /\ u * a = a * u /\ u * b = b * u
      BY <2>1, MulLess
    <3>2. a * u \in Nat /\ b * u \in Nat
      BY <2>1
    <3>3. QED
      BY <3>1, <3>2
  <2>3. /\ ToFloat(a, power) = IF x >= z THEN z ELSE x
        /\ ToFloat(b, power) = IF y >= z THEN z ELSE y
    BY <1>2, <2>1, <2>2 DEF ToFloat
  <2>4. QED
    BY <2>2, <2>3
<1>3. QED
  BY <1>1, <1>2

\* What is read of the words of one power, from the mantissa One to 2 * One.
LEMMA ToFloatSize ==
  ASSUME NEW f \in Nat, One <= f, f <= 2 * One, NEW power \in 0..(2 * Bias + 1)
  PROVE  /\ power = 0 => /\ One <= 2 * ToFloat(f, power) /\ ToFloat(f, power) <= One
         /\ power \in 1..(2 * Bias) => ToFloat(f, power) = f * Pow2[power - 1]
         /\ power > 2 * Bias => ToFloat(f, power) = Infinity
<1>1. PICK o, half \in Nat : o = One /\ o = 2 * half
  BY FloatParts
<1>2. ASSUME power = 0 PROVE One <= 2 * ToFloat(f, power) /\ ToFloat(f, power) <= One
  <2>1. PICK x \in Nat : x = ToFloat(f, power) /\ 2 * x <= f + 1 /\ f <= 2 * x + 1
    BY <1>2, HalfRounded DEF ToFloat
  <2>2. QED
    BY <1>1, <2>1
<1>3. ASSUME power # 0
      PROVE  /\ power <= 2 * Bias => ToFloat(f, power) = f * Pow2[power - 1]
             /\ power > 2 * Bias => ToFloat(f, power) = Infinity
  <2>1. PICK u, z, b \in Nat : u = Pow2[power - 1] /\ u >= 1 /\ z = Infinity /\ b = Bias
    BY <1>3, FloatParts, NormalSize
  <2>2. PICK x \in Nat : x = f * u /\ o * u <= x /\ x <= o * (2 * u)
    <3>1. u * o <= u * f /\ u * f <= u * (2 * o)
      BY <1>1, <2>1, MulLess
    <3>2. u * o = o * u /\ u * f = f * u /\ u * (2 * o) = o * (2 * u) /\ f * u \in Nat
      BY <1>1, <2>1
    <3>3. QED
      BY <3>1, <3>2
  <2>3. ToFloat(f, power) = IF x >= z THEN z ELSE x
    BY <1>3, <2>1, <2>2 DEF ToFloat
  <2>4. /\ power <= 2 * b => o * (2 * u) <= z
        /\ power > 2 * b => z = o * u
    BY <1>1, <1>3, <2>1, NormalSize
  <2>5. QED
    BY <1>1, <2>1, <2>2, <2>3, <2>4
<1>4. QED
  BY <1>2, <1>3, FloatParts

\* The parts of a word, and of the next one.
LEMMA WordParts ==
  ASSUME NEW w \in Words
  PROVE  /\ w.negative \in BOOLEAN /\ w.power \in 0..(2 * Bias + 1) /\ w.fraction \in 0..(One - 1)
         /\ w.fraction < One - 1 =>
              Following(w).power = w.power /\ Following(w).fraction = w.fraction + 1
         /\ w.fraction = One - 1 =>
              Following(w).power = w.power + 1 /\ Following(w).fraction = 0
         /\ ~Greatest(w) => Following(w) \in Words
<1>1. PICK B, o \in Nat : B = Bias /\ o = One /\ o >= 4
  BY FloatParts
<1>2. w \in [negative : BOOLEAN, power : 0..(2 * B + 1), fraction : 0..(o - 1)]
  BY <1>1 DEF Words
<1>3. CASE w.fraction < o - 1
  BY <1>1, <1>2, <1>3 DEF Following, Words
<1>4. CASE w.fraction = o - 1
  <2>1. Following(w) = [w EXCEPT !.power = @ + 1, !.fraction = 0]
    BY <1>1, <1>2, <1>4 DEF Following
  <2>2. Following(w).power = w.power + 1 /\ Following(w).fraction = 0
    BY <1>2, <2>1
  <2>3. ASSUME w.power # 2 * B + 1 PROVE Following(w) \in Words
    <3>1. w.power + 1 \in 0..(2 * B + 1) /\ 0 \in 0..(o - 1)
      BY <1>1, <1>2, <2>3
    <3>2. [w EXCEPT !.power = @ + 1, !.fraction = 0]
            \in [negative : BOOLEAN, power : 0..(2 * B + 1), fraction : 0..(o - 1)]
      BY <1>2, <3>1
    <3>3. QED
      BY <1>1, <2>1, <3>2 DEF Words
  <2>4. ~Greatest(w) => w.power # 2 * B + 1
    BY <1>1, <1>4 DEF Greatest
  <2>5. w.negative \in BOOLEAN /\ w.power \in 0..(2 * B + 1) /\ w.fraction \in 0..(o - 1)
    BY <1>2
  <2>6. ~(w.fraction < o - 1)
    BY <1>1, <1>4
  <2>7. QED
    BY <1>1, <2>2, <2>3, <2>4, <2>5, <2>6
<1>5. QED
  BY <1>1, <1>2, <1>3, <1>4

\* For every width of the fields and every word the float is the number of the
\* word or the next one, in spite of the divisor 0x7fffff, if the word is a normal
\* one; the others are read as half the smallest normal number or more, and as
\* infinity.  The sign and the order of the numbers are kept.
THEOREM FloatCorrect ==
  ASSUME kind = "float" => input \in Words
  PROVE  FloatClose
<1> SUFFICES ASSUME kind = "float" PROVE FloatClose
  BY DEF FloatClose
<1>1. PICK p, m : p = input.power /\ m = input.fraction
  OBVIOUS
<1>2. input \in Words /\ p \in 0..(2 * Bias + 1) /\ m \in 0..(One - 1)
  BY <1>1, WordParts
<1>3. PICK o, B \in Nat : o = One /\ o >= 4 /\ B = Bias /\ B >= 1
  BY FloatParts
<1>4. PICK f \in Nat : f = MantissaOf(m) /\ (f = o + m \/ f = o + m + 1)
  BY <1>2, <1>3, MantissaClose
<1>5. PICK x : x = IEE754_HexToFloat(input).size /\ x = ToFloat(f, p)
  BY <1>1, <1>4 DEF IEE754_HexToFloat
<1>6. One <= f /\ f <= 2 * One
  BY <1>2, <1>3, <1>4
<1>7. /\ p = 0 => One <= 2 * x /\ x <= One
      /\ p \in 1..(2 * Bias) => x = f * Pow2[p - 1]
      /\ p > 2 * Bias => x = Infinity
  BY <1>2, <1>5, <1>6, ToFloatSize
<1>8. ASSUME p \in 1..(2 * Bias) PROVE x \in {Size(input), Size(Following(input))}
  <2>1. PICK u \in Nat : u = Pow2[p - 1] /\ Pow2[p] = 2 * u
    BY <1>2, <1>3, <1>8, NormalSize
  <2>2. Size(input) = (o + m) * u
    BY <1>1, <1>3, <2>1 DEF Size
  <2>3. Size(Following(input)) = (o + m + 1) * u
    <3>1. CASE m < o - 1
      <4>1. Following(input).power = p /\ Following(input).fraction = m + 1
        BY <1>1, <1>2, <1>3, <3>1, WordParts
      <4>2. o + (m + 1) = o + m + 1
        BY <1>2, <1>3
      <4>3. QED
        BY <1>3, <2>1, <4>1, <4>2 DEF Size
    <3>2. CASE m = o - 1
      <4>1. Following(input).power = p + 1 /\ Following(input).fraction = 0
        BY <1>1, <1>2, <1>3, <3>2, WordParts
      <4>2. Size(Following(input)) = (o + 0) * (2 * u)
        <5>1. (p + 1) - 1 = p
          BY <1>2, <1>3
        <5>2. QED
          BY <1>3, <2>1, <4>1, <5>1 DEF Size
      <4>3. (o + 0) * (2 * u) = (o + m + 1) * u
        BY <1>3, <2>1, <3>2
      <4>4. QED
        BY <4>2, <4>3
    <3>3. QED
      BY <1>2, <1>3, <3>1, <3>2
  <2>4. x = f * u
    BY <1>7, <1>8, <2>1
  <2>5. QED
    BY <1>4, <2>2, <2>3, <2>4
<1>9. ASSUME ~Greatest(input) PROVE x <= IEE754_HexToFloat(Following(input)).size
  <2>1. CASE m < o - 1
    <3>1. Following(input).power = p /\ Following(input).fraction = m + 1
      BY <1>1, <1>2, <1>3, <2>1, WordParts
    <3>2. m + 1 \in 0..(One - 1)
      BY <1>2, <1>3, <2>1
    <3>3. PICK g \in Nat : g = MantissaOf(m + 1) /\ g >= o + (m + 1)
      BY <1>2, <1>3, <3>2, MantissaClose
    <3>4. f <= g
      BY <1>2, <1>3, <1>4, <3>3
    <3>5. IEE754_HexToFloat(Following(input)).size = ToFloat(g, p)
      BY <3>1, <3>3 DEF IEE754_HexToFloat
    <3>6. QED
      BY <1>2, <1>5, <3>4, <3>5, ToFloatOrder
  <2>2. CASE m = o - 1
    <3>1. Following(input).power = p + 1 /\ Following(input).fraction = 0 /\ p <= 2 * B
      <4>1. p # 2 * B + 1
        BY <1>1, <1>3, <1>9, <2>2 DEF Greatest
      <4>2. Following(input).power = p + 1 /\ Following(input).fraction = 0
        BY <1>1, <1>2, <1>3, <2>2, WordParts, Zenon
      <4>3. p <= 2 * B
        BY <1>2, <1>3, <4>1
      <4>4. QED
        BY <4>2, <4>3
    <3>2. MantissaOf(0) = o
      BY <1>3 DEF MantissaOf
    <3>3. PICK y : y = ToFloat(o, p + 1) /\ y = IEE754_HexToFloat(Following(input)).size
      BY <3>1, <3>2 DEF IEE754_HexToFloat
    <3>4. p + 1 \in 1..(2 * Bias + 1) /\ (p + 1) - 1 = p
      BY <1>2, <1>3, <3>1
    <3>5. y = o * Pow2[p]
      <4>1. CASE p + 1 <= 2 * B
        <5>1. ToFloat(o, p + 1) = o * Pow2[(p + 1) - 1]
          BY <1>3, <3>4, <4>1, ToFloatSize
        <5>2. QED
          BY <3>3, <3>4, <5>1
      <4>2. CASE p + 1 > 2 * B
        <5>1. ToFloat(o, p + 1) = Infinity
          BY <1>3, <3>4, <4>2, ToFloatSize
        <5>2. Infinity = One * Pow2[(p + 1) - 1]
          BY <1>3, <3>4, <4>2, NormalSize
        <5>3. QED
          BY <1>3, <3>3, <3>4, <5>1, <5>2
      <4>3. QED
        BY <1>2, <1>3, <4>1, <4>2
    <3>6. CASE p = 0
      <4>1. y = o
        BY <1>3, <3>5, <3>6, Pow2Next
      <4>2. QED
        BY <1>3, <1>7, <3>3, <3>6, <4>1
    <3>7. CASE p # 0
      <4>1. PICK u \in Nat : u = Pow2[p - 1] /\ Pow2[p] = 2 * u /\ u >= 1
        BY <1>2, <1>3, <3>7, NormalSize
      <4>2. x = f * u
        BY <1>2, <1>3, <1>7, <3>1, <3>7, <4>1
      <4>3. f * u <= o * (2 * u)
        <5>1. u * f <= u * (2 * o)
          BY <1>3, <1>4, <1>6, <4>1, MulLess
        <5>2. u * f = f * u /\ u * (2 * o) = o * (2 * u)
          BY <1>3, <1>4, <4>1
        <5>3. QED
          BY <5>1, <5>2
      <4>4. QED
        BY <3>3, <3>5, <4>1, <4>2, <4>3
    <3>8. QED
      BY <3>6, <3>7
  <2>3. QED
    BY <1>2, <1>3, <2>1, <2>2
<1>10. IEE754_HexToFloat(input).negative = input.negative
  BY DEF IEE754_HexToFloat
<1>11. QED
  BY <1>1, <1>5, <1>7, <1>8, <1>9, <1>10 DEF FloatClose

-----------------------------------------------------------------------------
(* The length field *)

\* The recursive function of the digits has its equation.
LEMMA DigitsOf ==
  ASSUME NEW n \in Nat, n < 10000
  PROVE  Digits(n) \in 1..4 /\ (n < 10 => Digits(n) = 1)
<1> DEFINE Fits(k) == (k = 10 \/ n < 10 ^ k) /\ (k = 1 \/ n >= 10 ^ (k - 1))
<1>1. /\ 10 ^ 1 = 10 /\ 10 ^ 2 = 100 /\ 10 ^ 3 = 1000 /\ 10 ^ 4 = 10000
      /\ 10 ^ 5 >= 10000 /\ 10 ^ 6 >= 10000 /\ 10 ^ 7 >= 10000
      /\ 10 ^ 8 >= 10000 /\ 10 ^ 9 >= 10000
  BY SMT
<1>2. \E k \in 1..10 : Fits(k)
  <2>1. CASE n < 10
    <3>1. Fits(1)
      BY <1>1, <2>1, SMT
    <3>2. QED
      BY <3>1, SMT
  <2>2. CASE 10 <= n /\ n < 100
    <3>1. Fits(2)
      BY <1>1, <2>2, SMT
    <3>2. QED
      BY <3>1, SMT
  <2>3. CASE 100 <= n /\ n < 1000
    <3>1. Fits(3)
      BY <1>1, <2>3, SMT
    <3>2. QED
      BY <3>1, SMT
  <2>4. CASE 1000 <= n
    <3>1. Fits(4)
      BY <1>1, <2>4, SMT
    <3>2. QED
      BY <3>1, SMT
  <2>5. QED
    BY <2>1, <2>2, <2>3, <2>4, SMT
<1>3. Digits(n) \in 1..10 /\ Fits(Digits(n))
  <2>1. Digits(n) = CHOOSE k \in 1..10 : Fits(k)
    BY DEF Digits
  <2> HIDE DEF Fits
  <2>2. QED
    BY <1>2, <2>1
<1>4. ~Fits(5) /\ ~Fits(6) /\ ~Fits(7) /\ ~Fits(8) /\ ~Fits(9) /\ ~Fits(10)
  BY <1>1, SMT
<1>5. n < 10 => ~Fits(2) /\ ~Fits(3) /\ ~Fits(4)
  BY <1>1, SMT
<1>6. QED
  <2> HIDE DEF Fits
  <2>1. \A k \in 1..10 : k = 1 \/ k = 2 \/ k = 3 \/ k = 4 \/ k = 5 \/ k = 6 \/ k = 7
                         \/ k = 8 \/ k = 9 \/ k = 10
    BY SMT
  <2>2. QED
    BY <1>3, <1>4, <1>5, <2>1, SMT

\* Two texts of the same length
LEMMA LongAs ==
  ASSUME NEW k \in Nat, NEW s, s = [i \in 1..k |-> s[i]], \A i \in 1..k : s[i] \in Int
  PROVE  s \in Seq(Int) /\ Len(s) = k
  OBVIOUS

\* The digits of a number are as many codes.
LEMMA DecimalLength ==
  ASSUME NEW c \in Nat, Digits(c) \in 1..4
  PROVE  Decimal(c) \in Seq(Int) /\ Len(Decimal(c)) = Digits(c)
<1>1. PICK k \in 1..4 : k = Digits(c)
  OBVIOUS
<1>2. \A p \in {10 ^ 0, 10 ^ 1, 10 ^ 2, 10 ^ 3} : p \in Nat \ {0}
  OBVIOUS
<1>3. PICK s : s = [i \in 1..k |-> 48 + ((c \div 10 ^ (k - i)) % 10)] /\ s = Decimal(c)
  BY <1>1, Zenon DEF Decimal
<1>4. ASSUME NEW i \in 1..k PROVE s[i] \in Int
  <2>1. PICK e : e = k - i
    OBVIOUS
  <2>2. e = 0 \/ e = 1 \/ e = 2 \/ e = 3
    BY <2>1
  <2>3. 10 ^ e \in {10 ^ 0, 10 ^ 1, 10 ^ 2, 10 ^ 3}
    BY <2>2, Zenon
  <2>4. PICK p \in Nat \ {0} : p = 10 ^ e
    BY <1>2, <2>3, Zenon
  <2>5. 48 + ((c \div p) % 10) \in Int
    OBVIOUS
  <2>6. s[i] = 48 + ((c \div p) % 10)
    BY <1>3, <2>1, <2>4, Zenon
  <2>7. QED
    BY <2>5, <2>6, Zenon
<1>5. s = [i \in 1..k |-> s[i]]
  BY <1>3, Zenon
<1>6. QED
  BY <1>1, <1>3, <1>4, <1>5, LongAs, SMTT(60)

\* A point and four digits make a text five characters longer.
LEMMA FourMore ==
  ASSUME NEW s \in Seq(Int), Len(s) \in 1..4,
         NEW w \in Int, NEW x \in Int, NEW y \in Int, NEW z \in Int
  PROVE  Len(s \o <<46, w, x, y, z>>) \in 6..9
<1>1. Len(s \o <<46, w, x, y, z>>) = Len(s) + 5
  OBVIOUS
<1>2. PICK k \in 1..4 : k = Len(s)
  OBVIOUS
<1>3. k + 5 \in 6..9
  OBVIOUS
<1>4. QED
  BY <1>1, <1>2, <1>3, Zenon

\* "%.4f" of a number below 10000 has one to four digits, the point and four more.
LEMMA TextLength ==
  ASSUME NEW n \in Nat, Digits(n \div 10 ^ 4) \in 1..4
  PROVE Len(FloatToStr(n)) \in 6..9
<1>1. PICK c \in Nat : c = n \div 10 ^ 4
  OBVIOUS
<1>2. PICK s : s = Decimal(c) /\ s = Decimal(n \div 10 ^ 4)
  BY <1>1, Zenon
<1>3. s \in Seq(Int) /\ Len(s) \in 1..4
  BY <1>1, <1>2, DecimalLength, Zenon
<1>4. PICK rest \in Nat : rest = n % 10 ^ 4
  OBVIOUS
<1>5. PICK w, x, y, z \in Int :
        /\ w = 48 + (rest \div 1000) /\ x = 48 + ((rest \div 100) % 10)
        /\ y = 48 + ((rest \div 10) % 10) /\ z = 48 + (rest % 10)
  OBVIOUS
<1>6. FloatToStr(n) = s \o <<46, w, x, y, z>>
  BY <1>2, <1>4, <1>5 DEF FloatToStr
<1>7. Len(s \o <<46, w, x, y, z>>) \in 6..9
  BY <1>3, FourMore, Zenon
<1>8. QED
  BY <1>6, <1>7, Zenon

\* The field of a length of one digit, decimal or hexadecimal, is a 0 and the
\* digit.
LEMMA FieldOf ==
  ASSUME NEW k \in 6..9
  PROVE  /\ UIntToHexStr(k) = <<48, 48 + k>> /\ HexToStr(k) = <<48, 48 + k>>
         /\ StrToUCharArr(<<48, 48 + k>>) = <<k>>
<1>1. UIntToHexStr(k) = <<48, 48 + k>>
  <2>1. Digits(k) = 1
    BY DigitsOf
  <2>2. PICK s : s = Decimal(k)
    OBVIOUS
  <2>3. 10 ^ (1 - 1) = 1 /\ (k \div 1) % 10 = k
    OBVIOUS
  <2>4. s = <<48 + k>>
    BY <2>1, <2>2, <2>3 DEF Decimal
  <2>5. Len(s) = 1 /\ s[1] = 48 + k
    BY <2>4
  <2>6. UIntToHexStr(k) = SubSeq(s, 1, -1) \o <<48, s[1]>>
    BY <2>2, <2>5 DEF UIntToHexStr
  <2>7. SubSeq(s, 1, -1) = <<>>
    BY <2>4
  <2>8. PICK v \in Int : v = 48 + k
    OBVIOUS
  <2>9. <<>> \o <<48, v>> = <<48, v>>
    OBVIOUS
  <2>10. QED
    BY <2>5, <2>6, <2>7, <2>8, <2>9, Zenon
<1>2. HexToStr(k) = <<48, 48 + k>>
  BY DEF HexToStr, HexCode
<1>3. StrToUCharArr(<<48, 48 + k>>) = <<k>>
  <2>1. PICK t : t = <<48, 48 + k>>
    OBVIOUS
  <2>2. Len(t) = 2 /\ t[1] = 48 /\ t[2] = 48 + k
    BY <2>1
  <2>3. HexOf(t[1]) = 0 /\ HexOf(t[2]) = k
    BY <2>2 DEF HexOf
  <2>4. StrToUCharArr(t) = [i \in 1..1 |-> 16 * HexOf(t[2 * i - 1]) + HexOf(t[2 * i])]
    BY <2>2 DEF StrToUCharArr
  <2>5. StrToUCharArr(t) = [i \in 1..1 |-> k]
    BY <2>3, <2>4
  <2>6. QED
    BY <2>1, <2>5
<1>4. QED
  BY <1>1, <1>2, <1>3

\* The length field of each gauge, for the lengths its text may have
LEMMA GaugeLength ==
  ASSUME NEW text, NEW k \in 6..9, k = Len(text), NEW gauge \in Gauges \ {"subtotal"}
  PROVE  StrToUCharArr(DataLength(gauge, text)) = <<Len(text)>>
<1>1. DataLength(gauge, text) \in {UIntToHexStr(k), HexToStr(k)}
  BY DEF DataLength, Gauges
<1>2. DataLength(gauge, text) = <<48, 48 + k>>
  BY <1>1, FieldOf
<1>3. StrToUCharArr(<<48, 48 + k>>) = <<k>>
  BY FieldOf
<1>4. QED
  BY <1>2, <1>3, Zenon

\* The half of a length
LEMMA HalfOf == ASSUME NEW k \in 6..9 PROVE k \div 2 \in 3..4
<1>1. k \in {6, 7, 8, 9}
  OBVIOUS
<1>2. 6 \div 2 = 3 /\ 7 \div 2 = 3 /\ 8 \div 2 = 4 /\ 9 \div 2 = 4
  OBVIOUS
<1>3. QED
  BY <1>1, <1>2

\* The subtotal mileage tells the half of it.
LEMMA SubtotalLength ==
  ASSUME NEW text, NEW k \in 6..9, k = Len(text)
  PROVE  StrToUCharArr(DataLength("subtotal", text)) = <<Len(text) \div 2>>
<1>1. PICK h \in 3..4 : h = k \div 2
  BY HalfOf, Zenon
<1>2. DataLength("subtotal", text) = HexToStr(h)
  BY <1>1 DEF DataLength
<1>3. HexToStr(h) = <<48, 48 + h>>
  BY DEF HexToStr, HexCode
<1>4. PICK t : t = <<48, 48 + h>>
  OBVIOUS
<1>5. Len(t) = 2 /\ t[1] = 48 /\ t[2] = 48 + h
  BY <1>4
<1>6. HexOf(t[1]) = 0 /\ HexOf(t[2]) = h
  BY <1>5 DEF HexOf
<1>7. StrToUCharArr(t) = [i \in 1..1 |-> 16 * HexOf(t[2 * i - 1]) + HexOf(t[2 * i])]
  BY <1>5 DEF StrToUCharArr
<1>8. StrToUCharArr(t) = [i \in 1..1 |-> h]
  BY <1>6, <1>7
<1>9. StrToUCharArr(t) = <<h>>
  BY <1>8
<1>10. QED
  BY <1>1, <1>2, <1>3, <1>4, <1>9, Zenon

\* The length field of every gauge below 10000.0000 tells the length of its text,
\* though two of the gauges print it in decimal, and that of the subtotal mileage
\* the half of it.
THEOREM LengthCorrect ==
  ASSUME kind = "gauge" => input \in Nat /\ input \div 10 ^ 4 < 10 ^ 4
  PROVE  LengthTold
<1> DEFINE text == FloatToStr(input)
<1>1. ASSUME kind = "gauge" PROVE Len(text) \in 6..9
  <2>1. PICK c \in Nat : c = input \div 10 ^ 4 /\ c < 10000
    BY <1>1
  <2>2. Digits(c) \in 1..4
    BY <2>1, DigitsOf
  <2>3. Digits(input \div 10 ^ 4) \in 1..4
    BY <2>1, <2>2
  <2>4. QED
    BY <1>1, <2>3, TextLength
<1>2. ASSUME kind = "gauge", NEW gauge \in Gauges \ {"subtotal"}
      PROVE  StrToUCharArr(DataLength(gauge, text)) = <<Len(text)>>
  <2> HIDE DEF text
  <2>1. QED
    BY <1>1, <1>2, GaugeLength
<1>3. ASSUME kind = "gauge"
      PROVE  StrToUCharArr(DataLength("subtotal", text)) = <<Len(text) \div 2>>
  <2> HIDE DEF text
  <2>1. QED
    BY <1>1, <1>3, SubtotalLength
<1>4. QED
  BY <1>2, <1>3 DEF LengthTold

-----------------------------------------------------------------------------
(* Recursive functions of Json *)

\* A recursion along a rank has a solution, which the definition of a recursive function then is.
LEMMA Recursion ==
  ASSUME NEW D, NEW S, NEW N, NEW r, NEW H, Recursive(D, S, N, r, H)
  PROVE  \E f \in [D -> S] : \A x \in D : f[x] = H[x][f]
<1> USE DEF Recursive
<1> DEFINE Upto(f, n) == \A x \in D : r[x] < n => f[x] = H[x][f]
           T == {n \in Nat : \E f \in [D -> S] : Upto(f, n)}
<1>1. 0 \in T
  <2>1. PICK s \in S : TRUE
    OBVIOUS
  <2>2. [x \in D |-> s] \in [D -> S]
    OBVIOUS
  <2>3. \A x \in D : ~(r[x] < 0)
    OBVIOUS
  <2>4. QED
    BY <2>2, <2>3
<1>2. ASSUME NEW n \in Nat, n \in T PROVE n + 1 \in T
  <2>1. PICK f \in [D -> S] : Upto(f, n)
    BY <1>2
  <2>2. PICK g : g = [x \in D |-> IF r[x] = n THEN H[x][f] ELSE f[x]]
    OBVIOUS
  <2>3. g \in [D -> S]
    BY <2>2
  <2>4. ASSUME NEW x \in D, r[x] < n + 1 PROVE g[x] = H[x][g]
    <3>1. PICK k \in Nat : k = r[x]
      <4>1. N \in Nat /\ r[x] \in 0..N
        OBVIOUS
      <4>2. QED
        BY <4>1
    <3>a. k <= n
      BY <2>4, <3>1
    <3>2. \A y \in D : r[y] < r[x] => f[y] = g[y]
      BY <2>2, <3>1, <3>a
    <3>3. H[x][f] = H[x][g]
      BY <2>3, <3>2
    <3>4. CASE r[x] = n
      BY <2>2, <3>3, <3>4
    <3>5. CASE r[x] # n
      <4>0. k # n
        BY <3>1, <3>5
      <4>1. k < n
        BY <3>1, <3>a, <4>0
      <4>2. QED
        BY <2>1, <2>2, <3>1, <3>3, <3>5, <4>1
    <3>6. QED
      BY <3>4, <3>5
  <2>5. QED
    BY <2>3, <2>4
<1>3. Nat \subseteq T
  <2> HIDE DEF T
  <2> QED BY <1>1, <1>2, Induction
<1>4. PICK f \in [D -> S] : Upto(f, N + 1)
  BY <1>3
<1>5. \A x \in D : r[x] < N + 1
  <2>1. \A x \in D : r[x] \in 0..N
    OBVIOUS
  <2>2. QED
    BY <2>1
<1>6. QED
  BY <1>4, <1>5

\* Induction on sequences
LEMMA SeqInduction ==
  ASSUME NEW X, NEW T, <<>> \in T, \A s \in Seq(X), x \in X : s \in T => Append(s, x) \in T
  PROVE  Seq(X) \subseteq T
<1> DEFINE U == {n \in Nat : \A s \in Seq(X) : Len(s) = n => s \in T}
<1>1. 0 \in U
  BY EmptySeq
<1>2. ASSUME NEW n \in Nat, n \in U PROVE n + 1 \in U
  <2> SUFFICES ASSUME NEW s \in Seq(X), Len(s) = n + 1 PROVE s \in T
    OBVIOUS
  <2>1. s # <<>>
    OBVIOUS
  <2>2. PICK a \in Seq(X), x \in X : s = Append(a, x)
    BY <2>1, SequenceEmptyOrAppend
  <2>3. Len(a) = n
    BY <2>2
  <2>4. QED
    BY <1>2, <2>2, <2>3
<1>3. Nat \subseteq U
  <2> HIDE DEF U
  <2> QED BY <1>1, <1>2, Induction
<1>4. QED
  BY <1>3

-----------------------------------------------------------------------------
(* FlattenSeq *)

\* FlattenSeq joins its sequences one after the other.
LEMMA FlattenSteps ==
  ASSUME NEW X, NEW seqs \in Seq(Seq(X)), seqs # <<>>
  PROVE  \E f \in [1..Len(seqs) -> Seq(X)] :
           /\ FlattenSeq(seqs) = f[Len(seqs)]
           /\ f[1] = seqs[1]
           /\ \A i \in 2..Len(seqs) : f[i] = f[i - 1] \o seqs[i]
<1>1. PICK n \in Nat \ {0} : n = Len(seqs)
  OBVIOUS
<1> DEFINE F(f) == f = [i \in 1..n |-> IF i = 1 THEN seqs[i] ELSE f[i-1] \o seqs[i]]
           D == 1..n
           S == Seq(X)
           r == [i \in D |-> i]
           H == [i \in D |-> [f \in [D -> S] |-> IF i = 1 THEN seqs[i] ELSE f[i-1] \o seqs[i]]]
<1>2. \E f \in [D -> S] : \A i \in D : f[i] = H[i][f]
  <2>1. S # {} /\ n \in Nat /\ r \in [D -> 0..n]
    OBVIOUS
  <2>2. \A i \in D : \A f \in [D -> S] : H[i][f] \in S
    <3> SUFFICES ASSUME NEW i \in D, NEW f \in [D -> S] PROVE H[i][f] \in S
      OBVIOUS
    <3>1. seqs[i] \in S
      BY <1>1
    <3>2. i # 1 => f[i - 1] \in S
      OBVIOUS
    <3>3. QED
      BY <3>1, <3>2
  <2>3. \A i \in D : \A f, g \in [D -> S] :
          (\A y \in D : r[y] < r[i] => f[y] = g[y]) => H[i][f] = H[i][g]
    <3> SUFFICES ASSUME NEW i \in D, NEW f \in [D -> S], NEW g \in [D -> S],
                        \A y \in D : r[y] < r[i] => f[y] = g[y]
                 PROVE  H[i][f] = H[i][g]
      OBVIOUS
    <3>1. i # 1 => f[i - 1] = g[i - 1]
      OBVIOUS
    <3>2. QED
      BY <3>1
  <2> HIDE DEF S, r, H, D
  <2>4. QED
    <3>1. Recursive(D, S, n, r, H)
      BY <2>1, <2>2, <2>3 DEF Recursive
    <3>2. QED
      BY <3>1, Recursion, SMT
<1>3. PICK f \in [D -> S] : \A i \in D : f[i] = H[i][f]
  BY <1>2
<1>4. F(f)
  <2>1. \A i \in 1..n : f[i] = IF i = 1 THEN seqs[i] ELSE f[i-1] \o seqs[i]
    BY <1>3
  <2>2. QED
    BY <2>1
<1>5. PICK g : F(g) /\ g = CHOOSE h : F(h)
  <2> HIDE DEF F
  <2> QED BY <1>4
<1>6. FlattenSeq(seqs) = g[n]
  BY <1>1, <1>5 DEF FlattenSeq
<1>7. \A i \in 1..n : g[i] = f[i]
  <2> DEFINE T == {i \in Nat : i \in 1..n => g[i] = f[i]}
  <2>1. 0 \in T
    OBVIOUS
  <2>2. ASSUME NEW i \in Nat, i \in T PROVE i + 1 \in T
    <3> SUFFICES ASSUME i + 1 \in 1..n PROVE g[i + 1] = f[i + 1]
      OBVIOUS
    <3>1. CASE i = 0
      BY <1>4, <1>5, <3>1
    <3>2. CASE i # 0
      <4>1. i \in 1..n /\ i + 1 # 1 /\ (i + 1) - 1 = i
        BY <3>2
      <4>2. g[i] = f[i]
        BY <2>2, <4>1
      <4>3. g[i + 1] = g[i] \o seqs[i + 1]
        BY <1>5, <4>1
      <4>4. f[i + 1] = f[i] \o seqs[i + 1]
        <5>1. f[i + 1] = IF i + 1 = 1 THEN seqs[i + 1] ELSE f[(i + 1) - 1] \o seqs[i + 1]
          BY <1>4, Zenon
        <5>2. QED
          BY <4>1, <5>1
      <4>5. QED
        BY <4>2, <4>3, <4>4, Zenon
    <3>3. QED
      BY <3>1, <3>2
  <2>3. Nat \subseteq T
    <3> HIDE DEF T
    <3> QED BY <2>1, <2>2, Induction
  <2>4. QED
    BY <2>3
<1>8. f[1] = seqs[1] /\ \A i \in 2..n : f[i] = f[i - 1] \o seqs[i]
  <2>1. f[1] = seqs[1]
    BY <1>4
  <2>2. ASSUME NEW i \in 2..n PROVE f[i] = f[i - 1] \o seqs[i]
    <3>1. i \in 1..n /\ i # 1
      OBVIOUS
    <3>2. f[i] = IF i = 1 THEN seqs[i] ELSE f[i-1] \o seqs[i]
      BY <1>4, <3>1, Zenon
    <3>3. QED
      BY <3>1, <3>2, Zenon
  <2>3. QED
    BY <2>1, <2>2
<1>9. f \in [1..n -> Seq(X)] /\ FlattenSeq(seqs) = f[n]
  BY <1>6, <1>7
<1>10. QED
  <2> HIDE DEF F
  <2> QED BY <1>1, <1>8, <1>9

\* Of no sequences there is nothing to join.
LEMMA FlattenEmpty == FlattenSeq(<<>>) = <<>>
  BY DEF FlattenSeq

\* What is joined has the elements of its parts.
LEMMA FlattenType ==
  ASSUME NEW X, NEW seqs \in Seq(Seq(X)) PROVE FlattenSeq(seqs) \in Seq(X)
<1>1. CASE seqs = <<>>
  <2>1. <<>> \in Seq(X)
    OBVIOUS
  <2>2. QED
    BY <1>1, <2>1, FlattenEmpty, Zenon
<1>2. CASE seqs # <<>>
  <2>1. PICK f \in [1..Len(seqs) -> Seq(X)] : FlattenSeq(seqs) = f[Len(seqs)]
    BY <1>2, FlattenSteps
  <2>2. Len(seqs) \in 1..Len(seqs)
    BY <1>2
  <2>3. QED
    BY <2>1, <2>2
<1>3. QED
  BY <1>1, <1>2

\* Flattening is done from the left.
LEMMA FlattenAppend ==
  ASSUME NEW X, NEW seqs \in Seq(Seq(X)), NEW s \in Seq(X)
  PROVE  FlattenSeq(Append(seqs, s)) = FlattenSeq(seqs) \o s
<1>1. PICK t : t = Append(seqs, s)
  OBVIOUS
<1>2. PICK n \in Nat : n = Len(seqs)
  OBVIOUS
<1>3. t \in Seq(Seq(X)) /\ t # <<>> /\ Len(t) = n + 1 /\ t[n + 1] = s
  BY <1>1, <1>2
<1>4. \A i \in 1..n : t[i] = seqs[i]
  BY <1>1, <1>2
<1>5. PICK g \in [1..(n+1) -> Seq(X)] :
        /\ FlattenSeq(t) = g[n + 1] /\ g[1] = t[1]
        /\ \A i \in 2..(n+1) : g[i] = g[i - 1] \o t[i]
  <2>1. \E g \in [1..Len(t) -> Seq(X)] :
          /\ FlattenSeq(t) = g[Len(t)] /\ g[1] = t[1]
          /\ \A i \in 2..Len(t) : g[i] = g[i - 1] \o t[i]
    BY <1>3, FlattenSteps
  <2>2. QED
    BY <1>3, <2>1
<1>6. CASE n = 0
  <2>1. seqs = <<>>
    BY <1>2, <1>6, EmptySeq
  <2>2. FlattenSeq(t) = s
    BY <1>3, <1>5, <1>6
  <2>3. <<>> \o s = s
    OBVIOUS
  <2>4. QED
    BY <1>1, <2>1, <2>2, <2>3, FlattenEmpty
<1>7. CASE n # 0
  <2>1. PICK f \in [1..n -> Seq(X)] :
        /\ FlattenSeq(seqs) = f[n] /\ f[1] = seqs[1]
        /\ \A i \in 2..n : f[i] = f[i - 1] \o seqs[i]
    <3>1. seqs # <<>>
      BY <1>2, <1>7
    <3>2. \E f \in [1..Len(seqs) -> Seq(X)] :
            /\ FlattenSeq(seqs) = f[Len(seqs)] /\ f[1] = seqs[1]
            /\ \A i \in 2..Len(seqs) : f[i] = f[i - 1] \o seqs[i]
      BY <3>1, FlattenSteps
    <3>3. QED
      BY <1>2, <3>2
  <2> DEFINE T == {i \in Nat : i \in 1..n => g[i] = f[i]}
  <2>2. 0 \in T
    OBVIOUS
  <2>3. ASSUME NEW i \in Nat, i \in T PROVE i + 1 \in T
    <3> SUFFICES ASSUME i + 1 \in 1..n PROVE g[i + 1] = f[i + 1]
      OBVIOUS
    <3>1. CASE i = 0
      BY <1>4, <1>5, <2>1, <3>1
    <3>2. CASE i # 0
      <4>1. i \in 1..n /\ i + 1 \in 2..n /\ i + 1 \in 2..(n+1) /\ (i + 1) - 1 = i
        BY <3>2
      <4>2. g[i] = f[i] /\ t[i + 1] = seqs[i + 1]
        BY <1>4, <2>3, <4>1
      <4>3. g[i + 1] = g[(i + 1) - 1] \o t[i + 1]
        BY <1>5, <4>1, Zenon
      <4>4. f[i + 1] = f[(i + 1) - 1] \o seqs[i + 1]
        BY <2>1, <4>1, Zenon
      <4>5. QED
        BY <4>1, <4>2, <4>3, <4>4, Zenon
    <3>3. QED
      BY <3>1, <3>2
  <2>4. Nat \subseteq T
    <3> HIDE DEF T
    <3> QED BY <2>2, <2>3, Induction
  <2>5. g[n] = f[n]
    <3>1. n \in T /\ n \in 1..n
      BY <1>7, <2>4
    <3>2. QED
      BY <3>1
  <2>6. g[n + 1] = g[n] \o s
    <3>1. n + 1 \in 2..(n+1) /\ (n + 1) - 1 = n
      BY <1>7
    <3>2. g[n + 1] = g[(n + 1) - 1] \o t[n + 1]
      BY <1>5, <3>1, Zenon
    <3>3. QED
      BY <1>3, <3>1, <3>2, Zenon
  <2>7. QED
    BY <1>1, <1>5, <2>1, <2>5, <2>6, Zenon
<1>8. QED
  BY <1>6, <1>7

\* One sequence is joined to itself.
LEMMA FlattenOne ==
  ASSUME NEW X, NEW s \in Seq(X) PROVE FlattenSeq(<<s>>) = s
<1>1. FlattenSeq(Append(<<>>, s)) = FlattenSeq(<<>>) \o s
  BY FlattenAppend, EmptySeq
<1>2. Append(<<>>, s) = <<s>> /\ <<>> \o s = s
  OBVIOUS
<1>3. QED
  BY <1>1, <1>2, FlattenEmpty

\* An element may be appended before or after joining.
LEMMA ConcatAppend ==
  ASSUME NEW X, NEW a \in Seq(X), NEW b \in Seq(X), NEW x \in X
  PROVE  a \o Append(b, x) = Append(a \o b, x)
  OBVIOUS

\* Flattening may be done in two parts.
LEMMA FlattenConcat ==
  ASSUME NEW X, NEW a \in Seq(Seq(X)), NEW b \in Seq(Seq(X))
  PROVE  FlattenSeq(a \o b) = FlattenSeq(a) \o FlattenSeq(b)
<1> DEFINE T == {s \in Seq(Seq(X)) : FlattenSeq(a \o s) = FlattenSeq(a) \o FlattenSeq(s)}
<1>1. <<>> \in T
  <2>1. a \o <<>> = a
    OBVIOUS
  <2>2. FlattenSeq(a) \in Seq(X)
    BY FlattenType
  <2>3. FlattenSeq(a) \o <<>> = FlattenSeq(a)
    BY <2>2
  <2>4. <<>> \in Seq(Seq(X))
    OBVIOUS
  <2>5. QED
    BY <2>1, <2>3, <2>4, FlattenEmpty, Zenon
<1>2. ASSUME NEW s \in Seq(Seq(X)), NEW x \in Seq(X), s \in T PROVE Append(s, x) \in T
  <2>1. a \o Append(s, x) = Append(a \o s, x) /\ a \o s \in Seq(Seq(X))
    BY ConcatAppend, ConcatProperties, SMTT(60)
  <2>2. FlattenSeq(Append(a \o s, x)) = FlattenSeq(a \o s) \o x
    BY <2>1, FlattenAppend
  <2>3. FlattenSeq(Append(s, x)) = FlattenSeq(s) \o x
    BY FlattenAppend
  <2>4. FlattenSeq(a) \in Seq(X) /\ FlattenSeq(s) \in Seq(X)
    BY FlattenType
  <2>5. (FlattenSeq(a) \o FlattenSeq(s)) \o x = FlattenSeq(a) \o (FlattenSeq(s) \o x)
    <3>1. PICK y, z \in Seq(X) : y = FlattenSeq(a) /\ z = FlattenSeq(s)
      BY <2>4
    <3>2. (y \o z) \o x = y \o (z \o x)
      BY ConcatAssociative, SMTT(60)
    <3>3. QED
      BY <3>1, <3>2, Zenon
  <2>6. FlattenSeq(a \o s) = FlattenSeq(a) \o FlattenSeq(s)
    BY <1>2
  <2>7. Append(s, x) \in Seq(Seq(X))
    OBVIOUS
  <2>8. QED
    BY <2>1, <2>2, <2>3, <2>5, <2>6, <2>7, Zenon
<1>3. Seq(Seq(X)) \subseteq T
  <2> HIDE DEF T
  <2> QED BY <1>1, <1>2, SeqInduction
<1>4. QED
  BY <1>3

-----------------------------------------------------------------------------
(* The text of pieces *)

\* The texts of pieces are texts, one for each.
LEMMA TextsType ==
  ASSUME NEW ps \in Seq(Pieces)
  PROVE  /\ [i \in DOMAIN ps |-> ps[i].text] \in Seq(Seq(Byte))
         /\ Len([i \in DOMAIN ps |-> ps[i].text]) = Len(ps)
<1>1. PICK n \in Nat : n = Len(ps) /\ DOMAIN ps = 1..n
  OBVIOUS
<1>2. \A i \in 1..n : ps[i].text \in Seq(Byte)
  BY <1>1 DEF Pieces
<1> HIDE DEF Byte
<1>3. [i \in 1..n |-> ps[i].text] \in Seq(Seq(Byte)) /\ Len([i \in 1..n |-> ps[i].text]) = n
  BY <1>2
<1>4. QED
  BY <1>1, <1>3

\* The text of pieces is one of bytes.
LEMMA TextType == ASSUME NEW ps \in Seq(Pieces) PROVE TextOf(ps) \in Seq(Byte)
  BY TextsType, FlattenType DEF TextOf

\* No pieces have no text.
LEMMA TextEmpty == TextOf(<<>>) = <<>>
<1>1. [i \in DOMAIN <<>> |-> <<>>[i].text] = <<>>
  OBVIOUS
<1>2. QED
  BY <1>1, FlattenEmpty DEF TextOf

\* The text of pieces, and of more pieces after them
LEMMA TextConcat ==
  ASSUME NEW a \in Seq(Pieces), NEW b \in Seq(Pieces)
  PROVE  TextOf(a \o b) = TextOf(a) \o TextOf(b)
<1> DEFINE M(ps) == [i \in DOMAIN ps |-> ps[i].text]
<1>1. M(a) \in Seq(Seq(Byte)) /\ M(b) \in Seq(Seq(Byte)) /\ M(a \o b) \in Seq(Seq(Byte))
      /\ Len(M(a)) = Len(a) /\ Len(M(b)) = Len(b) /\ Len(M(a \o b)) = Len(a) + Len(b)
  <2>1. a \o b \in Seq(Pieces) /\ Len(a \o b) = Len(a) + Len(b)
    OBVIOUS
  <2>2. QED
    BY <2>1, TextsType
<1>2. M(a \o b) = M(a) \o M(b)
  <2>1. PICK m \in Nat, n \in Nat : m = Len(a) /\ n = Len(b)
    OBVIOUS
  <2>2. ASSUME NEW i \in 1..(m + n) PROVE M(a \o b)[i] = (M(a) \o M(b))[i]
    <3>1. CASE i <= m
      <4>1. (a \o b)[i] = a[i] /\ i \in DOMAIN a /\ i \in DOMAIN (a \o b)
        BY <2>1, <3>1
      <4>2. (M(a) \o M(b))[i] = M(a)[i]
        <5> HIDE DEF M
        <5> QED BY <1>1, <2>1, <3>1
      <4>3. QED
        BY <4>1, <4>2
    <3>2. CASE i > m
      <4>1. (a \o b)[i] = b[i - m] /\ i - m \in DOMAIN b /\ i \in DOMAIN (a \o b)
        BY <2>1, <3>2
      <4>2. (M(a) \o M(b))[i] = M(b)[i - m]
        <5>1. PICK A, B \in Seq(Seq(Byte)) : A = M(a) /\ B = M(b) /\ Len(A) = m /\ Len(B) = n
          BY <1>1, <2>1, Zenon
        <5>2. (A \o B)[i] = B[i - m]
          BY <5>1, <3>2
        <5>3. QED
          BY <5>1, <5>2, Zenon
      <4>3. QED
        BY <4>1, <4>2
    <3>3. QED
      <4>1. i <= m \/ i > m
        OBVIOUS
      <4>2. QED
        BY <3>1, <3>2, <4>1, Zenon
  <2>3. Len(M(a) \o M(b)) = m + n /\ M(a) \o M(b) \in Seq(Seq(Byte))
    <3> HIDE DEF M, Byte
    <3> QED BY <1>1, <2>1
  <2>4. QED
    <3> HIDE DEF M, Byte
    <3> QED BY <1>1, <2>1, <2>2, <2>3, SeqEqual
<1>3. FlattenSeq(M(a) \o M(b)) = FlattenSeq(M(a)) \o FlattenSeq(M(b))
  <2> HIDE DEF M, Byte
  <2> QED BY <1>1, FlattenConcat
<1>4. TextOf(a) = FlattenSeq(M(a)) /\ TextOf(b) = FlattenSeq(M(b)) /\ TextOf(a \o b) = FlattenSeq(M(a \o b))
  BY DEF TextOf
<1>5. QED
  <2> HIDE DEF M, Byte
  <2> QED BY <1>2, <1>3, <1>4

\* A piece that asks for its text and its final 0
LEMMA TextPiece ==
  ASSUME NEW n \in Nat, NEW x \in Seq(Byte), NEW k \in 0..1, Len(x) + k <= n + 1
  PROVE  Piece(n, x, k) \in Seq(Pieces) /\ TextOf(Piece(n, x, k)) = x
<1>1. PICK p : p = [need |-> n, text |-> x, nul |-> k]
  OBVIOUS
<1>2. p \in Pieces /\ p.text = x
  BY <1>1 DEF Pieces
<1>3. Piece(n, x, k) = <<p>>
  BY <1>1 DEF Piece
<1>4. [i \in DOMAIN <<p>> |-> <<p>>[i].text] = <<x>>
  BY <1>2
<1>5. QED
  BY <1>2, <1>3, <1>4, FlattenOne DEF TextOf

\* The text of groups of pieces is that of each group, one after the other.
LEMMA TextFlatten ==
  ASSUME NEW pss \in Seq(Seq(Pieces))
  PROVE  /\ [i \in DOMAIN pss |-> TextOf(pss[i])] \in Seq(Seq(Byte))
         /\ TextOf(FlattenSeq(pss)) = FlattenSeq([i \in DOMAIN pss |-> TextOf(pss[i])])
<1> DEFINE M(s) == [i \in DOMAIN s |-> TextOf(s[i])]
           T == {s \in Seq(Seq(Pieces)) : /\ M(s) \in Seq(Seq(Byte))
                                          /\ TextOf(FlattenSeq(s)) = FlattenSeq(M(s))}
<1>1. <<>> \in T
  <2>1. M(<<>>) = <<>>
    OBVIOUS
  <2>2. <<>> \in Seq(Seq(Pieces)) /\ <<>> \in Seq(Seq(Byte))
    OBVIOUS
  <2>3. TextOf(FlattenSeq(<<>>)) = <<>> /\ FlattenSeq(M(<<>>)) = <<>>
    <3> HIDE DEF M
    <3> QED BY <2>1, FlattenEmpty, TextEmpty
  <2>4. QED
    <3> HIDE DEF M
    <3> QED BY <2>1, <2>2, <2>3
<1>2. ASSUME NEW s \in Seq(Seq(Pieces)), NEW x \in Seq(Pieces), s \in T
      PROVE Append(s, x) \in T
  <2>1. M(Append(s, x)) = Append(M(s), TextOf(x))
    <3>1. PICK n \in Nat : n = Len(s) /\ DOMAIN s = 1..n
      OBVIOUS
    <3>2. PICK a : a = Append(s, x)
      OBVIOUS
    <3>3. DOMAIN a = 1..(n+1) /\ a[n + 1] = x /\ \A i \in 1..n : a[i] = s[i]
      BY <3>1, <3>2
    <3>4. PICK b : b = [i \in 1..n |-> TextOf(s[i])] /\ b = M(s)
      BY <3>1
    <3>5. b \in Seq(Seq(Byte)) /\ Len(b) = n
      BY <1>2, <3>4
    <3>6. PICK c : c = [i \in 1..(n+1) |-> TextOf(a[i])] /\ c = M(a)
      BY <3>3
    <3>7. PICK d : d = Append(b, TextOf(x))
      OBVIOUS
    <3>8. TextOf(x) \in Seq(Byte)
      BY TextType
    <3>9. d \in Seq(Seq(Byte)) /\ Len(d) = n + 1 /\ d[n + 1] = TextOf(x)
          /\ \A i \in 1..n : d[i] = b[i]
      BY <3>5, <3>7, <3>8
    <3>10. d = [i \in 1..(n+1) |-> d[i]]
      BY <3>9
    <3>11. ASSUME NEW i \in 1..(n+1) PROVE c[i] = d[i]
      <4>1. CASE i = n + 1
        BY <3>3, <3>6, <3>9, <4>1
      <4>2. CASE i # n + 1
        <5>1. i \in 1..n
          BY <4>2
        <5>2. QED
          BY <3>3, <3>4, <3>6, <3>9, <5>1
      <4>3. QED
        BY <4>1, <4>2
    <3>12. c = d
      BY <3>6, <3>10, <3>11
    <3>13. QED
      BY <3>2, <3>4, <3>6, <3>7, <3>12, Zenon
  <2>2. FlattenSeq(Append(s, x)) = FlattenSeq(s) \o x /\ FlattenSeq(s) \in Seq(Pieces)
    BY FlattenAppend, FlattenType
  <2>3. TextOf(FlattenSeq(s) \o x) = TextOf(FlattenSeq(s)) \o TextOf(x)
    BY <2>2, TextConcat
  <2>4. TextOf(FlattenSeq(s)) = FlattenSeq(M(s)) /\ M(s) \in Seq(Seq(Byte))
    BY <1>2
  <2>5. TextOf(x) \in Seq(Byte)
    BY TextType
  <2> HIDE DEF M, Byte, Pieces
  <2>6. FlattenSeq(Append(M(s), TextOf(x))) = FlattenSeq(M(s)) \o TextOf(x)
    BY <2>4, <2>5, FlattenAppend
  <2>7. Append(M(s), TextOf(x)) \in Seq(Seq(Byte)) /\ Append(s, x) \in Seq(Seq(Pieces))
    BY <2>4, <2>5
  <2>8. TextOf(FlattenSeq(Append(s, x))) = FlattenSeq(M(Append(s, x)))
    BY <2>1, <2>2, <2>3, <2>4, <2>6, Zenon
  <2>9. M(Append(s, x)) \in Seq(Seq(Byte))
    BY <2>1, <2>7, Zenon
  <2>10. QED
    BY <2>7, <2>8, <2>9, Zenon
<1>3. Seq(Seq(Pieces)) \subseteq T
  <2> HIDE DEF T
  <2> QED BY <1>1, <1>2, SeqInduction
<1>4. QED
  BY <1>3

-----------------------------------------------------------------------------
(* A text in another *)

\* Where two texts occur joined, the second occurs after the first.
LEMMA OccursConcat ==
  ASSUME NEW X, NEW t \in Seq(X), NEW u \in Seq(X), NEW v \in Seq(X), NEW at \in Nat \ {0},
         Occurs(t, at, u \o v)
  PROVE  Occurs(t, at, u) /\ Occurs(t, at + Len(u), v)
<1>1. PICK m \in Nat, n \in Nat, l \in Nat : m = Len(u) /\ n = Len(v) /\ l = Len(t)
  OBVIOUS
<1>2. Len(u \o v) = m + n
  BY <1>1
<1>3. at + (m + n) <= l + 1 /\ \A i \in 1..(m + n) : t[at + i - 1] = (u \o v)[i]
  BY <1>1, <1>2 DEF Occurs
<1>4. ASSUME NEW i \in 1..m PROVE t[at + i - 1] = u[i]
  <2>1. i \in 1..(m + n) /\ (u \o v)[i] = u[i]
    BY <1>1
  <2>2. QED
    BY <1>3, <2>1
<1>5. ASSUME NEW i \in 1..n PROVE t[at + m + i - 1] = v[i]
  <2>1. PICK j \in 1..(m + n) : j = m + i
    OBVIOUS
  <2>2. (u \o v)[j] = v[i]
    BY <1>1, <2>1, SMTT(60)
  <2>3. at + m + i - 1 = at + j - 1
    BY <2>1
  <2>4. t[at + j - 1] = (u \o v)[j]
    BY <1>3
  <2>5. QED
    BY <2>2, <2>3, <2>4
<1>6. Occurs(t, at, u)
  BY <1>1, <1>3, <1>4 DEF Occurs
<1>7. Occurs(t, at + m, v)
  <2>1. (at + m) + n <= l + 1
    BY <1>3
  <2>2. QED
    BY <1>1, <1>5, <2>1 DEF Occurs
<1>8. QED
  BY <1>1, <1>6, <1>7, Zenon

\* The place of a single byte
LEMMA OccursOne ==
  ASSUME NEW X, NEW t \in Seq(X), NEW x \in X, NEW at \in Nat \ {0}, Occurs(t, at, <<x>>)
  PROVE  at \in 1..Len(t) /\ t[at] = x
<1>1. Len(<<x>>) = 1 /\ <<x>>[1] = x
  OBVIOUS
<1>2. at + 1 <= Len(t) + 1 /\ t[at + 1 - 1] = x
  BY <1>1 DEF Occurs
<1>3. QED
  BY <1>2

\* Those places exist.
LEMMA Laid ==
  ASSUME NEW X, NEW t \in Seq(X), NEW seqs \in Seq(Seq(X)), NEW at \in Nat \ {0},
         Occurs(t, at, FlattenSeq(seqs))
  PROVE  \E pos : LaidOut(t, seqs, at, pos)
<1> DEFINE P(s, pos) == /\ pos \in [1..(Len(s) + 1) -> Nat \ {0}]
                        /\ pos[1] = at /\ pos[Len(s) + 1] = at + Len(FlattenSeq(s))
                        /\ \A i \in 1..Len(s) : /\ Occurs(t, pos[i], s[i])
                                               /\ pos[i + 1] = pos[i] + Len(s[i])
           T == {s \in Seq(Seq(X)) : Occurs(t, at, FlattenSeq(s)) => \E pos : P(s, pos)}
<1>1. <<>> \in T
  <2>1. PICK pos : pos = [i \in 1..1 |-> at]
    OBVIOUS
  <2>2. Len(FlattenSeq(<<>>)) = 0 /\ Len(<<>>) = 0
    BY FlattenEmpty
  <2>a. PICK l : l = Len(FlattenSeq(<<>>)) /\ l = 0
    BY <2>2, Zenon
  <2>b. /\ pos \in [1..(0 + 1) -> Nat \ {0}] /\ pos[1] = at /\ pos[0 + 1] = at + l
    <3>1. pos \in [1..1 -> Nat \ {0}] /\ pos[1] = at
      BY <2>1
    <3>2. 0 + 1 = 1 /\ at + l = at
      BY <2>a
    <3>3. QED
      BY <3>1, <3>2, Zenon
  <2>c. \A i \in 1..0 : FALSE
    OBVIOUS
  <2>3. P(<<>>, pos)
    BY <2>2, <2>a, <2>b, <2>c, Zenon
  <2>4. <<>> \in Seq(Seq(X))
    OBVIOUS
  <2> HIDE DEF P
  <2>5. QED
    BY <2>3, <2>4
<1>2. ASSUME NEW s \in Seq(Seq(X)), NEW x \in Seq(X), s \in T PROVE Append(s, x) \in T
  <2>1. PICK a \in Seq(Seq(X)) : a = Append(s, x)
    BY AppendProperties, Zenon
  <2> SUFFICES ASSUME Occurs(t, at, FlattenSeq(a)) PROVE \E pos : P(a, pos)
    <3> HIDE DEF P
    <3> QED BY <2>1
  <2>2. FlattenSeq(a) = FlattenSeq(s) \o x /\ FlattenSeq(s) \in Seq(X)
    BY <2>1, FlattenAppend, FlattenType
  <2>3. PICK u \in Seq(X) : u = FlattenSeq(s)
    BY <2>2
  <2>4. Occurs(t, at, u) /\ Occurs(t, at + Len(u), x)
    BY <2>2, <2>3, OccursConcat
  <2>5. PICK pos : P(s, pos)
    <3> HIDE DEF P
    <3> QED BY <1>2, <2>3, <2>4
  <2>6. PICK n \in Nat, m \in Nat, k \in Nat : n = Len(s) /\ m = Len(u) /\ k = Len(x)
    OBVIOUS
  <2>7. Len(a) = n + 1 /\ a[n + 1] = x /\ \A i \in 1..n : a[i] = s[i]
    BY <2>1, <2>6
  <2>8. Len(FlattenSeq(a)) = m + k
    BY <2>2, <2>3, <2>6
  <2>9. /\ pos \in [1..(n + 1) -> Nat \ {0}] /\ pos[1] = at /\ pos[n + 1] = at + m
        /\ \A i \in 1..n : Occurs(t, pos[i], s[i]) /\ pos[i + 1] = pos[i] + Len(s[i])
    BY <2>3, <2>5, <2>6
  <2>10. PICK q : q = [i \in 1..((n + 1) + 1) |-> IF i = (n + 1) + 1 THEN at + m + k ELSE pos[i]]
    OBVIOUS
  <2>11. q \in [1..((n + 1) + 1) -> Nat \ {0}] /\ q[1] = at /\ q[(n + 1) + 1] = at + (m + k)
    BY <2>9, <2>10
  <2>12. ASSUME NEW i \in 1..(n + 1)
         PROVE  Occurs(t, q[i], a[i]) /\ q[i + 1] = q[i] + Len(a[i])
    <3>1. q[i] = pos[i]
      BY <2>10
    <3>2. CASE i = n + 1
      <4>1. q[i + 1] = at + m + k /\ q[i] = at + m /\ a[i] = x
        BY <2>7, <2>9, <2>10, <3>2
      <4>2. QED
        BY <2>4, <2>6, <4>1
    <3>3. CASE i # n + 1
      <4>1. i \in 1..n /\ q[i + 1] = pos[i + 1] /\ a[i] = s[i]
        <5>1. i \in 1..n /\ i + 1 \in 1..((n + 1) + 1) /\ i + 1 # (n + 1) + 1
          BY <3>3
        <5>2. QED
          BY <2>7, <2>10, <5>1
      <4>2. QED
        BY <2>9, <3>1, <4>1, Zenon
    <3>4. QED
      BY <3>2, <3>3
  <2>13. P(a, q)
    BY <2>7, <2>8, <2>11, <2>12
  <2>14. QED
    BY <2>13
<1>3. Seq(Seq(X)) \subseteq T
  <2> HIDE DEF T
  <2> QED BY <1>1, <1>2, SeqInduction
<1>4. \E pos : P(seqs, pos)
  <2> HIDE DEF P
  <2> QED BY <1>3
<1>5. QED
  BY <1>4, Zenon DEF LaidOut

-----------------------------------------------------------------------------
(* Sum *)

\* Sum adds its numbers one after the other.
LEMMA SumSteps ==
  ASSUME NEW s \in Seq(Nat)
  PROVE  \E f \in [0..Len(s) -> Nat] :
           /\ Sum(s) = f[Len(s)] /\ f[0] = 0
           /\ \A i \in 1..Len(s) : f[i] = f[i - 1] + s[i]
<1>1. PICK n \in Nat : n = Len(s)
  OBVIOUS
<1> DEFINE F(f) == f = [i \in 0..n |-> IF i = 0 THEN 0 ELSE f[i-1] + s[i]]
           D == 0..n
           r == [i \in D |-> i]
           H == [i \in D |-> [f \in [D -> Nat] |-> IF i = 0 THEN 0 ELSE f[i-1] + s[i]]]
<1>2. \E f \in [D -> Nat] : \A i \in D : f[i] = H[i][f]
  <2>1. Nat # {} /\ n \in Nat /\ r \in [D -> 0..n]
    OBVIOUS
  <2>2. \A i \in D : \A f \in [D -> Nat] : H[i][f] \in Nat
    <3> SUFFICES ASSUME NEW i \in D, NEW f \in [D -> Nat] PROVE H[i][f] \in Nat
      OBVIOUS
    <3>1. i # 0 => f[i - 1] \in Nat /\ s[i] \in Nat
      BY <1>1, SMTT(60)
    <3>2. QED
      BY <3>1, SMTT(60)
  <2>3. \A i \in D : \A f, g \in [D -> Nat] :
          (\A y \in D : r[y] < r[i] => f[y] = g[y]) => H[i][f] = H[i][g]
    <3> SUFFICES ASSUME NEW i \in D, NEW f \in [D -> Nat], NEW g \in [D -> Nat],
                        \A y \in D : r[y] < r[i] => f[y] = g[y]
                 PROVE  H[i][f] = H[i][g]
      OBVIOUS
    <3>1. i # 0 => f[i - 1] = g[i - 1]
      OBVIOUS
    <3>2. QED
      BY <3>1
  <2> HIDE DEF r, H, D
  <2>4. QED
    <3>1. Recursive(D, Nat, n, r, H)
      BY <2>1, <2>2, <2>3 DEF Recursive
    <3>2. QED
      BY <3>1, Recursion, SMT
<1>3. PICK f \in [D -> Nat] : \A i \in D : f[i] = H[i][f]
  BY <1>2
<1>4. F(f)
  <2>1. \A i \in 0..n : f[i] = IF i = 0 THEN 0 ELSE f[i-1] + s[i]
    BY <1>3
  <2>2. QED
    BY <2>1
<1>5. PICK g : F(g) /\ g = CHOOSE h : F(h)
  <2> HIDE DEF F
  <2> QED BY <1>4
<1>6. Sum(s) = g[n]
  BY <1>1, <1>5 DEF Sum
<1>7. \A i \in 0..n : g[i] = f[i]
  <2> DEFINE T == {i \in Nat : i \in 0..n => g[i] = f[i]}
  <2>1. 0 \in T
    BY <1>4, <1>5
  <2>2. ASSUME NEW i \in Nat, i \in T PROVE i + 1 \in T
    <3> SUFFICES ASSUME i + 1 \in 0..n PROVE g[i + 1] = f[i + 1]
      OBVIOUS
    <3>1. i \in 0..n /\ i + 1 # 0 /\ (i + 1) - 1 = i
      OBVIOUS
    <3>2. g[i] = f[i]
      BY <2>2, <3>1
    <3>3. g[i + 1] = g[i] + s[i + 1]
      BY <1>5, <3>1
    <3>4. f[i + 1] = f[i] + s[i + 1]
      BY <1>4, <3>1
    <3>5. QED
      BY <3>2, <3>3, <3>4, Zenon
  <2>3. Nat \subseteq T
    <3> HIDE DEF T
    <3> QED BY <2>1, <2>2, Induction
  <2>4. QED
    BY <2>3
<1>8. f[0] = 0 /\ \A i \in 1..n : f[i] = f[i - 1] + s[i]
  BY <1>4
<1>9. f \in [0..n -> Nat] /\ Sum(s) = f[n]
  BY <1>6, <1>7
<1>10. QED
  <2> HIDE DEF F
  <2> QED BY <1>1, <1>8, <1>9

\* One number more is added.
LEMMA SumAppend ==
  ASSUME NEW s \in Seq(Nat), NEW x \in Nat
  PROVE  Sum(<<>>) = 0 /\ Sum(s) \in Nat /\ Sum(Append(s, x)) = Sum(s) + x
<1>1. Sum(<<>>) = 0
  <2>1. <<>> \in Seq(Nat) /\ Len(<<>>) = 0
    OBVIOUS
  <2>2. PICK f \in [0..Len(<<>>) -> Nat] : Sum(<<>>) = f[Len(<<>>)] /\ f[0] = 0
    BY <2>1, SumSteps
  <2>3. QED
    BY <2>1, <2>2
<1>2. PICK n \in Nat : n = Len(s)
  OBVIOUS
<1>3. PICK f \in [0..n -> Nat] : /\ Sum(s) = f[n] /\ f[0] = 0
                                 /\ \A i \in 1..n : f[i] = f[i - 1] + s[i]
  BY <1>2, SumSteps
<1>4. PICK t \in Seq(Nat) : t = Append(s, x)
  BY SMTT(60)
<1>5. Len(t) = n + 1 /\ t[n + 1] = x /\ \A i \in 1..n : t[i] = s[i]
  BY <1>2, <1>4
<1>6. PICK g \in [0..(n + 1) -> Nat] : /\ Sum(t) = g[n + 1] /\ g[0] = 0
                                       /\ \A i \in 1..(n + 1) : g[i] = g[i - 1] + t[i]
  <2>1. \E g \in [0..Len(t) -> Nat] : /\ Sum(t) = g[Len(t)] /\ g[0] = 0
                                      /\ \A i \in 1..Len(t) : g[i] = g[i - 1] + t[i]
    BY SumSteps
  <2>2. QED
    BY <1>5, <2>1
<1>7. g[n] = f[n]
  <2> DEFINE T == {i \in Nat : i \in 0..n => g[i] = f[i]}
  <2>1. 0 \in T
    BY <1>3, <1>6
  <2>2. ASSUME NEW i \in Nat, i \in T PROVE i + 1 \in T
    <3> SUFFICES ASSUME i + 1 \in 0..n PROVE g[i + 1] = f[i + 1]
      OBVIOUS
    <3>1. i \in 0..n /\ i + 1 \in 1..n /\ i + 1 \in 1..(n+1) /\ (i + 1) - 1 = i
      OBVIOUS
    <3>2. g[i] = f[i] /\ t[i + 1] = s[i + 1]
      BY <1>5, <2>2, <3>1
    <3>3. g[i + 1] = g[i] + t[i + 1]
      BY <1>6, <3>1
    <3>4. f[i + 1] = f[i] + s[i + 1]
      BY <1>3, <3>1
    <3>5. QED
      BY <3>2, <3>3, <3>4, Zenon
  <2>3. Nat \subseteq T
    <3> HIDE DEF T
    <3> QED BY <2>1, <2>2, Induction
  <2>4. n \in T /\ n \in 0..n
    BY <2>3
  <2>5. QED
    BY <2>4
<1>8. g[n + 1] = g[n] + x
  <2>1. n + 1 \in 1..(n + 1) /\ (n + 1) - 1 = n
    OBVIOUS
  <2>2. QED
    BY <1>5, <1>6, <2>1
<1>9. QED
  BY <1>1, <1>3, <1>4, <1>6, <1>7, <1>8

\* The length of what is joined is the sum of the lengths.
LEMMA FlattenLength ==
  ASSUME NEW X, NEW seqs \in Seq(Seq(X))
  PROVE  /\ [i \in DOMAIN seqs |-> Len(seqs[i])] \in Seq(Nat)
         /\ Len(FlattenSeq(seqs)) = Sum([i \in DOMAIN seqs |-> Len(seqs[i])])
<1> DEFINE M(s) == [i \in DOMAIN s |-> Len(s[i])]
           T == {s \in Seq(Seq(X)) : /\ M(s) \in Seq(Nat)
                                     /\ Len(FlattenSeq(s)) = Sum(M(s))}
<1>1. <<>> \in T
  <2>1. M(<<>>) = <<>>
    OBVIOUS
  <2>2. <<>> \in Seq(Seq(X)) /\ <<>> \in Seq(Nat) /\ Len(<<>>) = 0
    OBVIOUS
  <2>3. Sum(<<>>) = 0
    BY SumAppend, <2>2
  <2> HIDE DEF M
  <2>4. QED
    BY <2>1, <2>2, <2>3, FlattenEmpty
<1>2. ASSUME NEW s \in Seq(Seq(X)), NEW x \in Seq(X), s \in T PROVE Append(s, x) \in T
  <2>1. PICK a \in Seq(Seq(X)) : a = Append(s, x)
    BY AppendProperties, Zenon
  <2>2. PICK n \in Nat : n = Len(s) /\ DOMAIN s = 1..n
    OBVIOUS
  <2>3. Len(a) = n + 1 /\ DOMAIN a = 1..(n + 1) /\ a[n + 1] = x /\ \A i \in 1..n : a[i] = s[i]
    BY <2>1, <2>2
  <2>4. PICK b \in Seq(Nat) : b = [i \in 1..n |-> Len(s[i])] /\ b = M(s)
    BY <1>2, <2>2
  <2>a. Len(b) = n
    BY <2>4
  <2>5. PICK k \in Nat : k = Len(x)
    OBVIOUS
  <2>6. PICK c : c = [i \in 1..(n + 1) |-> Len(a[i])] /\ c = M(a)
    BY <2>3
  <2>7. PICK d \in Seq(Nat) : d = Append(b, k)
    BY AppendProperties, Zenon
  <2>8. Len(d) = n + 1 /\ d[n + 1] = k /\ \A i \in 1..n : d[i] = b[i]
    BY <2>a, <2>7, AppendProperties
  <2>9. d = [i \in 1..(n + 1) |-> d[i]]
    BY <2>8
  <2>10. ASSUME NEW i \in 1..(n + 1) PROVE c[i] = d[i]
    <3>1. CASE i = n + 1
      BY <2>3, <2>5, <2>6, <2>8, <3>1
    <3>2. CASE i # n + 1
      <4>1. i \in 1..n
        BY <3>2
      <4>2. QED
        <5>1. a[i] = s[i] /\ d[i] = b[i]
          BY <2>3, <2>8, <4>1
        <5>2. c[i] = Len(a[i]) /\ b[i] = Len(s[i])
          BY <2>4, <2>6, <4>1
        <5>3. QED
          BY <5>1, <5>2, Zenon
    <3>3. QED
      BY <3>1, <3>2
  <2>11. c = d
    BY <2>6, <2>9, <2>10
  <2>12. FlattenSeq(a) = FlattenSeq(s) \o x /\ FlattenSeq(s) \in Seq(X)
    BY <2>1, FlattenAppend, FlattenType
  <2>13. Len(FlattenSeq(a)) = Len(FlattenSeq(s)) + k
    BY <2>5, <2>12
  <2>14. Sum(d) = Sum(b) + k
    BY <2>7, SumAppend
  <2>15. Len(FlattenSeq(s)) = Sum(b)
    BY <1>2, <2>4
  <2>16. Len(FlattenSeq(a)) = Sum(c)
    BY <2>11, <2>13, <2>14, <2>15
  <2> HIDE DEF M
  <2>17. QED
    BY <2>1, <2>6, <2>11, <2>16
<1>3. Seq(Seq(X)) \subseteq T
  <2> HIDE DEF T
  <2> QED BY <1>1, <1>2, SeqInduction
<1>4. QED
  BY <1>3

-----------------------------------------------------------------------------
(* Printing a string *)

\* An escape has two bytes or six, any other byte stays one.
LEMMA EscapedLength ==
  ASSUME NEW c \in Byte
  PROVE  /\ Escaped(c) \in Seq(Byte)
         /\ Len(Escaped(c)) = IF c \in DOMAIN Short THEN 2 ELSE IF c < 32 THEN 6 ELSE 1
<1>1. CASE c \in DOMAIN Short
  <2>1. c \in {8, 12, 10, 13, 9, 34, 92}
    BY <1>1 DEF Short
  <2>2. Short[c] \in Byte
    BY <2>1 DEF Short, Byte
  <2>3. Escaped(c) = <<92, Short[c]>>
    BY <1>1 DEF Escaped, Backslash
  <2>4. PICK x \in Byte : x = Short[c]
    BY <2>2
  <2>5. <<92, x>> \in Seq(Byte) /\ Len(<<92, x>>) = 2
    BY DEF Byte
  <2>6. QED
    BY <1>1, <2>3, <2>4, <2>5, Zenon
<1>2. CASE c \notin DOMAIN Short /\ c < 32
  <2>1. PICK x, y \in Byte : x = HexDigit(c \div 16) /\ y = HexDigit(c % 16)
    <3>1. c \div 16 \in 0..1 /\ c % 16 \in 0..15
      BY <1>2 DEF Byte
    <3>2. \A d \in 0..15 : HexDigit(d) \in Byte
      BY DEF HexDigit, Byte
    <3>3. QED
      BY <3>1, <3>2
  <2>2. Escaped(c) = <<92, 117, 48, 48, x, y>>
    BY <1>2, <2>1 DEF Escaped, Backslash
  <2>3. <<92, 117, 48, 48, x, y>> \in Seq(Byte) /\ Len(<<92, 117, 48, 48, x, y>>) = 6
    BY DEF Byte
  <2>4. QED
    BY <1>2, <2>2, <2>3, Zenon
<1>3. CASE c \notin DOMAIN Short /\ ~(c < 32)
  <2>1. Escaped(c) = <<c>>
    BY <1>3 DEF Escaped
  <2>2. <<c>> \in Seq(Byte) /\ Len(<<c>>) = 1
    OBVIOUS
  <2>3. QED
    BY <1>3, <2>1, <2>2, Zenon
<1>4. QED
  BY <1>1, <1>2, <1>3, Zenon

\* A string has one escape for each byte.
LEMMA EscapesType ==
  ASSUME NEW s \in Seq(Byte)
  PROVE  /\ Escapes(s) \in Seq(Seq(Byte)) /\ Len(Escapes(s)) = Len(s)
         /\ \A i \in 1..Len(s) : Escapes(s)[i] = Escaped(s[i])
<1>1. PICK n \in Nat : n = Len(s) /\ DOMAIN s = 1..n
  OBVIOUS
<1>2. \A i \in 1..n : Escaped(s[i]) \in Seq(Byte)
  <2>1. \A i \in 1..n : s[i] \in Byte
    BY <1>1
  <2>2. QED
    BY <2>1, EscapedLength
<1> HIDE DEF Byte
<1>3. [i \in 1..n |-> Escaped(s[i])] \in Seq(Seq(Byte))
      /\ Len([i \in 1..n |-> Escaped(s[i])]) = n
  BY <1>2
<1>4. QED
  BY <1>1, <1>3 DEF Escapes

\* What is counted is what is written.
LEMMA EscapesCounted ==
  ASSUME NEW s \in Seq(Byte)
  PROVE  OutputLength(s) = Len(FlattenSeq(Escapes(s))) /\ OutputLength(s) \in Nat
<1>1. PICK e \in Seq(Seq(Byte)) : e = Escapes(s) /\ Len(e) = Len(s)
  BY EscapesType
<1>2. PICK n \in Nat : n = Len(s) /\ DOMAIN s = 1..n
  OBVIOUS
<1>3. DOMAIN e = 1..n
  BY <1>1, <1>2
<1>4. PICK a : a = [i \in 1..n |-> Len(e[i])]
  OBVIOUS
<1>5. a \in Seq(Nat) /\ Len(FlattenSeq(e)) = Sum(a)
  <2> HIDE DEF Byte
  <2>1. a = [i \in DOMAIN e |-> Len(e[i])]
    BY <1>3, <1>4
  <2>2. QED
    BY <2>1, FlattenLength
<1>6. PICK b : b = [i \in 1..n |-> IF s[i] \in DOMAIN Short THEN 2
                                   ELSE IF s[i] < 32 THEN 6 ELSE 1]
  OBVIOUS
<1>7. ASSUME NEW i \in 1..n PROVE b[i] = a[i]
  <2>1. s[i] \in Byte
    BY <1>2
  <2>2. e[i] = Escaped(s[i])
    BY <1>1, <1>2 DEF Escapes
  <2>3. b[i] = IF s[i] \in DOMAIN Short THEN 2 ELSE IF s[i] < 32 THEN 6 ELSE 1
    BY <1>6, Zenon
  <2>4. a[i] = Len(Escaped(s[i]))
    BY <1>4, <2>2
  <2>5. QED
    BY <2>1, <2>3, <2>4, EscapedLength, Zenon
<1>8. a = b
  BY <1>4, <1>6, <1>7
<1>9. OutputLength(s) = Sum(b)
  BY <1>2, <1>6, Zenon DEF OutputLength
<1>10. Sum(a) \in Nat
  BY <1>5, SumAppend
<1>11. QED
  BY <1>1, <1>5, <1>8, <1>9, <1>10, Zenon

\* A string is printed between quotes, each byte escaped, and has its room.
LEMMA StringPrinted ==
  ASSUME NEW s \in Seq(Byte)
  PROVE  /\ print_string(s) \in Seq(Pieces)
         /\ TextOf(print_string(s)) = (<<Quote>> \o FlattenSeq(Escapes(s))) \o <<Quote>>
<1>1. PICK x \in Seq(Byte) : x = FlattenSeq(Escapes(s))
  BY EscapesType, FlattenType
<1>2. PICK n \in Nat : n = OutputLength(s) /\ n = Len(x)
  BY <1>1, EscapesCounted
<1>3. PICK y : y = (<<Quote>> \o x) \o <<Quote>>
  OBVIOUS
<1>4. y \in Seq(Byte) /\ Len(y) = n + 2
  BY <1>2, <1>3 DEF Quote, Byte
<1>5. print_string(s) = Piece(n + 3, y, 1)
  BY <1>1, <1>2, <1>3, Zenon DEF print_string, Escapes
<1>6. n + 3 \in Nat /\ Len(y) + 1 <= (n + 3) + 1
  BY <1>4
<1>7. Piece(n + 3, y, 1) \in Seq(Pieces) /\ TextOf(Piece(n + 3, y, 1)) = y
  BY <1>4, <1>6, TextPiece
<1>8. QED
  BY <1>1, <1>3, <1>5, <1>7, Zenon

-----------------------------------------------------------------------------
(* Trees *)

\* The recursive function Tree has its equation.
LEMMA TreeDefined ==
  Tree = [n \in 0..CJSON_NESTING_LIMIT |->
            Leaves \cup IF n = 0 THEN {} ELSE Groups(Tree[n - 1])]
<1>1. PICK N \in Nat : N = CJSON_NESTING_LIMIT
  BY NestingLimit DEF NestingLimit
<1> DEFINE B(n, f) == Leaves \cup IF n = 0 THEN {} ELSE Groups(f[n - 1])
           D(f) == f = [n \in 0..N |-> B(n, f)]
           A(f, k) == f = [n \in 0..N |-> f[n]] /\ \A n \in 0..N : n <= k => f[n] = B(n, f)
           T == {k \in Nat : \E f : A(f, k)}
<1>2. 0 \in T
  <2>1. PICK f : f = [n \in 0..N |-> Leaves]
    OBVIOUS
  <2>2. A(f, 0)
    BY <2>1
  <2>3. QED
    BY <2>2
<1>3. ASSUME NEW k \in Nat, k \in T PROVE k + 1 \in T
  <2>1. PICK f : A(f, k)
    BY <1>3
  <2>2. PICK v : v = B(k + 1, f)
    OBVIOUS
  <2>3. PICK g : g = [n \in 0..N |-> IF n = k + 1 THEN v ELSE f[n]]
    OBVIOUS
  <2>4. g = [n \in 0..N |-> g[n]]
    BY <2>3
  <2>5. ASSUME NEW n \in 0..N, n <= k + 1 PROVE g[n] = B(n, g)
    <3>1. n # 0 => n - 1 \in 0..N /\ n - 1 # k + 1
      BY <2>5
    <3>2. n # 0 => g[n - 1] = f[n - 1]
      BY <2>3, <3>1
    <3>3. B(n, g) = B(n, f)
      BY <3>2
    <3>4. CASE n = k + 1
      BY <2>2, <2>3, <3>3, <3>4
    <3>5. CASE n # k + 1
      <4>1. n <= k
        BY <2>5, <3>5
      <4>2. f[n] = B(n, f)
        BY <2>1, <4>1
      <4>3. g[n] = f[n]
        BY <2>3, <3>5
      <4>4. QED
        BY <3>3, <4>2, <4>3
    <3>6. QED
      BY <3>4, <3>5
  <2>6. A(g, k + 1)
    BY <2>4, <2>5
  <2>7. QED
    <3> HIDE DEF A
    <3> QED BY <2>6
<1>4. Nat \subseteq T
  <2> HIDE DEF T
  <2> QED BY <1>2, <1>3, Induction
<1>5. PICK f : A(f, N)
  BY <1>4
<1>6. D(f)
  <2>1. \A n \in 0..N : f[n] = B(n, f)
    BY <1>5
  <2>2. f = [n \in 0..N |-> f[n]]
    BY <1>5
  <2> HIDE DEF B
  <2>3. QED
    BY <2>1, <2>2
<1>7. Tree = CHOOSE h : D(h)
  BY <1>1, Zenon DEF Tree
<1>8. D(Tree)
  <2> HIDE DEF D
  <2> QED BY <1>6, <1>7
<1>9. QED
  BY <1>1, <1>8, Zenon

\* The trees of a level are leaves, or groups of those of the level below.
LEMMA TreeNext ==
  /\ Tree[0] = Leaves
  /\ \A n \in 1..CJSON_NESTING_LIMIT : Tree[n] = Leaves \cup Groups(Tree[n - 1])
<1>1. PICK N \in Nat : N = CJSON_NESTING_LIMIT
  BY NestingLimit DEF NestingLimit
<1>2. \A n \in 0..N : Tree[n] = Leaves \cup IF n = 0 THEN {} ELSE Groups(Tree[n - 1])
  BY <1>1, TreeDefined, Zenon
<1>3. Tree[0] = Leaves
  <2>1. 0 \in 0..N
    OBVIOUS
  <2>2. QED
    BY <1>2, <2>1
<1>4. ASSUME NEW n \in 1..N PROVE Tree[n] = Leaves \cup Groups(Tree[n - 1])
  <2>1. n \in 0..N /\ n # 0
    OBVIOUS
  <2>2. QED
    BY <1>2, <2>1, Zenon
<1>5. QED
  BY <1>1, <1>3, <1>4, Zenon

\* What a node of a level may be
LEMMA NodeCases ==
  ASSUME NEW n \in 0..CJSON_NESTING_LIMIT, NEW node \in Tree[n]
  PROVE  \/ node.type \in {"null", "true", "false"} /\ node = Node(node.type, <<>>, <<>>)
         \/ node.type = "string" /\ node.str \in Seq(Byte) /\ node = Node("string", node.str, <<>>)
         \/ /\ node.type = "array" /\ n \in 1..CJSON_NESTING_LIMIT
            /\ node.kids \in Elements(Tree[n - 1]) /\ node = Node("array", <<>>, node.kids)
         \/ /\ node.type = "object" /\ n \in 1..CJSON_NESTING_LIMIT
            /\ node.kids \in Members(Tree[n - 1]) /\ node = Node("object", <<>>, node.kids)
<1>1. ASSUME node \in Leaves
      PROVE  \/ node.type \in {"null", "true", "false"} /\ node = Node(node.type, <<>>, <<>>)
             \/ node.type = "string" /\ node.str \in Seq(Byte) /\ node = Node("string", node.str, <<>>)
  BY <1>1 DEF Leaves, Node
<1>2. ASSUME NEW S, node \in Groups(S)
      PROVE  \/ /\ node.type = "array" /\ node.kids \in Elements(S)
                /\ node = Node("array", <<>>, node.kids)
             \/ /\ node.type = "object" /\ node.kids \in Members(S)
                /\ node = Node("object", <<>>, node.kids)
  BY <1>2 DEF Groups, Node, Elements, Members
<1>3. CASE n = 0
  BY <1>1, <1>3, TreeNext
<1>4. CASE n # 0
  <2>1. n \in 1..CJSON_NESTING_LIMIT
    BY <1>4, NestingLimit DEF NestingLimit
  <2>2. node \in Leaves \/ node \in Groups(Tree[n - 1])
    BY <2>1, TreeNext
  <2>3. CASE node \in Leaves
    BY <1>1, <2>3, Zenon
  <2>4. CASE node \in Groups(Tree[n - 1])
    BY <1>2, <2>1, <2>4, Zenon
  <2>5. QED
    BY <2>2, <2>3, <2>4, Zenon
<1>5. QED
  BY <1>3, <1>4, Zenon

\* At the last level the printer needs none below it.
LEMMA LevelZero ==
  ASSUME NEW format, NEW f, NEW g PROVE Level(format, 0, f) = Level(format, 0, g)
<1>1. 0 \in 0..CJSON_NESTING_LIMIT
  BY NestingLimit DEF NestingLimit
<1>2. ASSUME NEW node \in Tree[0] PROVE Level(format, 0, f)[node] = Level(format, 0, g)[node]
  <2>1. node.type \in {"null", "true", "false"} \/ node.type = "string"
    BY <1>1, NodeCases
  <2>2. QED
    BY <2>1 DEF Level, print_value
<1>3. QED
  BY <1>2 DEF Level

\* The recursive function of print has its equation, level by level.
LEMMA PrintSteps ==
  ASSUME NEW format
  PROVE  \E P : /\ \A root \in Tree[CJSON_NESTING_LIMIT] :
                     print(root, format) = P[CJSON_NESTING_LIMIT][root]
                /\ \A n \in 0..CJSON_NESTING_LIMIT : P[n] = Level(format, n, P[n - 1])
<1>1. PICK N \in Nat : N = CJSON_NESTING_LIMIT
  BY NestingLimit DEF NestingLimit
<1> DEFINE B(n, f) == Level(format, n, f[n - 1])
           D(f) == f = [n \in 0..CJSON_NESTING_LIMIT |-> B(n, f)]
           A(f, k) == f = [n \in 0..N |-> f[n]] /\ \A n \in 0..N : n <= k => f[n] = B(n, f)
           T == {k \in Nat : \E f : A(f, k)}
<1>2. 0 \in T
  <2>1. PICK f : f = [n \in 0..N |-> Level(format, 0, 0)]
    OBVIOUS
  <2>2. f = [n \in 0..N |-> f[n]]
    BY <2>1
  <2>3. f[0] = B(0, f)
    <3>1. f[0] = Level(format, 0, 0)
      BY <2>1
    <3>2. QED
      BY <3>1, LevelZero, Zenon
  <2>4. \A n \in 0..N : n <= 0 => n = 0
    OBVIOUS
  <2>5. A(f, 0)
    BY <2>2, <2>3, <2>4, Zenon
  <2>6. QED
    <3> HIDE DEF A
    <3> QED BY <2>5
<1>3. ASSUME NEW k \in Nat, k \in T PROVE k + 1 \in T
  <2>1. PICK f : A(f, k)
    BY <1>3
  <2>2. PICK v : v = B(k + 1, f)
    OBVIOUS
  <2>3. PICK g : g = [n \in 0..N |-> IF n = k + 1 THEN v ELSE f[n]]
    OBVIOUS
  <2>4. g = [n \in 0..N |-> g[n]]
    BY <2>3
  <2>5. ASSUME NEW n \in 0..N, n <= k + 1 PROVE g[n] = B(n, g)
    <3>1. CASE n = 0
      <4>1. g[0] = f[0]
        BY <2>3
      <4>2. f[0] = B(0, f)
        <5>1. 0 \in 0..N /\ 0 <= k
          OBVIOUS
        <5>2. QED
          BY <2>1, <5>1, Zenon
      <4>3. B(0, f) = B(0, g)
        BY LevelZero, Zenon
      <4>4. QED
        BY <3>1, <4>1, <4>2, <4>3, Zenon
    <3>2. CASE n # 0
      <4>1. n - 1 \in 0..N /\ n - 1 # k + 1
        BY <2>5, <3>2
      <4>2. g[n - 1] = f[n - 1]
        BY <2>3, <4>1
      <4>3. B(n, g) = B(n, f)
        BY <4>2, Zenon
      <4>4. CASE n = k + 1
        <5>1. g[n] = v
          BY <2>3, <4>4
        <5>2. QED
          BY <2>2, <4>3, <4>4, <5>1, Zenon
      <4>5. CASE n # k + 1
        <5>1. n <= k /\ g[n] = f[n]
          BY <2>3, <2>5, <4>5
        <5>2. f[n] = B(n, f)
          BY <2>1, <5>1, Zenon
        <5>3. QED
          BY <4>3, <5>1, <5>2, Zenon
      <4>6. QED
        BY <4>4, <4>5
    <3>3. QED
      BY <3>1, <3>2
  <2>6. A(g, k + 1)
    BY <2>4, <2>5, Zenon
  <2>7. QED
    <3> HIDE DEF A
    <3> QED BY <2>6
<1>4. Nat \subseteq T
  <2> HIDE DEF T
  <2> QED BY <1>2, <1>3, Induction
<1>5. PICK f : A(f, N)
  <2> HIDE DEF A
  <2> QED BY <1>4
<1>6. D(f)
  <2>1. \A n \in 0..N : n <= N
    OBVIOUS
  <2>2. \A n \in 0..N : f[n] = B(n, f)
    BY <1>5, <2>1, Zenon
  <2>3. f = [n \in 0..N |-> f[n]]
    BY <1>5, Zenon
  <2> HIDE DEF B
  <2>4. f = [n \in 0..N |-> B(n, f)]
    BY <2>2, <2>3
  <2>5. QED
    BY <1>1, <2>4
<1>7. PICK g : g = (CHOOSE h : D(h)) /\ D(g)
  <2> HIDE DEF D
  <2> QED BY <1>6
<1>8. \A root : print(root, format) = g[CJSON_NESTING_LIMIT][root]
  <2>1. ASSUME NEW root PROVE print(root, format) = (CHOOSE h : D(h))[CJSON_NESTING_LIMIT][root]
    BY Zenon DEF print, Level
  <2>2. QED
    BY <1>7, <2>1, Zenon
<1>9. \A n \in 0..N : g[n] = Level(format, n, g[n - 1])
  <2> HIDE DEF B
  <2>1. \A n \in 0..N : g[n] = B(n, g)
    BY <1>1, <1>7
  <2>2. QED
    BY <2>1, Zenon DEF B
<1>10. QED
  BY <1>1, <1>8, <1>9, Zenon

\* Two joined sequences are a sequence.
LEMMA ConcatType ==
  ASSUME NEW X, NEW a \in Seq(X), NEW b \in Seq(X) PROVE a \o b \in Seq(X)
  OBVIOUS

\* The text of three groups of pieces
LEMMA TextThree ==
  ASSUME NEW a \in Seq(Pieces), NEW b \in Seq(Pieces), NEW c \in Seq(Pieces)
  PROVE  /\ (a \o b) \o c \in Seq(Pieces)
         /\ TextOf((a \o b) \o c) = (TextOf(a) \o TextOf(b)) \o TextOf(c)
<1>1. PICK d \in Seq(Pieces) : d = a \o b
  BY ConcatType, Zenon
<1>2. d \o c \in Seq(Pieces)
  BY ConcatType, Zenon
<1>3. TextOf(d \o c) = TextOf(d) \o TextOf(c) /\ TextOf(d) = TextOf(a) \o TextOf(b)
  BY <1>1, TextConcat, Zenon
<1>4. QED
  BY <1>1, <1>2, <1>3, Zenon

\* The text of an indexed family of pieces, flattened
LEMMA TextOfEach ==
  ASSUME NEW n, NEW ps, NEW x, TextsAre(n, ps, x)
  PROVE  /\ FlattenSeq(ps) \in Seq(Pieces)
         /\ x \in Seq(Seq(Byte)) /\ Len(x) = n
         /\ TextOf(FlattenSeq(ps)) = FlattenSeq(x)
<1> USE DEF TextsAre
<1>1. ps \in Seq(Seq(Pieces)) /\ DOMAIN ps = 1..n
  <2> HIDE DEF Pieces
  <2> QED OBVIOUS
<1>2. FlattenSeq(ps) \in Seq(Pieces)
  BY <1>1, FlattenType
<1>3. PICK y : y = [i \in 1..n |-> TextOf(ps[i])]
  OBVIOUS
<1>4. y = x
  BY <1>3
<1>5. \A i \in 1..n : x[i] \in Seq(Byte)
  BY TextType
<1>6. x \in Seq(Seq(Byte)) /\ Len(x) = n
  <2> HIDE DEF Byte
  <2> QED BY <1>5
<1>7. TextOf(FlattenSeq(ps)) = FlattenSeq(y)
  BY <1>1, <1>3, TextFlatten
<1>8. QED
  BY <1>2, <1>4, <1>6, <1>7, Zenon

-----------------------------------------------------------------------------
(* Printing an array *)

\* The brackets
LEMMA Bracket ==
  ASSUME NEW c \in Byte
  PROVE  /\ Piece(1, <<c>>, 0) \in Seq(Pieces) /\ TextOf(Piece(1, <<c>>, 0)) = <<c>>
         /\ Piece(2, <<c>>, 1) \in Seq(Pieces) /\ TextOf(Piece(2, <<c>>, 1)) = <<c>>
<1>1. PICK x \in Seq(Byte) : x = <<c>> /\ Len(x) = 1
  <2>1. <<c>> \in Seq(Byte) /\ Len(<<c>>) = 1
    OBVIOUS
  <2>2. QED
    BY <2>1, Zenon
<1>2. /\ 1 \in Nat /\ 0 \in 0..1 /\ Len(x) + 0 <= 1 + 1
      /\ 2 \in Nat /\ 1 \in 0..1 /\ Len(x) + 1 <= 2 + 1
  BY <1>1
<1>3. QED
  BY <1>1, <1>2, TextPiece, Zenon

\* If the elements are printed in their room, so is the array.
LEMMA ArrayPrinted ==
  ASSUME NEW S, NEW inside, \A v \in S : inside[v] \in Seq(Pieces),
         NEW kids \in Elements(S), NEW format \in BOOLEAN
  PROVE  ArrayPrints(kids, format, inside)
<1>1. PICK n \in Nat : n = Len(kids) /\ DOMAIN kids = 1..n
  BY DEF Elements
<1>2. PICK ps : ps = ArrayPieces(kids, format, inside)
  OBVIOUS
<1>3. PICK x : x = ArrayTexts(kids, format, inside)
  OBVIOUS
<1>4. PICK c \in Seq(Byte) : c = Comma(format)
  <2>1. <<44>> \in Seq(Byte) /\ <<44, 32>> \in Seq(Byte)
    BY DEF Byte
  <2>2. QED
    BY <2>1, Zenon DEF Comma
<1>5. PICK p \in Seq(Pieces) : p = Piece(Len(c) + 1, c, 1) /\ TextOf(p) = c
  <2>1. Len(c) + 1 \in Nat /\ Len(c) + 1 <= (Len(c) + 1) + 1
    OBVIOUS
  <2>2. QED
    BY <2>1, TextPiece
<1>6. ASSUME NEW i \in 1..n PROVE ps[i] \in Seq(Pieces) /\ TextOf(ps[i]) = x[i]
  <2>1. kids[i].val \in S
    <3>1. kids[i] \in [key : {NoKey}, val : S]
      BY <1>1, ElementOfSeq, Zenon DEF Elements
    <3>2. QED
      BY <3>1
  <2>2. PICK v \in Seq(Pieces) : v = inside[kids[i].val]
    BY <2>1
  <2>3. CASE i < n
    <3>1. ps[i] = v \o p
      BY <1>1, <1>2, <1>4, <1>5, <2>2, <2>3, Zenon DEF ArrayPieces
    <3>2. x[i] = TextOf(v) \o c
      BY <1>1, <1>3, <1>4, <2>2, <2>3, Zenon DEF ArrayTexts
    <3>3. QED
      BY <1>5, <3>1, <3>2, ConcatType, TextConcat, ZenonT(60)
  <2>4. CASE ~(i < n)
    <3>1. ps[i] = v \o <<>>
      BY <1>1, <1>2, <2>2, <2>4, Zenon DEF ArrayPieces
    <3>2. x[i] = TextOf(v) \o <<>>
      BY <1>1, <1>3, <2>2, <2>4, Zenon DEF ArrayTexts
    <3>3. v \o <<>> = v /\ TextOf(v) \in Seq(Byte)
      BY TextType
    <3>4. TextOf(v) \o <<>> = TextOf(v)
      BY <3>3
    <3>5. QED
      BY <3>1, <3>2, <3>3, <3>4, Zenon
  <2>5. QED
    BY <2>3, <2>4, Zenon
<1>7. ps = [i \in 1..n |-> ps[i]] /\ x = [i \in 1..n |-> x[i]]
  BY <1>1, <1>2, <1>3, Zenon DEF ArrayPieces, ArrayTexts
<1>8. /\ FlattenSeq(ps) \in Seq(Pieces) /\ x \in Seq(Seq(Byte)) /\ Len(x) = n
      /\ TextOf(FlattenSeq(ps)) = FlattenSeq(x)
  <2>1. TextsAre(n, ps, x)
    BY <1>6, <1>7, Zenon DEF TextsAre
  <2>2. QED
    BY <2>1, TextOfEach, Zenon
<1>9. /\ Piece(1, <<91>>, 0) \in Seq(Pieces) /\ TextOf(Piece(1, <<91>>, 0)) = <<91>>
      /\ Piece(2, <<93>>, 1) \in Seq(Pieces) /\ TextOf(Piece(2, <<93>>, 1)) = <<93>>
  <2>1. 91 \in Byte /\ 93 \in Byte
    BY DEF Byte
  <2>2. QED
    BY <2>1, Bracket
<1>10. print_array(kids, format, inside)
         = (Piece(1, <<91>>, 0) \o FlattenSeq(ps)) \o Piece(2, <<93>>, 1)
  BY <1>1, <1>2, Zenon DEF print_array, ArrayPieces, Comma
<1>11. PICK a, b, d \in Seq(Pieces) :
         a = Piece(1, <<91>>, 0) /\ b = FlattenSeq(ps) /\ d = Piece(2, <<93>>, 1)
  BY <1>8, <1>9, ZenonT(60)
<1>12. (a \o b) \o d \in Seq(Pieces) /\ TextOf((a \o b) \o d) = (TextOf(a) \o TextOf(b)) \o TextOf(d)
  BY TextThree, ZenonT(60)
<1>13. QED
  BY <1>1, <1>3, <1>8, <1>9, <1>10, <1>11, <1>12, ZenonT(60) DEF ArrayPrints

-----------------------------------------------------------------------------
(* Printing an object *)

\* A row of tabs
LEMMA TabsType ==
  ASSUME NEW k \in Nat PROVE Tabs(k) \in Seq(Byte) /\ Len(Tabs(k)) = k
<1>1. 9 \in Byte
  BY DEF Byte
<1>2. PICK s : s = [i \in 1..k |-> 9]
  OBVIOUS
<1>3. s \in Seq(Byte) /\ Len(s) = k
  BY <1>1, <1>2
<1>4. QED
  BY <1>2, <1>3 DEF Tabs

\* The indentation of a line has its room.
LEMMA IndentPrinted ==
  ASSUME NEW format \in BOOLEAN, NEW k \in Nat
  PROVE  /\ IndentPieces(format, k) \in Seq(Pieces)
         /\ TextOf(IndentPieces(format, k)) = Indent(format, k)
         /\ Indent(format, k) \in Seq(Byte)
<1>1. CASE format
  <2>1. PICK x \in Seq(Byte) : x = Tabs(k) /\ Len(x) = k
    BY TabsType, Zenon
  <2>2. 0 \in 0..1 /\ Len(x) + 0 <= k + 1
    BY <2>1
  <2>3. Piece(k, x, 0) \in Seq(Pieces) /\ TextOf(Piece(k, x, 0)) = x
    BY <2>2, TextPiece, Zenon
  <2>4. QED
    BY <1>1, <2>1, <2>3, Zenon DEF IndentPieces, Indent
<1>2. CASE ~format
  <2>1. <<>> \in Seq(Pieces) /\ <<>> \in Seq(Byte)
    OBVIOUS
  <2>2. QED
    BY <1>2, <2>1, TextEmpty, Zenon DEF IndentPieces, Indent
<1>3. QED
  BY <1>1, <1>2

\* What stands between names, values and members
LEMMA ColonType ==
  ASSUME NEW format, NEW more
  PROVE  Colon(format) \in Seq(Byte) /\ Stop(format, more) \in Seq(Byte) /\ Open(format) \in Seq(Byte)
<1>1. /\ <<>> \in Seq(Byte) /\ <<10>> \in Seq(Byte) /\ <<44>> \in Seq(Byte) /\ <<58>> \in Seq(Byte)
      /\ <<58, 9>> \in Seq(Byte) /\ <<123>> \in Seq(Byte) /\ <<123, 10>> \in Seq(Byte)
  BY DEF Byte
<1>2. Colon(format) \in Seq(Byte) /\ Open(format) \in Seq(Byte)
  BY <1>1, Zenon DEF Colon, Open
<1>3. PICK a, b \in Seq(Byte) : /\ a = IF more THEN <<44>> ELSE <<>>
                                /\ b = IF format THEN <<10>> ELSE <<>>
  BY <1>1, Zenon
<1>4. Stop(format, more) = a \o b
  BY <1>3, Zenon DEF Stop
<1>5. QED
  BY <1>2, <1>4, ConcatType, Zenon

\* A piece that asks for its length, or for one more for its final 0
LEMMA PlainPieces ==
  ASSUME NEW x \in Seq(Byte)
  PROVE  /\ Piece(Len(x), x, 0) \in Seq(Pieces) /\ TextOf(Piece(Len(x), x, 0)) = x
         /\ Piece(Len(x) + 1, x, 1) \in Seq(Pieces) /\ TextOf(Piece(Len(x) + 1, x, 1)) = x
<1>1. /\ Len(x) \in Nat /\ Len(x) + 1 \in Nat /\ 0 \in 0..1 /\ 1 \in 0..1
      /\ Len(x) + 0 <= Len(x) + 1 /\ Len(x) + 1 <= (Len(x) + 1) + 1
  OBVIOUS
<1>2. QED
  BY <1>1, TextPiece, Zenon

\* If the values are printed in their room, so is the object.
LEMMA ObjectPrinted ==
  ASSUME NEW S, NEW inside, \A v \in S : inside[v] \in Seq(Pieces),
         NEW kids \in Members(S), NEW format \in BOOLEAN, NEW depth \in Nat
  PROVE  ObjectPrints(kids, format, depth, inside)
<1>1. PICK n \in Nat : n = Len(kids) /\ DOMAIN kids = 1..n
  BY DEF Members
<1>2. PICK ps : ps = ObjectPieces(kids, format, depth, inside)
  OBVIOUS
<1>3. PICK x : x = ObjectTexts(kids, format, depth, inside)
  OBVIOUS
<1>4. ASSUME NEW i \in 1..n PROVE ps[i] \in Seq(Pieces) /\ TextOf(ps[i]) = x[i]
  <2>1. kids[i].val \in S /\ kids[i].key \in Seq(Byte)
    <3>1. kids[i] \in [key : Seq(Byte), val : S]
      BY <1>1, ElementOfSeq, Zenon DEF Members
    <3>2. QED
      BY <3>1
  <2>2. PICK a \in Seq(Pieces) : /\ a = IndentPieces(format, depth + 1)
                                 /\ TextOf(a) = Indent(format, depth + 1)
    <3>1. depth + 1 \in Nat
      OBVIOUS
    <3>2. QED
      BY <3>1, IndentPrinted, Zenon
  <2>3. PICK b \in Seq(Pieces) : b = print_string(kids[i].key) /\ TextOf(b) = StringText(kids[i].key)
    BY <2>1, StringPrinted, Zenon DEF StringText
  <2>4. PICK c \in Seq(Pieces) : /\ c = Piece(Len(Colon(format)), Colon(format), 0)
                                 /\ TextOf(c) = Colon(format)
    BY ColonType, PlainPieces, Zenon
  <2>5. PICK d \in Seq(Pieces) : d = inside[kids[i].val]
    BY <2>1
  <2>6. PICK e \in Seq(Pieces) :
          /\ e = Piece(Len(Stop(format, i < Len(kids))) + 1, Stop(format, i < Len(kids)), 1)
          /\ TextOf(e) = Stop(format, i < Len(kids))
    BY ColonType, PlainPieces, Zenon
  <2>7. PICK ab, abc, abcd, abcde \in Seq(Pieces) :
          /\ ab = a \o b /\ abc = ab \o c /\ abcd = abc \o d /\ abcde = abcd \o e
    BY ConcatType, Zenon
  <2>8. /\ TextOf(ab) = TextOf(a) \o TextOf(b) /\ TextOf(abc) = TextOf(ab) \o TextOf(c)
        /\ TextOf(abcd) = TextOf(abc) \o TextOf(d) /\ TextOf(abcde) = TextOf(abcd) \o TextOf(e)
    BY <2>7, TextConcat, ZenonT(60)
  <2>9. ps[i] = abcde
    BY <1>1, <1>2, <2>2, <2>3, <2>4, <2>5, <2>6, <2>7, Zenon DEF ObjectPieces
  <2>10. x[i] = ((((TextOf(a) \o TextOf(b)) \o TextOf(c)) \o TextOf(d)) \o TextOf(e))
    BY <1>1, <1>3, <2>2, <2>3, <2>4, <2>5, <2>6, Zenon DEF ObjectTexts
  <2>11. QED
    BY <2>8, <2>9, <2>10, Zenon
<1>5. ps = [i \in 1..n |-> ps[i]] /\ x = [i \in 1..n |-> x[i]]
  BY <1>1, <1>2, <1>3, Zenon DEF ObjectPieces, ObjectTexts
<1>6. /\ FlattenSeq(ps) \in Seq(Pieces) /\ x \in Seq(Seq(Byte)) /\ Len(x) = n
      /\ TextOf(FlattenSeq(ps)) = FlattenSeq(x)
  <2>1. TextsAre(n, ps, x)
    BY <1>4, <1>5, Zenon DEF TextsAre
  <2>2. QED
    BY <2>1, TextOfEach, Zenon
<1>7. PICK a \in Seq(Pieces) : /\ a = Piece(Len(Open(format)) + 1, Open(format), 0)
                               /\ TextOf(a) = Open(format)
  <2>1. PICK y \in Seq(Byte) : y = Open(format)
    BY ColonType, Zenon
  <2>2. Len(y) + 1 \in Nat /\ 0 \in 0..1 /\ Len(y) + 0 <= (Len(y) + 1) + 1
    OBVIOUS
  <2>3. QED
    BY <2>1, <2>2, TextPiece, Zenon
<1>8. PICK b \in Seq(Pieces) : b = FlattenSeq(ps)
  BY <1>6
<1>9. PICK c \in Seq(Pieces) : /\ c = Piece(IF format THEN depth + 2 ELSE 2, Indent(format, depth) \o <<125>>, 1)
                               /\ TextOf(c) = Indent(format, depth) \o <<125>>
  <2>1. PICK y \in Seq(Byte) : y = Indent(format, depth) /\ Len(y) = IF format THEN depth ELSE 0
    BY TabsType, IndentPrinted DEF Indent
  <2>2. PICK z \in Seq(Byte) : z = y \o <<125>> /\ Len(z) = Len(y) + 1
    <3>1. y \o <<125>> \in Seq(Byte) /\ Len(y \o <<125>>) = Len(y) + 1
      BY DEF Byte
    <3>2. QED
      BY <3>1, Zenon
  <2>3. PICK k \in Nat : k = IF format THEN depth + 2 ELSE 2
    OBVIOUS
  <2>4. 1 \in 0..1 /\ Len(z) + 1 <= k + 1
    BY <2>1, <2>2, <2>3
  <2>5. Piece(k, z, 1) \in Seq(Pieces) /\ TextOf(Piece(k, z, 1)) = z
    BY <2>4, TextPiece, Zenon
  <2>6. QED
    BY <2>1, <2>2, <2>3, <2>5, Zenon
<1>10. print_object(kids, format, depth, inside) = (a \o b) \o c
  BY <1>1, <1>2, <1>7, <1>8, <1>9, ZenonT(60)
     DEF print_object, ObjectPieces, Open, Colon, Stop, Indent, IndentPieces
<1>11. (a \o b) \o c \in Seq(Pieces) /\ TextOf((a \o b) \o c) = (TextOf(a) \o TextOf(b)) \o TextOf(c)
  BY TextThree, ZenonT(60)
<1>12. QED
  BY <1>1, <1>3, <1>6, <1>7, <1>8, <1>9, <1>10, <1>11, ZenonT(60) DEF ObjectPrints

-----------------------------------------------------------------------------
(* Printing a tree *)

\* The three words have their room.
LEMMA WordTexts ==
  /\ Piece(5, <<110, 117, 108, 108>>, 1) \in Seq(Pieces)
  /\ TextOf(Piece(5, <<110, 117, 108, 108>>, 1)) = <<110, 117, 108, 108>>
  /\ Piece(5, <<116, 114, 117, 101>>, 1) \in Seq(Pieces)
  /\ TextOf(Piece(5, <<116, 114, 117, 101>>, 1)) = <<116, 114, 117, 101>>
  /\ Piece(6, <<102, 97, 108, 115, 101>>, 1) \in Seq(Pieces)
  /\ TextOf(Piece(6, <<102, 97, 108, 115, 101>>, 1)) = <<102, 97, 108, 115, 101>>
<1>1. /\ <<110, 117, 108, 108>> \in Seq(Byte) /\ <<116, 114, 117, 101>> \in Seq(Byte)
      /\ <<102, 97, 108, 115, 101>> \in Seq(Byte)
      /\ Len(<<110, 117, 108, 108>>) = 4 /\ Len(<<116, 114, 117, 101>>) = 4
      /\ Len(<<102, 97, 108, 115, 101>>) = 5
  BY DEF Byte
<1>2. PICK x, y, z \in Seq(Byte) :
        /\ x = <<110, 117, 108, 108>> /\ y = <<116, 114, 117, 101>>
        /\ z = <<102, 97, 108, 115, 101>> /\ Len(x) = 4 /\ Len(y) = 4 /\ Len(z) = 5
  BY <1>1, ZenonT(60)
<1>3. /\ 5 \in Nat /\ 6 \in Nat /\ 1 \in 0..1
      /\ Len(x) + 1 <= 5 + 1 /\ Len(y) + 1 <= 5 + 1 /\ Len(z) + 1 <= 6 + 1
  BY <1>2
<1>4. /\ Piece(5, x, 1) \in Seq(Pieces) /\ TextOf(Piece(5, x, 1)) = x
      /\ Piece(5, y, 1) \in Seq(Pieces) /\ TextOf(Piece(5, y, 1)) = y
      /\ Piece(6, z, 1) \in Seq(Pieces) /\ TextOf(Piece(6, z, 1)) = z
  BY <1>3, TextPiece, Zenon
<1>5. QED
  BY <1>2, <1>4, ZenonT(60)

\* If the nodes of the level below are printed in their room, so is a node.
LEMMA NodePrinted ==
  ASSUME NEW n \in 0..CJSON_NESTING_LIMIT, NEW node \in Tree[n], NEW format \in BOOLEAN, NEW g,
         n > 0 => \A v \in Tree[n - 1] : g[v] \in Seq(Pieces)
  PROVE  print_value(node, format, CJSON_NESTING_LIMIT - n, g) \in Seq(Pieces)
<1>1. PICK d \in Nat : d = CJSON_NESTING_LIMIT - n
  BY NestingLimit DEF NestingLimit
<1>2. CASE node.type \in {"null", "true", "false"}
  BY <1>2, WordTexts DEF print_value
<1>3. CASE node.type = "string" /\ node.str \in Seq(Byte)
  <2>1. print_value(node, format, d, g) = print_string(node.str)
    BY <1>3 DEF print_value
  <2>2. QED
    BY <1>1, <1>3, <2>1, StringPrinted, Zenon
<1>4. CASE node.type = "array" /\ n \in 1..CJSON_NESTING_LIMIT /\ node.kids \in Elements(Tree[n - 1])
  <2>1. print_value(node, format, d, g) = print_array(node.kids, format, g)
    BY <1>4 DEF print_value
  <2>2. n > 0
    BY <1>4
  <2>3. print_array(node.kids, format, g) \in Seq(Pieces)
    BY <1>4, <2>2, ArrayPrinted, ZenonT(60) DEF ArrayPrints
  <2>4. QED
    BY <1>1, <2>1, <2>3, Zenon
<1>5. CASE node.type = "object" /\ n \in 1..CJSON_NESTING_LIMIT /\ node.kids \in Members(Tree[n - 1])
  <2>1. print_value(node, format, d, g) = print_object(node.kids, format, d, g)
    BY <1>5 DEF print_value
  <2>2. n > 0
    BY <1>5
  <2>3. print_object(node.kids, format, d, g) \in Seq(Pieces)
    BY <1>5, <2>2, ObjectPrinted, ZenonT(60) DEF ObjectPrints
  <2>4. QED
    BY <1>1, <2>1, <2>3, Zenon
<1>6. QED
  BY <1>2, <1>3, <1>4, <1>5, NodeCases, Zenon

\* The printers of all levels, by induction over the levels
LEMMA PrintersExist ==
  ASSUME NEW format \in BOOLEAN PROVE \E P : Printers(format, P)
<1>1. PICK P : /\ \A root \in Tree[CJSON_NESTING_LIMIT] :
                    print(root, format) = P[CJSON_NESTING_LIMIT][root]
               /\ \A n \in 0..CJSON_NESTING_LIMIT : P[n] = Level(format, n, P[n - 1])
  BY PrintSteps, Zenon
<1>2. \A n \in 0..CJSON_NESTING_LIMIT : \A node \in Tree[n] :
        P[n][node] = print_value(node, format, CJSON_NESTING_LIMIT - n, P[n - 1])
  <2> SUFFICES ASSUME NEW n \in 0..CJSON_NESTING_LIMIT, NEW node \in Tree[n]
               PROVE  P[n][node] = print_value(node, format, CJSON_NESTING_LIMIT - n, P[n - 1])
    OBVIOUS
  <2>1. P[n] = Level(format, n, P[n - 1])
    BY <1>1, Zenon
  <2>2. QED
    BY <2>1, Zenon DEF Level
<1> DEFINE T == {n \in Nat : n \in 0..CJSON_NESTING_LIMIT => \A node \in Tree[n] : P[n][node] \in Seq(Pieces)}
<1>3. 0 \in T
  <2> SUFFICES ASSUME NEW node \in Tree[0], 0 \in 0..CJSON_NESTING_LIMIT
               PROVE  P[0][node] \in Seq(Pieces)
    OBVIOUS
  <2>1. ~(0 > 0)
    OBVIOUS
  <2>2. print_value(node, format, CJSON_NESTING_LIMIT - 0, P[0 - 1]) \in Seq(Pieces)
    BY <2>1, NodePrinted, Zenon
  <2>3. QED
    BY <1>2, <2>2, Zenon
<1>4. ASSUME NEW n \in Nat, n \in T PROVE n + 1 \in T
  <2> SUFFICES ASSUME n + 1 \in 0..CJSON_NESTING_LIMIT, NEW node \in Tree[n + 1]
               PROVE  P[n + 1][node] \in Seq(Pieces)
    OBVIOUS
  <2>1. n \in 0..CJSON_NESTING_LIMIT /\ (n + 1) - 1 = n
    BY NestingLimit DEF NestingLimit
  <2>2. \A v \in Tree[n] : P[n][v] \in Seq(Pieces)
    BY <1>4, <2>1
  <2>3. print_value(node, format, CJSON_NESTING_LIMIT - (n + 1), P[(n + 1) - 1]) \in Seq(Pieces)
    BY <2>1, <2>2, NodePrinted, Zenon
  <2>4. QED
    BY <1>2, <2>3, Zenon
<1>5. Nat \subseteq T
  <2> HIDE DEF T
  <2> QED BY <1>3, <1>4, Induction
<1>6. \A n \in 0..CJSON_NESTING_LIMIT : \A node \in Tree[n] : P[n][node] \in Seq(Pieces)
  <2> SUFFICES ASSUME NEW n \in 0..CJSON_NESTING_LIMIT PROVE \A node \in Tree[n] : P[n][node] \in Seq(Pieces)
    OBVIOUS
  <2>1. n \in T
    <3>1. n \in Nat
      OBVIOUS
    <3>2. QED
      BY <1>5, <3>1, Zenon
  <2>2. QED
    BY <2>1
<1>7. Printers(format, P)
  BY <1>1, <1>2, <1>6, Zenon DEF Printers
<1>8. QED
  BY <1>7

-----------------------------------------------------------------------------
(* The buffer *)

\* A piece that asks for its room stays in the buffer, which has the old offset counted.
LEMMA Fits ==
  ASSUME NEW o \in Nat, NEW n \in Nat, NEW t \in Nat, NEW k \in Nat, NEW e \in Nat,
         t + k <= n + 1, n + o + 1 <= e
  PROVE  o + t + k <= e /\ o + t \in Nat
OBVIOUS

\* One piece is written inside the buffer that was ensured for it.
LEMMA WriteInside ==
  ASSUME NEW b \in Buffers, NEW p \in Pieces PROVE Write(b, p) \in Buffers
<1>1. PICK o, l, n, t, k \in Nat :
        /\ o = b.offset /\ l = b.length /\ n = p.need /\ t = Len(p.text) /\ k = p.nul
        /\ t + k <= n + 1
  BY DEF Buffers, Pieces
<1>2. PICK e \in Nat : e = Ensured(l, o, n) /\ n + o + 1 <= e
  BY DEF Ensured
<1>3. o + t + k <= e /\ o + t \in Nat
  BY <1>1, <1>2, Fits, Zenon
<1>4. Write(b, p) = [offset |-> o + t, length |-> e, inside |-> b.inside /\ o + t + k <= e]
  BY <1>1, <1>2, Zenon DEF Write
<1>5. b.inside = TRUE
  BY DEF Buffers
<1>6. Write(b, p) = [offset |-> o + t, length |-> e, inside |-> TRUE]
  <2>1. (b.inside /\ o + t + k <= e) = TRUE
    BY <1>3, <1>5
  <2>2. QED
    BY <1>4, <2>1, Zenon
<1>7. PICK x \in Nat : x = o + t
  BY <1>3
<1>8. [offset |-> x, length |-> e, inside |-> TRUE] \in Buffers
  BY DEF Buffers
<1>9. QED
  BY <1>6, <1>7, <1>8, Zenon

\* All pieces are written inside the buffer, by induction over them.
LEMMA WrittenInside ==
  ASSUME NEW s \in Seq(Pieces) PROVE Written(s).inside
<1>1. PICK n \in Nat : n = Len(s) /\ DOMAIN s = 1..n
  OBVIOUS
<1>2. PICK b \in Buffers : b = [offset |-> 0, length |-> 0, inside |-> TRUE]
  BY DEF Buffers
<1> DEFINE F(f) == f = [i \in 0..Len(s) |-> IF i = 0 THEN [offset |-> 0, length |-> 0, inside |-> TRUE]
                                       ELSE Write(f[i - 1], s[i])]
           D == 0..n
           r == [i \in D |-> i]
           H == [i \in D |-> [f \in [D -> Buffers] |-> IF i = 0 THEN b ELSE Write(f[i - 1], s[i])]]
<1>3. \E f \in [D -> Buffers] : \A i \in D : f[i] = H[i][f]
  <2>1. Buffers # {} /\ n \in Nat /\ r \in [D -> 0..n]
    OBVIOUS
  <2>2. \A i \in D : \A f \in [D -> Buffers] : H[i][f] \in Buffers
    <3> SUFFICES ASSUME NEW i \in D, NEW f \in [D -> Buffers] PROVE H[i][f] \in Buffers
      OBVIOUS
    <3>1. i # 0 => f[i - 1] \in Buffers /\ s[i] \in Pieces
      BY <1>1
    <3>2. H[i][f] = IF i = 0 THEN b ELSE Write(f[i - 1], s[i])
      BY Zenon
    <3>3. QED
      BY <3>1, <3>2, WriteInside, Zenon
  <2>3. \A i \in D : \A f, g \in [D -> Buffers] :
          (\A y \in D : r[y] < r[i] => f[y] = g[y]) => H[i][f] = H[i][g]
    <3> SUFFICES ASSUME NEW i \in D, NEW f \in [D -> Buffers], NEW g \in [D -> Buffers],
                        \A y \in D : r[y] < r[i] => f[y] = g[y]
                 PROVE  H[i][f] = H[i][g]
      OBVIOUS
    <3>1. i # 0 => f[i - 1] = g[i - 1]
      OBVIOUS
    <3>2. /\ H[i][f] = IF i = 0 THEN b ELSE Write(f[i - 1], s[i])
          /\ H[i][g] = IF i = 0 THEN b ELSE Write(g[i - 1], s[i])
      BY Zenon
    <3>3. QED
      BY <3>1, <3>2, Zenon
  <2> HIDE DEF r, H, D, Buffers
  <2>4. QED
    <3>1. Recursive(D, Buffers, n, r, H)
      BY <2>1, <2>2, <2>3 DEF Recursive
    <3>2. QED
      BY <3>1, Recursion, SMT
<1>4. PICK f \in [D -> Buffers] : \A i \in D : f[i] = H[i][f]
  BY <1>3
<1>5. F(f)
  <2>1. \A i \in 0..n : f[i] = IF i = 0 THEN [offset |-> 0, length |-> 0, inside |-> TRUE]
                               ELSE Write(f[i-1], s[i])
    BY <1>2, <1>4, Zenon
  <2>2. f = [i \in 0..n |-> f[i]]
    OBVIOUS
  <2>3. f = [i \in 0..n |-> IF i = 0 THEN [offset |-> 0, length |-> 0, inside |-> TRUE]
                               ELSE Write(f[i-1], s[i])]
    BY <2>1, <2>2
  <2>4. QED
    BY <1>1, <2>3, Zenon
<1>6. PICK g : F(g) /\ g = CHOOSE h : F(h)
  <2> HIDE DEF F
  <2> QED BY <1>5
<1>7. Written(s) = g[n]
  BY <1>1, <1>6, Zenon DEF Written
<1>8. \A i \in 0..n : g[i] \in Buffers
  <2> DEFINE T == {i \in Nat : i \in 0..n => g[i] \in Buffers}
  <2>0. \A i \in 0..n : g[i] = IF i = 0 THEN b ELSE Write(g[i-1], s[i])
    BY <1>1, <1>2, <1>6
  <2>1. 0 \in T
    BY <2>0
  <2>2. ASSUME NEW i \in Nat, i \in T PROVE i + 1 \in T
    <3> SUFFICES ASSUME i + 1 \in 0..n PROVE g[i + 1] \in Buffers
      OBVIOUS
    <3>1. i \in 0..n /\ i + 1 # 0 /\ (i + 1) - 1 = i /\ s[i + 1] \in Pieces
      BY <1>1
    <3>2. g[i] \in Buffers
      BY <2>2, <3>1
    <3>3. g[i + 1] = Write(g[i], s[i + 1])
      BY <2>0, <3>1
    <3>4. QED
      BY <3>1, <3>2, <3>3, WriteInside, Zenon
  <2>3. Nat \subseteq T
    <3> HIDE DEF T
    <3> QED BY <2>1, <2>2, Induction
  <2>4. QED
    BY <2>3
<1>9. Written(s) \in Buffers
  <2>1. n \in 0..n
    OBVIOUS
  <2>2. QED
    BY <1>7, <1>8, <2>1
<1>10. QED
  BY <1>9 DEF Buffers

\* No tree is printed beyond its buffer.
LEMMA TreeInside ==
  ASSUME NEW root \in Tree[CJSON_NESTING_LIMIT], NEW format \in BOOLEAN
  PROVE  Written(print(root, format)).inside
<1>1. PICK P : Printers(format, P)
  BY PrintersExist
<1>2. CJSON_NESTING_LIMIT \in 0..CJSON_NESTING_LIMIT
  BY NestingLimit DEF NestingLimit
<1>3. print(root, format) \in Seq(Pieces)
  BY <1>1, <1>2, Zenon DEF Printers
<1>4. QED
  BY <1>3, WrittenInside, Zenon

-----------------------------------------------------------------------------
(* Reading a string *)

\* A hexadecimal digit, or none
LEMMA HexRange ==
  ASSUME NEW c PROVE HexValue(c) \in Int /\ -1 <= HexValue(c) /\ HexValue(c) <= 15
  BY DEF HexValue

\* Four hexadecimal digits make a number of 16 bits.
LEMMA Hex4Sum ==
  ASSUME NEW a \in Nat, NEW b \in Nat, NEW c \in Nat, NEW d \in Nat,
         a <= 15, b <= 15, c <= 15, d <= 15
  PROVE  Quad(a, b, c, d) \in Hex4
<1>1. PICK n \in Int : n = Quad(a, b, c, d) /\ n = 4096 * a + 256 * b + 16 * c + d
  BY SMT DEF Quad
<1>2. 0 <= n /\ n <= 65535
  BY <1>1, SMT
<1>3. n \in Hex4
  BY <1>2, SMT DEF Hex4
<1>4. QED
  BY <1>1, <1>3, SMT

\* parse_hex4 gives a number of 16 bits, whatever the text is.
LEMMA Hex4Range == ASSUME NEW t, NEW at PROVE parse_hex4(t, at) \in Hex4
<1>0. 0 \in Hex4
  BY SMT DEF Hex4
<1>1. PICK a, b, c, d \in Int :
        /\ a = HexValue(t[at + 0]) /\ b = HexValue(t[at + 1])
        /\ c = HexValue(t[at + 2]) /\ d = HexValue(t[at + 3])
        /\ a <= 15 /\ b <= 15 /\ c <= 15 /\ d <= 15
  BY HexRange, Zenon
<1>2. parse_hex4(t, at) = IF \E i \in 0..3 : HexValue(t[at + i]) < 0 THEN 0
                          ELSE Quad(a, b, c, d)
  BY <1>1, SMT DEF parse_hex4, Hex4Of, Quad
<1>3. CASE \E i \in 0..3 : HexValue(t[at + i]) < 0
  BY <1>0, <1>2, <1>3, Zenon
<1>4. CASE ~\E i \in 0..3 : HexValue(t[at + i]) < 0
  <2>1. 0 \in 0..3 /\ 1 \in 0..3 /\ 2 \in 0..3 /\ 3 \in 0..3
    BY SMT
  <2>2. ~(a < 0) /\ ~(b < 0) /\ ~(c < 0) /\ ~(d < 0)
    BY <1>1, <1>4, <2>1, Zenon
  <2>3. a \in Nat /\ b \in Nat /\ c \in Nat /\ d \in Nat
    BY <2>2, SMT
  <2>4. Quad(a, b, c, d) \in Hex4
    BY <1>1, <2>3, Hex4Sum, Zenon
  <2>5. QED
    BY <1>2, <1>4, <2>4, Zenon
<1>5. QED
  BY <1>3, <1>4, Zenon

\* The parts of a code point are bytes.
LEMMA Utf8Bytes ==
  ASSUME NEW code \in Nat, code <= 1114111
  PROVE  /\ 128 + ((code \div 1) % 64) \in Octet /\ 128 + ((code \div 64) % 64) \in Octet
         /\ 128 + ((code \div 4096) % 64) \in Octet
         /\ code < 128 => code \in Octet
         /\ code < 2048 => 192 + code \div 64 \in Octet
         /\ code < 65536 => 224 + code \div 4096 \in Octet
         /\ 240 + code \div 262144 \in Octet
BY SMT DEF Octet

\* A code point has up to four bytes in UTF-8, three if it is of 16 bits.
LEMMA Utf8Length ==
  ASSUME NEW code \in Codes
  PROVE  /\ Utf8(code) \in Seq(Octet) /\ Len(Utf8(code)) <= 4
         /\ code \in Hex4 => Len(Utf8(code)) <= 3
<1>5. code \in Nat /\ code <= 1114111
  BY SMT DEF Codes
<1>6. PICK w, x, y, z, u, v : /\ w = 128 + ((code \div 1) % 64) /\ x = 128 + ((code \div 64) % 64)
                              /\ y = 128 + ((code \div 4096) % 64) /\ z = 192 + code \div 64
                              /\ u = 224 + code \div 4096 /\ v = 240 + code \div 262144
  BY SMT
<1>7. /\ w \in Octet /\ x \in Octet /\ y \in Octet /\ v \in Octet
      /\ code < 128 => code \in Octet
      /\ code < 2048 => z \in Octet
      /\ code < 65536 => u \in Octet
  BY <1>5, <1>6, Utf8Bytes, SMT
<1>8. Utf8(code) = IF code < 128 THEN <<code>>
                   ELSE IF code < 2048 THEN <<z, w>>
                   ELSE IF code < 65536 THEN <<u, x, w>> ELSE <<v, y, x, w>>
  BY <1>6, SMT DEF Utf8
<1>9. code \in Hex4 => code < 65536
  BY SMT DEF Hex4
<1>10. QED
  BY <1>7, <1>8, <1>9, SMT

\* An escape of six bytes gives up to three, a pair of twelve up to four.
LEMMA Utf16 ==
  ASSUME NEW t, NEW at \in Nat, NEW end \in Nat, NEW u, u = utf16_literal_to_utf8(t, at, end)
  PROVE  /\ u.out \in Seq(Octet)
         /\ \/ u.length = 0
            \/ u.length = 6 /\ at + 6 <= end /\ Len(u.out) <= 3
            \/ u.length = 12 /\ at + 12 <= end /\ Len(u.out) <= 4
<1>1. PICK f, s \in Hex4 : f = parse_hex4(t, at + 2) /\ s = parse_hex4(t, at + 8)
  BY Hex4Range, Zenon
<1> DEFINE single == end - at >= 6
           paired == end - at >= 12 /\ t[at + 6] = Backslash /\ t[at + 7] = 117
           p == paired /\ s \in 56320..57343
<1>2. p => at + 12 <= end
  BY SMT
<1>s. single => at + 6 <= end
  BY SMT
<1>u. u = CodePoint(f, s, single, paired)
  BY <1>1, Zenon DEF utf16_literal_to_utf8
<1> HIDE DEF single
<1>3. PICK m : m = 65536 + 1024 * (f % 1024) + (s % 1024)
  BY SMT
<1>4. m \in Codes /\ f \in Codes
  BY <1>3, SMT DEF Codes, Hex4
<1>5. PICK a, b : a = Utf8(f) /\ b = Utf8(m)
  BY SMT
<1>6. a \in Seq(Octet) /\ Len(a) <= 3 /\ b \in Seq(Octet) /\ Len(b) <= 4
  BY <1>4, <1>5, Utf8Length, Zenon
<1>7. u = IF ~single \/ f \in 56320..57343 THEN [length |-> 0, out |-> <<>>]
          ELSE IF f \in 55296..56319
          THEN IF p THEN [length |-> 12, out |-> b] ELSE [length |-> 0, out |-> <<>>]
          ELSE [length |-> 6, out |-> a]
  <2> HIDE DEF paired
  <2> QED BY <1>3, <1>5, <1>u, SMT DEF CodePoint
<1> HIDE DEF paired, p
<1>10. <<>> \in Seq(Octet)
  BY SMTT(60)
<1>11. \/ u = [length |-> 0, out |-> <<>>]
       \/ u = [length |-> 12, out |-> b] /\ at + 12 <= end
       \/ u = [length |-> 6, out |-> a] /\ at + 6 <= end
  BY <1>2, <1>7, <1>s, SMT
<1>12. CASE u = [length |-> 0, out |-> <<>>]
  BY <1>10, <1>12, SMT
<1>13. CASE u = [length |-> 12, out |-> b] /\ at + 12 <= end
  BY <1>6, <1>13, SMT
<1>14. CASE u = [length |-> 6, out |-> a] /\ at + 6 <= end
  BY <1>6, <1>14, SMT
<1>15. QED
  BY <1>11, <1>12, <1>13, <1>14, Zenon

\* One step of the second pass passes at least as many bytes as it gives.
LEMMA OneRead ==
  ASSUME NEW t \in Seq(Octet), NEW at \in 1..Len(t), NEW end \in 1..Len(t), at < end,
         NEW u, u = Unescaped(t, at, end)
  PROVE  OneStep(t, at, end, u)
<1> USE DEF OneStep
<1>1. PICK b, c \in Octet : b = t[at] /\ c = t[at + 1]
  <2>1. at + 1 \in 1..Len(t)
    OBVIOUS
  <2>2. QED
    BY <2>1
<1>2. CASE b # Backslash
  <2>1. u = [length |-> 1, out |-> <<b>>]
    BY <1>1, <1>2 DEF Unescaped
  <2> HIDE DEF Octet
  <2>2. QED
    BY <1>1, <1>2, <2>1
<1>3. CASE b = Backslash /\ c = 117
  <2>1. u = utf16_literal_to_utf8(t, at, end)
    BY <1>1, <1>3 DEF Unescaped
  <2>2. at \in Nat /\ end \in Nat
    OBVIOUS
  <2>3. QED
    BY <2>1, <2>2, Utf16, Zenon
<1>4. CASE b = Backslash /\ c # 117
  <2>1. CASE c \in {Quote, Backslash, 47}
    <3>1. u = [length |-> 2, out |-> <<c>>]
      BY <1>1, <1>4, <2>1 DEF Unescaped
    <3> HIDE DEF Octet
    <3>2. QED
      BY <1>1, <1>4, <3>1
  <2>2. CASE c \notin {Quote, Backslash, 47} /\ \E s \in DOMAIN Short : Short[s] = c
    <3>1. PICK s \in DOMAIN Short : s = CHOOSE x \in DOMAIN Short : Short[x] = c
      BY <2>2, Zenon
    <3>2. u = [length |-> 2, out |-> <<s>>]
      BY <1>1, <1>4, <2>2, <3>1, Zenon DEF Unescaped
    <3>3. s \in Octet
      BY DEF Short, Octet
    <3> HIDE DEF Octet
    <3>4. QED
      BY <1>1, <1>4, <3>2, <3>3
  <2>3. CASE c \notin {Quote, Backslash, 47} /\ ~\E s \in DOMAIN Short : Short[s] = c
    <3>1. u = [length |-> 0, out |-> <<>>]
      BY <1>1, <1>4, <2>3, Zenon DEF Unescaped
    <3>2. QED
      BY <3>1
  <2>4. QED
    BY <2>1, <2>2, <2>3
<1>5. QED
  BY <1>2, <1>3, <1>4

\* Two solutions of a recursion along a rank are the same.
LEMMA Same ==
  ASSUME NEW D, NEW N, NEW r, NEW f, NEW g, Alike(D, N, r, f, g)
  PROVE  f = g
<1> USE DEF Alike
<1> DEFINE T == {k \in Nat : \A x \in D : r[x] < k => f[x] = g[x]}
<1>0. \A x \in D : r[x] \in Nat /\ r[x] < N + 1
  <2>1. ASSUME NEW x \in D PROVE r[x] \in Nat /\ r[x] < N + 1
    <3>1. r[x] \in 0..N
      OBVIOUS
    <3>2. QED
      BY <3>1
  <2>2. QED
    BY <2>1
<1>1. 0 \in T
  BY <1>0
<1>2. ASSUME NEW k \in Nat, k \in T PROVE k + 1 \in T
  <2> SUFFICES ASSUME NEW x \in D, r[x] < k + 1 PROVE f[x] = g[x]
    OBVIOUS
  <2>1. ASSUME NEW y \in D, r[y] < r[x] PROVE f[y] = g[y]
    <3>1. r[y] < k
      <4>1. PICK a \in Nat, b \in Nat : a = r[x] /\ b = r[y]
        BY <1>0
      <4>2. a < k + 1 /\ b < a
        BY <2>1, <4>1
      <4>3. b < k
        BY <4>2
      <4>4. QED
        BY <4>1, <4>3
    <3>2. QED
      BY <1>2, <3>1
  <2>2. QED
    BY <2>1
<1>3. Nat \subseteq T
  <2> HIDE DEF T
  <2> QED BY <1>1, <1>2, Induction
<1>4. \A x \in D : f[x] = g[x]
  BY <1>0, <1>3
<1>5. [x \in D |-> f[x]] = [x \in D |-> g[x]]
  BY <1>4
<1>6. QED
  BY <1>5, Zenon

\* The recursive function of StringEnd has its equation.
LEMMA EndsExist ==
  ASSUME NEW X, NEW t \in Seq(X) PROVE \E end : EndsOf(t, end)
<1>1. PICK n \in Nat : n = Len(t)
  OBVIOUS
<1> DEFINE D == 1..(n + 2)
           r == [at \in D |-> (n + 2) - at]
           H == [at \in D |-> [f \in [D -> Ends] |-> EndAt(t, at, f)]]
           F(f) == f = [at \in 1..(Len(t) + 2) |-> EndAt(t, at, f)]
<1>2. Ends # {} /\ n + 2 \in Nat /\ r \in [D -> 0..(n + 2)]
  <2>1. [at |-> 0, skipped |-> 0] \in Ends
    BY DEF Ends
  <2>2. \A at \in D : (n + 2) - at \in 0..(n + 2)
    OBVIOUS
  <2>3. QED
    BY <2>1, <2>2
<1>3. \A at \in D : \A f \in [D -> Ends] : H[at][f] \in Ends
  <2> SUFFICES ASSUME NEW at \in D, NEW f \in [D -> Ends] PROVE EndAt(t, at, f) \in Ends
    BY Zenon
  <2>1. CASE at > n \/ (t[at] = Backslash /\ at = n)
    <3>1. EndAt(t, at, f) = [at |-> 0, skipped |-> 0]
      BY <1>1, <2>1 DEF EndAt
    <3>2. QED
      BY <3>1 DEF Ends
  <2>2. CASE ~(at > n \/ (t[at] = Backslash /\ at = n)) /\ t[at] = Quote
    <3>1. EndAt(t, at, f) = [at |-> at, skipped |-> 0]
      BY <1>1, <2>2 DEF EndAt
    <3>2. at \in Nat
      OBVIOUS
    <3>3. QED
      BY <3>1, <3>2 DEF Ends
  <2>3. CASE ~(at > n \/ (t[at] = Backslash /\ at = n)) /\ t[at] # Quote /\ t[at] = Backslash
    <3>1. EndAt(t, at, f) = [f[at + 2] EXCEPT !.skipped = @ + 1]
      BY <1>1, <2>3 DEF EndAt
    <3>2. at + 2 \in D
      BY <2>3
    <3>3. PICK e \in Ends : e = f[at + 2]
      BY <3>2
    <3>4. [e EXCEPT !.skipped = @ + 1] \in Ends
      BY DEF Ends
    <3>5. QED
      BY <3>1, <3>3, <3>4, Zenon
  <2>4. CASE ~(at > n \/ (t[at] = Backslash /\ at = n)) /\ t[at] # Quote /\ t[at] # Backslash
    <3>1. EndAt(t, at, f) = f[at + 1]
      BY <1>1, <2>4 DEF EndAt
    <3>2. at + 1 \in D
      BY <2>4
    <3>3. QED
      BY <3>1, <3>2
  <2>5. QED
    BY <2>1, <2>2, <2>3, <2>4, Zenon
<1>a. ASSUME NEW at \in D, NEW f, NEW g, \A y \in D : r[y] < r[at] => f[y] = g[y]
      PROVE  EndAt(t, at, f) = EndAt(t, at, g)
  <2>1. ~(at > n) => f[at + 1] = g[at + 1]
    BY <1>a
  <2>2. ~(at > n \/ at = n) => f[at + 2] = g[at + 2]
    BY <1>a
  <2>3. CASE at > n \/ (t[at] = Backslash /\ at = n)
    BY <1>1, <2>3, Zenon DEF EndAt
  <2>4. CASE ~(at > n \/ (t[at] = Backslash /\ at = n))
    <3>1. CASE t[at] = Backslash
      BY <1>1, <2>2, <2>4, <3>1, Zenon DEF EndAt
    <3>2. CASE t[at] # Backslash
      BY <1>1, <2>1, <2>4, <3>2, Zenon DEF EndAt
    <3>3. QED
      BY <3>1, <3>2
  <2>5. QED
    BY <2>3, <2>4, Zenon
<1>4. \A at \in D : \A f, g \in [D -> Ends] :
        (\A y \in D : r[y] < r[at] => f[y] = g[y]) => H[at][f] = H[at][g]
  <2> SUFFICES ASSUME NEW at \in D, NEW f \in [D -> Ends], NEW g \in [D -> Ends],
                      \A y \in D : r[y] < r[at] => f[y] = g[y]
               PROVE  EndAt(t, at, f) = EndAt(t, at, g)
    BY Zenon
  <2> QED BY <1>a, Zenon
<1>5. \E f \in [D -> Ends] : \A at \in D : f[at] = H[at][f]
  <2> HIDE DEF r, H, D
  <2>1. Recursive(D, Ends, n + 2, r, H)
    BY <1>2, <1>3, <1>4 DEF Recursive
  <2>2. QED
    BY <2>1, Recursion, SMT
<1>6. PICK f \in [D -> Ends] : \A at \in D : f[at] = H[at][f]
  BY <1>5
<1>7. \A at \in D : f[at] = EndAt(t, at, f)
  BY <1>6, Zenon
<1>8. F(f)
  <2> HIDE DEF EndAt
  <2>1. f = [at \in D |-> f[at]]
    OBVIOUS
  <2>2. f = [at \in D |-> EndAt(t, at, f)]
    BY <1>7, <2>1
  <2>3. QED
    BY <1>1, <2>2, Zenon
<1>9. PICK g : F(g) /\ g = CHOOSE h : F(h)
  <2> HIDE DEF F
  <2> QED BY <1>8
<1>10. \A from : StringEnd(t, from) = g[from]
  BY <1>9, Zenon DEF StringEnd, EndAt
<1>11. \A at \in D : g[at] = EndAt(t, at, g)
  BY <1>1, <1>9, Zenon
<1>12. g = [at \in D |-> g[at]]
  <2>1. g = [at \in D |-> EndAt(t, at, g)]
    BY <1>1, <1>9, Zenon
  <2> HIDE DEF EndAt
  <2>2. QED
    BY <1>11, <2>1
<1>13. g \in [D -> Ends]
  <2> HIDE DEF r, D, H
  <2>1. \A at \in D : (\A y \in D : r[y] < r[at] => f[y] = g[y]) => f[at] = g[at]
    BY <1>7, <1>11, <1>a, Zenon
  <2>2. f = [at \in D |-> f[at]]
    OBVIOUS
  <2>3. n + 2 \in Nat
    OBVIOUS
  <2>4. Alike(D, n + 2, r, f, g)
    BY <1>2, <1>12, <2>1, <2>2, <2>3, Zenon DEF Alike
  <2>6. f = g
    BY <2>4, Same, Zenon
  <2>7. QED
    BY <2>6
<1>14. EndsOf(t, g)
  BY <1>1, <1>10, <1>11, <1>13, Zenon DEF EndsOf
<1>15. QED
  BY <1>14

\* The end of the bytes that are read
LEMMA NoBytes == [right |-> TRUE, out |-> <<>>] \in Readings /\ [right |-> FALSE, out |-> <<>>] \in Readings
<1>1. <<>> \in Seq(Octet)
  OBVIOUS
<1>2. QED
  BY <1>1 DEF Readings

\* Bytes may be put before those that are read.
LEMMA MoreBytes ==
  ASSUME NEW b \in Readings, NEW o \in Seq(Octet)
  PROVE  [b EXCEPT !.out = o \o @] \in Readings
<1>1. b.out \in Seq(Octet)
  BY DEF Readings
<1>2. o \o b.out \in Seq(Octet)
  BY <1>1, ConcatType, Zenon
<1>3. PICK w \in Seq(Octet) : w = o \o b.out
  BY <1>2
<1>4. [b EXCEPT !.out = w] \in Readings
  BY DEF Readings
<1>5. QED
  BY <1>3, <1>4, Zenon

\* A step of the second pass ends no later than the string.
LEMMA OnePassed ==
  ASSUME NEW t \in Seq(Octet), NEW end \in 1..Len(t), NEW at \in 1..(end + 1), ~(at >= end),
         NEW u, u = Unescaped(t, at, end), u.length # 0
  PROVE  /\ u.out \in Seq(Octet)
         /\ u.length \in Nat /\ u.length > 0 /\ at + u.length \in 1..(end + 1)
<1>1. at \in 1..Len(t) /\ at < end
  OBVIOUS
<1>2. /\ u.out \in Seq(Octet)
      /\ \/ u.length = 1
         \/ u.length = 2
         \/ u.length = 6 /\ at + 6 <= end
         \/ u.length = 12 /\ at + 12 <= end
  <2>1. OneStep(t, at, end, u)
    BY <1>1, OneRead, Zenon
  <2>2. QED
    BY <2>1, Zenon DEF OneStep
<1>3. QED
  BY <1>1, <1>2, SMTT(60)

\* The recursive function of StringBytes has its equation.
LEMMA BytesExist ==
  ASSUME NEW t \in Seq(Octet), NEW end \in 1..Len(t) PROVE \E bytes : BytesOf(t, end, bytes)
<1>1. end \in Nat /\ end + 1 \in Nat
  OBVIOUS
<1> DEFINE D == 1..(end + 1)
           r == [at \in D |-> (end + 1) - at]
           H == [at \in D |-> [f \in [D -> Readings] |-> BytesAt(t, at, end, f)]]
           F(f) == f = [at \in 1..(end + 1) |-> BytesAt(t, at, end, f)]
<1>2. Readings # {} /\ end + 1 \in Nat /\ r \in [D -> 0..(end + 1)]
  <2>1. \A at \in D : (end + 1) - at \in 0..(end + 1)
    OBVIOUS
  <2>2. QED
    BY <1>1, <2>1, NoBytes
<1>3. \A at \in D : \A f \in [D -> Readings] : H[at][f] \in Readings
  <2> SUFFICES ASSUME NEW at \in D, NEW f \in [D -> Readings] PROVE BytesAt(t, at, end, f) \in Readings
    BY Zenon
  <2>1. PICK u : u = Unescaped(t, at, end)
    OBVIOUS
  <2>2. CASE at >= end \/ u.length = 0
    BY <2>1, <2>2, NoBytes, Zenon DEF BytesAt
  <2>3. CASE ~(at >= end) /\ u.length # 0
    <3>1. u.out \in Seq(Octet) /\ at + u.length \in D
      BY <2>1, <2>3, OnePassed
    <3>2. f[at + u.length] \in Readings
      BY <3>1, Zenon
    <3>3. [f[at + u.length] EXCEPT !.out = u.out \o @] \in Readings
      BY <3>1, <3>2, MoreBytes, Zenon
    <3>4. QED
      BY <2>1, <2>3, <3>3, Zenon DEF BytesAt
  <2>4. QED
    BY <2>2, <2>3, Zenon
<1>4. ASSUME NEW at \in D, NEW f, NEW g, \A y \in D : r[y] < r[at] => f[y] = g[y]
      PROVE  BytesAt(t, at, end, f) = BytesAt(t, at, end, g)
  <2>1. PICK u : u = Unescaped(t, at, end)
    OBVIOUS
  <2>2. CASE at >= end \/ u.length = 0
    BY <2>1, <2>2, Zenon DEF BytesAt
  <2>3. CASE ~(at >= end) /\ u.length # 0
    <3>1. PICK k \in Nat : k = u.length /\ k > 0 /\ at + k \in D
      BY <2>1, <2>3, OnePassed
    <3>2. r[at + k] < r[at]
      BY <3>1, SMTT(60)
    <3>3. f[at + k] = g[at + k]
      BY <1>4, <3>1, <3>2
    <3>4. QED
      BY <2>1, <2>3, <3>1, <3>3, Zenon DEF BytesAt
  <2>4. QED
    BY <2>2, <2>3, Zenon
<1>5. \A at \in D : \A f, g \in [D -> Readings] :
        (\A y \in D : r[y] < r[at] => f[y] = g[y]) => H[at][f] = H[at][g]
  <2> SUFFICES ASSUME NEW at \in D, NEW f \in [D -> Readings], NEW g \in [D -> Readings],
                      \A y \in D : r[y] < r[at] => f[y] = g[y]
               PROVE  BytesAt(t, at, end, f) = BytesAt(t, at, end, g)
    BY Zenon
  <2> QED BY <1>4, Zenon
<1>6. \E f \in [D -> Readings] : \A at \in D : f[at] = H[at][f]
  <2> HIDE DEF r, H, D
  <2>1. Recursive(D, Readings, end + 1, r, H)
    BY <1>2, <1>3, <1>5 DEF Recursive
  <2>2. QED
    BY <2>1, Recursion, SMT
<1>7. PICK f \in [D -> Readings] : \A at \in D : f[at] = BytesAt(t, at, end, f)
  <2>1. PICK f \in [D -> Readings] : \A at \in D : f[at] = H[at][f]
    BY <1>6, Zenon
  <2>2. \A at \in D : f[at] = BytesAt(t, at, end, f)
    BY <2>1, Zenon
  <2>3. QED
    BY <2>2, Zenon
<1>8. F(f)
  <2> HIDE DEF BytesAt
  <2>1. f = [at \in D |-> f[at]]
    OBVIOUS
  <2>2. QED
    BY <1>7, <2>1
<1>9. PICK g : F(g) /\ g = CHOOSE h : F(h)
  <2> HIDE DEF F
  <2> QED BY <1>8
<1>10. \A from : StringBytes(t, from, end) = g[from]
  BY <1>9, Zenon DEF StringBytes, BytesAt
<1>11. \A at \in D : g[at] = BytesAt(t, at, end, g)
  BY <1>9, Zenon
<1>12. g = [at \in D |-> g[at]]
  <2> HIDE DEF BytesAt
  <2>2. QED
    BY <1>9, <1>11
<1>13. g \in [D -> Readings]
  <2> HIDE DEF r, D, H
  <2>1. \A at \in D : (\A y \in D : r[y] < r[at] => f[y] = g[y]) => f[at] = g[at]
    BY <1>7, <1>11, <1>4, Zenon
  <2>2. f = [at \in D |-> f[at]]
    OBVIOUS
  <2>4. Alike(D, end + 1, r, f, g)
    BY <1>2, <1>12, <2>1, <2>2, Zenon DEF Alike
  <2>5. f = g
    BY <2>4, Same, Zenon
  <2>6. QED
    BY <2>5
<1>14. BytesOf(t, end, g)
  BY <1>10, <1>11, <1>13, Zenon DEF BytesOf
<1>15. QED
  BY <1>14

-----------------------------------------------------------------------------
(* The room of a string *)

\* The first pass, one step from a place from which the end is found
LEMMA EndFrom ==
  ASSUME NEW X, NEW t \in Seq(X), NEW close, EndsOf(t, close), NEW q \in 1..(Len(t) + 2),
         close[q].at # 0
  PROVE  EndStep(t, close, q)
<1> USE DEF EndStep
<1>1. close[q] = EndAt(t, q, close)
  BY Zenon DEF EndsOf
<1>2. ~(q > Len(t) \/ (t[q] = Backslash /\ q = Len(t)))
  <2>1. [at |-> 0, skipped |-> 0].at = 0
    OBVIOUS
  <2>2. QED
    BY <1>1, <2>1, Zenon DEF EndAt
<1>3. PICK n \in Nat : n = Len(t)
  OBVIOUS
<1>4. q <= n /\ q + 2 \in 1..(n + 2) /\ q + 1 \in 1..(n + 2)
  BY <1>2, <1>3
<1>5. CASE t[q] = Quote
  <2>1. close[q] = [at |-> q, skipped |-> 0]
    BY <1>1, <1>2, <1>5, Zenon DEF EndAt
  <2>2. QED
    BY <1>3, <1>4, <1>5, <2>1
<1>6. CASE t[q] # Quote /\ t[q] = Backslash
  <2>1. close[q] = [close[q + 2] EXCEPT !.skipped = @ + 1]
    BY <1>1, <1>2, <1>6, Zenon DEF EndAt
  <2>2. PICK e \in Ends : e = close[q + 2]
    BY <1>3, <1>4 DEF EndsOf
  <2>3. close[q].at = e.at /\ close[q].skipped = e.skipped + 1
    BY <2>1, <2>2 DEF Ends
  <2>4. QED
    BY <1>3, <1>4, <1>6, <2>2, <2>3
<1>7. CASE t[q] # Quote /\ t[q] # Backslash
  <2>1. close[q] = close[q + 1]
    BY <1>1, <1>2, <1>7, Zenon DEF EndAt
  <2>2. QED
    BY <1>3, <1>4, <1>7, <2>1
<1>8. QED
  BY <1>5, <1>6, <1>7, Zenon

\* One byte that is no backslash is passed, and no escape.
LEMMA NearOne ==
  ASSUME NEW X, NEW t \in Seq(X), NEW close, EndsOf(t, close), NEW end \in 1..Len(t),
         NEW p \in 1..Len(t), p < end, NEW s \in Int, Near(t, close, end, p, s),
         t[p] # Backslash
  PROVE  Near(t, close, end, p + 1, s)
<1>1. PICK q \in {p, p + 1} : /\ q \in 1..(Len(t) + 2) /\ close[q].at = end /\ s <= close[q].skipped
  BY Zenon DEF Near
<1>2. p + 1 \in {p + 1, (p + 1) + 1} /\ end # 0
  OBVIOUS
<1>3. CASE q = p + 1
  BY <1>1, <1>2, <1>3, Zenon DEF Near
<1>4. CASE q = p
  <2>0. p \in 1..(Len(t) + 2) /\ close[p].at # 0
    BY <1>1, <1>2, <1>4, Zenon
  <2>1. /\ t[p] = Quote => close[p].at = p
        /\ t[p] # Quote /\ t[p] # Backslash => p + 1 \in 1..(Len(t) + 2) /\ close[p] = close[p + 1]
    <3>1. EndStep(t, close, p)
      BY <2>0, EndFrom, Zenon
    <3>2. QED
      BY <3>1, Zenon DEF EndStep
  <2>2. p # end
    OBVIOUS
  <2>3. QED
    BY <1>1, <1>2, <1>4, <2>1, <2>2, Zenon DEF Near
<1>5. QED
  BY <1>1, <1>3, <1>4, Zenon

\* Of two bytes at most one is an escape.
LEMMA NearTwo ==
  ASSUME NEW X, NEW t \in Seq(X), NEW close, EndsOf(t, close), NEW end \in 1..Len(t),
         NEW p \in 1..Len(t), p + 2 <= end, NEW s \in Int, Near(t, close, end, p, s)
  PROVE  Near(t, close, end, p + 2, s - 1)
<1>0. PICK n \in Nat : n = Len(t)
  OBVIOUS
<1>1. ASSUME NEW q \in 1..(n + 2), q < end, close[q].at = end, s <= close[q].skipped
      PROVE  \/ /\ q + 2 \in 1..(n + 2) /\ close[q + 2].at = end /\ s - 1 <= close[q + 2].skipped
             \/ /\ q + 1 \in 1..(n + 2) /\ close[q + 1].at = end /\ s <= close[q + 1].skipped
  <2>1. end # 0 /\ q # end
    BY <1>1
  <2>a. q \in 1..(Len(t) + 2) /\ close[q].at # 0
    BY <1>0, <1>1, <2>1, Zenon
  <2>2. /\ t[q] = Quote => close[q].at = q
        /\ t[q] # Quote /\ t[q] = Backslash =>
              /\ q + 2 \in 1..(Len(t) + 2) /\ close[q].at = close[q + 2].at
              /\ close[q].skipped = close[q + 2].skipped + 1
        /\ t[q] # Quote /\ t[q] # Backslash =>
              /\ q + 1 \in 1..(Len(t) + 2) /\ close[q] = close[q + 1]
    <3>1. EndStep(t, close, q)
      BY <2>a, EndFrom, Zenon
    <3>2. QED
      BY <3>1, Zenon DEF EndStep
  <2>3. CASE t[q] = Backslash /\ t[q] # Quote
    <3>1. q + 2 \in 1..(n + 2) /\ close[q + 2].at = end
      BY <1>0, <1>1, <2>2, <2>3, Zenon
    <3>2. PICK e \in Ends : e = close[q + 2]
      BY <1>0, <3>1 DEF EndsOf
    <3>3. PICK k \in Nat : k = e.skipped
      BY DEF Ends
    <3>4. s <= k + 1
      BY <1>1, <2>2, <2>3, <3>2, <3>3, Zenon
    <3>5. s - 1 <= k
      BY <3>4
    <3>6. QED
      BY <3>1, <3>2, <3>3, <3>5, Zenon
  <2>4. CASE t[q] # Backslash \/ t[q] = Quote
    BY <1>0, <1>1, <2>1, <2>2, <2>4, Zenon
  <2>5. QED
    BY <2>3, <2>4, Zenon
<1>2. PICK q \in {p, p + 1} : /\ q \in 1..(n + 2) /\ close[q].at = end /\ s <= close[q].skipped
  BY <1>0, Zenon DEF Near
<1>3. q < end /\ s - 1 \in Int /\ (p + 1) + 1 = p + 2 /\ (p + 1) + 2 = (p + 2) + 1 /\ p + 1 < end
  BY <1>2
<1>4. \E y \in {p + 1, p + 2, (p + 2) + 1} :
        /\ y \in 1..(n + 2) /\ close[y].at = end /\ s - 1 <= close[y].skipped
        /\ y = p + 1 => s <= close[y].skipped
  <2>1. CASE q + 2 \in 1..(n + 2) /\ close[q + 2].at = end /\ s - 1 <= close[q + 2].skipped
    <3>1. PICK y : y = q + 2
      OBVIOUS
    <3>2. y \in {p + 1, p + 2, (p + 2) + 1} /\ y # p + 1
      BY <1>2, <3>1
    <3>3. QED
      BY <2>1, <3>1, <3>2, Zenon
  <2>2. CASE q + 1 \in 1..(n + 2) /\ close[q + 1].at = end /\ s <= close[q + 1].skipped
    <3>1. q + 1 \in {p + 1, p + 2}
      BY <1>2
    <3>2. PICK k \in Nat : k = close[q + 1].skipped
      <4>1. close[q + 1] \in Ends
        BY <1>0, <2>2 DEF EndsOf
      <4>2. QED
        BY <4>1 DEF Ends
    <3>3. s - 1 <= k
      BY <2>2, <3>2
    <3>4. QED
      BY <2>2, <3>1, <3>2, <3>3, Zenon
  <2>3. QED
    BY <1>1, <1>2, <1>3, <2>1, <2>2, Zenon
<1>5. PICK y \in {p + 1, p + 2, (p + 2) + 1} :
        /\ y \in 1..(n + 2) /\ close[y].at = end /\ s - 1 <= close[y].skipped
        /\ y = p + 1 => s <= close[y].skipped
  BY <1>4, Zenon
<1>6. CASE y \in {p + 2, (p + 2) + 1}
  BY <1>0, <1>3, <1>5, <1>6, Zenon DEF Near
<1>7. CASE y = p + 1
  <2>1. \/ /\ y + 2 \in 1..(n + 2) /\ close[y + 2].at = end /\ s - 1 <= close[y + 2].skipped
        \/ /\ y + 1 \in 1..(n + 2) /\ close[y + 1].at = end /\ s <= close[y + 1].skipped
    BY <1>1, <1>3, <1>5, <1>7, Zenon
  <2>2. CASE y + 2 \in 1..(n + 2) /\ close[y + 2].at = end /\ s - 1 <= close[y + 2].skipped
    <3>1. y + 2 = (p + 2) + 1
      BY <1>7
    <3>2. QED
      BY <1>0, <1>3, <2>2, <3>1, Zenon DEF Near
  <2>3. CASE y + 1 \in 1..(n + 2) /\ close[y + 1].at = end /\ s <= close[y + 1].skipped
    <3>1. y + 1 = p + 2
      BY <1>7
    <3>2. PICK k \in Nat : k = close[y + 1].skipped
      <4>1. close[y + 1] \in Ends
        BY <1>0, <2>3 DEF EndsOf
      <4>2. QED
        BY <4>1 DEF Ends
    <3>3. s - 1 <= k
      BY <2>3, <3>2
    <3>4. QED
      BY <1>0, <1>3, <2>3, <3>1, <3>2, <3>3, Zenon DEF Near
  <2>4. QED
    BY <2>1, <2>2, <2>3, Zenon
<1>8. QED
  BY <1>5, <1>6, <1>7, Zenon

\* The end that the first pass finds is a quote that is not before its start.
LEMMA EndPlace ==
  ASSUME NEW X, NEW t \in Seq(X), NEW close, EndsOf(t, close), NEW q \in 1..(Len(t) + 2),
         close[q].at # 0
  PROVE  /\ close[q].at \in q..Len(t) /\ t[close[q].at] = Quote
         /\ close[q].skipped <= close[q].at - q
<1>0. PICK n \in Nat : n = Len(t)
  OBVIOUS
<1> DEFINE Good(y) == /\ close[y].at \in y..n /\ t[close[y].at] = Quote
                      /\ close[y].skipped <= close[y].at - y
           T == {k \in Nat : \A y \in 1..(n + 2) : n + 2 - y < k /\ close[y].at # 0 => Good(y)}
<1>1. 0 \in T
  OBVIOUS
<1>2. ASSUME NEW k \in Nat, k \in T PROVE k + 1 \in T
  <2> SUFFICES ASSUME NEW y \in 1..(n + 2), n + 2 - y < k + 1, close[y].at # 0 PROVE Good(y)
    OBVIOUS
  <2>1. EndStep(t, close, y)
    BY <1>0, EndFrom, Zenon
  <2>2. CASE t[y] = Quote
    <3>1. close[y].at = y /\ y <= n /\ close[y].skipped = 0
      BY <1>0, <2>1, <2>2, Zenon DEF EndStep
    <3>2. y \in y..n /\ 0 <= y - y
      BY <3>1
    <3>3. QED
      BY <2>2, <3>1, <3>2, Zenon
  <2>3. ASSUME NEW z \in 1..(n + 2), z > y, close[y].at = close[z].at,
               z - y <= 2, close[y].skipped = close[z].skipped \/
                 (z - y = 2 /\ close[y].skipped = close[z].skipped + 1)
        PROVE  Good(y)
    <3>1. n + 2 - z < k
      BY <2>3
    <3>2. Good(z)
      BY <1>2, <2>3, <3>1
    <3>3. PICK e \in z..n : e = close[z].at
      BY <3>2
    <3>4. e \in y..n
      BY <2>3
    <3>5. PICK j \in Nat : j = close[z].skipped
      BY <1>0 DEF EndsOf, Ends
    <3>6. j <= e - z
      BY <3>2, <3>3, <3>5, Zenon
    <3>7. close[y].skipped <= e - y
      <4>1. j <= e - y /\ (z - y = 2 => j + 1 <= e - y)
        BY <2>3, <3>6
      <4>2. QED
        BY <2>3, <3>5, <4>1, Zenon
    <3>8. QED
      BY <2>3, <3>2, <3>3, <3>4, <3>7, Zenon
  <2>4. y + 2 > y /\ y + 1 > y /\ (y + 2) - y <= 2 /\ (y + 1) - y <= 2 /\ (y + 2) - y = 2
    OBVIOUS
  <2> HIDE DEF Good
  <2>5. CASE t[y] # Quote /\ t[y] = Backslash
    <3>1. /\ y + 2 \in 1..(n + 2) /\ close[y].at = close[y + 2].at
          /\ close[y].skipped = close[y + 2].skipped + 1
      BY <1>0, <2>1, <2>5, Zenon DEF EndStep
    <3>2. QED
      BY <2>3, <2>4, <3>1, Zenon
  <2>6. CASE t[y] # Quote /\ t[y] # Backslash
    <3>1. y + 1 \in 1..(n + 2) /\ close[y] = close[y + 1]
      BY <1>0, <2>1, <2>6, Zenon DEF EndStep
    <3>2. QED
      BY <2>3, <2>4, <3>1, Zenon
  <2>7. QED
    BY <2>2, <2>5, <2>6, Zenon
<1>3. Nat \subseteq T
  <2> HIDE DEF T
  <2> QED BY <1>1, <1>2, Induction
<1>4. q \in 1..(n + 2) /\ n + 3 \in Nat /\ n + 2 - q < n + 3
  BY <1>0
<1>5. Good(q)
  BY <1>3, <1>4
<1>6. QED
  BY <1>0, <1>5, Zenon

\* Of six bytes at most three are counted as escapes.
LEMMA NearSix ==
  ASSUME NEW X, NEW t, NEW close, NEW end, Found(X, t, close, end),
         NEW p \in 1..Len(t), p + 6 <= end, NEW s \in Int, Near(t, close, end, p, s)
  PROVE  Near(t, close, end, p + 6, s - 3)
<1>1. t \in Seq(X) /\ EndsOf(t, close) /\ end \in 1..Len(t)
  BY Zenon DEF Found
<1>2. PICK n \in Nat : n = Len(t)
  BY <1>1
<1>3. PICK x, y, z, b, c, d : x = p + 2 /\ y = p + 4 /\ z = p + 6 /\ b = s - 1 /\ c = s - 2 /\ d = s - 3
  OBVIOUS
<1>4. /\ x \in 1..n /\ x + 2 <= end /\ b \in Int /\ p + 2 <= end /\ p + 2 = x /\ s - 1 = b
      /\ y \in 1..n /\ y + 2 <= end /\ c \in Int /\ x + 2 = y /\ b - 1 = c
      /\ z = y + 2 /\ d = c - 1
  BY <1>1, <1>2, <1>3
<1>5. Near(t, close, end, x, b)
  BY <1>1, <1>4, NearTwo, Zenon
<1>6. Near(t, close, end, y, c)
  BY <1>1, <1>2, <1>4, <1>5, NearTwo, Zenon
<1>7. Near(t, close, end, z, d)
  BY <1>1, <1>2, <1>4, <1>6, NearTwo, Zenon
<1>8. QED
  BY <1>3, <1>7, Zenon

\* Of twelve bytes at most six are counted as escapes.
LEMMA NearTwelve ==
  ASSUME NEW X, NEW t, NEW close, NEW end, Found(X, t, close, end),
         NEW p \in 1..Len(t), p + 12 <= end, NEW s \in Int, Near(t, close, end, p, s)
  PROVE  Near(t, close, end, p + 12, s - 6)
<1>1. PICK n \in Nat : n = Len(t) /\ end \in 1..n
  BY DEF Found
<1>2. PICK x, z, b, d : x = p + 6 /\ z = p + 12 /\ b = s - 3 /\ d = s - 6
  OBVIOUS
<1>3. /\ x \in 1..n /\ x + 6 <= end /\ b \in Int /\ p + 6 <= end /\ p + 6 = x /\ s - 3 = b
      /\ z = x + 6 /\ d = b - 3
  BY <1>1, <1>2
<1>4. Near(t, close, end, x, b)
  BY <1>3, NearSix, Zenon
<1>5. Near(t, close, end, z, d)
  BY <1>1, <1>3, <1>4, NearSix, Zenon
<1>6. QED
  BY <1>2, <1>5, Zenon

\* A step that gives less than it passes keeps the room of what follows.
LEMMA Shorter ==
  ASSUME NEW p \in Nat, NEW end \in Nat, NEW s \in Int, NEW m \in Nat, NEW l \in Nat, NEW a \in Nat,
         NEW b \in Nat, m <= end + 1 - (p + a) - (s - b), l + b <= a
  PROVE  l + m <= end + 1 - p - s
OBVIOUS

\* What is read from a place on has room.
LEMMA ReadFits ==
  ASSUME NEW t \in Seq(Octet), NEW close, EndsOf(t, close), NEW end \in 1..Len(t),
         NEW bytes, BytesOf(t, end, bytes), NEW p \in 1..end, NEW s \in Int, Near(t, close, end, p, s)
  PROVE  Len(bytes[p].out) <= end + 1 - p - s
<1>0. PICK n \in Nat : n = Len(t) /\ end \in 1..n
  OBVIOUS
<1> DEFINE C(y) == \A x \in Int : Near(t, close, end, y, x) => Len(bytes[y].out) <= end + 1 - y - x
           T == {k \in Nat : \A y \in 1..end : end - y < k => C(y)}
<1>1. 0 \in T
  OBVIOUS
<1>2. ASSUME NEW k \in Nat, k \in T PROVE k + 1 \in T
  <2> SUFFICES ASSUME NEW y \in 1..end, end - y < k + 1, NEW x \in Int, Near(t, close, end, y, x)
               PROVE  Len(bytes[y].out) <= end + 1 - y - x
    OBVIOUS
  <2>1. bytes[y] = BytesAt(t, y, end, bytes)
    <3>1. y \in 1..(end + 1)
      OBVIOUS
    <3>2. QED
      BY <3>1, Zenon DEF BytesOf
  <2>2. Found(Octet, t, close, end)
    BY DEF Found
  <2>3. CASE y >= end
    <3>1. y = end
      BY <2>3
    <3>2. bytes[y].out = <<>>
      <4>1. bytes[y] = [right |-> TRUE, out |-> <<>>]
        BY <2>1, <2>3, Zenon DEF BytesAt
      <4>2. QED
        BY <4>1
    <3>3. PICK q \in {y, y + 1} : q \in 1..(Len(t) + 2) /\ close[q].at = end /\ x <= close[q].skipped
      BY Zenon DEF Near
    <3>4. close[q].at # 0
      BY <3>3
    <3>5. close[q].at \in q..Len(t)
      BY <3>3, <3>4, EndPlace, Zenon
    <3>6. q = end
      BY <1>0, <3>1, <3>3, <3>5
    <3>7. EndStep(t, close, q)
      BY <3>3, <3>4, EndFrom, Zenon
    <3>8. t[q] = Quote
      <4>1. t[close[q].at] = Quote
        BY <3>3, <3>4, EndPlace, ZenonT(60)
      <4>2. QED
        BY <3>3, <3>6, <4>1, Zenon
    <3>9. close[q].skipped = 0
      BY <3>7, <3>8, Zenon DEF EndStep
    <3>10. x <= 0
      BY <3>3, <3>9, Zenon
    <3>11. QED
      BY <3>1, <3>2, <3>10
  <2>4. CASE ~(y >= end)
    <3>0. y \in 1..Len(t) /\ y < end /\ y \in 1..(end + 1)
      BY <2>4
    <3>1. PICK u : u = Unescaped(t, y, end)
      OBVIOUS
    <3>2. CASE u.length = 0
      <4>1. bytes[y] = [right |-> FALSE, out |-> <<>>]
        BY <2>1, <2>4, <3>1, <3>2, Zenon DEF BytesAt
      <4>2. Len(bytes[y].out) = 0
        BY <4>1
      <4>3. PICK q \in {y, y + 1} : q \in 1..(Len(t) + 2) /\ close[q].at = end /\ x <= close[q].skipped
        BY Zenon DEF Near
      <4>4. close[q].at # 0
        BY <4>3
      <4>5. close[q].at \in q..Len(t) /\ close[q].skipped <= close[q].at - q
        BY <4>3, <4>4, EndPlace, Zenon
      <4>6. PICK j \in Nat : j = close[q].skipped
        BY <4>3 DEF EndsOf, Ends
      <4>7. x <= j /\ j <= end - q
        BY <4>3, <4>5, <4>6, Zenon
      <4>8. 0 <= end + 1 - y - x
        BY <4>3, <4>7, SMTT(60)
      <4>9. QED
        BY <4>2, <4>8, Zenon
    <3>3. CASE u.length # 0
      <4>1. bytes[y] = [bytes[y + u.length] EXCEPT !.out = u.out \o @]
        BY <2>1, <2>4, <3>1, <3>3, Zenon DEF BytesAt
      <4>2. OneStep(t, y, end, u)
        BY <3>0, <3>1, OneRead, Zenon
      <4>3. PICK a \in Nat : a = u.length /\ a > 0 /\ y + a \in 1..(end + 1)
        BY <2>4, <3>1, <3>3, OnePassed
      <4>4. bytes[y + a] \in Readings
        BY <4>3, Zenon DEF BytesOf
      <4>5. PICK o \in Seq(Octet), w \in Seq(Octet) : o = u.out /\ w = bytes[y + a].out
        BY <4>2, <4>4 DEF Readings, OneStep
      <4>6. bytes[y].out = o \o w
        BY <4>1, <4>3, <4>4, <4>5 DEF Readings
      <4>7. PICK l \in Nat, m \in Nat : l = Len(o) /\ m = Len(w)
        OBVIOUS
      <4>8. Len(bytes[y].out) = l + m
        BY <4>6, <4>7
      <4>a. PICK c \in Nat : c = y + a
        OBVIOUS
      <4>b. c > y
        BY <4>3, <4>a, SMTT(60)
      <4>c. end - c < k
        BY <4>b
      <4>d. \/ a = 1 /\ t[y] # Backslash /\ l = 1
            \/ a = 2 /\ l = 1
            \/ a = 6 /\ y + 6 <= end /\ l <= 3
            \/ a = 12 /\ y + 12 <= end /\ l <= 4
        BY <4>2, <4>3, <4>5, <4>7, <3>3, Zenon DEF OneStep
      <4> DEFINE G == \E b \in Nat : l + b <= a /\ Near(t, close, end, y + a, x - b)
      <4>e. ASSUME a = 1 /\ t[y] # Backslash /\ l = 1 PROVE y + a <= end /\ G
        <5>1. Near(t, close, end, y + 1, x)
          BY <3>0, <4>e, NearOne, Zenon
        <5>2. x - 0 = x /\ 0 \in Nat /\ l + 0 <= a /\ y + a <= end
          BY <3>0, <4>e
        <5>3. QED
          BY <4>e, <5>1, <5>2, Zenon
      <4>f. ASSUME a = 2 /\ l = 1 /\ y + 2 <= end PROVE y + a <= end /\ G
        <5>1. Near(t, close, end, y + 2, x - 1)
          BY <3>0, <4>f, NearTwo, Zenon
        <5>2. 1 \in Nat /\ l + 1 <= a
          BY <4>f
        <5>3. QED
          BY <4>f, <5>1, <5>2, Zenon
      <4>g. ASSUME a = 6 /\ y + 6 <= end /\ l <= 3 PROVE y + a <= end /\ G
        <5>1. Near(t, close, end, y + 6, x - 3)
          BY <2>2, <3>0, <4>g, NearSix, Zenon
        <5>2. 3 \in Nat /\ l + 3 <= a
          BY <4>g
        <5>3. QED
          BY <4>g, <5>1, <5>2, Zenon
      <4>h. ASSUME a = 12 /\ y + 12 <= end /\ l <= 4 PROVE y + a <= end /\ G
        <5>1. Near(t, close, end, y + 12, x - 6)
          BY <2>2, <3>0, <4>h, NearTwelve, Zenon
        <5>2. 6 \in Nat /\ l + 6 <= a
          BY <4>h
        <5>3. QED
          BY <4>h, <5>1, <5>2, Zenon
      <4>9. \/ y + a <= end /\ G
            \/ a = 2 /\ l = 1 /\ y + a = end + 1
        <5>1. a = 2 => y + 2 <= end \/ y + a = end + 1
          BY <4>3
        <5> HIDE DEF G
        <5>2. QED
          BY <4>d, <4>e, <4>f, <4>g, <4>h, <5>1, Zenon
      <4>10. CASE a = 2 /\ l = 1 /\ y + a = end + 1
        <5>1. bytes[y + a].out = <<>>
          <6>1. c = end + 1 /\ c >= end
            BY <4>a, <4>10
          <6>2. bytes[c] = BytesAt(t, c, end, bytes)
            BY <4>a, <4>3, Zenon DEF BytesOf
          <6>3. bytes[c] = [right |-> TRUE, out |-> <<>>]
            BY <6>1, <6>2, Zenon DEF BytesAt
          <6>4. QED
            BY <4>a, <6>3
        <5>2. m = 0
          BY <4>5, <4>7, <5>1
        <5>3. PICK q \in {y, y + 1} : q \in 1..(Len(t) + 2) /\ close[q].at = end /\ x <= close[q].skipped
          BY Zenon DEF Near
        <5>4. close[q].at # 0
          BY <5>3
        <5>5. close[q].at \in q..Len(t) /\ close[q].skipped <= close[q].at - q
          BY <5>3, <5>4, EndPlace, Zenon
        <5>6. PICK j \in Nat : j = close[q].skipped
          BY <5>3 DEF EndsOf, Ends
        <5>7. x <= j /\ j <= end - q
          BY <5>3, <5>5, <5>6, Zenon
        <5>a. l = 1 /\ y + 2 = end + 1 /\ (q = y \/ q = y + 1)
          BY <4>10
        <5>b. PICK e \in Int : e = end
          OBVIOUS
        <5>c. PICK h \in Int : h = y
          OBVIOUS
        <5>d. h + 2 = e + 1 /\ (q = h \/ q = h + 1) /\ x <= j /\ j <= e - q
          BY <5>7, <5>a, <5>b, <5>c, Zenon
        <5>e. 1 <= e + 1 - h - x
          BY <5>d
        <5>8. l + m <= end + 1 - y - x
          BY <5>2, <5>a, <5>b, <5>c, <5>e
        <5>9. QED
          BY <4>8, <5>8, Zenon
      <4>11. CASE y + a <= end /\ G
        <5>1. PICK b \in Nat : l + b <= a /\ Near(t, close, end, y + a, x - b)
          BY <4>11
        <5>2. PICK v \in Int, z \in 1..end : v = x - b /\ z = y + a
          BY <4>3, <4>11, SMTT(60)
        <5>3. end - z < k
          BY <4>a, <4>c, <5>2, Zenon
        <5>4. C(z)
          BY <1>2, <5>3
        <5>5. Len(bytes[z].out) <= end + 1 - z - v
          BY <5>1, <5>2, <5>4, Zenon
        <5>6. m <= end + 1 - (y + a) - (x - b)
          BY <4>5, <4>7, <5>2, <5>5, Zenon
        <5>7. l + m <= end + 1 - y - x
          BY <5>1, <5>6, Shorter
        <5>8. QED
          BY <4>8, <5>7, Zenon
      <4>12. QED
        BY <4>9, <4>10, <4>11, Zenon
    <3>4. QED
      BY <3>2, <3>3
  <2>5. QED
    BY <2>3, <2>4, Zenon
<1>3. Nat \subseteq T
  <2> HIDE DEF T
  <2> QED BY <1>1, <1>2, Induction
<1>4. end - p < end + 1 /\ end + 1 \in Nat
  OBVIOUS
<1>5. C(p)
  BY <1>3, <1>4
<1>6. QED
  BY <1>5

\* What is read of a string never exceeds what is allocated for it.
LEMMA StringFits ==
  ASSUME NEW t \in Seq(Octet), NEW at \in 1..Len(t), StringEnd(t, at + 1).at > 0
  PROVE  Len(StringBytes(t, at + 1, StringEnd(t, at + 1).at).out) <= Allocated(at, StringEnd(t, at + 1))
<1>0. PICK n \in Nat : n = Len(t)
  OBVIOUS
<1>1. PICK close : EndsOf(t, close)
  BY EndsExist, Zenon
<1>2. PICK p \in 1..(n + 2) : p = at + 1
  BY <1>0
<1>3. StringEnd(t, at + 1) = close[p] /\ close[p] \in Ends
  BY <1>0, <1>1, <1>2, Zenon DEF EndsOf
<1>4. PICK end \in Nat, s \in Nat : end = close[p].at /\ s = close[p].skipped
  BY <1>3 DEF Ends
<1>5. close[p].at # 0
  BY <1>3, <1>4
<1>6. close[p].at \in p..Len(t) /\ s <= close[p].at - p
  BY <1>0, <1>1, <1>4, <1>5, EndPlace, Zenon
<1>7. end \in 1..Len(t) /\ p \in 1..end
  BY <1>0, <1>4, <1>6
<1>8. PICK bytes : BytesOf(t, end, bytes)
  BY <1>7, BytesExist, Zenon
<1>9. StringBytes(t, at + 1, end) = bytes[p]
  BY <1>2, <1>8, Zenon DEF BytesOf
<1>10. Near(t, close, end, p, s)
  <2>1. p \in {p, p + 1} /\ s \in Int /\ s <= s
    OBVIOUS
  <2>2. QED
    BY <1>0, <1>4, <2>1, Zenon DEF Near
<1>11. Len(bytes[p].out) <= end + 1 - p - s
  <2>1. s \in Int
    OBVIOUS
  <2>2. QED
    BY <1>1, <1>7, <1>8, <1>10, <2>1, ReadFits, Zenon
<1>12. Allocated(at, StringEnd(t, at + 1)) = end - at - s
  BY <1>3, <1>4, Zenon DEF Allocated
<1>13. end + 1 - p - s = end - at - s
  BY <1>2
<1>14. QED
  BY <1>3, <1>4, <1>9, <1>11, <1>12, <1>13, Zenon

-----------------------------------------------------------------------------
(* Parsing *)

\* The least number of a set is chosen.
LEMMA Least ==
  ASSUME NEW S, S \subseteq Nat, S # {}
  PROVE  /\ (CHOOSE i \in S : \A j \in S : i <= j) \in S
         /\ \A j \in S : (CHOOSE i \in S : \A k \in S : i <= k) <= j
<1>1. \E i \in S : \A j \in S : i <= j
  BY SmallestOf, Zenon
<1>2. QED
  BY <1>1, Zenon

\* A text ends at its first 0.
LEMMA CStringType ==
  ASSUME NEW s \in Seq(Octet) PROVE CString(s) \in Seq(Byte)
<1> DEFINE Z == {i \in DOMAIN s : s[i] = 0}
<1>0. \A x \in Octet : x # 0 => x \in Byte
  BY DEF Octet, Byte
<1>a. DOMAIN s = 1..Len(s) /\ \A i \in 1..Len(s) : s[i] \in Octet
  OBVIOUS
<1>1. CASE Z = {}
  <2>1. \A i \in 1..Len(s) : s[i] \in Byte
    BY <1>0, <1>a, <1>1, Zenon
  <2>2. s = [i \in 1..Len(s) |-> s[i]]
    OBVIOUS
  <2>3. s \in Seq(Byte)
    BY <2>1, <2>2
  <2>4. QED
    BY <1>1, <2>3 DEF CString
<1>2. CASE Z # {}
  <2>1. PICK m : m = CHOOSE i \in Z : \A j \in Z : i <= j
    OBVIOUS
  <2>2. Z \subseteq Nat
    OBVIOUS
  <2>3. m \in Z /\ \A j \in Z : m <= j
    <3> HIDE DEF Z
    <3> QED BY <1>2, <2>1, <2>2, Least
  <2>4. PICK k \in 0..Len(s) : k = m - 1
    BY <2>3
  <2>5. \A i \in 1..k : s[i] \in Byte
    <3>1. ASSUME NEW i \in 1..k PROVE s[i] \in Octet /\ s[i] # 0
      <4>1. i \in 1..Len(s) /\ ~(m <= i)
        BY <2>3, <2>4
      <4>2. QED
        BY <1>a, <2>3, <4>1
    <3>2. QED
      BY <1>0, <3>1, Zenon
  <2>6. SubSeq(s, 1, k) \in Seq(Byte)
    <3>1. SubSeq(s, 1, k) = [i \in 1..k |-> s[i]]
      BY SMT
    <3>2. k \in Nat
      OBVIOUS
    <3>3. QED
      BY <2>5, <3>1, <3>2
  <2>7. CString(s) = SubSeq(s, 1, k)
    BY <1>2, <2>1, <2>4, Zenon DEF CString
  <2>8. QED
    BY <2>6, <2>7, Zenon
<1>3. QED
  BY <1>1, <1>2

\* Blanks are passed inside the text.
LEMMA Skipped ==
  ASSUME NEW t \in Seq(Octet), NEW at \in 1..Len(t)
  PROVE  Skip(t, at) \in at..Len(t)
<1> DEFINE I == {i \in at..Len(t) : t[i] > 32}
<1>1. CASE I = {}
  BY <1>1 DEF Skip
<1>2. CASE I # {}
  <2>1. I \subseteq Nat
    OBVIOUS
  <2>2. PICK m : m = CHOOSE i \in I : \A j \in I : i <= j
    OBVIOUS
  <2>3. m \in I
    <3> HIDE DEF I
    <3> QED BY <1>2, <2>1, <2>2, Least
  <2>4. Skip(t, at) = m
    BY <1>2, <2>2, Zenon DEF Skip
  <2>5. QED
    BY <2>3, <2>4
<1>3. QED
  BY <1>1, <1>2

\* A text starts at a place with a word if the word occurs there.
LEMMA Starts ==
  ASSUME NEW X, NEW t \in Seq(X), NEW at \in 1..Len(t), NEW w \in Seq(X), w # <<>>
  PROVE  StartsWith(t, at, w) <=> Occurs(t, at, w)
<1>1. PICK n \in Nat, k \in Nat \ {0} : n = Len(t) /\ k = Len(w)
  OBVIOUS
<1>2. PICK s : s = SubSeq(t, at, n)
  OBVIOUS
<1>3. s \in Seq(X) /\ Len(s) = n - at + 1 /\ \A i \in 1..(n - at + 1) : s[i] = t[at + i - 1]
  BY <1>1, <1>2, SMTT(60)
<1>4. StartsWith(t, at, w) <=> k <= Len(s) /\ SubSeq(w, 1, k) = SubSeq(s, 1, k)
  BY <1>1, <1>2, Zenon DEF StartsWith, IsPrefix
<1>5. CASE k <= n - at + 1
  <2>1. SubSeq(w, 1, k) = [i \in 1..k |-> w[i]]
    BY <1>1, SMT
  <2>2. SubSeq(s, 1, k) = [i \in 1..k |-> s[i]]
    BY <1>1, <1>3, <1>5, SMT
  <2>3. \A i \in 1..k : s[i] = t[at + i - 1]
    BY <1>3, <1>5
  <2>4. (SubSeq(w, 1, k) = SubSeq(s, 1, k)) <=> \A i \in 1..k : t[at + i - 1] = w[i]
    BY <2>1, <2>2, <2>3
  <2>5. at + k <= n + 1
    BY <1>5
  <2>6. QED
    BY <1>1, <1>3, <1>4, <1>5, <2>4, <2>5, Zenon DEF Occurs
<1>6. CASE ~(k <= n - at + 1)
  <2>1. ~(at + k <= n + 1)
    BY <1>6
  <2>2. QED
    BY <1>1, <1>3, <1>4, <1>6, <2>1, Zenon DEF Occurs
<1>7. QED
  BY <1>5, <1>6

\* A failure is always allowed.
LEMMA FailGives == ASSUME NEW t, NEW S, NEW at PROVE Gives(t, S, at, Fail)
  BY DEF Gives, Fail

\* A place whose byte is not the final 0 has a next one.
LEMMA Before ==
  ASSUME NEW t, Ended(t), NEW p \in 1..Len(t), t[p] # 0
  PROVE  p + 1 \in 1..Len(t)
<1>1. p # Len(t)
  BY DEF Ended
<1>2. Len(t) \in Nat
  BY DEF Ended
<1>3. QED
  BY <1>1, <1>2

\* A string is parsed to a node, and ends after its beginning.
LEMMA StringGives ==
  ASSUME NEW t, Ended(t), NEW at \in 1..Len(t)
  PROVE  Gives(t, {CreateString(s) : s \in Seq(Byte)}, at, parse_string(t, at))
<1>0. t \in Seq(Octet)
  BY DEF Ended
<1>1. PICK close, bytes : /\ close = StringEnd(t, at + 1) /\ bytes = StringBytes(t, at + 1, close.at)
  OBVIOUS
<1>2. CASE t[at] # Quote \/ close.at = 0 \/ ~bytes.right
  <2>1. parse_string(t, at) = Fail
    BY <1>1, <1>2, Zenon DEF parse_string
  <2>2. QED
    BY <2>1, FailGives, Zenon
<1>3. CASE ~(t[at] # Quote \/ close.at = 0 \/ ~bytes.right)
  <2>1. PICK e : EndsOf(t, e)
    BY <1>0, EndsExist, Zenon
  <2>2. at + 1 \in 1..(Len(t) + 2)
    BY <1>0
  <2>3. close = e[at + 1] /\ e[at + 1].at # 0
    BY <1>1, <1>3, <2>1, Zenon DEF EndsOf
  <2>4. close.at \in (at + 1)..Len(t) /\ t[close.at] = Quote
    BY <1>0, <2>1, <2>2, <2>3, EndPlace, Zenon
  <2>5. PICK p \in 1..Len(t) : p = close.at /\ at + 1 <= p /\ t[p] # 0
    BY <1>0, <2>4 DEF Quote
  <2>6. p + 1 \in 1..Len(t)
    BY <2>5, Before, Zenon
  <2>7. PICK b : BytesOf(t, p, b)
    BY <1>0, <2>5, BytesExist, Zenon
  <2>8. bytes = b[at + 1] /\ b[at + 1] \in Readings
    <3>1. at + 1 \in 1..(p + 1)
      BY <2>5
    <3>2. QED
      BY <1>1, <2>5, <2>7, <3>1, Zenon DEF BytesOf
  <2>9. bytes.out \in Seq(Octet)
    BY <2>8 DEF Readings
  <2>10. CString(bytes.out) \in Seq(Byte)
    BY <2>9, CStringType, Zenon
  <2>11. parse_string(t, at) = [at |-> p + 1, node |-> CreateString(CString(bytes.out))]
    BY <1>1, <1>3, <2>5, Zenon DEF parse_string
  <2>12. p + 1 \in (at + 1)..Len(t)
    BY <2>5, <2>6
  <2>13. [at |-> p + 1, node |-> CreateString(CString(bytes.out))].at = p + 1
         /\ [at |-> p + 1, node |-> CreateString(CString(bytes.out))].node = CreateString(CString(bytes.out))
    OBVIOUS
  <2>14. QED
    BY <2>10, <2>11, <2>12, <2>13, Zenon DEF Gives
<1>4. QED
  BY <1>2, <1>3, Zenon

\* An item of a group is parsed to a child, and ends after its beginning.
LEMMA ItemGives ==
  ASSUME NEW t, Ended(t), NEW S, NEW inside, Inside(t, S, inside), NEW type, NEW at \in 1..Len(t),
         NEW item, item = parse_item(t, at, type, inside), item.at # 0
  PROVE  item.at \in (at + 1)..Len(t) /\ item.kid \in KidsOf(type, S)
<1>0. t \in Seq(Octet) /\ Len(t) \in Nat
  BY DEF Ended
<1>1. PICK start, name : start = Skip(t, at) /\ name = parse_string(t, start)
  OBVIOUS
<1>2. PICK colon : colon = Skip(t, name.at)
  OBVIOUS
<1>3. start \in at..Len(t) /\ start \in 1..Len(t)
  <2>1. start \in at..Len(t)
    BY <1>0, <1>1, Skipped, Zenon
  <2>2. QED
    BY <2>1
<1> DEFINE value == IF type = "array" THEN inside[start]
                    ELSE IF name.at > 0 /\ t[colon] = 58 THEN inside[Skip(t, colon + 1)]
                    ELSE Fail
           key == IF type = "array" THEN NoKey ELSE name.node.str
<1>4. item = [at |-> IF value.at = 0 THEN 0 ELSE Skip(t, value.at), kid |-> [key |-> key, val |-> value.node]]
  <2>1. PICK m : m = MemberValue(t, name, inside)
    OBVIOUS
  <2>2. m = IF name.at > 0 /\ t[colon] = 58 THEN inside[Skip(t, colon + 1)] ELSE Fail
    BY <1>2, <2>1, Zenon DEF MemberValue
  <2>3. item = IF type = "array" THEN ItemOf(t, NoKey, inside[start]) ELSE ItemOf(t, name.node.str, m)
    BY <1>1, <2>1, Zenon DEF parse_item
  <2>4. item = ItemOf(t, key, value)
    <3>1. CASE type = "array"
      BY <2>3, <3>1, Zenon
    <3>2. CASE type # "array"
      BY <2>2, <2>3, <3>2, Zenon
    <3>3. QED
      BY <3>1, <3>2
  <2>5. QED
    BY <2>4, Zenon DEF ItemOf
<1>5. /\ item.at = IF value.at = 0 THEN 0 ELSE Skip(t, value.at)
      /\ item.kid = [key |-> key, val |-> value.node]
  <2> HIDE DEF value, key
  <2> QED BY <1>4
<1>6. value.at # 0 /\ item.at = Skip(t, value.at)
  BY <1>5, Zenon
<1>7. ASSUME value.at \in (at + 1)..Len(t), value.node \in S, key \in KeysOf(type)
      PROVE  item.at \in (at + 1)..Len(t) /\ item.kid \in KidsOf(type, S)
  <2> HIDE DEF value, key
  <2>1. PICK p \in 1..Len(t) : p = value.at /\ p \in (at + 1)..Len(t)
    BY <1>0, <1>7
  <2>2. Skip(t, p) \in p..Len(t)
    BY <1>0, <2>1, Skipped, Zenon
  <2>3. Skip(t, p) \in (at + 1)..Len(t)
    BY <2>1, <2>2
  <2>4. item.kid \in KidsOf(type, S)
    BY <1>5, <1>7 DEF KidsOf
  <2>5. QED
    BY <1>6, <2>1, <2>3, <2>4, Zenon
<1>8. CASE type = "array"
  <2>1. value = inside[start] /\ key = NoKey
    BY <1>8
  <2>2. Gives(t, S, start, value)
    BY <1>3, <2>1, Zenon DEF Inside
  <2>3. value.at \in (start + 1)..Len(t) /\ value.node \in S
    BY <1>6, <2>2, Zenon DEF Gives
  <2>4. key \in KeysOf(type)
    BY <1>8, <2>1 DEF KeysOf
  <2> HIDE DEF value, key
  <2>5. value.at \in (at + 1)..Len(t)
    BY <1>0, <1>3, <2>3
  <2>6. QED
    BY <1>7, <2>3, <2>4, <2>5, Zenon
<1>9. CASE type # "array"
  <2>0. Fail.at = 0
    BY DEF Fail
  <2>1. name.at > 0 /\ t[colon] = 58 /\ value = inside[Skip(t, colon + 1)] /\ key = name.node.str
    BY <1>6, <1>9, <2>0, Zenon
  <2>2. Gives(t, {CreateString(s) : s \in Seq(Byte)}, start, name)
    BY <1>1, <1>3, StringGives, Zenon
  <2>3. name.at # 0
    <3>1. ~(0 > 0)
      OBVIOUS
    <3>2. QED
      BY <2>1, <3>1, Zenon
  <2>4. name.at \in (start + 1)..Len(t) /\ name.node \in {CreateString(s) : s \in Seq(Byte)}
    BY <2>2, <2>3, Zenon DEF Gives
  <2>5. key \in KeysOf(type)
    <3>1. PICK s \in Seq(Byte) : name.node = CreateString(s)
      BY <2>4
    <3>2. CreateString(s).str = s
      BY DEF CreateString, Node
    <3>3. QED
      BY <1>9, <2>1, <3>1, <3>2, Zenon DEF KeysOf
  <2>6. PICK p \in 1..Len(t) : p = name.at /\ at + 1 <= p
    <3> HIDE DEF value, key
    <3> QED BY <1>0, <1>3, <2>4
  <2>7. colon \in p..Len(t)
    BY <1>0, <1>2, <2>6, Skipped, Zenon
  <2>8. PICK q \in 1..Len(t) : q = colon /\ p <= q /\ t[q] # 0
    <3> HIDE DEF value, key
    <3> QED BY <1>0, <2>1, <2>7
  <2>9. q + 1 \in 1..Len(t)
    BY <2>8, Before, Zenon
  <2>10. PICK x : x = Skip(t, colon + 1)
    OBVIOUS
  <2>11. x \in (q + 1)..Len(t)
    BY <1>0, <2>8, <2>9, <2>10, Skipped, Zenon
  <2>12. x \in 1..Len(t) /\ at + 1 <= x
    <3> HIDE DEF value, key
    <3> QED BY <1>0, <2>6, <2>8, <2>11
  <2>13. Gives(t, S, x, value)
    BY <2>1, <2>10, <2>12, Zenon DEF Inside
  <2>14. value.at \in (x + 1)..Len(t) /\ value.node \in S
    BY <1>6, <2>13, Zenon DEF Gives
  <2>15. value.at \in (at + 1)..Len(t)
    <3> HIDE DEF value, key
    <3> QED BY <1>0, <2>12, <2>14
  <2>16. QED
    BY <1>7, <2>5, <2>14, <2>15, Zenon
<1>10. QED
  BY <1>8, <1>9, Zenon

\* What comes before a comma or a bracket
LEMMA ItemBefore ==
  ASSUME NEW t, Ended(t), NEW S, NEW inside, Inside(t, S, inside), NEW type, NEW at \in 1..Len(t),
         NEW item, item = parse_item(t, at, type, inside), item.at > 0,
         t[item.at] = 44 \/ t[item.at] = Close(type)
  PROVE  /\ item.at + 1 \in (at + 2)..Len(t) /\ <<item.kid>> \in Seq(KidsOf(type, S))
         /\ item.at \in 1..Len(t)
<1>0. Len(t) \in Nat
  BY DEF Ended
<1>1. item.at # 0
  <2>1. ~(0 > 0)
    OBVIOUS
  <2>2. QED
    BY <2>1, Zenon
<1>2. item.at \in (at + 1)..Len(t) /\ item.kid \in KidsOf(type, S)
  BY <1>1, ItemGives, Zenon
<1>3. PICK p \in 1..Len(t) : p = item.at /\ at + 1 <= p
  BY <1>0, <1>2
<1>4. t[p] # 0
  BY <1>3 DEF Close
<1>5. p + 1 \in 1..Len(t)
  BY <1>3, <1>4, Before, Zenon
<1>6. p + 1 \in (at + 2)..Len(t)
  BY <1>0, <1>3, <1>5
<1>7. <<item.kid>> \in Seq(KidsOf(type, S))
  <2> DEFINE K == KidsOf(type, S)
  <2>1. item.kid \in K
    BY <1>2
  <2> HIDE DEF K
  <2>2. <<item.kid>> \in Seq(K)
    BY <2>1
  <2>3. QED
    BY <2>2 DEF K
<1>8. QED
  BY <1>3, <1>6, <1>7, Zenon

\* The recursive function of parse_items has its equation.
LEMMA ItemsExist ==
  ASSUME NEW t, Ended(t), NEW S, NEW inside, Inside(t, S, inside), NEW type
  PROVE  \E items : ItemsOf(t, type, inside, S, items)
<1>0. PICK n \in Nat : n = Len(t) /\ DOMAIN t = 1..n
  BY DEF Ended
<1>1. PICK L : L = Lists(t, type, S)
  OBVIOUS
<1> DEFINE D == 1..n
           r == [at \in D |-> n - at]
           H == [at \in D |-> [f \in [D -> L] |-> ItemsAt(t, at, type, inside, f)]]
           F(f) == f = [at \in DOMAIN t |-> ItemsAt(t, at, type, inside, f)]
<1>e. [at |-> 0, kids |-> <<>>] \in L
  <2>1. <<>> \in Seq(KidsOf(type, S)) /\ 0 \in 0..Len(t)
    BY <1>0
  <2>2. QED
    BY <1>1, <2>1 DEF Lists
<1>2. L # {} /\ n \in Nat /\ r \in [D -> 0..n]
  <2>1. \A at \in D : n - at \in 0..n
    OBVIOUS
  <2>2. QED
    BY <1>e, <2>1
<1>3. \A at \in D : \A f \in [D -> L] : H[at][f] \in L
  <2> SUFFICES ASSUME NEW at \in D, NEW f \in [D -> L] PROVE ItemsAt(t, at, type, inside, f) \in L
    BY Zenon
  <2>1. PICK item : item = parse_item(t, at, type, inside)
    OBVIOUS
  <2>2. CASE item.at > 0 /\ t[item.at] = 44
    <3>1. item.at + 1 \in (at + 2)..Len(t) /\ <<item.kid>> \in Seq(KidsOf(type, S))
      BY <1>0, <2>1, <2>2, ItemBefore, Zenon
    <3>2. item.at + 1 \in D
      BY <1>0, <3>1
    <3>3. PICK l \in L : l = f[item.at + 1]
      BY <3>2
    <3>4. l.kids \in Seq(KidsOf(type, S))
      BY <1>1 DEF Lists
    <3>5. <<item.kid>> \o l.kids \in Seq(KidsOf(type, S))
      BY <3>1, <3>4, ConcatType, Zenon
    <3>6. PICK w \in Seq(KidsOf(type, S)) : w = <<item.kid>> \o l.kids
      BY <3>5
    <3>7. [l EXCEPT !.kids = w] \in L
      BY <1>1 DEF Lists
    <3>8. ItemsAt(t, at, type, inside, f) = [f[item.at + 1] EXCEPT !.kids = <<item.kid>> \o @]
      BY <2>1, <2>2, Zenon DEF ItemsAt, AddItem
    <3>9. QED
      BY <3>3, <3>6, <3>7, <3>8, Zenon
  <2>3. CASE ~(item.at > 0 /\ t[item.at] = 44) /\ item.at > 0 /\ t[item.at] = Close(type)
    <3>1. item.at + 1 \in (at + 2)..Len(t) /\ <<item.kid>> \in Seq(KidsOf(type, S))
      BY <1>0, <2>1, <2>3, ItemBefore, Zenon
    <3>2. PICK p, w : p = item.at + 1 /\ w = <<item.kid>>
      OBVIOUS
    <3>3. p \in 0..Len(t)
      BY <1>0, <3>1, <3>2
    <3>4. [at |-> p, kids |-> w] \in L
      BY <1>1, <3>1, <3>2, <3>3 DEF Lists
    <3>5. ItemsAt(t, at, type, inside, f) = [at |-> item.at + 1, kids |-> <<item.kid>>]
      BY <2>1, <2>3, Zenon DEF ItemsAt, AddItem
    <3>6. QED
      BY <3>2, <3>4, <3>5, Zenon
  <2>4. CASE ~(item.at > 0 /\ t[item.at] = 44) /\ ~(item.at > 0 /\ t[item.at] = Close(type))
    BY <1>e, <2>1, <2>4, Zenon DEF ItemsAt, AddItem
  <2>5. QED
    BY <2>2, <2>3, <2>4, Zenon
<1>4. ASSUME NEW at \in D, NEW f, NEW g, \A y \in D : r[y] < r[at] => f[y] = g[y]
      PROVE  ItemsAt(t, at, type, inside, f) = ItemsAt(t, at, type, inside, g)
  <2>1. PICK item : item = parse_item(t, at, type, inside)
    OBVIOUS
  <2>2. CASE item.at > 0 /\ t[item.at] = 44
    <3>1. item.at + 1 \in (at + 2)..Len(t)
      BY <1>0, <2>1, <2>2, ItemBefore, Zenon
    <3>2. PICK q \in D : q = item.at + 1 /\ q > at
      BY <1>0, <3>1
    <3>3. r[q] < r[at]
      BY <3>2
    <3>4. f[q] = g[q]
      BY <1>4, <3>3, Zenon
    <3>5. QED
      BY <2>1, <2>2, <3>2, <3>4, Zenon DEF ItemsAt, AddItem
  <2>3. CASE ~(item.at > 0 /\ t[item.at] = 44)
    BY <2>1, <2>3, Zenon DEF ItemsAt, AddItem
  <2>4. QED
    BY <2>2, <2>3, Zenon
<1>5. \A at \in D : \A f, g \in [D -> L] :
        (\A y \in D : r[y] < r[at] => f[y] = g[y]) => H[at][f] = H[at][g]
  <2> SUFFICES ASSUME NEW at \in D, NEW f \in [D -> L], NEW g \in [D -> L],
                      \A y \in D : r[y] < r[at] => f[y] = g[y]
               PROVE  ItemsAt(t, at, type, inside, f) = ItemsAt(t, at, type, inside, g)
    BY Zenon
  <2> QED BY <1>4, Zenon
<1>6. \E f \in [D -> L] : \A at \in D : f[at] = H[at][f]
  <2> HIDE DEF r, H, D
  <2>1. Recursive(D, L, n, r, H)
    BY <1>2, <1>3, <1>5 DEF Recursive
  <2>2. QED
    BY <2>1, Recursion, SMT
<1>7. PICK f \in [D -> L] : \A at \in D : f[at] = ItemsAt(t, at, type, inside, f)
  <2>1. PICK f \in [D -> L] : \A at \in D : f[at] = H[at][f]
    BY <1>6, Zenon
  <2>2. \A at \in D : f[at] = ItemsAt(t, at, type, inside, f)
    BY <2>1, Zenon
  <2>3. QED
    BY <2>2, Zenon
<1>8. F(f)
  <2> HIDE DEF ItemsAt
  <2>1. f = [at \in D |-> f[at]]
    OBVIOUS
  <2>2. QED
    BY <1>0, <1>7, <2>1
<1>9. PICK g : F(g) /\ g = CHOOSE h : F(h)
  <2> HIDE DEF F
  <2> QED BY <1>8
<1>10. \A from : parse_items(t, from, type, inside) = g[from]
  BY <1>9, Zenon DEF parse_items, ItemsAt
<1>11. \A at \in D : g[at] = ItemsAt(t, at, type, inside, g)
  BY <1>0, <1>9, Zenon
<1>12. g = [at \in D |-> g[at]]
  <2> HIDE DEF ItemsAt
  <2>2. QED
    BY <1>0, <1>9, <1>11
<1>13. g \in [D -> L]
  <2> HIDE DEF r, D, H
  <2>1. \A at \in D : (\A y \in D : r[y] < r[at] => f[y] = g[y]) => f[at] = g[at]
    BY <1>7, <1>11, <1>4, Zenon
  <2>2. f = [at \in D |-> f[at]]
    OBVIOUS
  <2>4. Alike(D, n, r, f, g)
    BY <1>2, <1>12, <2>1, <2>2, Zenon DEF Alike
  <2>5. f = g
    BY <2>4, Same, Zenon
  <2>6. QED
    BY <2>5
<1>14. ItemsOf(t, type, inside, S, g)
  BY <1>0, <1>1, <1>10, <1>11, <1>13, Zenon DEF ItemsOf
<1>15. QED
  BY <1>14

\* The end of a list comes after its beginning.
LEMMA ItemsPlace ==
  ASSUME NEW t, Ended(t), NEW S, NEW inside, Inside(t, S, inside), NEW type,
         NEW items, ItemsOf(t, type, inside, S, items), NEW from \in 1..Len(t), items[from].at # 0
  PROVE  items[from].at \in (from + 1)..Len(t)
<1>0. PICK n \in Nat : n = Len(t)
  BY DEF Ended
<1> DEFINE T == {k \in Nat : \A y \in 1..n : n - y < k /\ items[y].at # 0 => items[y].at \in (y + 1)..n}
<1>1. 0 \in T
  OBVIOUS
<1>2. ASSUME NEW k \in Nat, k \in T PROVE k + 1 \in T
  <2> SUFFICES ASSUME NEW y \in 1..n, n - y < k + 1, items[y].at # 0 PROVE items[y].at \in (y + 1)..n
    OBVIOUS
  <2>1. items[y] = ItemsAt(t, y, type, inside, items)
    BY <1>0, Zenon DEF ItemsOf
  <2>2. PICK item : item = parse_item(t, y, type, inside)
    OBVIOUS
  <2>3. CASE item.at > 0 /\ t[item.at] = 44
    <3>1. item.at + 1 \in (y + 2)..Len(t)
      BY <1>0, <2>2, <2>3, ItemBefore, Zenon
    <3>2. PICK q \in 1..n : q = item.at + 1 /\ y + 2 <= q
      BY <1>0, <3>1
    <3>3. items[y] = [items[q] EXCEPT !.kids = <<item.kid>> \o @]
      BY <2>1, <2>2, <2>3, <3>2, Zenon DEF ItemsAt, AddItem
    <3>4. PICK l : l = items[q] /\ l \in Lists(t, type, S)
      BY <1>0, <3>2, Zenon DEF ItemsOf
    <3>5. items[y].at = l.at
      BY <3>3, <3>4 DEF Lists
    <3>6. n - q < k
      BY <3>2
    <3>7. l.at \in (q + 1)..n
      BY <1>2, <3>4, <3>5, <3>6
    <3>8. PICK e : e = l.at
      OBVIOUS
    <3>9. e \in (y + 1)..n
      BY <3>2, <3>7, <3>8
    <3>10. QED
      BY <3>5, <3>8, <3>9, Zenon
  <2>4. CASE ~(item.at > 0 /\ t[item.at] = 44) /\ item.at > 0 /\ t[item.at] = Close(type)
    <3>1. item.at + 1 \in (y + 2)..Len(t)
      BY <1>0, <2>2, <2>4, ItemBefore, Zenon
    <3>2. PICK q : q = item.at + 1
      OBVIOUS
    <3>3. items[y] = [at |-> q, kids |-> <<item.kid>>]
      BY <2>1, <2>2, <2>4, <3>2, Zenon DEF ItemsAt, AddItem
    <3>4. q \in (y + 1)..n
      BY <1>0, <3>1, <3>2
    <3>5. QED
      BY <3>3, <3>4
  <2>5. CASE ~(item.at > 0 /\ t[item.at] = 44) /\ ~(item.at > 0 /\ t[item.at] = Close(type))
    <3>1. items[y] = [at |-> 0, kids |-> <<>>]
      BY <2>1, <2>2, <2>5, Zenon DEF ItemsAt, AddItem
    <3>2. QED
      BY <3>1
  <2>6. QED
    BY <2>3, <2>4, <2>5, Zenon
<1>3. Nat \subseteq T
  <2> HIDE DEF T
  <2> QED BY <1>1, <1>2, Induction
<1>4. from \in 1..n /\ n + 1 \in Nat /\ n - from < n + 1
  BY <1>0
<1>5. items[from].at \in (from + 1)..n
  BY <1>3, <1>4
<1>6. QED
  BY <1>0, <1>5, Zenon

\* A group of nodes of a level is a node of the level above.
LEMMA GroupOf ==
  ASSUME NEW S, NEW type \in {"array", "object"}, NEW kids \in Seq(KidsOf(type, S))
  PROVE  Node(type, <<>>, kids) \in Groups(S)
<1>1. CASE type = "array"
  BY <1>1 DEF Groups, Node, KidsOf, KeysOf
<1>2. CASE type = "object"
  BY <1>2 DEF Groups, Node, KidsOf, KeysOf
<1>3. QED
  BY <1>1, <1>2

\* A group is parsed to a node, and ends after its beginning.
LEMMA GroupGives ==
  ASSUME NEW t, Ended(t), NEW S, NEW inside, Inside(t, S, inside), NEW type \in {"array", "object"},
         NEW at \in 1..Len(t), t[at] # 0
  PROVE  Gives(t, Groups(S), at, parse_group(t, at, type, inside))
<1>0. t \in Seq(Octet) /\ Len(t) \in Nat
  BY DEF Ended
<1>1. PICK q \in 1..Len(t) : q = at + 1
  BY Before
<1>2. PICK start, items : start = Skip(t, at + 1) /\ items = parse_items(t, at + 1, type, inside)
  OBVIOUS
<1>3. start \in q..Len(t)
  BY <1>0, <1>1, <1>2, Skipped, Zenon
<1>4. CASE t[start] = Close(type)
  <2>1. PICK p \in 1..Len(t) : p = start /\ at + 1 <= p /\ t[p] # 0
    BY <1>0, <1>1, <1>3, <1>4 DEF Close
  <2>2. p + 1 \in 1..Len(t)
    BY <2>1, Before, Zenon
  <2>3. p + 1 \in (at + 1)..Len(t)
    BY <2>1, <2>2
  <2>4. Node(type, <<>>, <<>>) \in Groups(S)
    <3>1. <<>> \in Seq(KidsOf(type, S))
      OBVIOUS
    <3>2. QED
      BY <3>1, GroupOf, Zenon
  <2>5. PICK v : v = [at |-> p + 1, node |-> Node(type, <<>>, <<>>)]
    OBVIOUS
  <2>6. parse_group(t, at, type, inside) = v
    BY <1>2, <1>4, <2>1, <2>5, Zenon DEF parse_group, Group
  <2>7. v.at = p + 1 /\ v.node = Node(type, <<>>, <<>>)
    BY <2>5
  <2>8. QED
    BY <2>3, <2>4, <2>6, <2>7, Zenon DEF Gives
<1>5. CASE t[start] # Close(type) /\ items.at = 0
  <2>1. parse_group(t, at, type, inside) = Fail
    BY <1>2, <1>5, Zenon DEF parse_group, Group
  <2>2. QED
    BY <2>1, FailGives, Zenon
<1>6. CASE t[start] # Close(type) /\ items.at # 0
  <2>1. PICK f : ItemsOf(t, type, inside, S, f)
    BY ItemsExist, Zenon
  <2>2. items = f[q] /\ f[q] \in Lists(t, type, S)
    BY <1>1, <1>2, <2>1, Zenon DEF ItemsOf
  <2>3. items.at \in (q + 1)..Len(t)
    BY <1>6, <2>1, <2>2, ItemsPlace, Zenon
  <2>4. items.kids \in Seq(KidsOf(type, S))
    BY <2>2 DEF Lists
  <2>5. Node(type, <<>>, items.kids) \in Groups(S)
    BY <2>4, GroupOf, Zenon
  <2>6. items.at \in (at + 1)..Len(t)
    BY <1>0, <1>1, <2>3
  <2>7. PICK v : v = [at |-> items.at, node |-> Node(type, <<>>, items.kids)]
    OBVIOUS
  <2>8. parse_group(t, at, type, inside) = v
    BY <1>2, <1>6, <2>7, Zenon DEF parse_group, Group
  <2>9. v.at = items.at /\ v.node = Node(type, <<>>, items.kids)
    BY <2>7
  <2>10. QED
    BY <2>5, <2>6, <2>8, <2>9, Zenon DEF Gives
<1>7. QED
  BY <1>4, <1>5, <1>6, Zenon

-----------------------------------------------------------------------------
(* The cases of a value *)

\* The three words
LEMMA WordsType ==
  /\ Null \in Seq(Octet) /\ False \in Seq(Octet) /\ True \in Seq(Octet)
  /\ Null # <<>> /\ False # <<>> /\ True # <<>>
  /\ Len(Null) = 4 /\ Len(False) = 5 /\ Len(True) = 4
  /\ Null[1] = 110 /\ Null[4] = 108 /\ False[1] = 102 /\ False[5] = 101 /\ True[1] = 116 /\ True[4] = 101
  BY DEF Null, False, True, Octet

\* A word that is not at the end of the text
LEMMA WordBefore ==
  ASSUME NEW t, Ended(t), NEW at \in 1..Len(t), NEW w \in Seq(Octet), w # <<>>, w[Len(w)] # 0,
         StartsWith(t, at, w)
  PROVE  at + Len(w) \in (at + 1)..Len(t) /\ t[at] = w[1]
<1>k. PICK k \in Nat \ {0} : k = Len(w) /\ w[k] # 0
  OBVIOUS
<1>0. PICK n \in Nat : n = Len(t) /\ t \in Seq(Octet) /\ t[n] = 0
  BY DEF Ended
<1>2. Occurs(t, at, w)
  BY <1>0, Starts, Zenon
<1>3. at + k <= n + 1 /\ \A i \in 1..k : t[at + i - 1] = w[i]
  BY <1>0, <1>k, <1>2, Zenon DEF Occurs
<1>4. 1 \in 1..k /\ k \in 1..k /\ at + 1 - 1 = at
  OBVIOUS
<1>5. t[at] = w[1] /\ t[at + k - 1] = w[k]
  BY <1>3, <1>4
<1>6. at + k - 1 # n
  BY <1>0, <1>k, <1>5
<1>7. QED
  BY <1>0, <1>k, <1>3, <1>5, <1>6, SMTT(60)

\* The word null is known by its first byte.
LEMMA NullFirst ==
  ASSUME NEW t, Ended(t), NEW at \in 1..Len(t), StartsWith(t, at, Null)
  PROVE  t[at] = 110 /\ at + 4 \in (at + 1)..Len(t)
<1>1. Null \in Seq(Octet) /\ Null # <<>> /\ Len(Null) = 4 /\ Null[Len(Null)] # 0 /\ Null[1] = 110
  BY WordsType
<1>2. at + Len(Null) \in (at + 1)..Len(t) /\ t[at] = Null[1]
  BY <1>1, WordBefore, ZenonT(60)
<1>3. QED
  BY <1>1, <1>2, Zenon

\* The word false is known by its first byte.
LEMMA FalseFirst ==
  ASSUME NEW t, Ended(t), NEW at \in 1..Len(t), StartsWith(t, at, False)
  PROVE  t[at] = 102 /\ at + 5 \in (at + 1)..Len(t)
<1>1. False \in Seq(Octet) /\ False # <<>> /\ Len(False) = 5 /\ False[Len(False)] # 0 /\ False[1] = 102
  BY WordsType
<1>2. at + Len(False) \in (at + 1)..Len(t) /\ t[at] = False[1]
  BY <1>1, WordBefore, ZenonT(60)
<1>3. QED
  BY <1>1, <1>2, Zenon

\* The word true is known by its first byte.
LEMMA TrueFirst ==
  ASSUME NEW t, Ended(t), NEW at \in 1..Len(t), StartsWith(t, at, True)
  PROVE  t[at] = 116 /\ at + 4 \in (at + 1)..Len(t)
<1>1. True \in Seq(Octet) /\ True # <<>> /\ Len(True) = 4 /\ True[Len(True)] # 0 /\ True[1] = 116
  BY WordsType
<1>2. at + Len(True) \in (at + 1)..Len(t) /\ t[at] = True[1]
  BY <1>1, WordBefore, ZenonT(60)
<1>3. QED
  BY <1>1, <1>2, Zenon

\* parse_value takes the case of the first byte.
LEMMA ValueCases ==
  ASSUME NEW t, Ended(t), NEW at \in 1..Len(t), NEW depth, NEW inside,
         NEW v, v = parse_value(t, at, depth, inside)
  PROVE  ValueCase(t, at, depth, inside, v) /\ ValueIs(t, at, depth, inside, v)
<1> DEFINE A == StartsWith(t, at, Null)
           B == StartsWith(t, at, False)
           C == StartsWith(t, at, True)
           G == t[at] = 91 /\ depth < CJSON_NESTING_LIMIT
           H == t[at] = 123 /\ depth < CJSON_NESTING_LIMIT
<1>1. PICK n, f, u, s, g, h, o :
        /\ n = [at |-> at + 4, node |-> Node("null", <<>>, <<>>)]
        /\ f = [at |-> at + 5, node |-> Node("false", <<>>, <<>>)]
        /\ u = [at |-> at + 4, node |-> Node("true", <<>>, <<>>)]
        /\ s = parse_string(t, at) /\ g = parse_group(t, at, "array", inside)
        /\ h = parse_group(t, at, "object", inside) /\ o = Fail
  OBVIOUS
<1>2. v = CASE A -> n [] B -> f [] C -> u [] t[at] = Quote -> s [] G -> g [] H -> h [] OTHER -> o
  BY <1>1, Zenon DEF parse_value, Null, False, True
<1>3. (A => t[at] = 110) /\ (B => t[at] = 102) /\ (C => t[at] = 116)
  <2>1. A => t[at] = 110
    <3>1. StartsWith(t, at, Null) => t[at] = 110
      <4>1. ASSUME StartsWith(t, at, Null) PROVE t[at] = 110
        BY <4>1, NullFirst
      <4>2. QED
        BY <4>1
    <3>2. QED
      BY <3>1
  <2>2. B => t[at] = 102
    <3>1. StartsWith(t, at, False) => t[at] = 102
      <4>1. ASSUME StartsWith(t, at, False) PROVE t[at] = 102
        BY <4>1, FalseFirst
      <4>2. QED
        BY <4>1
    <3>2. QED
      BY <3>1
  <2>3. C => t[at] = 116
    <3>1. StartsWith(t, at, True) => t[at] = 116
      <4>1. ASSUME StartsWith(t, at, True) PROVE t[at] = 116
        BY <4>1, TrueFirst
      <4>2. QED
        BY <4>1
    <3>2. QED
      BY <3>1
  <2>4. QED
    BY <2>1, <2>2, <2>3
<1>4. /\ A => v = n
      /\ B => v = f
      /\ C => v = u
      /\ t[at] = Quote => v = s
      /\ G => v = g
      /\ H => v = h
      /\ ~A /\ ~B /\ ~C /\ t[at] # Quote /\ ~G /\ ~H => v = o
  <2> HIDE DEF A, B, C
  <2> USE DEF Quote
  <2>1. ASSUME A PROVE v = n
    BY <1>2, <1>3, <2>1
  <2>2. ASSUME B PROVE v = f
    BY <1>2, <1>3, <2>2
  <2>3. ASSUME C PROVE v = u
    BY <1>2, <1>3, <2>3
  <2>4. ASSUME t[at] = Quote PROVE v = s
    BY <1>2, <1>3, <2>4
  <2>5. ASSUME G PROVE v = g
    BY <1>2, <1>3, <2>5
  <2>6. ASSUME H PROVE v = h
    BY <1>2, <1>3, <2>6
  <2>7. ASSUME ~A, ~B, ~C, t[at] # Quote, ~G, ~H PROVE v = o
    BY <1>2, <2>7
  <2>8. QED
    <3> HIDE DEF G, H
    <3> QED BY <2>1, <2>2, <2>3, <2>4, <2>5, <2>6, <2>7, Zenon
<1>5. ValueIs(t, at, depth, inside, v)
  BY <1>1, <1>4, ZenonT(60) DEF A, B, C, G, H, ValueIs
<1>6. ValueCase(t, at, depth, inside, v)
  <2> HIDE DEF A, B, C, G, H
  <2>1. \/ A /\ v = [at |-> at + 4, node |-> Node("null", <<>>, <<>>)]
        \/ B /\ v = [at |-> at + 5, node |-> Node("false", <<>>, <<>>)]
        \/ C /\ v = [at |-> at + 4, node |-> Node("true", <<>>, <<>>)]
        \/ t[at] = Quote /\ v = parse_string(t, at)
        \/ G /\ v = parse_group(t, at, "array", inside)
        \/ H /\ v = parse_group(t, at, "object", inside)
        \/ v = Fail
    BY <1>1, <1>4, Zenon
  <2>2. QED
    BY <2>1 DEF A, B, C, G, H, ValueCase
<1>7. QED
  BY <1>5, <1>6

\* A value of a level is parsed to a node of that level, or fails.
LEMMA ValueGives ==
  ASSUME NEW t, Ended(t), NEW n \in 0..CJSON_NESTING_LIMIT, NEW inside,
         n > 0 => Inside(t, Tree[n - 1], inside), NEW at \in 1..Len(t)
  PROVE  Gives(t, Tree[n], at, parse_value(t, at, CJSON_NESTING_LIMIT - n, inside))
<1>0. PICK N \in Nat \ {0} : N = CJSON_NESTING_LIMIT
  BY NestingLimit DEF NestingLimit
<1>1. PICK d : d = CJSON_NESTING_LIMIT - n
  OBVIOUS
<1>2. PICK v : v = parse_value(t, at, d, inside)
  OBVIOUS
<1>3. Leaves \subseteq Tree[n] /\ (n > 0 => Groups(Tree[n - 1]) \subseteq Tree[n])
  <2>1. CASE n = 0
    BY <2>1, TreeNext
  <2>2. CASE n # 0
    <3>1. n \in 1..CJSON_NESTING_LIMIT
      BY <2>2, <1>0
    <3>2. QED
      BY <3>1, TreeNext
  <2>3. QED
    BY <2>1, <2>2
<1>4. ASSUME NEW w, NEW l \in Leaves, w = [at |-> at + 4, node |-> l] \/ w = [at |-> at + 5, node |-> l],
             w.at \in (at + 1)..Len(t)
      PROVE  Gives(t, Tree[n], at, w)
  <2>1. w.node = l
    BY <1>4
  <2>2. QED
    BY <1>3, <1>4, <2>1 DEF Gives
<1>5. /\ Node("null", <<>>, <<>>) \in Leaves /\ Node("false", <<>>, <<>>) \in Leaves
      /\ Node("true", <<>>, <<>>) \in Leaves
      /\ \A s \in Seq(Byte) : CreateString(s) \in Leaves
  BY DEF Node, CreateString, Leaves
<1>6. CASE StartsWith(t, at, Null) /\ v = [at |-> at + 4, node |-> Node("null", <<>>, <<>>)]
  <2>1. at + 4 \in (at + 1)..Len(t)
    BY <1>6, NullFirst
  <2>2. v.at = at + 4
    BY <1>6
  <2>3. Gives(t, Tree[n], at, v)
    BY <1>4, <1>5, <1>6, <2>1, <2>2, Zenon
  <2>4. QED
    BY <1>1, <1>2, <2>3, Zenon
<1>7. CASE StartsWith(t, at, False) /\ v = [at |-> at + 5, node |-> Node("false", <<>>, <<>>)]
  <2>1. at + 5 \in (at + 1)..Len(t)
    BY <1>7, FalseFirst
  <2>2. v.at = at + 5
    BY <1>7
  <2>3. Gives(t, Tree[n], at, v)
    BY <1>4, <1>5, <1>7, <2>1, <2>2, Zenon
  <2>4. QED
    BY <1>1, <1>2, <2>3, Zenon
<1>8. CASE StartsWith(t, at, True) /\ v = [at |-> at + 4, node |-> Node("true", <<>>, <<>>)]
  <2>1. at + 4 \in (at + 1)..Len(t)
    BY <1>8, TrueFirst
  <2>2. v.at = at + 4
    BY <1>8
  <2>3. Gives(t, Tree[n], at, v)
    BY <1>4, <1>5, <1>8, <2>1, <2>2, Zenon
  <2>4. QED
    BY <1>1, <1>2, <2>3, Zenon
<1>9. CASE t[at] = Quote /\ v = parse_string(t, at)
  <2>1. Gives(t, {CreateString(s) : s \in Seq(Byte)}, at, v)
    BY <1>9, StringGives, Zenon
  <2>2. {CreateString(s) : s \in Seq(Byte)} \subseteq Tree[n]
    BY <1>3, <1>5
  <2>3. Gives(t, Tree[n], at, v)
    BY <2>1, <2>2 DEF Gives
  <2>4. QED
    BY <1>1, <1>2, <2>3, Zenon
<1>10. ASSUME NEW type \in {"array", "object"}, t[at] # 0, d < CJSON_NESTING_LIMIT,
              v = parse_group(t, at, type, inside)
       PROVE  Gives(t, Tree[n], at, v)
  <2>1. n > 0
    BY <1>0, <1>1, <1>10
  <2>2. Gives(t, Groups(Tree[n - 1]), at, v)
    BY <1>10, <2>1, GroupGives, Zenon
  <2>3. Groups(Tree[n - 1]) \subseteq Tree[n]
    BY <1>3, <2>1, Zenon
  <2>4. QED
    BY <2>2, <2>3 DEF Gives
<1>11. CASE t[at] = 91 /\ d < CJSON_NESTING_LIMIT /\ v = parse_group(t, at, "array", inside)
  <2>1. t[at] # 0 /\ "array" \in {"array", "object"}
    BY <1>11
  <2>2. QED
    BY <1>1, <1>2, <1>10, <1>11, <2>1, Zenon
<1>12. CASE t[at] = 123 /\ d < CJSON_NESTING_LIMIT /\ v = parse_group(t, at, "object", inside)
  <2>1. t[at] # 0 /\ "object" \in {"array", "object"}
    BY <1>12
  <2>2. QED
    BY <1>1, <1>2, <1>10, <1>12, <2>1, Zenon
<1>13. CASE v = Fail
  BY <1>1, <1>2, <1>13, FailGives, Zenon
<1>14. ValueCase(t, at, d, inside, v)
  BY <1>2, ValueCases, Zenon
<1>15. QED
  BY <1>6, <1>7, <1>8, <1>9, <1>11, <1>12, <1>13, <1>14, ZenonT(60) DEF ValueCase

\* At the limit nothing deeper is parsed.
LEMMA ParseLevelZero ==
  ASSUME NEW t, NEW f, NEW g PROVE ParseLevel(t, 0, f) = ParseLevel(t, 0, g)
<1>1. PICK N \in Nat : N = CJSON_NESTING_LIMIT
  BY NestingLimit DEF NestingLimit
<1>2. ~(CJSON_NESTING_LIMIT - 0 < CJSON_NESTING_LIMIT)
  BY <1>1
<1>3. \A at \in DOMAIN t : parse_value(t, at, CJSON_NESTING_LIMIT - 0, f) = parse_value(t, at, CJSON_NESTING_LIMIT - 0, g)
  BY <1>2 DEF parse_value
<1>4. QED
  BY <1>3, Zenon DEF ParseLevel

\* The recursive function of parse has its equation, level by level.
LEMMA ParseSteps ==
  ASSUME NEW t
  PROVE  \E P : /\ \A from : parse(t, from) = P[CJSON_NESTING_LIMIT][from]
                /\ \A n \in 0..CJSON_NESTING_LIMIT : P[n] = ParseLevel(t, n, P[n - 1])
<1>1. PICK N \in Nat : N = CJSON_NESTING_LIMIT
  BY NestingLimit DEF NestingLimit
<1> DEFINE B(n, f) == ParseLevel(t, n, f[n - 1])
           D(f) == f = [n \in 0..CJSON_NESTING_LIMIT |-> B(n, f)]
           A(f, k) == f = [n \in 0..N |-> f[n]] /\ \A n \in 0..N : n <= k => f[n] = B(n, f)
           T == {k \in Nat : \E f : A(f, k)}
<1>2. 0 \in T
  <2>1. PICK f : f = [n \in 0..N |-> ParseLevel(t, 0, 0)]
    OBVIOUS
  <2>2. f = [n \in 0..N |-> f[n]]
    BY <2>1
  <2>3. f[0] = B(0, f)
    <3>1. f[0] = ParseLevel(t, 0, 0)
      BY <2>1
    <3>2. QED
      BY <3>1, ParseLevelZero, Zenon
  <2>4. \A n \in 0..N : n <= 0 => n = 0
    OBVIOUS
  <2>5. A(f, 0)
    BY <2>2, <2>3, <2>4, Zenon
  <2>6. QED
    <3> HIDE DEF A
    <3> QED BY <2>5
<1>3. ASSUME NEW k \in Nat, k \in T PROVE k + 1 \in T
  <2>1. PICK f : A(f, k)
    BY <1>3
  <2>2. PICK v : v = B(k + 1, f)
    OBVIOUS
  <2>3. PICK g : g = [n \in 0..N |-> IF n = k + 1 THEN v ELSE f[n]]
    OBVIOUS
  <2>4. g = [n \in 0..N |-> g[n]]
    BY <2>3
  <2>5. ASSUME NEW n \in 0..N, n <= k + 1 PROVE g[n] = B(n, g)
    <3>1. CASE n = 0
      <4>1. g[0] = f[0]
        BY <2>3
      <4>2. f[0] = B(0, f)
        <5>1. 0 \in 0..N /\ 0 <= k
          OBVIOUS
        <5>2. QED
          BY <2>1, <5>1, Zenon
      <4>3. B(0, f) = B(0, g)
        BY ParseLevelZero, Zenon
      <4>4. QED
        BY <3>1, <4>1, <4>2, <4>3, Zenon
    <3>2. CASE n # 0
      <4>1. n - 1 \in 0..N /\ n - 1 # k + 1
        BY <2>5, <3>2
      <4>2. g[n - 1] = f[n - 1]
        BY <2>3, <4>1
      <4>3. B(n, g) = B(n, f)
        BY <4>2, Zenon
      <4>4. CASE n = k + 1
        <5>1. g[n] = v
          BY <2>3, <4>4
        <5>2. QED
          BY <2>2, <4>3, <4>4, <5>1, Zenon
      <4>5. CASE n # k + 1
        <5>1. n <= k /\ g[n] = f[n]
          BY <2>3, <2>5, <4>5
        <5>2. f[n] = B(n, f)
          BY <2>1, <5>1, Zenon
        <5>3. QED
          BY <4>3, <5>1, <5>2, Zenon
      <4>6. QED
        BY <4>4, <4>5
    <3>3. QED
      BY <3>1, <3>2
  <2>6. A(g, k + 1)
    BY <2>4, <2>5, Zenon
  <2>7. QED
    <3> HIDE DEF A
    <3> QED BY <2>6
<1>4. Nat \subseteq T
  <2> HIDE DEF T
  <2> QED BY <1>2, <1>3, Induction
<1>5. PICK f : A(f, N)
  <2> HIDE DEF A
  <2> QED BY <1>4
<1>6. D(f)
  <2>1. \A n \in 0..N : n <= N
    OBVIOUS
  <2>2. \A n \in 0..N : f[n] = B(n, f)
    BY <1>5, <2>1, Zenon
  <2>3. f = [n \in 0..N |-> f[n]]
    BY <1>5, Zenon
  <2> HIDE DEF B
  <2>4. f = [n \in 0..N |-> B(n, f)]
    BY <2>2, <2>3
  <2>5. QED
    BY <1>1, <2>4
<1>7. PICK g : g = (CHOOSE h : D(h)) /\ D(g)
  <2> HIDE DEF D
  <2> QED BY <1>6
<1>8. \A from : parse(t, from) = g[CJSON_NESTING_LIMIT][from]
  <2>1. ASSUME NEW from PROVE parse(t, from) = (CHOOSE h : D(h))[CJSON_NESTING_LIMIT][from]
    BY Zenon DEF parse, ParseLevel
  <2>2. QED
    BY <1>7, <2>1, Zenon
<1>9. \A n \in 0..N : g[n] = ParseLevel(t, n, g[n - 1])
  <2> HIDE DEF B
  <2>1. \A n \in 0..N : g[n] = B(n, g)
    BY <1>1, <1>7
  <2>2. QED
    BY <2>1, Zenon DEF B
<1>10. QED
  BY <1>1, <1>8, <1>9, ZenonT(60)

\* The parsers of all levels, by induction over the levels
LEMMA ParsersExist == ASSUME NEW t, Ended(t) PROVE \E P : Parsers(t, P)
<1>0. PICK N \in Nat : N = CJSON_NESTING_LIMIT
  BY NestingLimit DEF NestingLimit
<1>d. DOMAIN t = 1..Len(t)
  BY DEF Ended
<1>1. PICK P : /\ \A from : parse(t, from) = P[CJSON_NESTING_LIMIT][from]
               /\ \A n \in 0..CJSON_NESTING_LIMIT : P[n] = ParseLevel(t, n, P[n - 1])
  BY ParseSteps, Zenon
<1>2. \A n \in 0..CJSON_NESTING_LIMIT : \A at \in 1..Len(t) :
        P[n][at] = parse_value(t, at, CJSON_NESTING_LIMIT - n, P[n - 1])
  <2> SUFFICES ASSUME NEW n \in 0..CJSON_NESTING_LIMIT, NEW at \in 1..Len(t)
               PROVE  P[n][at] = parse_value(t, at, CJSON_NESTING_LIMIT - n, P[n - 1])
    OBVIOUS
  <2>1. P[n] = ParseLevel(t, n, P[n - 1])
    BY <1>1, Zenon
  <2>2. QED
    BY <1>d, <2>1, Zenon DEF ParseLevel
<1> DEFINE T == {n \in Nat : n \in 0..CJSON_NESTING_LIMIT => Inside(t, Tree[n], P[n])}
<1>3. ASSUME NEW n \in 0..CJSON_NESTING_LIMIT, n > 0 => Inside(t, Tree[n - 1], P[n - 1])
      PROVE  Inside(t, Tree[n], P[n])
  <2>1. ASSUME NEW at \in 1..Len(t) PROVE Gives(t, Tree[n], at, P[n][at])
    <3>1. Gives(t, Tree[n], at, parse_value(t, at, CJSON_NESTING_LIMIT - n, P[n - 1]))
      BY <1>3, ValueGives, Zenon
    <3>2. QED
      BY <1>2, <3>1, Zenon
  <2>2. QED
    BY <2>1, Zenon DEF Inside
<1>4. 0 \in T
  <2>1. 0 \in 0..CJSON_NESTING_LIMIT /\ ~(0 > 0)
    BY <1>0
  <2>2. Inside(t, Tree[0], P[0])
    BY <1>3, <2>1, Zenon
  <2>3. QED
    BY <2>2
<1>5. ASSUME NEW n \in Nat, n \in T PROVE n + 1 \in T
  <2> SUFFICES ASSUME n + 1 \in 0..CJSON_NESTING_LIMIT PROVE Inside(t, Tree[n + 1], P[n + 1])
    OBVIOUS
  <2>1. n \in 0..CJSON_NESTING_LIMIT /\ (n + 1) - 1 = n
    BY <1>0
  <2>2. Inside(t, Tree[n], P[n])
    BY <1>5, <2>1
  <2>3. QED
    BY <1>3, <2>1, <2>2, Zenon
<1>6. Nat \subseteq T
  <2> HIDE DEF T
  <2> QED BY <1>4, <1>5, Induction
<1>7. \A n \in 0..CJSON_NESTING_LIMIT : Inside(t, Tree[n], P[n])
  <2>1. \A n \in 0..CJSON_NESTING_LIMIT : n \in Nat
    OBVIOUS
  <2>2. QED
    BY <1>6, <2>1
<1>8. Parsers(t, P)
  BY <1>1, <1>2, <1>7, Zenon DEF Parsers
<1>9. QED
  BY <1>8

\* The text that is parsed ends with a 0.
LEMMA CTextEnded == ASSUME NEW text \in Seq(Octet) PROVE Ended(CText(text))
<1>1. PICK s \in Seq(Octet) : s = CString(text)
  <2>1. CString(text) \in Seq(Byte)
    BY CStringType
  <2>2. Byte \subseteq Octet
    BY DEF Byte, Octet
  <2>3. Seq(Byte) \subseteq Seq(Octet)
    BY <2>2
  <2>4. QED
    BY <2>1, <2>3
<1>2. 0 \in Octet
  BY DEF Octet
<1> HIDE DEF Octet
<1>3. s \o <<0>> \in Seq(Octet) /\ Len(s \o <<0>>) = Len(s) + 1 /\ (s \o <<0>>)[Len(s) + 1] = 0
  BY <1>2
<1>4. CText(text) = s \o <<0>>
  BY <1>1, Zenon DEF CText
<1>5. PICK t : t = s \o <<0>>
  OBVIOUS
<1>n. PICK n \in Nat : n = Len(s)
  OBVIOUS
<1>6. t \in Seq(Octet) /\ Len(t) = n + 1 /\ t[n + 1] = 0
  BY <1>3, <1>5, <1>n, Zenon
<1>7. Ended(t)
  BY <1>6 DEF Ended
<1>8. QED
  BY <1>4, <1>5, <1>7, Zenon

\* The parser starts inside the text.
LEMMA Started ==
  ASSUME NEW t, Ended(t) PROVE Start(t) \in 1..Len(t)
<1>0. t \in Seq(Octet) /\ Len(t) \in Nat /\ Len(t) > 0
  BY DEF Ended
<1>1. PICK k : k = IF Len(t) >= 5 /\ StartsWith(t, 1, <<239, 187, 191>>) THEN 4 ELSE 1
  OBVIOUS
<1>2. k \in 1..Len(t)
  BY <1>0, <1>1
<1>3. Skip(t, k) \in k..Len(t)
  BY <1>0, <1>2, Skipped, Zenon
<1>4. Skip(t, k) \in 1..Len(t)
  BY <1>0, <1>2, <1>3
<1>5. QED
  BY <1>1, <1>4, Zenon DEF Start

\* What is parsed of any text is a tree of the depth the parser takes.
LEMMA ParsedTree ==
  ASSUME NEW text \in Seq(Octet), Parse(text).at # 0
  PROVE  Parse(text).node \in Tree[CJSON_NESTING_LIMIT]
<1>1. PICK t : t = CText(text)
  OBVIOUS
<1>2. Ended(t)
  BY <1>1, CTextEnded, Zenon
<1>3. Parse(text) = parse(t, Start(t))
  BY <1>1, Zenon DEF Parse, CText, Start
<1>4. PICK P : Parsers(t, P)
  BY <1>2, ParsersExist, Zenon
<1>5. CJSON_NESTING_LIMIT \in 0..CJSON_NESTING_LIMIT
  BY NestingLimit DEF NestingLimit
<1>6. Gives(t, Tree[CJSON_NESTING_LIMIT], Start(t), Parse(text))
  <2>1. Start(t) \in 1..Len(t)
    BY <1>2, Started, Zenon
  <2>2. Inside(t, Tree[CJSON_NESTING_LIMIT], P[CJSON_NESTING_LIMIT])
    BY <1>4, <1>5, Zenon DEF Parsers
  <2>3. Parse(text) = P[CJSON_NESTING_LIMIT][Start(t)]
    BY <1>3, <1>4, Zenon DEF Parsers
  <2>4. QED
    BY <2>1, <2>2, <2>3, Zenon DEF Inside
<1>7. QED
  BY <1>6, Zenon DEF Gives

-----------------------------------------------------------------------------
(* The tree of a message *)

\* Sequences over a larger set
LEMMA SeqGrows == ASSUME NEW A, NEW B, A \subseteq B PROVE Seq(A) \subseteq Seq(B)
OBVIOUS

\* A tree is one of the next level too.
LEMMA TreeGrows ==
  ASSUME NEW n \in 0..CJSON_NESTING_LIMIT, n + 1 <= CJSON_NESTING_LIMIT
  PROVE  Tree[n] \subseteq Tree[n + 1]
<1>0. PICK N \in Nat : N = CJSON_NESTING_LIMIT
  BY NestingLimit DEF NestingLimit
<1>g. ASSUME NEW S, NEW U, S \subseteq U PROVE Groups(S) \subseteq Groups(U)
  <2>1. [key : {NoKey}, val : S] \subseteq [key : {NoKey}, val : U]
    BY <1>g
  <2>2. [key : Seq(Byte), val : S] \subseteq [key : Seq(Byte), val : U]
    BY <1>g
  <2>3. Seq([key : {NoKey}, val : S]) \subseteq Seq([key : {NoKey}, val : U])
    BY <2>1, SeqGrows, Zenon
  <2>4. Seq([key : Seq(Byte), val : S]) \subseteq Seq([key : Seq(Byte), val : U])
    BY <2>2, SeqGrows, Zenon
  <2>5. QED
    BY <2>3, <2>4 DEF Groups
<1> DEFINE T == {k \in Nat : k + 1 <= N => Tree[k] \subseteq Tree[k + 1]}
<1>1. 0 \in T
  <2> SUFFICES ASSUME 0 + 1 <= N PROVE Tree[0] \subseteq Tree[0 + 1]
    OBVIOUS
  <2>1. 0 + 1 \in 1..CJSON_NESTING_LIMIT
    BY <1>0
  <2>2. QED
    BY <2>1, TreeNext, Zenon
<1>2. ASSUME NEW k \in Nat, k \in T PROVE k + 1 \in T
  <2> SUFFICES ASSUME (k + 1) + 1 <= N PROVE Tree[k + 1] \subseteq Tree[(k + 1) + 1]
    OBVIOUS
  <2>1. /\ k + 1 \in 1..CJSON_NESTING_LIMIT /\ (k + 1) - 1 = k
        /\ (k + 1) + 1 \in 1..CJSON_NESTING_LIMIT /\ ((k + 1) + 1) - 1 = k + 1
    BY <1>0
  <2>2. Tree[k] \subseteq Tree[k + 1]
    BY <1>0, <1>2, <2>1
  <2>3. Groups(Tree[k]) \subseteq Groups(Tree[k + 1])
    BY <1>g, <2>2, Zenon
  <2>4. Tree[k + 1] = Leaves \cup Groups(Tree[k])
    BY <2>1, TreeNext, Zenon
  <2>5. Tree[(k + 1) + 1] = Leaves \cup Groups(Tree[k + 1])
    BY <2>1, TreeNext, Zenon
  <2>6. QED
    BY <2>3, <2>4, <2>5, Zenon
<1>3. Nat \subseteq T
  <2> HIDE DEF T
  <2> QED BY <1>1, <1>2, Induction
<1>4. QED
  BY <1>0, <1>3

\* A tree of one level is a tree.
LEMMA TreesDeep == Tree[1] \subseteq Tree[CJSON_NESTING_LIMIT]
<1>0. PICK N \in Nat \ {0} : N = CJSON_NESTING_LIMIT
  BY NestingLimit DEF NestingLimit
<1> DEFINE T == {k \in Nat : k + 1 <= N => Tree[1] \subseteq Tree[k + 1]}
<1>1. 0 \in T
  OBVIOUS
<1>2. ASSUME NEW k \in Nat, k \in T PROVE k + 1 \in T
  <2> SUFFICES ASSUME (k + 1) + 1 <= N PROVE Tree[1] \subseteq Tree[(k + 1) + 1]
    OBVIOUS
  <2>1. k + 1 \in 0..CJSON_NESTING_LIMIT /\ (k + 1) + 1 <= CJSON_NESTING_LIMIT /\ k + 1 <= N
    BY <1>0
  <2>2. Tree[1] \subseteq Tree[k + 1]
    BY <1>2, <2>1
  <2>3. Tree[k + 1] \subseteq Tree[(k + 1) + 1]
    BY <2>1, TreeGrows, Zenon
  <2>4. QED
    BY <2>2, <2>3, Zenon
<1>3. Nat \subseteq T
  <2> HIDE DEF T
  <2> QED BY <1>1, <1>2, Induction
<1>4. N - 1 \in T /\ (N - 1) + 1 = N /\ (N - 1) + 1 <= N
  BY <1>3
<1>5. Tree[1] \subseteq Tree[(N - 1) + 1]
  BY <1>4
<1>6. QED
  BY <1>0, <1>4, <1>5, Zenon

\* One child added to none
LEMMA AppendOne == ASSUME NEW a PROVE Append(<<>>, a) = <<a>>
OBVIOUS

\* A second child
LEMMA AppendTwo == ASSUME NEW a, NEW b PROVE Append(<<a>>, b) = <<a, b>>
<1>1. PICK s : s = Append(<<a>>, b)
  OBVIOUS
<1>2. Len(s) = 2 /\ s[1] = a /\ s[2] = b /\ DOMAIN s = 1..2
  BY <1>1
<1>3. s = [i \in 1..2 |-> s[i]]
  BY <1>1
<1>4. s = <<a, b>>
  BY <1>2, <1>3
<1>5. QED
  BY <1>1, <1>4

\* A third child
LEMMA AppendThree == ASSUME NEW a, NEW b, NEW c PROVE Append(<<a, b>>, c) = <<a, b, c>>
<1>1. PICK s : s = Append(<<a, b>>, c)
  OBVIOUS
<1>2. Len(s) = 3 /\ s[1] = a /\ s[2] = b /\ s[3] = c /\ DOMAIN s = 1..3
  BY <1>1
<1>3. s = [i \in 1..3 |-> s[i]]
  BY <1>1
<1>4. s = <<a, b, c>>
  BY <1>2, <1>3
<1>5. QED
  BY <1>1, <1>4

\* A message is an object of its three fields, and so a tree.
LEMMA MessageKids ==
  ASSUME NEW fields \in [1..3 -> Seq(Byte)]
  PROVE  /\ Message(fields) = Node("object", <<>>, <<Field(fields, 1), Field(fields, 2), Field(fields, 3)>>)
         /\ \A i \in 1..3 : Field(fields, i) \in [key : Seq(Byte), val : Tree[0]]
         /\ Message(fields) \in Tree[1]
<1>1. PICK a, b, c : a = Field(fields, 1) /\ b = Field(fields, 2) /\ c = Field(fields, 3)
  OBVIOUS
<1>2. Append(<<>>, a) = <<a>> /\ Append(<<a>>, b) = <<a, b>> /\ Append(<<a, b>>, c) = <<a, b, c>>
  BY AppendOne, AppendTwo, AppendThree, Zenon
<1>3. Message(fields) = Node("object", <<>>, <<a, b, c>>)
  <2> DEFINE With(root, x) == [root EXCEPT !.kids = Append(@, x)]
  <2>1. \A k, x : With(Node("object", <<>>, k), x) = Node("object", <<>>, Append(k, x))
    <3> SUFFICES ASSUME NEW k, NEW x PROVE With(Node("object", <<>>, k), x) = Node("object", <<>>, Append(k, x))
      BY Zenon
    <3>1. PICK y : y = Append(k, x)
      OBVIOUS
    <3>2. Node("object", <<>>, k).kids = k
      BY DEF Node
    <3>3. [Node("object", <<>>, k) EXCEPT !.kids = y] = Node("object", <<>>, y)
      BY DEF Node
    <3>4. QED
      BY <3>1, <3>2, <3>3, Zenon
  <2>2. Message(fields) = With(With(With(Node("object", <<>>, <<>>), a), b), c)
    BY <1>1, Zenon DEF Message, AddItemToObject, CreateObject, Field
  <2> HIDE DEF With
  <2>3. With(Node("object", <<>>, <<>>), a) = Node("object", <<>>, <<a>>)
    BY <1>2, <2>1, Zenon
  <2>4. With(Node("object", <<>>, <<a>>), b) = Node("object", <<>>, <<a, b>>)
    BY <1>2, <2>1, Zenon
  <2>5. With(Node("object", <<>>, <<a, b>>), c) = Node("object", <<>>, <<a, b, c>>)
    BY <1>2, <2>1, Zenon
  <2>6. QED
    BY <2>2, <2>3, <2>4, <2>5, Zenon
<1>4. \A i \in 1..3 : Field(fields, i) \in [key : Seq(Byte), val : Tree[0]]
  <2> SUFFICES ASSUME NEW i \in 1..3 PROVE Field(fields, i) \in [key : Seq(Byte), val : Tree[0]]
    OBVIOUS
  <2>1. Keys[i] \in Seq(Byte) /\ fields[i] \in Seq(Byte)
    BY ThreeKeys DEF ThreeKeys
  <2>2. CreateString(fields[i]) \in Tree[0]
    <3>1. CreateString(fields[i]) \in Leaves
      BY <2>1 DEF CreateString, Node, Leaves
    <3>2. QED
      BY <3>1, TreeNext, Zenon
  <2>3. QED
    BY <2>1, <2>2 DEF Field
<1>5. Message(fields) \in Tree[1]
  <2>1. PICK K : K = [key : Seq(Byte), val : Tree[0]]
    OBVIOUS
  <2>2. 1 \in 1..3 /\ 2 \in 1..3 /\ 3 \in 1..3
    OBVIOUS
  <2>3. a \in K /\ b \in K /\ c \in K
    BY <1>1, <1>4, <2>1, <2>2, Zenon
  <2>4. <<a, b, c>> \in Seq(K)
    BY <2>3
  <2>5. KidsOf("object", Tree[0]) = K
    BY <2>1 DEF KidsOf, KeysOf
  <2>6. Message(fields) \in Groups(Tree[0])
    <3>1. "object" \in {"array", "object"}
      OBVIOUS
    <3>2. QED
      BY <1>3, <2>4, <2>5, <3>1, GroupOf, Zenon
  <2>7. 1 \in 1..CJSON_NESTING_LIMIT /\ 1 - 1 = 0
    BY NestingLimit DEF NestingLimit
  <2>8. QED
    BY <2>6, <2>7, TreeNext, Zenon
<1>6. QED
  BY <1>1, <1>3, <1>4, <1>5, Zenon

\* BuffersKept for texts of any length and trees of any depth the parser takes: what print_value asks for, place
\* by place, is enough for what it writes, for every message and for whatever was read from any text; and
\* parse_string allocates enough for every string of any text, where each escape it counts saves one byte.
\* Numbers are not modelled, so the texts are those in which cJSON finds none.
THEOREM BuffersCorrect ==
  ASSUME kind = "message" => input \in [1..3 -> Seq(Byte)],
         kind = "text" => input \in Seq(Seq(Octet))
  PROVE  BuffersKept
<1> DEFINE t == FlattenSeq(input) \o <<0>>
<1>1. ASSUME kind = "message", NEW format \in BOOLEAN
      PROVE  Written(print(Message(input), format)).inside
  <2>1. Message(input) \in Tree[1]
    BY <1>1, MessageKids, Zenon
  <2>2. Message(input) \in Tree[CJSON_NESTING_LIMIT]
    BY <2>1, TreesDeep, Zenon
  <2>3. QED
    BY <2>2, TreeInside, Zenon
<1>2. ASSUME kind = "text" PROVE FlattenSeq(input) \in Seq(Octet)
  BY <1>2, FlattenType, Zenon
<1>3. ASSUME kind = "text", Parse(FlattenSeq(input)).at > 0, NEW format \in BOOLEAN
      PROVE  Written(print(Parse(FlattenSeq(input)).node, format)).inside
  <2>1. Parse(FlattenSeq(input)).at # 0
    <3>1. ~(0 > 0)
      OBVIOUS
    <3>2. QED
      BY <1>3, <3>1, Zenon
  <2>2. Parse(FlattenSeq(input)).node \in Tree[CJSON_NESTING_LIMIT]
    BY <1>2, <1>3, <2>1, ParsedTree, Zenon
  <2>3. QED
    BY <2>2, TreeInside, Zenon
<1>4. ASSUME kind = "text", NEW at \in DOMAIN t, t[at] = Quote, StringEnd(t, at + 1).at > 0
      PROVE  Len(StringBytes(t, at + 1, StringEnd(t, at + 1).at).out)
               <= Allocated(at, StringEnd(t, at + 1))
  <2>1. PICK s \in Seq(Octet) : s = FlattenSeq(input)
    BY <1>2, <1>4, Zenon
  <2>2. 0 \in Octet
    BY DEF Octet
  <2>3. s \o <<0>> \in Seq(Octet)
    <3> HIDE DEF Octet
    <3> QED BY <2>2
  <2>4. t \in Seq(Octet)
    BY <2>1, <2>3, Zenon
  <2> HIDE DEF t
  <2>5. DOMAIN t = 1..Len(t)
    BY <2>4
  <2>6. at \in 1..Len(t)
    BY <1>4, <2>5, Zenon
  <2>7. QED
    BY <1>4, <2>4, <2>6, StringFits, Zenon
<1> HIDE DEF t
<1>5. kind = "text" =>
        \A at \in DOMAIN t :
          t[at] = Quote /\ StringEnd(t, at + 1).at > 0 =>
            Len(StringBytes(t, at + 1, StringEnd(t, at + 1).at).out)
              <= Allocated(at, StringEnd(t, at + 1))
  BY <1>4, Zenon
<1>6. QED
  BY <1>1, <1>3, <1>5, Zenon DEF BuffersKept, t

-----------------------------------------------------------------------------
(* A printed string is read as it was *)

\* The places of two bytes
LEMMA OccursTwo ==
  ASSUME NEW X, NEW t \in Seq(X), NEW at \in Nat \ {0}, NEW w, Len(w) = 2, Occurs(t, at, w)
  PROVE  t[at] = w[1] /\ t[at + 1] = w[2] /\ at + 2 <= Len(t) + 1
<1>1. /\ at + 2 <= Len(t) + 1
      /\ \A i \in 1..2 : t[at + i - 1] = w[i]
  BY Zenon DEF Occurs
<1>2. at + 1 - 1 = at /\ at + 2 - 1 = at + 1 /\ 1 \in 1..2 /\ 2 \in 1..2
  OBVIOUS
<1>3. QED
  BY <1>1, <1>2, Zenon

\* The places of six bytes
LEMMA OccursSix ==
  ASSUME NEW X, NEW t \in Seq(X), NEW at \in Nat \ {0}, NEW w, Len(w) = 6, Occurs(t, at, w)
  PROVE  /\ t[at] = w[1] /\ t[at + 1] = w[2] /\ t[at + 2] = w[3] /\ t[at + 3] = w[4]
         /\ t[at + 4] = w[5] /\ t[at + 5] = w[6] /\ at + 6 <= Len(t) + 1
<1>1. /\ at + 6 <= Len(t) + 1
      /\ \A i \in 1..6 : t[at + i - 1] = w[i]
  BY Zenon DEF Occurs
<1>2. /\ at + 1 - 1 = at /\ at + 2 - 1 = at + 1 /\ at + 3 - 1 = at + 2 /\ at + 4 - 1 = at + 3
      /\ at + 5 - 1 = at + 4 /\ at + 6 - 1 = at + 5
  OBVIOUS
<1>3. 1 \in 1..6 /\ 2 \in 1..6 /\ 3 \in 1..6 /\ 4 \in 1..6 /\ 5 \in 1..6 /\ 6 \in 1..6
  OBVIOUS
<1>4. QED
  BY <1>1, <1>2, <1>3, Zenon

\* The seven escapes of two bytes
LEMMA ShortPairs ==
  /\ DOMAIN Short = {8, 12, 10, 13, 9, 34, 92}
  /\ Short[8] = 98 /\ Short[12] = 102 /\ Short[10] = 110 /\ Short[13] = 114
  /\ Short[9] = 116 /\ Short[34] = 34 /\ Short[92] = 92
BY DEF Short

\* The short escapes are told apart by their second byte, which is never u.
LEMMA ShortOne ==
  ASSUME NEW c \in DOMAIN Short
  PROVE  /\ Short[c] \in Byte /\ Short[c] # 117
         /\ Short[c] \in {Quote, Backslash, 47} => Short[c] = c
         /\ \A s \in DOMAIN Short : Short[s] = Short[c] => s = c
<1>1. c \in {8, 12, 10, 13, 9, 34, 92}
  BY ShortPairs
<1>2. QED
  BY <1>1, ShortPairs DEF Byte, Quote, Backslash

\* The two hexadecimal digits of a control byte
LEMMA ControlDigits ==
  ASSUME NEW c \in Nat, c < 32
  PROVE  \E x, y \in Nat : x = c \div 16 /\ y = c % 16 /\ x <= 1 /\ y <= 15 /\ c = 16 * x + y
<1>1. PICK x \in Int : x = c \div 16
  BY SMT
<1>2. PICK y \in Int : y = c % 16
  BY SMT
<1>3. 0 <= y /\ y < 16
  BY <1>2, SMT
<1>4. c = 16 * x + y
  BY <1>1, <1>2, SMT
<1>5. 0 <= x /\ x <= 1
  BY <1>3, <1>4, SMT
<1>6. x \in Nat /\ y \in Nat /\ y <= 15
  BY <1>3, <1>5, SMT
<1>7. QED
  BY <1>1, <1>2, <1>4, <1>5, <1>6, SMT

\* A hexadecimal digit is read back, and is neither a quote nor a backslash.
LEMMA HexValues ==
  ASSUME NEW n \in Nat, n <= 15
  PROVE  /\ HexValue(HexDigit(n)) = n /\ HexDigit(n) \in Nat
         /\ HexDigit(n) # 34 /\ HexDigit(n) # 92
<1>1. CASE n < 10
  <2>1. PICK h : h = HexDigit(n)
    OBVIOUS
  <2>2. h = 48 + n
    BY <1>1, <2>1 DEF HexDigit
  <2>3. h \in 48..57 /\ h - 48 = n /\ h \in Nat /\ h # 34 /\ h # 92
    BY <1>1, <2>2
  <2>4. HexValue(h) = h - 48
    BY <2>3 DEF HexValue
  <2>5. QED
    BY <2>1, <2>3, <2>4, Zenon
<1>2. CASE ~(n < 10)
  <2>1. PICK h : h = HexDigit(n)
    OBVIOUS
  <2>2. h = 87 + n
    BY <1>2, <2>1 DEF HexDigit
  <2>3. h \in 97..102 /\ h - 87 = n /\ h \in Nat /\ h # 34 /\ h # 92 /\ ~(h \in 48..57) /\ ~(h \in 65..70)
    BY <1>2, <2>2
  <2>4. HexValue(h) = h - 87
    BY <2>3 DEF HexValue
  <2>5. QED
    BY <2>1, <2>3, <2>4, ZenonT(60)
<1>3. QED
  BY <1>1, <1>2, Zenon

\* So is the digit 0.
LEMMA ZeroBack == HexValue(48) = 0
  BY DEF HexValue

\* The four digits of a control byte are read back.
LEMMA ControlHex ==
  ASSUME NEW c \in Nat, c < 32, NEW t, NEW at, t[at + 0] = 48, t[at + 1] = 48,
         t[at + 2] = HexDigit(c \div 16), t[at + 3] = HexDigit(c % 16)
  PROVE  parse_hex4(t, at) = c
<1>1. PICK x, y \in Nat : x = c \div 16 /\ y = c % 16 /\ x <= 1 /\ y <= 15 /\ c = 16 * x + y
  BY ControlDigits, Zenon
<1>2. x <= 15
  BY <1>1, SMT
<1>3. /\ HexValue(t[at + 0]) = 0 /\ HexValue(t[at + 1]) = 0
      /\ HexValue(t[at + 2]) = x /\ HexValue(t[at + 3]) = y
  <2>1. HexValue(HexDigit(x)) = x /\ HexValue(HexDigit(y)) = y
    BY <1>1, <1>2, HexValues
  <2>2. t[at + 2] = HexDigit(x) /\ t[at + 3] = HexDigit(y)
    BY <1>1, Zenon
  <2>3. QED
    BY <2>1, <2>2, ZeroBack, Zenon
<1>4. PICK d : d = [i \in 0..3 |-> HexValue(t[at + i])]
  OBVIOUS
<1>5. d[0] = 0 /\ d[1] = 0 /\ d[2] = x /\ d[3] = y
  BY <1>3, <1>4
<1>6. ~\E i \in 0..3 : d[i] < 0
  <2>1. \A i \in 0..3 : i = 0 \/ i = 1 \/ i = 2 \/ i = 3
    OBVIOUS
  <2>2. ~(0 < 0) /\ ~(x < 0) /\ ~(y < 0)
    OBVIOUS
  <2>3. QED
    BY <1>5, <2>1, <2>2, ZenonT(60)
<1>7. parse_hex4(t, at) = 4096 * d[0] + 256 * d[1] + 16 * d[2] + d[3]
  BY <1>4, <1>6, SMT DEF parse_hex4, Hex4Of
<1>8. QED
  BY <1>1, <1>5, <1>7, SMT

\* An ASCII code is its own UTF-8.
LEMMA PlainUtf8 == ASSUME NEW c \in Nat, c < 128 PROVE Utf8(c) = <<c>>
  BY SMT DEF Utf8

\* The escape of a control byte is read as that byte.
LEMMA ControlRead ==
  ASSUME NEW c \in Nat, c < 32, NEW t, NEW at \in Nat, NEW end \in Nat, at + 6 <= end, parse_hex4(t, at + 2) = c
  PROVE  utf16_literal_to_utf8(t, at, end) = [length |-> 6, out |-> <<c>>]
<1>1. end - at >= 6
  BY SMT
<1>2. ~(c \in 56320..57343) /\ ~(c \in 55296..56319)
  BY SMTT(60)
<1>3. Utf8(c) = <<c>>
  <2>1. c < 128
    BY SMT
  <2>2. QED
    BY <2>1, PlainUtf8, SMT
<1>4. PICK second, paired :
        /\ second = parse_hex4(t, at + 8)
        /\ utf16_literal_to_utf8(t, at, end) = CodePoint(c, second, TRUE, paired)
  <2>1. utf16_literal_to_utf8(t, at, end)
          = CodePoint(parse_hex4(t, at + 2), parse_hex4(t, at + 8), end - at >= 6,
                      end - at >= 12 /\ t[at+6] = Backslash /\ t[at+7] = 117)
    BY Zenon DEF utf16_literal_to_utf8
  <2>2. (end - at >= 6) = TRUE
    BY <1>1
  <2>3. QED
    BY <2>1, <2>2, Zenon
<1>5. CodePoint(c, second, TRUE, paired) = [length |-> 6, out |-> Utf8(c)]
  <2> HIDE <1>4
  <2> QED BY <1>2, SMT DEF CodePoint
<1>6. QED
  BY <1>3, <1>4, <1>5, Zenon

\* So it is for every byte a string may have.
LEMMA EscapeBack ==
  ASSUME NEW t \in Seq(Octet), NEW at \in 1..Len(t), NEW end \in 1..Len(t), NEW c \in Byte,
         Occurs(t, at, Escaped(c)), at + Len(Escaped(c)) <= end
  PROVE  EscapeKept(t, at, end, c)
<1>0. PICK n \in Nat : n = Len(t)
  OBVIOUS
<1>a. ASSUME NEW close, EndsOf(t, close), NEW q \in 1..n, t[q] # Quote, t[q] # Backslash
      PROVE  close[q].at = close[q + 1].at
  <2>1. close[q] = EndAt(t, q, close)
    <3>1. q \in 1..(Len(t) + 2)
      BY <1>0
    <3>2. QED
      BY <1>a, <3>1, Zenon DEF EndsOf
  <2>2. EndAt(t, q, close) = close[q + 1]
    <3>1. ~(q > Len(t) \/ (t[q] = Backslash /\ q = Len(t)))
      BY <1>0, <1>a
    <3>2. QED
      BY <1>a, <3>1, Zenon DEF EndAt
  <2>3. QED
    BY <2>1, <2>2, Zenon
<1>b. ASSUME NEW close, EndsOf(t, close), NEW q \in 1..n, q < n, t[q] = Backslash
      PROVE  close[q].at = close[q + 2].at
  <2>1. close[q] = EndAt(t, q, close) /\ close[q + 2] \in Ends
    <3>1. q \in 1..(Len(t) + 2) /\ q + 2 \in 1..(Len(t) + 2)
      BY <1>0
    <3>2. QED
      BY <1>b, <3>1, Zenon DEF EndsOf
  <2>2. EndAt(t, q, close) = [close[q + 2] EXCEPT !.skipped = @ + 1]
    <3>1. ~(q > Len(t) \/ (t[q] = Backslash /\ q = Len(t))) /\ Backslash # Quote
      BY <1>0, <1>b DEF Backslash, Quote
    <3>2. QED
      BY <1>b, <3>1, Zenon DEF EndAt
  <2>3. QED
    BY <2>1, <2>2 DEF Ends
<1>c. Byte \subseteq Octet /\ 92 \in Octet /\ at \in Nat \ {0} /\ c \in Nat
  BY DEF Byte, Octet
<1>1. CASE c \in DOMAIN Short
  <2>1. PICK x \in Byte : x = Short[c]
    BY <1>1, ShortOne
  <2>2. Escaped(c) = <<Backslash, x>> /\ Len(Escaped(c)) = 2 /\ Backslash \in Octet
    <3>1. Escaped(c) = <<Backslash, x>>
      BY <1>1, <2>1, Zenon DEF Escaped
    <3>2. Len(<<Backslash, x>>) = 2
      OBVIOUS
    <3>3. Backslash \in Octet
      BY DEF Backslash, Octet
    <3>4. QED
      BY <3>1, <3>2, <3>3, Zenon
  <2>3. t[at] = Backslash /\ t[at + 1] = x
    <3>1. PICK w : w = <<Backslash, x>>
      OBVIOUS
    <3>2. Len(w) = 2 /\ w[1] = Backslash /\ w[2] = x
      BY <3>1
    <3>3. Occurs(t, at, w)
      BY <2>2, <3>1, Zenon
    <3>4. QED
      BY <1>c, <3>2, <3>3, OccursTwo, ZenonT(60)
  <2>4. Unescaped(t, at, end) = [length |-> 2, out |-> <<c>>]
    <3>1. x # 117
      BY <1>1, <2>1, ShortOne, Zenon
    <3>2. CASE x \in {Quote, Backslash, 47}
      <4>1. x = c
        BY <1>1, <2>1, <3>2, ShortOne, Zenon
      <4>2. QED
        BY <2>3, <3>1, <3>2, <4>1, ZenonT(60) DEF Unescaped
    <3>3. CASE x \notin {Quote, Backslash, 47}
      <4>1. \E s \in DOMAIN Short : Short[s] = x
        BY <1>1, <2>1, Zenon
      <4>2. PICK s \in DOMAIN Short : s = (CHOOSE y \in DOMAIN Short : Short[y] = x) /\ Short[s] = x
        BY <4>1, Zenon
      <4>3. s = c
        BY <1>1, <2>1, <4>2, ShortOne, Zenon
      <4>4. QED
        BY <2>3, <3>1, <3>3, <4>1, <4>2, <4>3, Zenon DEF Unescaped
    <3>4. QED
      BY <3>2, <3>3, Zenon
  <2>5. at < n
    BY <1>0, <2>2
  <2>6. \A close : EndsOf(t, close) => close[at].at = close[at + 2].at
    BY <1>0, <1>b, <2>3, <2>5, Zenon
  <2>7. QED
    BY <2>2, <2>4, <2>6, Zenon DEF EscapeKept, Units
<1>2. CASE c \notin DOMAIN Short /\ c < 32
  <2>1. PICK x, y : x = HexDigit(c \div 16) /\ y = HexDigit(c % 16)
    OBVIOUS
  <2>2. PICK w : w = <<Backslash, 117, 48, 48, x, y>>
    OBVIOUS
  <2>3. w = Escaped(c)
    BY <1>2, <2>1, <2>2, Zenon DEF Escaped
  <2>4. /\ Len(w) = 6 /\ w[1] = Backslash /\ w[2] = 117 /\ w[3] = 48 /\ w[4] = 48 /\ w[5] = x /\ w[6] = y
    BY <2>2
  <2>5. /\ t[at] = Backslash /\ t[at + 1] = 117 /\ t[at + 2] = 48 /\ t[at + 3] = 48
        /\ t[at + 4] = x /\ t[at + 5] = y /\ at + 6 <= Len(t) + 1
    <3>1. Occurs(t, at, w)
      BY <2>3, Zenon
    <3>3. /\ t[at] = w[1] /\ t[at + 1] = w[2] /\ t[at + 2] = w[3] /\ t[at + 3] = w[4]
          /\ t[at + 4] = w[5] /\ t[at + 5] = w[6] /\ at + 6 <= Len(t) + 1
      BY <1>c, <2>4, <3>1, OccursSix, Zenon
    <3>4. QED
      BY <2>4, <3>3, ZenonT(60)
  <2>6. at + 6 <= end
    BY <2>3, <2>4, Zenon
  <2>7. parse_hex4(t, at + 2) = c
    <3>1. (at + 2) + 0 = at + 2 /\ (at + 2) + 1 = at + 3 /\ (at + 2) + 2 = at + 4 /\ (at + 2) + 3 = at + 5
      OBVIOUS
    <3>2. /\ t[(at + 2) + 0] = 48 /\ t[(at + 2) + 1] = 48
          /\ t[(at + 2) + 2] = x /\ t[(at + 2) + 3] = y
      BY <2>5, <3>1, ZenonT(60)
    <3>3. QED
      BY <1>2, <1>c, <2>1, <3>2, ControlHex, ZenonT(60)
  <2>8. Unescaped(t, at, end) = [length |-> 6, out |-> <<c>>]
    <3>1. Unescaped(t, at, end) = utf16_literal_to_utf8(t, at, end)
      BY <2>5, Zenon DEF Unescaped
    <3>2. at \in Nat /\ end \in Nat
      OBVIOUS
    <3>3. QED
      BY <1>2, <1>c, <2>6, <2>7, <3>1, <3>2, ControlRead, Zenon
  <2>9. ASSUME NEW close, EndsOf(t, close) PROVE close[at].at = close[at + 6].at
    <3>1. /\ at \in 1..n /\ at + 2 \in 1..n /\ at + 3 \in 1..n /\ at + 4 \in 1..n /\ at + 5 \in 1..n /\ at < n
      BY <1>0, <2>6
    <3>2. x # Quote /\ x # Backslash /\ y # Quote /\ y # Backslash /\ 48 # Quote /\ 48 # Backslash
      <4>1. PICK a, b \in Nat : a = c \div 16 /\ b = c % 16 /\ a <= 1 /\ b <= 15
        BY <1>2, <1>c, ControlDigits, Zenon
      <4>2. a <= 15
        BY <4>1
      <4>3. x = HexDigit(a) /\ y = HexDigit(b)
        BY <2>1, <4>1, Zenon
      <4>4. x # 34 /\ x # 92 /\ y # 34 /\ y # 92
        BY <4>1, <4>2, <4>3, HexValues
      <4>5. QED
        BY <4>4 DEF Quote, Backslash
    <3>3. close[at].at = close[at + 2].at
      BY <1>b, <2>5, <2>9, <3>1, ZenonT(60)
    <3>a. ASSUME NEW q \in 1..n, t[q] # Quote, t[q] # Backslash PROVE close[q].at = close[q + 1].at
      BY <1>a, <2>9, <3>a, Zenon
    <3>4. (at + 2) + 1 = at + 3 /\ (at + 3) + 1 = at + 4 /\ (at + 4) + 1 = at + 5 /\ (at + 5) + 1 = at + 6
      OBVIOUS
    <3>b. PICK q2, q3, q4, q5, q6 : q2 = at + 2 /\ q3 = at + 3 /\ q4 = at + 4 /\ q5 = at + 5 /\ q6 = at + 6
      OBVIOUS
    <3>c. /\ q2 \in 1..n /\ q3 \in 1..n /\ q4 \in 1..n /\ q5 \in 1..n
          /\ q2 + 1 = q3 /\ q3 + 1 = q4 /\ q4 + 1 = q5 /\ q5 + 1 = q6
      BY <3>1, <3>4, <3>b, Zenon
    <3>d. /\ t[q2] # Quote /\ t[q3] # Quote /\ t[q4] # Quote /\ t[q5] # Quote
          /\ t[q2] # Backslash /\ t[q3] # Backslash /\ t[q4] # Backslash /\ t[q5] # Backslash
      BY <2>5, <3>2, <3>b, ZenonT(60)
    <3>5. close[q2].at = close[q3].at
      BY <3>a, <3>c, <3>d, Zenon
    <3>6. close[q3].at = close[q4].at
      BY <3>a, <3>c, <3>d, Zenon
    <3>7. close[q4].at = close[q5].at
      BY <3>a, <3>c, <3>d, Zenon
    <3>8. close[q5].at = close[q6].at
      BY <3>a, <3>c, <3>d, Zenon
    <3>9. QED
      BY <3>3, <3>5, <3>6, <3>7, <3>8, <3>b, Zenon
  <2>10. QED
    BY <2>3, <2>4, <2>8, <2>9, ZenonT(60) DEF EscapeKept, Units
<1>3. CASE c \notin DOMAIN Short /\ ~(c < 32)
  <2>1. Escaped(c) = <<c>> /\ Len(Escaped(c)) = 1
    <3>1. Escaped(c) = <<c>>
      BY <1>3, Zenon DEF Escaped
    <3>2. Len(<<c>>) = 1
      OBVIOUS
    <3>3. QED
      BY <3>1, <3>2, Zenon
  <2>2. t[at] = c
    <3>1. c \in Octet
      BY <1>c
    <3>2. Occurs(t, at, <<c>>)
      BY <2>1, Zenon
    <3>3. QED
      BY <1>c, <3>1, <3>2, OccursOne, Zenon
  <2>3. c # Quote /\ c # Backslash
    BY <1>3, ShortPairs DEF Quote, Backslash
  <2>4. Unescaped(t, at, end) = [length |-> 1, out |-> <<c>>]
    BY <2>2, <2>3, Zenon DEF Unescaped
  <2>5. \A close : EndsOf(t, close) => close[at].at = close[at + 1].at
    BY <1>0, <1>a, <2>2, <2>3, Zenon
  <2>6. QED
    BY <2>1, <2>4, <2>5, Zenon DEF EscapeKept, Units
<1>4. QED
  BY <1>1, <1>2, <1>3, Zenon

\* Induction from the last place of a string to the first
LEMMA Downward ==
  ASSUME NEW L \in Nat, NEW T, L + 1 \in T, \A i \in 1..L : i + 1 \in T => i \in T
  PROVE  1..(L + 1) \subseteq T
<1> DEFINE K == {k \in Nat : k <= L => (L + 1) - k \in T}
<1>1. 0 \in K
  OBVIOUS
<1>2. ASSUME NEW k \in Nat, k \in K PROVE k + 1 \in K
  <2> SUFFICES ASSUME k + 1 <= L PROVE (L + 1) - (k + 1) \in T
    OBVIOUS
  <2>1. (L + 1) - k \in T
    BY <1>2
  <2>2. PICK i \in 1..L : i = (L + 1) - (k + 1) /\ i + 1 = (L + 1) - k
    OBVIOUS
  <2>3. QED
    BY <2>1, <2>2, Zenon
<1>3. Nat \subseteq K
  <2> HIDE DEF K
  <2> QED BY <1>1, <1>2, Induction
<1>4. ASSUME NEW i \in 1..(L + 1) PROVE i \in T
  <2>1. PICK k \in Nat : k = (L + 1) - i /\ k <= L /\ i = (L + 1) - k
    OBVIOUS
  <2>2. k \in K
    BY <1>3, <2>1
  <2>3. QED
    BY <2>1, <2>2
<1>5. QED
  BY <1>4

\* What is left of a sequence, from one place to the next
LEMMA SuffixSteps ==
  ASSUME NEW X, NEW s \in Seq(X)
  PROVE  /\ SubSeq(s, 1, Len(s)) = s /\ SubSeq(s, Len(s) + 1, Len(s)) = <<>>
         /\ \A i \in 1..Len(s) : <<s[i]>> \o SubSeq(s, i + 1, Len(s)) = SubSeq(s, i, Len(s))
<1>1. SubSeq(s, 1, Len(s)) = s
  OBVIOUS
<1>2. SubSeq(s, Len(s) + 1, Len(s)) = <<>>
  OBVIOUS
<1>3. ASSUME NEW i \in 1..Len(s) PROVE <<s[i]>> \o SubSeq(s, i + 1, Len(s)) = SubSeq(s, i, Len(s))
  <2>1. PICK a, b : a = <<s[i]>> \o SubSeq(s, i + 1, Len(s)) /\ b = SubSeq(s, i, Len(s))
    OBVIOUS
  <2>2. a \in Seq(X) /\ b \in Seq(X) /\ Len(a) = Len(b)
    BY <2>1
  <2>3. \A k \in 1..Len(a) : a[k] = b[k]
    BY <2>1, SMTT(60)
  <2>4. a = b
    BY <2>2, <2>3
  <2>5. QED
    BY <2>1, <2>4
<1>4. QED
  BY <1>1, <1>2, <1>3, Zenon

\* The places of what is put between two bytes
LEMMA OccursBetween ==
  ASSUME NEW t, Ended(t), NEW a \in Byte, NEW b \in Byte, NEW F \in Seq(Octet), NEW at \in Nat \ {0},
         NEW e, e = (at + 1) + Len(F), Occurs(t, at, Between(a, F, b))
  PROVE  BetweenPlaces(t, at, a, F, b, e)
<1>0. t \in Seq(Octet) /\ Len(t) \in Nat /\ a \in Octet /\ b \in Octet /\ a # 0 /\ b # 0
  <2>1. t \in Seq(Octet) /\ Len(t) \in Nat
    BY DEF Ended
  <2>2. a \in Octet /\ b \in Octet /\ a # 0 /\ b # 0
    BY DEF Byte, Octet
  <2>3. QED
    BY <2>1, <2>2, Zenon
<1>1. PICK u, w, x : u = <<a>> \o F /\ w = <<b>> /\ x = <<a>>
  OBVIOUS
<1>b. Between(a, F, b) = u \o w
  BY <1>1, Zenon DEF Between
<1>2. u \in Seq(Octet) /\ w \in Seq(Octet) /\ x \in Seq(Octet) /\ Len(u) = 1 + Len(F) /\ Len(w) = 1 /\ Len(x) = 1
  <2> HIDE DEF Octet
  <2> QED BY <1>0, <1>1
<1>3. Occurs(t, at, u) /\ Occurs(t, at + Len(u), w)
  BY <1>0, <1>2, <1>b, OccursConcat, Zenon
<1>4. at + Len(u) = e /\ e \in Nat \ {0} /\ at + 1 \in Nat \ {0}
  BY <1>2
<1>5. Occurs(t, at, x) /\ Occurs(t, at + Len(x), F)
  BY <1>0, <1>1, <1>2, <1>3, OccursConcat, Zenon
<1>6. Occurs(t, at, <<a>>) /\ Occurs(t, e, <<b>>) /\ Occurs(t, at + 1, F)
  BY <1>1, <1>2, <1>3, <1>4, <1>5, Zenon
<1>7. at \in 1..Len(t) /\ t[at] = a
  BY <1>0, <1>6, OccursOne
<1>8. e \in 1..Len(t) /\ t[e] = b
  BY <1>0, <1>4, <1>6, OccursOne
<1>9. e + 1 \in 1..Len(t)
  BY <1>0, <1>8, Before, Zenon
<1>10. e \in (at + 1)..Len(t) /\ e + 1 \in (at + 2)..Len(t)
  BY <1>0, <1>4, <1>8, <1>9
<1>11. Len(u \o w) = (e + 1) - at
  <2>1. Len(u \o w) = Len(u) + Len(w)
    BY <1>2, ConcatProperties, Zenon
  <2>2. QED
    BY <1>2, <1>4, <2>1
<1>12. QED
  BY <1>6, <1>7, <1>8, <1>10, <1>11, <1>b, Zenon DEF BetweenPlaces
\* A byte of a string is not 0.
LEMMA ByteRange ==
  /\ \A x \in Byte : x # 0 /\ x \in Nat
  /\ \A x \in Octet : x \in Nat
  BY DEF Byte, Octet

\* The bytes of a text are numbers.
LEMMA OctetAt == ASSUME NEW t \in Seq(Octet), NEW i \in 1..Len(t) PROVE t[i] \in Nat
<1>1. t[i] \in Octet
  OBVIOUS
<1>2. QED
  BY <1>1, ByteRange, Zenon

\* The escapes are not after the closing quote.
LEMMA EscapingPlace ==
  ASSUME NEW t, NEW s, NEW pos, NEW e, Escaping(t, s, pos, e), NEW i \in 1..(Len(s) + 1)
  PROVE  pos[i] \in 1..e
<1>1. PICK L \in Nat : L = Len(s)
  BY DEF Escaping
<1>2. pos \in [1..(L + 1) -> Nat \ {0}] /\ pos[L + 1] = e /\ e \in Nat
  BY <1>1 DEF Escaping
<1>3. ASSUME NEW j \in 1..L PROVE pos[j] <= pos[j + 1]
  <2>1. s[j] \in Byte /\ pos[j + 1] = pos[j] + Len(Escaped(s[j]))
    BY <1>1 DEF Escaping
  <2>2. PICK x \in Seq(Byte) : x = Escaped(s[j])
    BY <2>1, EscapedLength, Zenon
  <2>3. PICK k \in Nat : k = Len(x)
    OBVIOUS
  <2>4. pos[j + 1] = pos[j] + k
    BY <2>1, <2>2, <2>3, Zenon
  <2>5. QED
    BY <1>2, <2>4
<1> DEFINE T == {j \in 1..(L + 1) : pos[j] <= e}
<1>4. L + 1 \in T
  BY <1>2
<1>5. ASSUME NEW j \in 1..L, j + 1 \in T PROVE j \in T
  BY <1>2, <1>3, <1>5
<1>6. 1..(L + 1) \subseteq T
  <2> HIDE DEF T
  <2> QED BY <1>4, <1>5, Downward
<1>7. QED
  BY <1>1, <1>2, <1>6

\* Each escape is read as its byte.
LEMMA EscapingKept ==
  ASSUME NEW t, NEW s, NEW pos, NEW e, Escaping(t, s, pos, e), NEW i \in 1..Len(s)
  PROVE  EscapeKept(t, pos[i], e, s[i]) /\ pos[i + 1] = pos[i] + Len(Escaped(s[i])) /\ pos[i] < e
<1>1. PICK L \in Nat, n \in Nat : L = Len(s) /\ n = Len(t)
  BY DEF Escaping, Ended
<1>2. PICK c \in Byte : c = s[i]
  BY DEF Escaping
<1>3. /\ Occurs(t, pos[i], Escaped(c)) /\ pos[i + 1] = pos[i] + Len(Escaped(c))
      /\ t \in Seq(Octet) /\ e \in 1..Len(t)
  BY <1>2, Zenon DEF Escaping, Ended
<1>4. pos[i] \in 1..e /\ pos[i + 1] \in 1..e
  <2>1. i \in 1..(Len(s) + 1) /\ i + 1 \in 1..(Len(s) + 1)
    BY <1>1
  <2>2. QED
    BY <2>1, EscapingPlace, Zenon
<1>5. PICK k \in Nat : k = Len(Escaped(c)) /\ k > 0
  <2>1. PICK x \in Seq(Byte) : x = Escaped(c)
    BY EscapedLength, Zenon
  <2>2. Len(x) = IF c \in DOMAIN Short THEN 2 ELSE IF c < 32 THEN 6 ELSE 1
    BY <2>1, EscapedLength, Zenon
  <2>3. Len(x) > 0
    BY <2>2
  <2>4. QED
    BY <2>1, <2>3
<1>6. PICK p \in Nat : p = pos[i] /\ p + k <= e /\ p < e /\ p \in 1..Len(t)
  BY <1>1, <1>3, <1>4, <1>5
<1>7. EscapeKept(t, p, e, c)
  BY <1>3, <1>5, <1>6, EscapeBack, Zenon
<1>8. QED
  BY <1>2, <1>3, <1>6, <1>7, Zenon

\* The first pass finds the closing quote, by induction from the end.
LEMMA EscapingEnd ==
  ASSUME NEW t, NEW s, NEW pos, NEW e, Escaping(t, s, pos, e), NEW close, EndsOf(t, close)
  PROVE  close[pos[1]].at = e
<1>1. PICK L \in Nat : L = Len(s)
  BY DEF Escaping
<1> DEFINE T == {j \in 1..(L + 1) : close[pos[j]].at = e}
<1>2. L + 1 \in T
  <2>1. pos[L + 1] = e /\ t[e] = Quote /\ e \in 1..Len(t) /\ Len(t) \in Nat
    BY <1>1 DEF Escaping, Ended
  <2>2. e \in 1..(Len(t) + 2)
    BY <2>1
  <2>3. close[e] = EndAt(t, e, close)
    BY <2>2, Zenon DEF EndsOf
  <2>4. ~(e > Len(t) \/ (t[e] = Backslash /\ e = Len(t)))
    BY <2>1 DEF Quote, Backslash
  <2>5. EndAt(t, e, close) = [at |-> e, skipped |-> 0]
    BY <2>1, <2>4, Zenon DEF EndAt
  <2>6. close[e].at = e
    BY <2>3, <2>5
  <2>7. QED
    BY <2>1, <2>6
<1>3. ASSUME NEW j \in 1..L, j + 1 \in T PROVE j \in T
  <2>1. EscapeKept(t, pos[j], e, s[j]) /\ pos[j + 1] = pos[j] + Len(Escaped(s[j])) /\ pos[j] < e
    <3>1. j \in 1..Len(s)
      BY <1>1
    <3>2. QED
      BY <3>1, EscapingKept, Zenon
  <2>2. close[pos[j]].at = close[pos[j + 1]].at
    BY <2>1, Zenon DEF EscapeKept
  <2>3. close[pos[j + 1]].at = e
    BY <1>3
  <2>4. QED
    BY <2>2, <2>3
<1>4. 1..(L + 1) \subseteq T
  <2> HIDE DEF T
  <2> QED BY <1>2, <1>3, Downward
<1>5. QED
  BY <1>4

\* The second pass reads the string, by induction from the end.
LEMMA EscapingBytes ==
  ASSUME NEW t, NEW s, NEW pos, NEW e, Escaping(t, s, pos, e), NEW bytes, BytesOf(t, e, bytes)
  PROVE  bytes[pos[1]] = [right |-> TRUE, out |-> s]
<1>1. PICK L \in Nat : L = Len(s) /\ s \in Seq(Byte) /\ e \in Nat
  BY DEF Escaping, Ended
<1> DEFINE T == {j \in 1..(L + 1) : bytes[pos[j]] = [right |-> TRUE, out |-> SubSeq(s, j, L)]}
<1>2. /\ SubSeq(s, 1, L) = s /\ SubSeq(s, L + 1, L) = <<>>
      /\ \A i \in 1..L : <<s[i]>> \o SubSeq(s, i + 1, L) = SubSeq(s, i, L)
  <2>1. /\ SubSeq(s, 1, Len(s)) = s /\ SubSeq(s, Len(s) + 1, Len(s)) = <<>>
        /\ \A i \in 1..Len(s) : <<s[i]>> \o SubSeq(s, i + 1, Len(s)) = SubSeq(s, i, Len(s))
    BY <1>1, SuffixSteps, Zenon
  <2>2. QED
    BY <1>1, <2>1, Zenon
<1>3. L + 1 \in T
  <2>1. pos[L + 1] = e
    BY <1>1 DEF Escaping
  <2>2. e \in 1..(e + 1) /\ e >= e
    BY <1>1 DEF Escaping
  <2>3. bytes[e] = BytesAt(t, e, e, bytes)
    BY <2>2, Zenon DEF BytesOf
  <2>4. bytes[e] = [right |-> TRUE, out |-> <<>>]
    BY <2>2, <2>3, Zenon DEF BytesAt
  <2>5. bytes[pos[L + 1]] = [right |-> TRUE, out |-> SubSeq(s, L + 1, L)]
    BY <1>2, <2>1, <2>4, Zenon
  <2>6. QED
    BY <2>5
<1>4. ASSUME NEW j \in 1..L, j + 1 \in T PROVE j \in T
  <2>1. EscapeKept(t, pos[j], e, s[j]) /\ pos[j + 1] = pos[j] + Len(Escaped(s[j])) /\ pos[j] < e
    <3>1. j \in 1..Len(s)
      BY <1>1
    <3>2. QED
      BY <3>1, EscapingKept, Zenon
  <2>2. PICK p \in 1..e : p = pos[j]
    <3>1. j \in 1..(Len(s) + 1)
      BY <1>1
    <3>2. QED
      BY <3>1, EscapingPlace
  <2>3. p \in 1..(e + 1) /\ ~(p >= e)
    BY <1>1, <2>1, <2>2
  <2>4. bytes[p] = BytesAt(t, p, e, bytes)
    BY <2>3, Zenon DEF BytesOf
  <2>5. PICK x \in Seq(Byte), l \in Nat : x = Escaped(s[j]) /\ l = Len(x) /\ l # 0
    <3>1. s[j] \in Byte
      BY <1>1
    <3>2. /\ Escaped(s[j]) \in Seq(Byte)
          /\ Len(Escaped(s[j])) = IF s[j] \in DOMAIN Short THEN 2 ELSE IF s[j] < 32 THEN 6 ELSE 1
      BY <3>1, EscapedLength, Zenon
    <3>3. PICK x \in Seq(Byte) : x = Escaped(s[j])
      BY <3>2
    <3>4. Len(x) # 0 /\ Len(x) \in Nat
      <4>1. Len(x) = IF s[j] \in DOMAIN Short THEN 2 ELSE IF s[j] < 32 THEN 6 ELSE 1
        BY <3>2, <3>3, Zenon
      <4>2. QED
        BY <4>1
    <3>5. QED
      BY <3>3, <3>4
  <2>6. PICK u : u = Unescaped(t, p, e)
    OBVIOUS
  <2>7. u = [length |-> l, out |-> <<s[j]>>]
    BY <2>1, <2>2, <2>5, <2>6, Zenon DEF EscapeKept, Units
  <2>8. u.length = l /\ u.out = <<s[j]>>
    BY <2>7
  <2>9. bytes[p] = [bytes[pos[j + 1]] EXCEPT !.out = u.out \o @]
    BY <2>1, <2>2, <2>3, <2>4, <2>5, <2>6, <2>8, ZenonT(60) DEF BytesAt
  <2>10. PICK w : w = SubSeq(s, j + 1, L)
    OBVIOUS
  <2>11. bytes[pos[j + 1]] = [right |-> TRUE, out |-> w]
    BY <1>4, <2>10
  <2>12. PICK v : v = u.out \o w
    OBVIOUS
  <2>13. [[right |-> TRUE, out |-> w] EXCEPT !.out = u.out \o @] = [right |-> TRUE, out |-> v]
    <3>1. [right |-> TRUE, out |-> w].out = w
      OBVIOUS
    <3>2. PICK r \in [right : {TRUE}, out : {w}] : r = [right |-> TRUE, out |-> w]
      OBVIOUS
    <3>3. [r EXCEPT !.out = v] = [right |-> TRUE, out |-> v]
      <4>1. r.right = TRUE
        BY <3>2
      <4>2. PICK z : z = [r EXCEPT !.out = v]
        OBVIOUS
      <4>3. z.right = TRUE /\ z.out = v /\ z \in [right : BOOLEAN, out : {v}]
        BY <4>1, <4>2
      <4>4. z = [right |-> TRUE, out |-> v]
        BY <4>3
      <4>5. QED
        BY <4>2, <4>4
    <3>4. QED
      BY <2>12, <3>1, <3>2, <3>3, Zenon
  <2>14. v = SubSeq(s, j, L)
    BY <1>2, <2>8, <2>10, <2>12, Zenon
  <2>15. bytes[pos[j]] = [right |-> TRUE, out |-> SubSeq(s, j, L)]
    BY <2>2, <2>9, <2>11, <2>13, <2>14, Zenon
  <2>16. QED
    BY <2>15
<1>5. 1..(L + 1) \subseteq T
  <2> HIDE DEF T
  <2> QED BY <1>3, <1>4, Downward
<1>6. 1 \in T
  <2> HIDE DEF T
  <2> QED BY <1>5
<1>7. bytes[pos[1]] = [right |-> TRUE, out |-> SubSeq(s, 1, L)]
  BY <1>6
<1>8. QED
  BY <1>2, <1>7, Zenon

\* A string without 0 is a C string as a whole.
LEMMA Whole == ASSUME NEW s \in Seq(Byte) PROVE CString(s) = s
<1>1. \A i \in DOMAIN s : s[i] # 0
  <2> SUFFICES ASSUME NEW i \in DOMAIN s PROVE s[i] # 0
    OBVIOUS
  <2>1. s[i] \in Byte
    OBVIOUS
  <2>2. QED
    BY <2>1, ByteRange, Zenon
<1>2. {i \in DOMAIN s : s[i] = 0} = {}
  BY <1>1
<1>3. QED
  BY <1>2, Zenon DEF CString

\* The texts without 0 are texts.
LEMMA Octets == Seq(Byte) \subseteq Seq(Octet) /\ Seq(Seq(Byte)) \subseteq Seq(Seq(Octet))
<1>1. Byte \subseteq Octet
  BY DEF Byte, Octet
<1>2. Seq(Byte) \subseteq Seq(Octet)
  BY <1>1, SeqGrows, Zenon
<1>3. QED
  BY <1>2, SeqGrows, Zenon

\* A printed string is parsed to the string, wherever it stands in a text.
LEMMA StringRead ==
  ASSUME NEW t, Ended(t), NEW at \in Nat \ {0}, NEW s \in Seq(Byte), Occurs(t, at, StringText(s))
  PROVE  t[at] = Quote /\ Is(t, at, StringText(s), CreateString(s), parse_string(t, at))
<1>0. t \in Seq(Octet) /\ Len(t) \in Nat
  BY DEF Ended
<1>1. PICK E \in Seq(Seq(Byte)) : E = Escapes(s) /\ Len(E) = Len(s) /\ \A i \in 1..Len(s) : E[i] = Escaped(s[i])
  BY EscapesType, Zenon
<1>2. PICK F \in Seq(Byte) : F = FlattenSeq(E)
  BY FlattenType, Zenon
<1>3. F \in Seq(Octet) /\ E \in Seq(Seq(Octet)) /\ Quote \in Byte
  <2>1. Quote \in Byte
    BY DEF Quote, Byte
  <2>2. QED
    BY <2>1, Octets, Zenon
<1>4. PICK e : e = (at + 1) + Len(F)
  OBVIOUS
<1>5. StringText(s) = Between(Quote, F, Quote)
  BY <1>1, <1>2, Zenon DEF StringText, Between
<1>6. /\ t[at] = Quote /\ Occurs(t, at + 1, F) /\ t[e] = Quote
      /\ e \in (at + 1)..Len(t) /\ e + 1 \in (at + 2)..Len(t)
      /\ Len(StringText(s)) = (e + 1) - at
  <2>1. Occurs(t, at, Between(Quote, F, Quote))
    BY <1>5, Zenon
  <2>2. BetweenPlaces(t, at, Quote, F, Quote, e)
    BY <1>3, <1>4, <2>1, OccursBetween, Zenon
  <2>3. QED
    BY <1>5, <2>2, Zenon DEF BetweenPlaces, StringText, Between
<1>7. at + 1 \in Nat \ {0} /\ e \in 1..Len(t) /\ at \in 1..Len(t)
  BY <1>0, <1>6
<1>8. PICK pos : LaidOut(t, E, at + 1, pos)
  <2>1. Occurs(t, at + 1, FlattenSeq(E))
    BY <1>2, <1>6, Zenon
  <2>2. QED
    BY <1>0, <1>3, <1>7, <2>1, Laid, Zenon
<1>9. Escaping(t, s, pos, e)
  BY <1>1, <1>2, <1>4, <1>6, <1>7, <1>8, Zenon DEF Escaping, LaidOut
<1>10. PICK close : EndsOf(t, close)
  BY <1>0, EndsExist, Zenon
<1>11. PICK bytes : BytesOf(t, e, bytes)
  BY <1>0, <1>7, BytesExist, Zenon
<1>12. StringEnd(t, at + 1) = close[at + 1] /\ close[at + 1].at = e
  <2>1. close[pos[1]].at = e
    BY <1>9, <1>10, EscapingEnd, Zenon
  <2>2. \A from : StringEnd(t, from) = close[from]
    BY <1>10, Zenon DEF EndsOf
  <2>3. QED
    BY <1>8, <2>1, <2>2, Zenon DEF LaidOut
<1>13. StringBytes(t, at + 1, e) = [right |-> TRUE, out |-> s]
  <2>1. bytes[pos[1]] = [right |-> TRUE, out |-> s]
    BY <1>9, <1>11, EscapingBytes
  <2>2. \A from : StringBytes(t, from, e) = bytes[from]
    BY <1>11, Zenon DEF BytesOf
  <2>3. QED
    BY <1>8, <2>1, <2>2, Zenon DEF LaidOut
<1>14. PICK c, b : c = StringEnd(t, at + 1) /\ b = StringBytes(t, at + 1, c.at)
  OBVIOUS
<1>15. c.at = e /\ b.right = TRUE /\ b.out = s /\ c.at # 0
  <2>1. c.at = e /\ b = [right |-> TRUE, out |-> s]
    BY <1>12, <1>13, <1>14, Zenon
  <2>2. b.right = TRUE /\ b.out = s
    BY <2>1
  <2>3. e # 0
    BY <1>7
  <2>4. QED
    BY <2>1, <2>2, <2>3, Zenon
<1>16. parse_string(t, at) = [at |-> c.at + 1, node |-> CreateString(CString(b.out))]
  BY <1>6, <1>14, <1>15, Zenon DEF parse_string
<1>17. parse_string(t, at) = [at |-> e + 1, node |-> CreateString(s)]
  BY <1>15, <1>16, Whole, Zenon
<1>18. PICK l \in Nat : l = Len(StringText(s)) /\ at + l = e + 1 /\ at + l \in (at + 1)..Len(t)
  <2>1. (e + 1) - at \in Nat /\ at + ((e + 1) - at) = e + 1 /\ e + 1 \in (at + 1)..Len(t)
    BY <1>0, <1>6
  <2>2. QED
    BY <1>6, <2>1
<1>19. QED
  BY <1>6, <1>17, <1>18, Zenon DEF Is

-----------------------------------------------------------------------------
(* The items of a group *)

\* Blanks are passed, up to the first byte that is none.
LEMMA SkipTo ==
  ASSUME NEW t \in Seq(Octet), NEW p \in 1..Len(t), NEW q \in 1..p, t[p] > 32,
         \A i \in q..(p - 1) : t[i] <= 32
  PROVE  Skip(t, q) = p
<1>1. PICK n \in Nat : n = Len(t)
  OBVIOUS
<1>2. PICK ink : ink = {i \in q..Len(t) : t[i] > 32}
  OBVIOUS
<1>3. p \in ink
  BY <1>1, <1>2
<1>4. \A i \in ink : p <= i
  <2> SUFFICES ASSUME NEW i \in ink, ~(p <= i) PROVE FALSE
    OBVIOUS
  <2>1. i \in q..(p - 1) /\ t[i] > 32
    BY <1>1, <1>2
  <2>2. t[i] <= 32 /\ t[i] \in Int
    <3>1. i \in 1..Len(t)
      BY <1>1, <2>1
    <3>2. t[i] \in Nat
      BY <3>1, OctetAt
    <3>3. QED
      BY <2>1, <3>2
  <2>3. QED
    BY <2>1, <2>2
<1>5. ink \subseteq Nat /\ ink # {}
  BY <1>1, <1>2, <1>3
<1>6. PICK m : m = (CHOOSE i \in ink : \A j \in ink : i <= j)
  OBVIOUS
<1>7. m \in ink /\ \A j \in ink : m <= j
  BY <1>5, <1>6, Least, Zenon
<1>8. m = p
  BY <1>3, <1>4, <1>5, <1>7
<1>9. Skip(t, q) = m
  BY <1>2, <1>5, <1>6, Zenon DEF Skip
<1>10. QED
  BY <1>8, <1>9

\* A child is put before those that follow it.
LEMMA Added ==
  ASSUME NEW X, NEW w \in Seq(X), NEW k \in X, NEW e, NEW r, r = [at |-> e, kids |-> w]
  PROVE  More(r, k) = [at |-> e, kids |-> <<k>> \o w]
<1>1. PICK v : v = <<k>> \o w
  OBVIOUS
<1>2. r.kids = w /\ r.at = e /\ r \in [at : {e}, kids : {w}]
  OBVIOUS
<1>3. PICK z : z = [r EXCEPT !.kids = v]
  OBVIOUS
<1>4. z.at = e /\ z.kids = v /\ z \in [at : {e}, kids : {v}]
  BY <1>2, <1>3
<1>5. z = [at |-> e, kids |-> v]
  BY <1>4
<1>6. QED
  BY <1>1, <1>2, <1>3, <1>5, Zenon DEF More

\* A chain of items is parsed to its children, by induction from the last.
LEMMA ItemsRead ==
  ASSUME NEW t, NEW type, NEW inside, NEW S, NEW items, ItemsOf(t, type, inside, S, items),
         NEW X, NEW kids \in Seq(X), NEW L \in Nat \ {0}, L = Len(kids),
         NEW q, NEW c, Chain(t, type, inside, kids, q, c)
  PROVE  items[q[1]] = [at |-> c[L] + 1, kids |-> kids]
<1>1. /\ SubSeq(kids, 1, L) = kids /\ SubSeq(kids, L + 1, L) = <<>>
      /\ \A i \in 1..L : <<kids[i]>> \o SubSeq(kids, i + 1, L) = SubSeq(kids, i, L)
  <2>1. /\ SubSeq(kids, 1, Len(kids)) = kids /\ SubSeq(kids, Len(kids) + 1, Len(kids)) = <<>>
        /\ \A i \in 1..Len(kids) : <<kids[i]>> \o SubSeq(kids, i + 1, Len(kids)) = SubSeq(kids, i, Len(kids))
    BY SuffixSteps, Zenon
  <2>2. QED
    BY <2>1, Zenon
<1>2. PICK e : e = c[L] + 1
  OBVIOUS
<1> DEFINE T == {i \in 1..L : items[q[i]] = [at |-> e, kids |-> SubSeq(kids, i, L)]}
<1>3. ASSUME NEW i \in 1..L
      PROVE  /\ c[i] > 0
             /\ items[q[i]] = AddItem(t, [at |-> c[i], kid |-> kids[i]], type, items)
             /\ i < L => t[c[i]] = 44 /\ q[i + 1] = c[i] + 1
  <2>1. /\ q[i] \in 1..Len(t) /\ c[i] > 0
        /\ parse_item(t, q[i], type, inside) = [at |-> c[i], kid |-> kids[i]]
        /\ i < L => t[c[i]] = 44 /\ q[i + 1] = c[i] + 1
    BY Zenon DEF Chain
  <2>2. items[q[i]] = ItemsAt(t, q[i], type, inside, items)
    BY <2>1, Zenon DEF ItemsOf
  <2>3. QED
    BY <2>1, <2>2, Zenon DEF ItemsAt
<1>4. L \in T
  <2>1. L \in 1..L
    OBVIOUS
  <2>2. c[L] > 0 /\ items[q[L]] = AddItem(t, [at |-> c[L], kid |-> kids[L]], type, items)
    BY <1>3, <2>1, Zenon
  <2>3. t[c[L]] = Close(type)
    BY Zenon DEF Chain
  <2>4. t[c[L]] # 44
    BY <2>3 DEF Close
  <2>5. PICK item : item = [at |-> c[L], kid |-> kids[L]]
    OBVIOUS
  <2>6. item.at = c[L] /\ item.kid = kids[L]
    BY <2>5
  <2>7. AddItem(t, item, type, items) = [at |-> item.at + 1, kids |-> <<item.kid>>]
    BY <2>2, <2>3, <2>4, <2>6, Zenon DEF AddItem
  <2>8. <<kids[L]>> = SubSeq(kids, L, L)
    <3>1. <<kids[L]>> \o <<>> = SubSeq(kids, L, L)
      BY <1>1, <2>1, Zenon
    <3>2. kids[L] \in X
      BY <2>1
    <3>3. <<kids[L]>> \in Seq(X)
      BY <3>2
    <3>4. <<kids[L]>> \o <<>> = <<kids[L]>>
      BY <3>3, ConcatEmptySeq, Zenon
    <3>5. QED
      BY <3>1, <3>4, Zenon
  <2>9. items[q[L]] = [at |-> e, kids |-> SubSeq(kids, L, L)]
    BY <1>2, <2>2, <2>5, <2>6, <2>7, <2>8, Zenon
  <2>10. QED
    BY <2>1, <2>9
<1>5. ASSUME NEW i \in 1..(L - 1), i + 1 \in T PROVE i \in T
  <2>1. i \in 1..L /\ i < L
    OBVIOUS
  <2>2. /\ c[i] > 0 /\ items[q[i]] = AddItem(t, [at |-> c[i], kid |-> kids[i]], type, items)
        /\ t[c[i]] = 44 /\ q[i + 1] = c[i] + 1
    BY <1>3, <2>1, Zenon
  <2>3. PICK item : item = [at |-> c[i], kid |-> kids[i]]
    OBVIOUS
  <2>4. item.at = c[i] /\ item.kid = kids[i]
    BY <2>3
  <2>5. AddItem(t, item, type, items) = [items[item.at + 1] EXCEPT !.kids = <<item.kid>> \o @]
    BY <2>2, <2>4, Zenon DEF AddItem
  <2>6. PICK w : w = SubSeq(kids, i + 1, L)
    OBVIOUS
  <2>7. w \in Seq(X) /\ kids[i] \in X
    BY <2>1, <2>6
  <2>8. PICK r : r = items[q[i + 1]] /\ r = [at |-> e, kids |-> w]
    BY <1>5, <2>6
  <2>9. More(r, kids[i]) = [at |-> e, kids |-> <<kids[i]>> \o w]
    BY <2>7, <2>8, Added, Zenon
  <2>10. items[q[i]] = More(r, kids[i])
    BY <2>2, <2>3, <2>4, <2>5, <2>8, Zenon DEF More
  <2>11. <<kids[i]>> \o w = SubSeq(kids, i, L)
    BY <1>1, <2>1, <2>6, Zenon
  <2>12. items[q[i]] = [at |-> e, kids |-> SubSeq(kids, i, L)]
    BY <2>9, <2>10, <2>11, Zenon
  <2>13. QED
    BY <2>1, <2>12
<1>6. 1..L \subseteq T
  <2> HIDE DEF T
  <2>1. PICK k \in Nat : k = L - 1 /\ k + 1 = L
    OBVIOUS
  <2>2. k + 1 \in T /\ \A i \in 1..k : i + 1 \in T => i \in T
    BY <1>4, <1>5, <2>1, Zenon
  <2>3. 1..(k + 1) \subseteq T
    BY <2>2, Downward
  <2>4. QED
    BY <2>1, <2>3, Zenon
<1>7. 1 \in T
  <2> HIDE DEF T
  <2> QED BY <1>6
<1>8. items[q[1]] = [at |-> e, kids |-> SubSeq(kids, 1, L)]
  BY <1>7
<1>9. QED
  BY <1>1, <1>2, <1>8, Zenon

\* An element is parsed as its value, with the blanks around it.
LEMMA ElementRead ==
  ASSUME NEW t, NEW inside, NEW q, NEW p, p = Skip(t, q), NEW v, v = inside[p], v.at # 0
  PROVE  parse_item(t, q, "array", inside) = [at |-> Skip(t, v.at), kid |-> [key |-> NoKey, val |-> v.node]]
  BY Zenon DEF parse_item, ItemOf

\* A group that is closed at once has no children.
LEMMA GroupEmpty ==
  ASSUME NEW t, NEW at, NEW type, NEW inside, NEW p, p = Skip(t, at + 1), t[p] = Close(type)
  PROVE  parse_group(t, at, type, inside) = [at |-> p + 1, node |-> Node(type, <<>>, <<>>)]
  BY Zenon DEF parse_group

\* A group is parsed as the chain of its items.
LEMMA GroupFull ==
  ASSUME NEW t, Ended(t), NEW S, NEW inside, Inside(t, S, inside), NEW type, NEW at,
         t[Skip(t, at + 1)] # Close(type),
         NEW X, NEW kids \in Seq(X), NEW L \in Nat \ {0}, L = Len(kids),
         NEW q, NEW c, Chain(t, type, inside, kids, q, c), q[1] = at + 1, NEW e \in Nat, e = c[L]
  PROVE  parse_group(t, at, type, inside) = [at |-> e + 1, node |-> Node(type, <<>>, kids)]
<1>1. PICK items : ItemsOf(t, type, inside, S, items)
  BY ItemsExist, Zenon
<1>2. items[q[1]] = [at |-> c[L] + 1, kids |-> kids]
  BY <1>1, ItemsRead
<1>3. \A from : parse_items(t, from, type, inside) = items[from]
  BY <1>1, Zenon DEF ItemsOf
<1>4. PICK r : r = parse_items(t, at + 1, type, inside)
  OBVIOUS
<1>5. r = [at |-> e + 1, kids |-> kids]
  BY <1>2, <1>3, <1>4, Zenon
<1>6. r.at = e + 1 /\ r.kids = kids /\ e + 1 # 0
  BY <1>5
<1>7. Group(type, r) = [at |-> e + 1, node |-> Node(type, <<>>, kids)]
  BY <1>6, Zenon DEF Group
<1>8. parse_group(t, at, type, inside) = Group(type, r)
  BY <1>4, Zenon DEF parse_group
<1>9. QED
  BY <1>7, <1>8, Zenon

\* What Is says of the places
LEMMA Within ==
  ASSUME NEW t, NEW at \in Nat \ {0}, NEW text, NEW node, NEW v, Is(t, at, text, node, v), Len(t) \in Nat
  PROVE  at \in 1..Len(t) /\ v.at = at + Len(text) /\ v.node = node /\ v.at # 0 /\ v.at \in Nat
<1>1. PICK l \in Nat : l = Len(text) /\ at + l \in (at + 1)..Len(t) /\ v = [at |-> at + l, node |-> node]
  BY Zenon DEF Is
<1>2. QED
  BY <1>1

\* A word that occurs is read.
LEMMA WordRead ==
  ASSUME NEW t, Ended(t), NEW at \in Nat \ {0}, NEW w \in Seq(Octet), w # <<>>, w[Len(w)] # 0, Occurs(t, at, w)
  PROVE  /\ at \in 1..Len(t) /\ StartsWith(t, at, w) /\ at + Len(w) \in (at + 1)..Len(t)
         /\ t[at] = w[1]
<1>0. t \in Seq(Octet) /\ Len(t) \in Nat
  BY DEF Ended
<1>1. PICK k \in Nat \ {0} : k = Len(w)
  OBVIOUS
<1>2. at + k <= Len(t) + 1
  BY <1>1, Zenon DEF Occurs
<1>3. at \in 1..Len(t)
  BY <1>0, <1>2
<1>4. StartsWith(t, at, w)
  BY <1>0, <1>3, Starts, Zenon
<1>5. QED
  BY <1>3, <1>4, WordBefore, Zenon

\* What is printed for a word or a string is parsed to that node.
LEMMA LeafRead ==
  ASSUME NEW t, Ended(t), NEW at \in Nat \ {0}, NEW depth, NEW inside, NEW format, NEW g,
         NEW node, NEW text, text = TextOf(print_value(node, format, depth, g)), Occurs(t, at, text),
         \/ node.type \in {"null", "true", "false"} /\ node = Node(node.type, <<>>, <<>>)
         \/ node.type = "string" /\ node.str \in Seq(Byte) /\ node = Node("string", node.str, <<>>)
  PROVE  Is(t, at, text, node, parse_value(t, at, depth, inside)) /\ t[at] \in Firsts
<1>0. t \in Seq(Octet) /\ Len(t) \in Nat
  BY DEF Ended
<1>1. PICK v : v = parse_value(t, at, depth, inside)
  OBVIOUS
<1>2. at \in 1..Len(t) => ValueIs(t, at, depth, inside, v)
  BY <1>1, ValueCases, Zenon
<1>3. CASE node.type = "null" /\ node = Node("null", <<>>, <<>>)
  <2>1. print_value(node, format, depth, g) = Piece(5, <<110, 117, 108, 108>>, 1)
    BY <1>3 DEF print_value
  <2>2. text = Null
    BY <2>1, WordTexts, ZenonT(60) DEF Null
  <2>3. /\ at \in 1..Len(t) /\ StartsWith(t, at, Null) /\ at + Len(Null) \in (at + 1)..Len(t)
        /\ t[at] = Null[1]
    <3>1. Null \in Seq(Octet) /\ Null # <<>> /\ Null[Len(Null)] # 0
      BY WordsType
    <3>2. Occurs(t, at, Null)
      BY <2>2, Zenon
    <3>3. QED
      BY <3>1, <3>2, WordRead, Zenon
  <2>4. v = [at |-> at + 4, node |-> node]
    BY <1>2, <1>3, <2>3, Zenon DEF ValueIs
  <2>5. Len(Null) = 4 /\ Null[1] = 110 /\ 4 \in Nat /\ 110 \in Firsts
    BY WordsType DEF Firsts
  <2>6. QED
    BY <1>1, <2>2, <2>3, <2>4, <2>5, Zenon DEF Is
<1>4. CASE node.type = "true" /\ node = Node("true", <<>>, <<>>)
  <2>1. print_value(node, format, depth, g) = Piece(5, <<116, 114, 117, 101>>, 1)
    BY <1>4 DEF print_value
  <2>2. text = True
    BY <2>1, WordTexts, ZenonT(60) DEF True
  <2>3. /\ at \in 1..Len(t) /\ StartsWith(t, at, True) /\ at + Len(True) \in (at + 1)..Len(t)
        /\ t[at] = True[1]
    <3>1. True \in Seq(Octet) /\ True # <<>> /\ True[Len(True)] # 0
      BY WordsType
    <3>2. Occurs(t, at, True)
      BY <2>2, Zenon
    <3>3. QED
      BY <3>1, <3>2, WordRead, Zenon
  <2>4. v = [at |-> at + 4, node |-> node]
    BY <1>2, <1>4, <2>3, Zenon DEF ValueIs
  <2>5. Len(True) = 4 /\ True[1] = 116 /\ 4 \in Nat /\ 116 \in Firsts
    BY WordsType DEF Firsts
  <2>6. QED
    BY <1>1, <2>2, <2>3, <2>4, <2>5, Zenon DEF Is
<1>5. CASE node.type = "false" /\ node = Node("false", <<>>, <<>>)
  <2>1. print_value(node, format, depth, g) = Piece(6, <<102, 97, 108, 115, 101>>, 1)
    BY <1>5 DEF print_value
  <2>2. text = False
    BY <2>1, WordTexts, ZenonT(60) DEF False
  <2>3. /\ at \in 1..Len(t) /\ StartsWith(t, at, False) /\ at + Len(False) \in (at + 1)..Len(t)
        /\ t[at] = False[1]
    <3>1. False \in Seq(Octet) /\ False # <<>> /\ False[Len(False)] # 0
      BY WordsType
    <3>2. Occurs(t, at, False)
      BY <2>2, Zenon
    <3>3. QED
      BY <3>1, <3>2, WordRead, Zenon
  <2>4. v = [at |-> at + 5, node |-> node]
    BY <1>2, <1>5, <2>3, Zenon DEF ValueIs
  <2>5. Len(False) = 5 /\ False[1] = 102 /\ 5 \in Nat /\ 102 \in Firsts
    BY WordsType DEF Firsts
  <2>6. QED
    BY <1>1, <2>2, <2>3, <2>4, <2>5, Zenon DEF Is
<1>6. CASE node.type = "string" /\ node.str \in Seq(Byte) /\ node = Node("string", node.str, <<>>)
  <2>1. print_value(node, format, depth, g) = print_string(node.str)
    BY <1>6 DEF print_value
  <2>2. text = StringText(node.str)
    BY <1>6, <2>1, StringPrinted, Zenon DEF StringText
  <2>3. t[at] = Quote /\ Is(t, at, StringText(node.str), CreateString(node.str), parse_string(t, at))
    <3>1. Occurs(t, at, StringText(node.str))
      BY <2>2, Zenon
    <3>2. QED
      BY <1>6, <3>1, StringRead, Zenon
  <2>4. at \in 1..Len(t)
    BY <1>0, <2>3, Within, Zenon
  <2>5. v = parse_string(t, at)
    BY <1>2, <2>3, <2>4, Zenon DEF ValueIs
  <2>6. Quote \in Firsts
    BY DEF Quote, Firsts
  <2>7. CreateString(node.str) = node
    BY <1>6, Zenon DEF CreateString
  <2>8. QED
    BY <1>1, <2>2, <2>3, <2>5, <2>6, <2>7, Zenon
<1>7. QED
  BY <1>3, <1>4, <1>5, <1>6, Zenon

\* A gap is passed, up to the first byte that is no blank.
LEMMA GapSkipped ==
  ASSUME NEW t \in Seq(Octet), NEW p \in 1..Len(t), NEW q, Gap(t, q, p), t[p] > 32
  PROVE  Skip(t, q) = p
<1>1. q \in 1..p /\ \A i \in q..(p - 1) : t[i] <= 32
  BY DEF Gap
<1>2. QED
  BY <1>1, SkipTo, Zenon

\* Where there is nothing there is no gap to pass.
LEMMA NoGap == ASSUME NEW t, NEW p \in Nat \ {0} PROVE Gap(t, p, p)
  BY DEF Gap

\* A value begins with no blank and no bracket that closes.
LEMMA FirstsVisible == ASSUME NEW x \in Firsts PROVE x > 32 /\ x # 93 /\ x # 125
  BY DEF Firsts

-----------------------------------------------------------------------------
(* A printed array is parsed to itself *)

\* What stands between two elements is a comma and blanks.
LEMMA CommaTexts ==
  ASSUME NEW t, Ended(t), NEW format \in BOOLEAN, NEW c \in Nat \ {0}, Occurs(t, c, Comma(format))
  PROVE  /\ t[c] = 44 /\ Len(Comma(format)) \in Nat \ {0} /\ Gap(t, c + 1, c + Len(Comma(format)))
<1>0. t \in Seq(Octet) /\ 44 \in Octet /\ 32 \in Octet
  BY DEF Ended, Octet
<1>1. CASE format
  <2>1. PICK w : w = <<44, 32>>
    OBVIOUS
  <2>2. Len(w) = 2 /\ w[1] = 44 /\ w[2] = 32 /\ Comma(format) = w
    BY <1>1, <2>1 DEF Comma
  <2>3. t[c] = 44 /\ t[c + 1] = 32
    <3>1. Occurs(t, c, w)
      BY <2>2, Zenon
    <3>2. t[c] = w[1] /\ t[c + 1] = w[2] /\ c + 2 <= Len(t) + 1
      BY <1>0, <2>2, <3>1, OccursTwo
    <3>3. QED
      BY <2>2, <3>2, Zenon
  <2>4. Gap(t, c + 1, c + 2)
    <3>1. \A i \in (c + 1)..((c + 2) - 1) : i = c + 1
      OBVIOUS
    <3>2. c + 1 \in 1..(c + 2) /\ 32 <= 32
      OBVIOUS
    <3>3. QED
      BY <2>3, <3>1, <3>2, Zenon DEF Gap
  <2>5. Len(Comma(format)) = 2 /\ 2 \in Nat \ {0}
    <3>1. 2 \in Nat \ {0}
      OBVIOUS
    <3>2. QED
      BY <2>2, <3>1, Zenon
  <2>6. QED
    BY <2>3, <2>4, <2>5, ZenonT(60)
<1>2. CASE ~format
  <2>1. Comma(format) = <<44>> /\ Len(<<44>>) = 1
    BY <1>2 DEF Comma
  <2>2. Occurs(t, c, <<44>>)
    BY <2>1, Zenon
  <2>3. t[c] = 44
    BY <1>0, <2>2, OccursOne
  <2>4. c + 1 \in Nat \ {0}
    OBVIOUS
  <2>5. Gap(t, c + 1, c + 1)
    BY <2>4, NoGap, Zenon
  <2>6. QED
    BY <2>1, <2>3, <2>5
<1>3. QED
  BY <1>1, <1>2

\* The value of each element is where the printer has laid it, the comma or the bracket after it.
LEMMA ElementLaid ==
  ASSUME NEW t, NEW kids, NEW format, NEW S, NEW g, NEW inside, NEW pos, NEW e,
         ArrayLaid(t, kids, format, S, g, inside, pos, e), NEW i \in 1..Len(kids),
         NEW c, c = After(g, kids, pos, i)
  PROVE  /\ pos[i] \in 1..Len(t) /\ t[pos[i]] \in Firsts
         /\ inside[pos[i]] = [at |-> c, node |-> kids[i].val] /\ c \in (pos[i] + 1)..Len(t)
         /\ i < Len(kids) => t[c] = 44 /\ Gap(t, c + 1, pos[i + 1])
         /\ i = Len(kids) => c = e
         /\ kids[i] = [key |-> NoKey, val |-> kids[i].val]
<1>0. t \in Seq(Octet) /\ Len(t) \in Nat
  BY DEF ArrayLaid, Ended
<1>1. PICK x : x = ArrayTexts(kids, format, g)
  OBVIOUS
<1>2. PICK L \in Nat : L = Len(kids)
  BY DEF ArrayLaid, Elements
<1>3. x = [j \in 1..L |-> TextOf(g[kids[j].val]) \o IF j < L THEN Comma(format) ELSE <<>>]
  BY <1>1, <1>2, Zenon DEF ArrayTexts
<1>4. Len(x) = L
  <2> DEFINE X(j) == TextOf(g[kids[j].val]) \o IF j < L THEN Comma(format) ELSE <<>>
  <2>1. x = [j \in 1..L |-> X(j)]
    BY <1>3
  <2> HIDE DEF X
  <2>2. QED
    BY <2>1
<1>5. kids[i] = [key |-> NoKey, val |-> kids[i].val] /\ kids[i].val \in S
  <2>1. kids \in Seq([key : {NoKey}, val : S])
    BY Zenon DEF ArrayLaid, Elements
  <2>2. kids[i] \in [key : {NoKey}, val : S]
    BY <2>1, ElementOfSeq, Zenon
  <2>3. QED
    BY <2>2
<1>6. PICK w \in Seq(Byte) : w = TextOf(g[kids[i].val])
  <2>1. g[kids[i].val] \in Seq(Pieces)
    BY <1>5, Zenon DEF ArrayLaid
  <2>2. TextOf(g[kids[i].val]) \in Seq(Byte)
    BY <2>1, TextType, Zenon
  <2>3. QED
    BY <2>2
<1>7. PICK s : s = IF i < L THEN Comma(format) ELSE <<>>
  OBVIOUS
<1>8. x[i] = w \o s
  <2>1. i \in 1..L
    BY <1>2
  <2>2. QED
    BY <1>3, <1>6, <1>7, <2>1, Zenon
<1>9. s \in Seq(Octet) /\ w \in Seq(Octet)
  <2>1. Comma(format) \in Seq(Octet) /\ <<>> \in Seq(Octet)
    <3>1. <<44>> \in Seq(Octet) /\ <<44, 32>> \in Seq(Octet) /\ <<>> \in Seq(Octet)
      BY DEF Octet
    <3>2. QED
      BY <3>1, Zenon DEF Comma
  <2>2. QED
    BY <1>7, <2>1, Octets, Zenon
<1>10. PICK p \in Nat \ {0} : p = pos[i] /\ Occurs(t, p, w \o s) /\ pos[i + 1] = p + Len(w \o s)
  <2>1. PICK at : LaidOut(t, x, at, pos)
    BY <1>1, Zenon DEF ArrayLaid
  <2>2. i \in 1..Len(x) /\ i \in 1..(Len(x) + 1)
    BY <1>2, <1>4
  <2>3. pos[i] \in Nat \ {0} /\ Occurs(t, pos[i], x[i]) /\ pos[i + 1] = pos[i] + Len(x[i])
    BY <2>1, <2>2 DEF LaidOut
  <2>4. QED
    BY <1>8, <2>3, Zenon
<1>11. Occurs(t, p, w) /\ Occurs(t, p + Len(w), s) /\ Len(w \o s) = Len(w) + Len(s)
  BY <1>0, <1>9, <1>10, OccursConcat, ConcatProperties, Zenon
<1>12. c = p + Len(w)
  BY <1>6, <1>10, Zenon DEF After
<1>13. Is(t, p, w, kids[i].val, inside[p]) /\ t[p] \in Firsts
  <2>1. Occurs(t, p, TextOf(g[kids[i].val]))
    BY <1>6, <1>11, Zenon
  <2>2. Is(t, p, TextOf(g[kids[i].val]), kids[i].val, inside[p]) /\ t[p] \in Firsts
    BY <1>5, <2>1, ZenonT(60) DEF ArrayLaid, ReadBack
  <2>3. QED
    BY <1>6, <2>2, Zenon
<1>14. p \in 1..Len(t) /\ c \in (p + 1)..Len(t) /\ inside[p] = [at |-> c, node |-> kids[i].val]
  <2>1. p \in 1..Len(t)
    BY <1>0, <1>13, Within, Zenon
  <2>2. QED
    BY <1>12, <1>13, <2>1, Zenon DEF Is
<1>15. c \in Nat \ {0}
  BY <1>0, <1>14
<1>16. i < Len(kids) => t[c] = 44 /\ Gap(t, c + 1, pos[i + 1])
  <2> SUFFICES ASSUME i < Len(kids) PROVE t[c] = 44 /\ Gap(t, c + 1, pos[i + 1])
    BY Zenon
  <2>1. s = Comma(format) /\ format \in BOOLEAN /\ Ended(t)
    BY <1>2, <1>7, Zenon DEF ArrayLaid
  <2>2. Occurs(t, c, Comma(format))
    BY <1>11, <1>12, <2>1, Zenon
  <2>3. t[c] = 44 /\ Len(Comma(format)) \in Nat \ {0} /\ Gap(t, c + 1, c + Len(Comma(format)))
    BY <1>15, <2>1, <2>2, CommaTexts, ZenonT(60)
  <2>4. pos[i + 1] = c + Len(s)
    <3>1. PICK a \in Nat, b \in Nat : a = Len(w) /\ b = Len(s)
      BY <1>9
    <3>2. pos[i + 1] = p + (a + b) /\ c = p + a
      BY <1>10, <1>11, <1>12, <3>1, Zenon
    <3>3. QED
      BY <3>1, <3>2
  <2>5. QED
    BY <2>1, <2>3, <2>4, Zenon
<1>17. i = Len(kids) => c = e
  <2> SUFFICES ASSUME i = Len(kids) PROVE c = e
    BY Zenon
  <2>1. s = <<>>
    <3>1. ~(i < L)
      BY <1>2
    <3>2. QED
      BY <1>7, <3>1, Zenon
  <2>2. Len(s) = 0
    BY <2>1
  <2>3. pos[i + 1] = e
    BY Zenon DEF ArrayLaid
  <2>4. PICK a \in Nat : a = Len(w)
    OBVIOUS
  <2>5. e = p + (a + 0) /\ c = p + a
    BY <1>10, <1>11, <1>12, <2>2, <2>3, <2>4, Zenon
  <2>6. QED
    BY <2>5
<1>18. QED
  BY <1>5, <1>10, <1>13, <1>14, <1>16, <1>17, Zenon

\* The items of a group follow each other, the gaps passed.
LEMMA ItemsChained ==
  ASSUME NEW t, Ended(t), NEW type, NEW inside, NEW kids, NEW pos, NEW c, NEW e,
         Items(t, type, inside, kids, pos, c, e), NEW L \in Nat \ {0}, L = Len(kids),
         NEW from, Gap(t, from, pos[1])
  PROVE  \E q : Chain(t, type, inside, kids, q, c) /\ q[1] = from
<1>0. PICK T \in Nat : T = Len(t)
  BY DEF Ended
<1>1. PICK q : q = [i \in 1..L |-> IF i = 1 THEN from ELSE c[i - 1] + 1]
  OBVIOUS
<1>2. q[1] = from /\ 1 \in 1..L /\ L \in 1..L
  BY <1>1
<1>3. \A i \in 1..L : i < L => q[i + 1] = c[i] + 1
  <2> SUFFICES ASSUME NEW i \in 1..L, i < L PROVE q[i + 1] = c[i] + 1
    BY Zenon
  <2>1. i + 1 \in 1..L /\ i + 1 # 1 /\ (i + 1) - 1 = i
    OBVIOUS
  <2>2. QED
    BY <1>1, <2>1
<1>4. ASSUME NEW i \in 1..L
      PROVE  /\ pos[i] \in 1..Len(t) /\ c[i] \in 1..Len(t)
             /\ \A x : Gap(t, x, pos[i]) =>
                   parse_item(t, x, type, inside) = [at |-> c[i], kid |-> kids[i]]
             /\ i < L => t[c[i]] = 44 /\ Gap(t, c[i] + 1, pos[i + 1])
             /\ i = L => c[i] = e
  BY Zenon DEF Items
<1>5. ASSUME NEW i \in 1..L PROVE Gap(t, q[i], pos[i])
  <2>1. CASE i = 1
    BY <1>2, <2>1, Zenon
  <2>2. CASE i # 1
    <3>1. PICK j \in 1..L : j = i - 1 /\ j < L /\ j + 1 = i
      BY <2>2
    <3>2. Gap(t, c[j] + 1, pos[j + 1])
      BY <1>4, <3>1, Zenon
    <3>3. q[j + 1] = c[j] + 1
      BY <1>3, <3>1, Zenon
    <3>4. QED
      BY <3>1, <3>2, <3>3, Zenon
  <2>3. QED
    BY <2>1, <2>2
<1>6. ASSUME NEW i \in 1..L
      PROVE  /\ q[i] \in 1..Len(t) /\ c[i] > 0
             /\ parse_item(t, q[i], type, inside) = [at |-> c[i], kid |-> kids[i]]
             /\ i < L => t[c[i]] = 44 /\ q[i + 1] = c[i] + 1
  <2>1. q[i] \in 1..Len(t)
    <3>1. q[i] \in 1..pos[i] /\ pos[i] \in 1..Len(t)
      BY <1>4, <1>5, Zenon DEF Gap
    <3>2. PICK p \in 1..T : p = pos[i]
      BY <1>0, <3>1
    <3>3. q[i] \in 1..T
      BY <3>1, <3>2
    <3>4. QED
      BY <1>0, <3>3
  <2>2. c[i] > 0
    <3>1. c[i] \in 1..Len(t)
      BY <1>4, Zenon
    <3>2. QED
      BY <3>1
  <2>3. parse_item(t, q[i], type, inside) = [at |-> c[i], kid |-> kids[i]]
    BY <1>4, <1>5, Zenon
  <2>4. i < L => t[c[i]] = 44 /\ q[i + 1] = c[i] + 1
    BY <1>3, <1>4, Zenon
  <2>5. QED
    BY <2>1, <2>2, <2>3, <2>4, Zenon
<1>7. t[c[L]] = Close(type)
  BY <1>2, <1>4, Zenon DEF Items
<1>8. Chain(t, type, inside, kids, q, c)
  BY <1>6, <1>7, Zenon DEF Chain
<1>9. QED
  BY <1>2, <1>8, Zenon

\* The items between two brackets are parsed to a group.
LEMMA ItemsGroup ==
  ASSUME NEW t, Ended(t), NEW S, NEW inside, Inside(t, S, inside), NEW type, NEW at \in Nat \ {0},
         NEW X, NEW kids \in Seq(X), NEW pos, NEW c, NEW e, Items(t, type, inside, kids, pos, c, e),
         kids # <<>> => Gap(t, at + 1, pos[1]),
         kids = <<>> => Skip(t, at + 1) = e
  PROVE  parse_group(t, at, type, inside) = [at |-> e + 1, node |-> Node(type, <<>>, kids)]
<1>0. PICK L \in Nat : L = Len(kids)
  OBVIOUS
<1>1. e \in 1..Len(t) /\ t[e] = Close(type)
  BY Zenon DEF Items
<1>2. CASE kids = <<>>
  <2>1. parse_group(t, at, type, inside) = [at |-> e + 1, node |-> Node(type, <<>>, <<>>)]
    BY <1>1, <1>2, GroupEmpty, Zenon
  <2>2. QED
    BY <1>2, <2>1, Zenon
<1>3. CASE kids # <<>>
  <2>1. L \in Nat \ {0} /\ 1 \in 1..L /\ L \in 1..L /\ e \in Nat
    BY <1>0, <1>1, <1>3
  <2>2. PICK q : Chain(t, type, inside, kids, q, c) /\ q[1] = at + 1
    BY <1>0, <1>3, <2>1, ItemsChained
  <2>3. t[Skip(t, at + 1)] # Close(type) /\ c[L] = e
    BY <1>0, <1>3, <2>1, Zenon DEF Items
  <2>4. q[1] = at + 1 /\ e = c[L]
    BY <2>2, <2>3, Zenon
  <2>5. QED
    BY <1>0, <2>1, <2>2, <2>3, <2>4, GroupFull
<1>4. QED
  BY <1>2, <1>3

\* ElementLaid, in one word
LEMMA ElementPlaced ==
  ASSUME NEW t, NEW kids, NEW format, NEW S, NEW g, NEW inside, NEW pos, NEW e,
         ArrayLaid(t, kids, format, S, g, inside, pos, e), NEW i \in 1..Len(kids),
         NEW c, c = After(g, kids, pos, i)
  PROVE  ElementAt(t, kids, inside, pos, e, i, c)
  BY ElementLaid DEF ElementAt

\* What the parser looks for is no blank.
LEMMA Visible == ASSUME NEW x, x \in {44, 93, 125} \/ x \in Firsts PROVE x > 32
  BY DEF Firsts

\* An element is parsed from any place of the gap before it.
LEMMA ElementItem ==
  ASSUME NEW t, Ended(t), NEW kids, NEW inside, NEW pos, NEW e, NEW i, NEW c,
         ElementAt(t, kids, inside, pos, e, i, c), t[c] \in {44, 93}, NEW x, Gap(t, x, pos[i])
  PROVE  /\ parse_item(t, x, "array", inside) = [at |-> c, kid |-> kids[i]]
         /\ t[Skip(t, x)] # 93
<1>0. t \in Seq(Octet) /\ Len(t) \in Nat
  BY DEF Ended
<1>1. PICK p : p = pos[i]
  OBVIOUS
<1>2. p \in 1..Len(t) /\ t[p] \in Firsts /\ c \in (p + 1)..Len(t) /\ Gap(t, x, p)
  BY <1>1, Zenon DEF ElementAt
<1>3. Skip(t, x) = p
  <2>1. t[p] > 32
    BY <1>2, Visible, ZenonT(60)
  <2>2. QED
    BY <1>0, <1>2, <2>1, GapSkipped
<1>4. Skip(t, c) = c
  <2>1. c \in 1..Len(t) /\ c \in Nat \ {0}
    BY <1>0, <1>2
  <2>2. t[c] > 32
    BY Visible, ZenonT(60)
  <2>3. Gap(t, c, c)
    BY <2>1, NoGap, Zenon
  <2>4. QED
    BY <1>0, <2>1, <2>2, <2>3, GapSkipped
<1>5. PICK v : v = inside[p] /\ v = [at |-> c, node |-> kids[i].val]
  BY <1>1, Zenon DEF ElementAt
<1>6. v.at = c /\ v.node = kids[i].val /\ v.at # 0
  <2>1. v.at = c /\ v.node = kids[i].val
    BY <1>5
  <2>2. c # 0
    BY <1>0, <1>2
  <2>3. QED
    BY <2>1, <2>2, Zenon
<1>7. parse_item(t, x, "array", inside) = [at |-> Skip(t, v.at), kid |-> [key |-> NoKey, val |-> v.node]]
  <2>1. p = Skip(t, x) /\ v = inside[p] /\ v.at # 0
    BY <1>3, <1>5, <1>6, Zenon
  <2>2. QED
    BY <2>1, ElementRead
<1>8. kids[i] = [key |-> NoKey, val |-> kids[i].val]
  BY Zenon DEF ElementAt
<1>9. t[Skip(t, x)] # 93
  BY <1>2, <1>3, FirstsVisible, ZenonT(60)
<1>10. QED
  BY <1>4, <1>6, <1>7, <1>8, <1>9, ZenonT(60)

\* The elements of a printed array are items.
LEMMA ArrayItems ==
  ASSUME NEW t, NEW kids, NEW format, NEW S, NEW g, NEW inside, NEW pos, NEW e,
         ArrayLaid(t, kids, format, S, g, inside, pos, e), NEW L \in Nat, L = Len(kids)
  PROVE  \E c : Items(t, "array", inside, kids, pos, c, e)
<1>0. Ended(t) /\ Len(t) \in Nat /\ e \in 1..Len(t) /\ t[e] = 93 /\ Close("array") = 93
  BY DEF ArrayLaid, Ended, Close
<1>1. PICK c : c = [i \in 1..L |-> After(g, kids, pos, i)]
  OBVIOUS
<1>2. ASSUME NEW i \in 1..Len(kids)
      PROVE  /\ pos[i] \in 1..Len(t) /\ c[i] \in 1..Len(t)
             /\ \A q : Gap(t, q, pos[i]) =>
                         /\ parse_item(t, q, "array", inside) = [at |-> c[i], kid |-> kids[i]]
                         /\ t[Skip(t, q)] # Close("array")
             /\ i < Len(kids) => t[c[i]] = 44 /\ Gap(t, c[i] + 1, pos[i + 1])
             /\ i = Len(kids) => c[i] = e
  <2>1. PICK k : k = c[i]
    OBVIOUS
  <2>2. k = After(g, kids, pos, i)
    BY <1>1, <2>1
  <2>3. ElementAt(t, kids, inside, pos, e, i, k)
    BY <2>2, ElementPlaced, Zenon
  <2>4. t[k] \in {44, 93}
    <3>1. i < Len(kids) \/ i = Len(kids)
      OBVIOUS
    <3>2. t[k] = 44 \/ t[k] = 93
      BY <1>0, <2>3, <3>1, Zenon DEF ElementAt
    <3>3. QED
      BY <3>2
  <2>5. \A q : Gap(t, q, pos[i]) =>
                 /\ parse_item(t, q, "array", inside) = [at |-> k, kid |-> kids[i]]
                 /\ t[Skip(t, q)] # Close("array")
    BY <1>0, <2>3, <2>4, ElementItem
  <2>6. k \in 1..Len(t)
    <3>1. pos[i] \in 1..Len(t) /\ k \in (pos[i] + 1)..Len(t)
      BY <2>3, Zenon DEF ElementAt
    <3>2. PICK p \in 1..Len(t) : p = pos[i]
      BY <3>1
    <3>3. k \in (p + 1)..Len(t)
      BY <3>1, <3>2
    <3>4. QED
      BY <1>0, <3>3
  <2>7. pos[i] \in 1..Len(t)
    BY <2>3, Zenon DEF ElementAt
  <2>8. i < Len(kids) => t[k] = 44 /\ Gap(t, k + 1, pos[i + 1])
    BY <2>3, Zenon DEF ElementAt
  <2>9. i = Len(kids) => k = e
    BY <2>3, Zenon DEF ElementAt
  <2>10. QED
    BY <2>1, <2>5, <2>6, <2>7, <2>8, <2>9, Zenon
<1>3. Items(t, "array", inside, kids, pos, c, e)
  BY <1>0, <1>2, Zenon DEF Items
<1>4. QED
  BY <1>3, Zenon

\* The places of two brackets
LEMMA BracketPlaces ==
  ASSUME NEW n \in Nat, NEW at \in Nat \ {0}, NEW e, e \in (at + 1)..n, e + 1 \in (at + 2)..n
  PROVE  /\ at + 1 \in Nat \ {0} /\ e \in 1..n /\ at \in 1..n /\ e \in Nat \ {0}
         /\ e + 1 \in (at + 1)..n
OBVIOUS

\* A printed array is parsed to the array, if its elements are.
LEMMA ArrayRead ==
  ASSUME NEW t, Ended(t), NEW at \in Nat \ {0}, NEW format \in BOOLEAN, NEW S, NEW g,
         \A v \in S : g[v] \in Seq(Pieces), NEW inside, Inside(t, S, inside), ReadBack(t, S, g, inside),
         NEW kids \in Elements(S), NEW text, text = TextOf(print_array(kids, format, g)),
         Occurs(t, at, text)
  PROVE  t[at] = 91 /\ Is(t, at, text, Node("array", <<>>, kids), parse_group(t, at, "array", inside))
<1>0. t \in Seq(Octet) /\ Len(t) \in Nat
  BY DEF Ended
<1>1. PICK x \in Seq(Seq(Byte)) :
        /\ x = ArrayTexts(kids, format, g) /\ Len(x) = Len(kids)
        /\ text = (<<91>> \o FlattenSeq(x)) \o <<93>>
  <2>1. ArrayPrints(kids, format, g)
    BY ArrayPrinted, Zenon
  <2>2. QED
    BY <2>1, Zenon DEF ArrayPrints
<1>2. PICK F \in Seq(Octet) : F = FlattenSeq(x)
  <2>1. FlattenSeq(x) \in Seq(Byte)
    BY FlattenType, Zenon
  <2>2. QED
    BY <2>1, Octets, Zenon
<1>3. PICK e : e = (at + 1) + Len(F)
  OBVIOUS
<1>4. text = Between(91, F, 93)
  BY <1>1, <1>2, Zenon DEF Between
<1>5. BetweenPlaces(t, at, 91, F, 93, e)
  <2>1. 91 \in Byte /\ 93 \in Byte
    BY DEF Byte
  <2>2. Occurs(t, at, Between(91, F, 93))
    BY <1>4, Zenon
  <2>3. QED
    BY <1>0, <1>3, <2>1, <2>2, OccursBetween, Zenon
<1>6. /\ t[at] = 91 /\ Occurs(t, at + 1, F) /\ t[e] = 93
      /\ e \in (at + 1)..Len(t) /\ e + 1 \in (at + 2)..Len(t)
      /\ Len(text) = (e + 1) - at
  BY <1>4, <1>5, Zenon DEF BetweenPlaces
<1>7. /\ at + 1 \in Nat \ {0} /\ e \in 1..Len(t) /\ at \in 1..Len(t) /\ e \in Nat \ {0}
      /\ e + 1 \in (at + 1)..Len(t)
  BY <1>0, <1>6, BracketPlaces, ZenonT(60)
<1>8. PICK pos : LaidOut(t, x, at + 1, pos)
  <2>1. Occurs(t, at + 1, FlattenSeq(x))
    BY <1>2, <1>6, Zenon
  <2>2. x \in Seq(Seq(Octet))
    BY Octets, Zenon
  <2>3. QED
    BY <1>0, <1>7, <2>1, <2>2, Laid, Zenon
<1>9. pos[1] = at + 1 /\ pos[Len(kids) + 1] = e
  BY <1>1, <1>2, <1>3, <1>8, Zenon DEF LaidOut
<1>10. ArrayLaid(t, kids, format, S, g, inside, pos, e)
  <2>1. \E a : LaidOut(t, ArrayTexts(kids, format, g), a, pos)
    BY <1>1, <1>8, Zenon
  <2>2. QED
    BY <1>6, <1>7, <1>9, <2>1, Zenon DEF ArrayLaid
<1>11. PICK K : kids \in Seq(K)
  BY Zenon DEF Elements
<1>12. PICK c : Items(t, "array", inside, kids, pos, c, e)
  <2>1. Len(kids) \in Nat
    BY <1>11
  <2>2. QED
    BY <1>10, <2>1, ArrayItems, Zenon
<1>13. Gap(t, at + 1, at + 1)
  BY <1>7, NoGap, Zenon
<1>14. kids = <<>> => Skip(t, at + 1) = e
  <2> SUFFICES ASSUME kids = <<>> PROVE Skip(t, at + 1) = e
    BY Zenon
  <2>1. at + 1 = e
    <3>1. Len(kids) = 0 /\ 0 + 1 = 1
      OBVIOUS
    <3>2. QED
      BY <1>9, <3>1, Zenon
  <2>2. t[e] > 32
    BY <1>6
  <2>3. QED
    BY <1>0, <1>7, <1>13, <2>1, <2>2, GapSkipped
<1>15. parse_group(t, at, "array", inside) = [at |-> e + 1, node |-> Node("array", <<>>, kids)]
  BY <1>9, <1>11, <1>12, <1>13, <1>14, ItemsGroup
<1>16. at + Len(text) = e + 1 /\ Len(text) \in Nat
  BY <1>6, <1>7
<1>17. QED
  BY <1>6, <1>7, <1>15, <1>16, Zenon DEF Is

-----------------------------------------------------------------------------
(* A printed object is parsed to itself *)

\* Two gaps are one.
LEMMA GapJoin ==
  ASSUME NEW t, NEW c \in Nat, NEW b, NEW a, Gap(t, a, b), Gap(t, b, c)
  PROVE  Gap(t, a, c)
<1>1. /\ b \in 1..c /\ \A i \in b..(c - 1) : t[i] <= 32
      /\ a \in 1..b /\ \A i \in a..(b - 1) : t[i] <= 32
  BY DEF Gap
<1>2. \A i \in a..(c - 1) : i \in a..(b - 1) \/ i \in b..(c - 1)
  BY <1>1
<1>3. a \in 1..c
  BY <1>1
<1>4. QED
  BY <1>1, <1>2, <1>3, Zenon DEF Gap

\* Where blanks occur there is a gap.
LEMMA BlanksGap ==
  ASSUME NEW t, NEW p \in Nat \ {0}, NEW w, Blanks(w), Occurs(t, p, w)
  PROVE  Gap(t, p, p + Len(w))
<1>1. PICK l \in Nat : l = Len(w)
  BY DEF Blanks
<1>2. ASSUME NEW i \in p..((p + l) - 1) PROVE t[i] <= 32
  <2>1. PICK j \in 1..l : j = i - p + 1 /\ p + j - 1 = i
    OBVIOUS
  <2>2. w[j] <= 32 /\ t[p + j - 1] = w[j]
    BY <1>1, Zenon DEF Blanks, Occurs
  <2>3. QED
    BY <2>1, <2>2
<1>3. p \in 1..(p + l)
  OBVIOUS
<1>4. QED
  BY <1>1, <1>2, <1>3, Zenon DEF Gap

\* After a mark there is a gap.
LEMMA MarkGap ==
  ASSUME NEW t, NEW p \in Nat \ {0}, NEW w, NEW x, Marked(w, x), Occurs(t, p, w)
  PROVE  MarkPlaces(t, p, w, x)
<1>1. PICK l \in Nat \ {0} : l = Len(w)
  BY DEF Marked
<1>2. \A j \in 1..l : t[p + j - 1] = w[j]
  BY <1>1, Zenon DEF Occurs
<1>3. w[1] = x /\ \A i \in 2..l : w[i] <= 32
  BY <1>1, Zenon DEF Marked
<1>4. t[p] = x
  <2>1. 1 \in 1..l /\ p + 1 - 1 = p
    OBVIOUS
  <2>2. QED
    BY <1>2, <1>3, <2>1, Zenon
<1>5. ASSUME NEW i \in (p + 1)..((p + l) - 1) PROVE t[i] <= 32
  <2>1. PICK j \in 2..l : j = i - p + 1 /\ p + j - 1 = i /\ j \in 1..l
    OBVIOUS
  <2>2. w[j] <= 32 /\ t[p + j - 1] = w[j]
    BY <1>2, <1>3, <2>1, Zenon
  <2>3. QED
    BY <2>1, <2>2
<1>6. p + 1 \in 1..(p + l)
  OBVIOUS
<1>7. QED
  BY <1>1, <1>4, <1>5, <1>6, Zenon DEF Gap, MarkPlaces

\* The indentation of a line is blank.
LEMMA IndentBlank ==
  ASSUME NEW format, NEW k \in Nat PROVE Blanks(Indent(format, k))
<1>1. Blanks(<<>>)
  BY DEF Blanks
<1>2. Blanks(Tabs(k))
  <2>1. PICK s : s = [i \in 1..k |-> 9]
    OBVIOUS
  <2>2. Tabs(k) = s
    BY <2>1 DEF Tabs
  <2>3. s \in Seq(Octet) /\ \A i \in 1..Len(s) : s[i] <= 32
    <3>1. 9 \in Octet
      BY DEF Octet
    <3>2. QED
      BY <2>1, <3>1
  <2>4. QED
    BY <2>2, <2>3, Zenon DEF Blanks
<1>3. QED
  BY <1>1, <1>2, Zenon DEF Indent

\* Two bytes
LEMMA ConcatTwo == ASSUME NEW a, NEW b PROVE <<a>> \o <<b>> = <<a, b>>
<1>1. PICK s : s = <<a>> \o <<b>>
  OBVIOUS
<1>2. Len(s) = 2 /\ s[1] = a /\ s[2] = b /\ DOMAIN s = 1..2
  BY <1>1
<1>3. s = [i \in 1..2 |-> s[i]]
  BY <1>1
<1>4. s = <<a, b>>
  BY <1>2, <1>3
<1>5. QED
  BY <1>1, <1>4

\* What stands between names, values and members is a mark with blanks.
LEMMA MarksOf ==
  ASSUME NEW format \in BOOLEAN
  PROVE  /\ Marked(Open(format), 123) /\ Marked(Colon(format), 58) /\ Marked(Stop(format, TRUE), 44)
         /\ Blanks(Stop(format, FALSE))
<1>1. /\ Marked(<<123>>, 123) /\ Marked(<<123, 10>>, 123) /\ Marked(<<58>>, 58) /\ Marked(<<58, 9>>, 58)
      /\ Marked(<<44>>, 44) /\ Marked(<<44, 10>>, 44) /\ Blanks(<<>>) /\ Blanks(<<10>>)
  BY DEF Marked, Blanks, Octet
<1>2. Marked(Open(format), 123) /\ Marked(Colon(format), 58)
  BY <1>1, Zenon DEF Open, Colon
<1>3. /\ <<44>> \o <<>> = <<44>> /\ <<44>> \o <<10>> = <<44, 10>>
      /\ <<>> \o <<>> = <<>> /\ <<>> \o <<10>> = <<10>>
  <2>1. <<44>> \o <<10>> = <<44, 10>>
    BY ConcatTwo, Zenon
  <2>2. <<44>> \in Seq(Nat) /\ <<10>> \in Seq(Nat) /\ <<>> \in Seq(Nat)
    OBVIOUS
  <2>3. QED
    BY <2>1, <2>2, ConcatEmptySeq, Zenon
<1>4. Marked(Stop(format, TRUE), 44) /\ Blanks(Stop(format, FALSE))
  BY <1>1, <1>3 DEF Stop
<1>5. QED
  BY <1>2, <1>4, ZenonT(60)

\* The places of five texts
LEMMA OccursFive ==
  ASSUME NEW X, NEW t \in Seq(X), NEW a \in Seq(X), NEW b \in Seq(X), NEW c \in Seq(X), NEW d \in Seq(X),
         NEW e \in Seq(X), NEW p \in Nat \ {0}, Occurs(t, p, a \o b \o c \o d \o e)
  PROVE  FivePlaces(t, p, a, b, c, d, e)
<1>1. PICK u \in Seq(X) : u = a \o b /\ Len(u) = Len(a) + Len(b)
  BY ConcatProperties, Zenon
<1>2. PICK v \in Seq(X) : v = u \o c /\ Len(v) = Len(u) + Len(c)
  BY ConcatProperties, Zenon
<1>3. PICK w \in Seq(X) : w = v \o d /\ Len(w) = Len(v) + Len(d)
  BY ConcatProperties, Zenon
<1>4. a \o b \o c \o d \o e = w \o e
  BY <1>1, <1>2, <1>3, Zenon
<1>5. Occurs(t, p, w) /\ Occurs(t, p + Len(w), e) /\ Len(w \o e) = Len(w) + Len(e)
  <2>1. Occurs(t, p, w \o e)
    BY <1>4, Zenon
  <2>2. QED
    BY <2>1, OccursConcat, ConcatProperties, ZenonT(60)
<1>6. Occurs(t, p, v) /\ Occurs(t, p + Len(v), d)
  <2>1. Occurs(t, p, v \o d)
    BY <1>3, <1>5, Zenon
  <2>2. QED
    BY <2>1, OccursConcat, Zenon
<1>7. Occurs(t, p, u) /\ Occurs(t, p + Len(u), c)
  <2>1. Occurs(t, p, u \o c)
    BY <1>2, <1>6, Zenon
  <2>2. QED
    BY <2>1, OccursConcat, Zenon
<1>8. Occurs(t, p, a) /\ Occurs(t, p + Len(a), b)
  <2>1. Occurs(t, p, a \o b)
    BY <1>1, <1>7, Zenon
  <2>2. QED
    BY <2>1, OccursConcat, Zenon
<1>9. PICK i, j, k, l \in Nat : i = Len(a) /\ j = Len(b) /\ k = Len(c) /\ l = Len(d)
  OBVIOUS
<1>10. p + (i + j) = (p + i) + j /\ p + ((i + j) + k) = ((p + i) + j) + k
       /\ p + (((i + j) + k) + l) = (((p + i) + j) + k) + l
  OBVIOUS
<1>11. /\ p + Len(u) = (p + Len(a)) + Len(b) /\ p + Len(v) = ((p + Len(a)) + Len(b)) + Len(c)
       /\ p + Len(w) = (((p + Len(a)) + Len(b)) + Len(c)) + Len(d)
  BY <1>1, <1>2, <1>3, <1>9, <1>10, ZenonT(60)
<1>12. Len(w \o e) = (((Len(a) + Len(b)) + Len(c)) + Len(d)) + Len(e)
  BY <1>1, <1>2, <1>3, <1>5, Zenon
<1>13. QED
  BY <1>4, <1>5, <1>6, <1>7, <1>8, <1>11, <1>12, Zenon DEF FivePlaces

\* The texts of a member are where the printer has laid them.
LEMMA MemberTexts ==
  ASSUME NEW t, NEW kids, NEW format, NEW depth, NEW S, NEW g, NEW inside, NEW pos, NEW e,
         ObjectLaid(t, kids, format, depth, S, g, inside, pos, e), NEW i \in 1..Len(kids),
         NEW kid, kid = kids[i]
  PROVE  MemberText(t, kids, format, depth, S, g, pos, i, kid)
<1>0. t \in Seq(Octet) /\ Len(t) \in Nat /\ depth + 1 \in Nat
  BY DEF ObjectLaid, Ended
<1>1. PICK x : x = ObjectTexts(kids, format, depth, g)
  OBVIOUS
<1>2. kid = [key |-> kid.key, val |-> kid.val] /\ kid.key \in Seq(Byte) /\ kid.val \in S
  <2>1. kids \in Seq([key : Seq(Byte), val : S])
    BY Zenon DEF ObjectLaid, Members
  <2>2. kid \in [key : Seq(Byte), val : S]
    BY <2>1, ElementOfSeq, Zenon
  <2>3. QED
    BY <2>2
<1>3. Len(x) = Len(kids)
  <2> DEFINE X(j) == Indent(format, depth + 1) \o StringText(kids[j].key) \o Colon(format)
                     \o TextOf(g[kids[j].val]) \o Stop(format, j < Len(kids))
  <2>1. PICK L \in Nat : L = Len(kids)
    BY DEF ObjectLaid, Members
  <2>2. x = [j \in 1..L |-> X(j)]
    BY <1>1, <2>1, Zenon DEF ObjectTexts
  <2> HIDE DEF X
  <2>3. Len(x) = L
    BY <2>2
  <2>4. QED
    BY <2>1, <2>3
<1>4. PICK a, b, c, d, s \in Seq(Octet) :
        /\ a = Indent(format, depth + 1) /\ b = StringText(kid.key) /\ c = Colon(format)
        /\ d = TextOf(g[kid.val]) /\ s = Stop(format, i < Len(kids))
  <2>1. Indent(format, depth + 1) \in Seq(Octet)
    BY <1>0, IndentBlank, Zenon DEF Blanks
  <2>2. StringText(kid.key) \in Seq(Octet)
    <3>1. print_string(kid.key) \in Seq(Pieces) /\ TextOf(print_string(kid.key)) = StringText(kid.key)
      BY <1>2, StringPrinted, Zenon DEF StringText
    <3>2. QED
      BY <3>1, TextType, Octets, Zenon
  <2>3. Colon(format) \in Seq(Octet) /\ Stop(format, i < Len(kids)) \in Seq(Octet)
    BY ColonType, Octets, Zenon
  <2>4. TextOf(g[kid.val]) \in Seq(Octet)
    <3>1. g[kid.val] \in Seq(Pieces)
      BY <1>2, Zenon DEF ObjectLaid
    <3>2. QED
      BY <3>1, TextType, Octets, Zenon
  <2>5. QED
    BY <2>1, <2>2, <2>3, <2>4, Zenon
<1>5. x[i] = a \o b \o c \o d \o s
  BY <1>1, <1>4, Zenon DEF ObjectTexts
<1>6. pos[i] \in Nat \ {0} /\ pos[i + 1] \in Nat \ {0} /\ Occurs(t, pos[i], x[i]) /\ pos[i + 1] = pos[i] + Len(x[i])
  <2>1. PICK at : LaidOut(t, x, at, pos)
    BY <1>1, Zenon DEF ObjectLaid
  <2>2. i \in 1..Len(x) /\ i \in 1..(Len(x) + 1) /\ i + 1 \in 1..(Len(x) + 1)
    <3>1. PICK L \in Nat : L = Len(kids)
      BY DEF ObjectLaid, Members
    <3>2. i \in 1..L /\ i \in 1..(L + 1) /\ i + 1 \in 1..(L + 1)
      BY <3>1
    <3>3. QED
      BY <1>3, <3>1, <3>2, Zenon
  <2>3. QED
    BY <2>1, <2>2 DEF LaidOut
<1>7. FivePlaces(t, pos[i], a, b, c, d, s)
  <2>1. Occurs(t, pos[i], a \o b \o c \o d \o s)
    BY <1>5, <1>6, Zenon
  <2>2. QED
    BY <1>0, <1>6, <2>1, OccursFive, Zenon
<1>8. \E a2, b2, c2, d2, s2 \in Seq(Octet) :
        /\ a2 = Indent(format, depth + 1) /\ b2 = StringText(kid.key) /\ c2 = Colon(format)
        /\ d2 = TextOf(g[kid.val]) /\ s2 = Stop(format, i < Len(kids))
        /\ FivePlaces(t, pos[i], a2, b2, c2, d2, s2)
        /\ pos[i + 1] = pos[i] + Len(a2 \o b2 \o c2 \o d2 \o s2)
  <2>1. pos[i + 1] = pos[i] + Len(a \o b \o c \o d \o s)
    BY <1>5, <1>6, Zenon
  <2> WITNESS a \in Seq(Octet), b \in Seq(Octet), c \in Seq(Octet), d \in Seq(Octet), s \in Seq(Octet)
  <2>2. QED
    BY <1>4, <1>7, <2>1, Zenon
<1>9. QED
  BY <1>2, <1>6, <1>8, Zenon DEF MemberText

\* The sums of five lengths
LEMMA FiveSums ==
  ASSUME NEW o \in Nat \ {0}, NEW l1 \in Nat, NEW l2 \in Nat, NEW l3 \in Nat, NEW l4 \in Nat, NEW l5 \in Nat
  PROVE  /\ o + l1 \in Nat \ {0} /\ (o + l1) + l2 \in Nat \ {0} /\ ((o + l1) + l2) + l3 \in Nat \ {0}
         /\ (((o + l1) + l2) + l3) + l4 \in Nat \ {0}
         /\ o + ((((l1 + l2) + l3) + l4) + l5) = ((((o + l1) + l2) + l3) + l4) + l5
OBVIOUS

\* Two places in order
LEMMA Places ==
  ASSUME NEW n \in Nat, NEW a \in Nat \ {0}, NEW b, b \in (a + 1)..n
  PROVE  a \in 1..n /\ b \in 1..n
OBVIOUS

\* The name, the colon and the value of each member are where the printer has laid them.
LEMMA MemberPlaced ==
  ASSUME NEW t, NEW kids, NEW format, NEW depth, NEW S, NEW g, NEW inside, NEW pos, NEW e,
         ObjectLaid(t, kids, format, depth, S, g, inside, pos, e), NEW i \in 1..Len(kids),
         NEW b, b = NameAt(format, depth, pos, i), NEW v, v = ValueEnd(format, depth, kids, g, pos, i)
  PROVE  MemberPlaces(t, kids, inside, pos, i, b, v)
<1>0. Ended(t) /\ t \in Seq(Octet) /\ Len(t) \in Nat /\ depth + 1 \in Nat /\ format \in BOOLEAN
  BY DEF ObjectLaid, Ended
<1>1. PICK kid : kid = kids[i]
  OBVIOUS
<1>t. MemberText(t, kids, format, depth, S, g, pos, i, kid)
  BY <1>1, MemberTexts, Zenon
<1>2. PICK x1, x2, x3, x4, x5 \in Seq(Octet) :
        /\ x1 = Indent(format, depth + 1) /\ x2 = StringText(kid.key) /\ x3 = Colon(format)
        /\ x4 = TextOf(g[kid.val]) /\ x5 = Stop(format, i < Len(kids))
        /\ FivePlaces(t, pos[i], x1, x2, x3, x4, x5)
        /\ pos[i + 1] = pos[i] + Len(x1 \o x2 \o x3 \o x4 \o x5)
  BY <1>t, Zenon DEF MemberText
<1>3. /\ kid = [key |-> kid.key, val |-> kid.val] /\ kid.key \in Seq(Byte) /\ kid.val \in S
      /\ pos[i] \in Nat \ {0} /\ pos[i + 1] \in Nat \ {0}
  BY <1>t, Zenon DEF MemberText
<1>4. PICK o \in Nat \ {0} : o = pos[i]
  BY <1>3
<1>5. FivePlaces(t, o, x1, x2, x3, x4, x5) /\ pos[i + 1] = o + Len(x1 \o x2 \o x3 \o x4 \o x5)
  BY <1>2, <1>4, Zenon
<1>6. PICK l1, l2, l3, l4, l5 \in Nat :
        l1 = Len(x1) /\ l2 = Len(x2) /\ l3 = Len(x3) /\ l4 = Len(x4) /\ l5 = Len(x5)
  OBVIOUS
<1>7. PICK n, w : n = b + l2 /\ w = n + l3
  OBVIOUS
<1>8. b = o + l1 /\ v = w + l4
  BY <1>1, <1>2, <1>4, <1>6, <1>7, Zenon DEF NameAt, ValueEnd
<1>9. b \in Nat \ {0} /\ n \in Nat \ {0} /\ w \in Nat \ {0} /\ v \in Nat \ {0} /\ pos[i + 1] = v + l5
  <2>1. pos[i + 1] = o + ((((l1 + l2) + l3) + l4) + l5)
    BY <1>5, <1>6, Zenon DEF FivePlaces
  <2>2. /\ b = o + l1 /\ n = (o + l1) + l2 /\ w = ((o + l1) + l2) + l3
        /\ v = (((o + l1) + l2) + l3) + l4
    BY <1>7, <1>8, Zenon
  <2>3. /\ o + l1 \in Nat \ {0} /\ (o + l1) + l2 \in Nat \ {0} /\ ((o + l1) + l2) + l3 \in Nat \ {0}
        /\ (((o + l1) + l2) + l3) + l4 \in Nat \ {0}
        /\ o + ((((l1 + l2) + l3) + l4) + l5) = ((((o + l1) + l2) + l3) + l4) + l5
    BY FiveSums
  <2>4. QED
    BY <2>1, <2>2, <2>3, Zenon
<1>10. Occurs(t, o, x1) /\ Occurs(t, b, x2) /\ Occurs(t, n, x3) /\ Occurs(t, w, x4) /\ Occurs(t, v, x5)
  BY <1>5, <1>6, <1>7, <1>8, Zenon DEF FivePlaces
<1>11. Gap(t, o, b)
  BY <1>0, <1>2, <1>6, <1>8, <1>10, IndentBlank, BlanksGap, Zenon
<1>12. t[b] = Quote /\ Is(t, b, x2, CreateString(kid.key), parse_string(t, b))
  <2>1. Occurs(t, b, StringText(kid.key))
    BY <1>2, <1>10, Zenon
  <2>2. t[b] = Quote /\ Is(t, b, StringText(kid.key), CreateString(kid.key), parse_string(t, b))
    BY <1>0, <1>3, <1>9, <2>1, StringRead, Zenon
  <2>3. QED
    BY <1>2, <2>2, Zenon
<1>13. b \in 1..Len(t) /\ n \in 1..Len(t) /\ parse_string(t, b) = [at |-> n, node |-> CreateString(kid.key)]
  <2>1. parse_string(t, b) = [at |-> n, node |-> CreateString(kid.key)] /\ n \in (b + 1)..Len(t)
    BY <1>6, <1>7, <1>12, Zenon DEF Is
  <2>2. b \in 1..Len(t) /\ n \in 1..Len(t)
    BY <1>0, <1>9, <2>1, Places, Zenon
  <2>3. QED
    BY <2>1, <2>2, Zenon
<1>14. t[n] = 58 /\ Gap(t, n + 1, w)
  <2>1. Marked(x3, 58)
    BY <1>0, <1>2, MarksOf, Zenon
  <2>2. MarkPlaces(t, n, x3, 58)
    BY <1>9, <1>10, <2>1, MarkGap, Zenon
  <2>3. QED
    BY <1>6, <1>7, <2>2, Zenon DEF MarkPlaces
<1>15. Is(t, w, x4, kid.val, inside[w]) /\ t[w] \in Firsts
  <2>1. Occurs(t, w, TextOf(g[kid.val]))
    BY <1>2, <1>10, Zenon
  <2>2. Is(t, w, TextOf(g[kid.val]), kid.val, inside[w]) /\ t[w] \in Firsts
    BY <1>3, <1>9, <2>1, Zenon DEF ObjectLaid, ReadBack
  <2>3. QED
    BY <1>2, <2>2, Zenon
<1>16. w \in 1..Len(t) /\ v \in 1..Len(t) /\ inside[w] = [at |-> v, node |-> kid.val]
  <2>1. inside[w] = [at |-> v, node |-> kid.val] /\ v \in (w + 1)..Len(t)
    BY <1>6, <1>8, <1>15, Zenon DEF Is
  <2>2. w \in 1..Len(t) /\ v \in 1..Len(t)
    BY <1>0, <1>9, <2>1, Places, Zenon
  <2>3. QED
    BY <2>1, <2>2, Zenon
<1>17. MemberAt(t, kids[i], inside, b, n, w, v)
  BY <1>1, <1>3, <1>12, <1>13, <1>14, <1>15, <1>16, Zenon DEF MemberAt
<1>18. i < Len(kids) => t[v] = 44 /\ Gap(t, v + 1, pos[i + 1])
  <2> SUFFICES ASSUME i < Len(kids) PROVE t[v] = 44 /\ Gap(t, v + 1, pos[i + 1])
    BY Zenon
  <2>1. x5 = Stop(format, TRUE)
    <3>1. (i < Len(kids)) = TRUE
      OBVIOUS
    <3>2. QED
      BY <1>2, <3>1, Zenon
  <2>2. Marked(x5, 44)
    BY <1>0, <2>1, MarksOf, Zenon
  <2>3. MarkPlaces(t, v, x5, 44)
    BY <1>9, <1>10, <2>2, MarkGap, Zenon
  <2>4. QED
    BY <1>6, <1>9, <2>3, Zenon DEF MarkPlaces
<1>19. i = Len(kids) => Gap(t, v, pos[i + 1])
  <2> SUFFICES ASSUME i = Len(kids) PROVE Gap(t, v, pos[i + 1])
    BY Zenon
  <2>1. x5 = Stop(format, FALSE)
    <3>1. (i < Len(kids)) = FALSE
      OBVIOUS
    <3>2. QED
      BY <1>2, <3>1, Zenon
  <2>2. Blanks(x5)
    BY <1>0, <2>1, MarksOf, Zenon
  <2>3. QED
    BY <1>6, <1>9, <1>10, <2>2, BlanksGap, Zenon
<1>20. QED
  BY <1>4, <1>11, <1>17, <1>18, <1>19, Zenon DEF MemberPlaces

\* A member is parsed from any place of the gap before its name.
LEMMA MemberItem ==
  ASSUME NEW t, Ended(t), NEW kid, NEW inside, NEW b, NEW n, NEW w, NEW v,
         MemberAt(t, kid, inside, b, n, w, v), NEW c, Skip(t, v) = c, NEW x, Gap(t, x, b)
  PROVE  /\ parse_item(t, x, "object", inside) = [at |-> c, kid |-> kid]
         /\ t[Skip(t, x)] # 125
<1>0. t \in Seq(Octet) /\ Len(t) \in Nat
  BY DEF Ended
<1>1. /\ b \in 1..Len(t) /\ t[b] = 34 /\ n \in 1..Len(t) /\ t[n] = 58 /\ Gap(t, n + 1, w)
      /\ w \in 1..Len(t) /\ t[w] \in Firsts /\ v \in 1..Len(t)
  BY Zenon DEF MemberAt, Quote
<1>2. Skip(t, x) = b
  <2>1. t[b] > 32
    BY <1>1
  <2>2. QED
    BY <1>0, <1>1, <2>1, GapSkipped
<1>3. Skip(t, n) = n
  <2>1. n \in Nat \ {0} /\ t[n] > 32
    BY <1>1
  <2>2. Gap(t, n, n)
    BY <2>1, NoGap, Zenon
  <2>3. QED
    BY <1>0, <1>1, <2>1, <2>2, GapSkipped
<1>4. Skip(t, n + 1) = w
  <2>1. t[w] > 32
    BY <1>1, FirstsVisible, ZenonT(60)
  <2>2. QED
    BY <1>0, <1>1, <2>1, GapSkipped
<1>5. PICK name : name = parse_string(t, b)
  OBVIOUS
<1>6. name.at = n /\ name.node.str = kid.key /\ name.at > 0
  <2>1. name = [at |-> n, node |-> CreateString(kid.key)]
    BY <1>5, Zenon DEF MemberAt
  <2>2. name.at = n /\ name.node = CreateString(kid.key)
    BY <2>1
  <2>3. CreateString(kid.key).str = kid.key
    BY DEF CreateString, Node
  <2>4. n > 0
    BY <1>1
  <2>5. QED
    BY <2>2, <2>3, <2>4, Zenon
<1>7. PICK z : z = inside[w] /\ z = [at |-> v, node |-> kid.val]
  BY Zenon DEF MemberAt
<1>8. z.at = v /\ z.node = kid.val /\ z.at # 0
  <2>1. z.at = v /\ z.node = kid.val
    BY <1>7
  <2>2. v # 0
    BY <1>1
  <2>3. QED
    BY <2>1, <2>2, Zenon
<1>9. MemberValue(t, name, inside) = z
  BY <1>1, <1>3, <1>4, <1>6, <1>7, Zenon DEF MemberValue
<1>10. parse_item(t, x, "object", inside) = ItemOf(t, name.node.str, z)
  <2>1. "object" # "array"
    OBVIOUS
  <2>2. QED
    BY <1>2, <1>5, <1>9, <2>1, Zenon DEF parse_item
<1>11. ItemOf(t, name.node.str, z) = [at |-> c, kid |-> [key |-> kid.key, val |-> kid.val]]
  BY <1>6, <1>8, Zenon DEF ItemOf
<1>12. kid = [key |-> kid.key, val |-> kid.val]
  BY Zenon DEF MemberAt
<1>13. t[Skip(t, x)] # 125
  <2>1. 34 # 125
    OBVIOUS
  <2>2. QED
    BY <1>1, <1>2, <2>1, ZenonT(60)
<1>14. QED
  BY <1>10, <1>11, <1>12, <1>13, Zenon

\* The members of a printed object are items.
LEMMA ObjectItems ==
  ASSUME NEW t, NEW kids, NEW format, NEW depth, NEW S, NEW g, NEW inside, NEW pos, NEW e,
         ObjectLaid(t, kids, format, depth, S, g, inside, pos, e), NEW L \in Nat, L = Len(kids)
  PROVE  \E b, c : /\ Items(t, "object", inside, kids, b, c, e)
                   /\ L # 0 => Gap(t, pos[1], b[1])
<1>0. /\ Ended(t) /\ t \in Seq(Octet) /\ Len(t) \in Nat /\ e \in 1..Len(t) /\ t[e] = 125
      /\ Close("object") = 125 /\ Gap(t, pos[L + 1], e)
  BY DEF ObjectLaid, Ended, Close
<1>1. PICK b : b = [i \in 1..L |-> NameAt(format, depth, pos, i)]
  OBVIOUS
<1>2. PICK v : v = [i \in 1..L |-> ValueEnd(format, depth, kids, g, pos, i)]
  OBVIOUS
<1>3. PICK c : c = [i \in 1..L |-> IF i < L THEN v[i] ELSE e]
  OBVIOUS
<1>4. ASSUME NEW i \in 1..L PROVE MemberPlaces(t, kids, inside, pos, i, b[i], v[i])
  <2>1. b[i] = NameAt(format, depth, pos, i) /\ v[i] = ValueEnd(format, depth, kids, g, pos, i)
    BY <1>1, <1>2
  <2>2. i \in 1..Len(kids)
    BY Zenon
  <2>3. MemberPlaces(t, kids, inside, pos, i, NameAt(format, depth, pos, i),
                     ValueEnd(format, depth, kids, g, pos, i))
    BY <2>2, MemberPlaced
  <2>4. QED
    BY <2>1, <2>3, Zenon
<1>5. ASSUME NEW i \in 1..L PROVE b[i] \in 1..Len(t) /\ v[i] \in 1..Len(t)
  BY <1>4, Zenon DEF MemberPlaces, MemberAt
<1>6. ASSUME NEW i \in 1..L
      PROVE  /\ i < L => c[i] = v[i] /\ t[c[i]] = 44 /\ Gap(t, c[i] + 1, b[i + 1])
             /\ i = L => c[i] = e
             /\ Skip(t, v[i]) = c[i] /\ c[i] \in 1..Len(t)
  <2>1. CASE i < L
    <3>1. c[i] = v[i]
      BY <1>3, <2>1
    <3>2. PICK k \in 1..Len(t) : k = v[i]
      BY <1>5
    <3>3. t[k] = 44 /\ Gap(t, k + 1, pos[i + 1])
      BY <1>4, <2>1, <3>2, Zenon DEF MemberPlaces
    <3>4. PICK j \in 1..L : j = i + 1
      BY <2>1
    <3>5. Gap(t, pos[j], b[j]) /\ b[j] \in 1..Len(t)
      BY <1>4, <1>5, Zenon DEF MemberPlaces
    <3>6. b[j] \in Nat
      BY <3>5
    <3>7. Gap(t, k + 1, b[j])
      BY <3>3, <3>4, <3>5, <3>6, GapJoin, Zenon
    <3>8. k \in Nat \ {0} /\ t[k] > 32
      BY <3>3
    <3>9. Gap(t, k, k)
      BY <3>8, NoGap, Zenon
    <3>10. Skip(t, k) = k
      BY <1>0, <3>8, <3>9, GapSkipped
    <3>11. i # L
      BY <2>1
    <3>12. QED
      BY <3>1, <3>2, <3>3, <3>4, <3>7, <3>10, <3>11, Zenon
  <2>2. CASE ~(i < L)
    <3>1. i = L /\ c[i] = e
      BY <1>3, <2>2
    <3>2. PICK k : k = v[i]
      OBVIOUS
    <3>3. Gap(t, k, pos[i + 1])
      BY <1>4, <3>1, <3>2, Zenon DEF MemberPlaces
    <3>4. e \in Nat /\ t[e] > 32
      BY <1>0
    <3>5. Gap(t, pos[i + 1], e)
      BY <1>0, <3>1, Zenon
    <3>6. Gap(t, k, e)
      BY <3>3, <3>4, <3>5, GapJoin, Zenon
    <3>7. Skip(t, k) = e
      BY <1>0, <3>4, <3>6, GapSkipped
    <3>8. QED
      BY <1>0, <2>2, <3>1, <3>2, <3>7, Zenon
  <2>3. QED
    BY <2>1, <2>2, Zenon
<1>7. ASSUME NEW i \in 1..L
      PROVE  \A q : Gap(t, q, b[i]) =>
                      /\ parse_item(t, q, "object", inside) = [at |-> c[i], kid |-> kids[i]]
                      /\ t[Skip(t, q)] # Close("object")
  <2>1. PICK n, w : MemberAt(t, kids[i], inside, b[i], n, w, v[i])
    BY <1>4, Zenon DEF MemberPlaces
  <2>2. Skip(t, v[i]) = c[i]
    BY <1>6, Zenon
  <2>3. ASSUME NEW q, Gap(t, q, b[i])
        PROVE  /\ parse_item(t, q, "object", inside) = [at |-> c[i], kid |-> kids[i]]
               /\ t[Skip(t, q)] # 125
    BY <1>0, <2>1, <2>2, <2>3, MemberItem
  <2>4. QED
    BY <1>0, <2>3, ZenonT(60)
<1>8. Items(t, "object", inside, kids, b, c, e)
  BY <1>0, <1>5, <1>6, <1>7, ZenonT(60) DEF Items
<1>9. L # 0 => Gap(t, pos[1], b[1])
  <2> SUFFICES ASSUME L # 0 PROVE Gap(t, pos[1], b[1])
    BY Zenon
  <2>1. 1 \in 1..L
    OBVIOUS
  <2>2. QED
    BY <1>4, <2>1, Zenon DEF MemberPlaces
<1>10. QED
  BY <1>8, <1>9, Zenon

\* The place after the brace
LEMMA OneFurther ==
  ASSUME NEW n \in Nat, NEW at \in Nat \ {0}, NEW e \in 1..n, e >= at, e # n
  PROVE  e + 1 \in (at + 1)..n
OBVIOUS

\* A printed object is parsed to the object, if its values are.
LEMMA ObjectRead ==
  ASSUME NEW t, Ended(t), NEW at \in Nat \ {0}, NEW format \in BOOLEAN, NEW depth \in Nat, NEW S, NEW g,
         \A v \in S : g[v] \in Seq(Pieces), NEW inside, Inside(t, S, inside), ReadBack(t, S, g, inside),
         NEW kids \in Members(S), NEW text, text = TextOf(print_object(kids, format, depth, g)),
         Occurs(t, at, text)
  PROVE  t[at] = 123 /\ Is(t, at, text, Node("object", <<>>, kids), parse_group(t, at, "object", inside))
<1>0. t \in Seq(Octet) /\ Len(t) \in Nat
  BY DEF Ended
<1>1. PICK x \in Seq(Seq(Byte)) :
        /\ x = ObjectTexts(kids, format, depth, g) /\ Len(x) = Len(kids)
        /\ text = (Open(format) \o FlattenSeq(x)) \o (Indent(format, depth) \o <<125>>)
  <2>1. ObjectPrints(kids, format, depth, g)
    BY ObjectPrinted, Zenon
  <2>2. QED
    BY <2>1, Zenon DEF ObjectPrints
<1>2. PICK F \in Seq(Octet) : F = FlattenSeq(x)
  <2>1. FlattenSeq(x) \in Seq(Byte)
    BY FlattenType, Zenon
  <2>2. QED
    BY <2>1, Octets, Zenon
<1>3. PICK o, s, k \in Seq(Octet) : o = Open(format) /\ s = Indent(format, depth) /\ k = <<125>> /\ Len(k) = 1
  <2>1. Open(format) \in Seq(Octet) /\ Indent(format, depth) \in Seq(Octet)
    BY MarksOf, IndentBlank, Zenon DEF Marked, Blanks
  <2>2. <<125>> \in Seq(Octet) /\ Len(<<125>>) = 1
    BY DEF Octet
  <2>3. QED
    BY <2>1, <2>2, Zenon
<1>y. PICK y \in Seq(Octet) : y = o \o F /\ Len(y) = Len(o) + Len(F)
  BY ConcatProperties, Zenon
<1>z. PICK z \in Seq(Octet) : z = s \o k /\ Len(z) = Len(s) + Len(k)
  BY ConcatProperties, Zenon
<1>4. y = o \o F /\ Len(y) = Len(o) + Len(F) /\ z = s \o k /\ Len(z) = Len(s) + Len(k)
  BY <1>y, <1>z, Zenon
<1>5. text = y \o z /\ Len(y \o z) = Len(y) + Len(z)
  <2>1. text = y \o z
    BY <1>1, <1>2, <1>3, <1>4, Zenon
  <2>2. Len(y \o z) = Len(y) + Len(z)
    BY ConcatProperties, Zenon
  <2>3. QED
    BY <2>1, <2>2, Zenon
<1>6. PICK a, b, c \in Nat : a = Len(o) /\ b = Len(F) /\ c = Len(s)
  OBVIOUS
<1>7. Occurs(t, at, y) /\ Occurs(t, at + Len(y), z)
  <2>1. Occurs(t, at, y \o z)
    BY <1>5, Zenon
  <2>2. QED
    BY <1>0, <2>1, OccursConcat, Zenon
<1>8. PICK p, f, e \in Nat \ {0} :
        /\ p = at + a /\ f = p + b /\ e = f + c /\ f = at + (a + b)
        /\ at + ((a + b) + (c + 1)) = e + 1
  OBVIOUS
<1>9. Occurs(t, at, o) /\ Occurs(t, p, F)
  <2>1. Occurs(t, at, o \o F)
    BY <1>4, <1>7, Zenon
  <2>2. Occurs(t, at, o) /\ Occurs(t, at + Len(o), F)
    BY <1>0, <2>1, OccursConcat, Zenon
  <2>3. QED
    BY <1>6, <1>8, <2>2, Zenon
<1>10. Occurs(t, f, s) /\ Occurs(t, e, k)
  <2>1. Occurs(t, f, s \o k)
    BY <1>4, <1>6, <1>7, <1>8, Zenon
  <2>2. Occurs(t, f, s) /\ Occurs(t, f + Len(s), k)
    BY <1>0, <2>1, OccursConcat, Zenon
  <2>3. QED
    BY <1>6, <1>8, <2>2, Zenon
<1>11. e \in 1..Len(t) /\ t[e] = 125
  <2>1. Occurs(t, e, <<125>>) /\ 125 \in Octet
    <3>1. 125 \in Octet
      BY DEF Octet
    <3>2. QED
      BY <1>3, <1>10, <3>1, Zenon
  <2>2. QED
    BY <1>0, <2>1, OccursOne
<1>12. t[at] = 123 /\ Gap(t, at + 1, p)
  <2>1. Marked(o, 123)
    BY <1>3, MarksOf, Zenon
  <2>2. MarkPlaces(t, at, o, 123)
    BY <1>9, <2>1, MarkGap, Zenon
  <2>3. QED
    BY <1>6, <1>8, <2>2, Zenon DEF MarkPlaces
<1>13. Gap(t, f, e)
  <2>1. Blanks(s)
    BY <1>3, IndentBlank, Zenon
  <2>2. Gap(t, f, f + Len(s))
    BY <1>10, <2>1, BlanksGap, Zenon
  <2>3. QED
    BY <1>6, <1>8, <2>2, Zenon
<1>14. PICK pos : LaidOut(t, x, p, pos)
  <2>1. Occurs(t, p, FlattenSeq(x))
    BY <1>2, <1>9, Zenon
  <2>2. x \in Seq(Seq(Octet))
    BY Octets, Zenon
  <2>3. QED
    BY <1>0, <2>1, <2>2, Laid, Zenon
<1>15. pos[1] = p /\ pos[Len(kids) + 1] = f
  BY <1>1, <1>2, <1>6, <1>8, <1>14, Zenon DEF LaidOut
<1>16. ObjectLaid(t, kids, format, depth, S, g, inside, pos, e)
  <2>1. \E q : LaidOut(t, ObjectTexts(kids, format, depth, g), q, pos)
    BY <1>1, <1>14, Zenon
  <2>2. QED
    BY <1>11, <1>13, <1>15, <2>1, Zenon DEF ObjectLaid
<1>17. PICK K : kids \in Seq(K)
  BY Zenon DEF Members
<1>18. PICK L \in Nat : L = Len(kids)
  BY <1>17
<1>19. PICK n, m : /\ Items(t, "object", inside, kids, n, m, e)
                   /\ L # 0 => Gap(t, pos[1], n[1])
  BY <1>16, <1>18, ObjectItems, Zenon
<1>20. kids # <<>> => Gap(t, at + 1, n[1])
  <2> SUFFICES ASSUME kids # <<>> PROVE Gap(t, at + 1, n[1])
    BY Zenon
  <2>1. 1 \in 1..L /\ L # 0
    BY <1>17, <1>18
  <2>2. n[1] \in 1..Len(t)
    BY <1>18, <1>19, <2>1, Zenon DEF Items
  <2>3. n[1] \in Nat
    BY <2>2
  <2>4. Gap(t, at + 1, pos[1]) /\ Gap(t, pos[1], n[1])
    BY <1>12, <1>15, <1>19, <2>1, Zenon
  <2>5. QED
    BY <2>3, <2>4, GapJoin, Zenon
<1>21. kids = <<>> => Skip(t, at + 1) = e
  <2> SUFFICES ASSUME kids = <<>> PROVE Skip(t, at + 1) = e
    BY Zenon
  <2>1. p = f
    <3>1. Len(kids) = 0 /\ 0 + 1 = 1
      OBVIOUS
    <3>2. QED
      BY <1>15, <3>1, Zenon
  <2>2. t[e] > 32
    BY <1>11
  <2>3. Gap(t, at + 1, e)
    BY <1>12, <1>13, <2>1, GapJoin, Zenon
  <2>4. QED
    BY <1>0, <1>11, <2>2, <2>3, GapSkipped
<1>22. parse_group(t, at, "object", inside) = [at |-> e + 1, node |-> Node("object", <<>>, kids)]
  BY <1>17, <1>19, <1>20, <1>21, ItemsGroup
<1>23. PICK l : l = Len(text) /\ l = (a + b) + (c + 1)
  BY <1>3, <1>4, <1>5, <1>6, ZenonT(60)
<1>24. l \in Nat /\ at + l = e + 1
  <2>1. (a + b) + (c + 1) \in Nat
    OBVIOUS
  <2>2. QED
    BY <1>8, <1>23, <2>1, Zenon
<1>25. e + 1 \in (at + 1)..Len(t)
  <2>1. e >= at
    BY <1>8
  <2>2. e # Len(t)
    <3>1. t[Len(t)] = 0
      BY DEF Ended
    <3>2. QED
      BY <1>11, <3>1, SMTT(60)
  <2>3. QED
    BY <1>0, <1>11, <2>1, <2>2, OneFurther
<1>26. QED
  <2>1. Len(text) \in Nat /\ at + Len(text) = e + 1
    BY <1>23, <1>24, Zenon
  <2>2. Is(t, at, text, Node("object", <<>>, kids), parse_group(t, at, "object", inside))
    BY <1>22, <1>25, <2>1, Zenon DEF Is
  <2>3. QED
    BY <1>12, <2>2, Zenon

-----------------------------------------------------------------------------
(* A printed tree is parsed to itself *)

\* A printed node is parsed to the node, if those of the level below are.
LEMMA NodeRead ==
  ASSUME NEW t, Ended(t), NEW n \in 0..CJSON_NESTING_LIMIT, NEW node \in Tree[n], NEW format \in BOOLEAN,
         NEW depth, depth = CJSON_NESTING_LIMIT - n, NEW g, NEW inside,
         n > 0 => /\ \A v \in Tree[n - 1] : g[v] \in Seq(Pieces)
                  /\ Inside(t, Tree[n - 1], inside) /\ ReadBack(t, Tree[n - 1], g, inside),
         NEW at \in Nat \ {0}, NEW text, text = TextOf(print_value(node, format, depth, g)),
         Occurs(t, at, text)
  PROVE  Is(t, at, text, node, parse_value(t, at, depth, inside)) /\ t[at] \in Firsts
<1>0. t \in Seq(Octet) /\ Len(t) \in Nat
  BY DEF Ended
<1>1. depth \in Nat /\ (n > 0 => depth < CJSON_NESTING_LIMIT)
  BY NestingLimit DEF NestingLimit
<1>2. CASE node.type \in {"null", "true", "false"} /\ node = Node(node.type, <<>>, <<>>)
  BY <1>2, LeafRead
<1>3. CASE node.type = "string" /\ node.str \in Seq(Byte) /\ node = Node("string", node.str, <<>>)
  BY <1>3, LeafRead
<1>4. ASSUME NEW v, Is(t, at, text, node, v) PROVE at \in 1..Len(t)
  BY <1>0, <1>4, Within, Zenon
<1>5. PICK u : u = parse_value(t, at, depth, inside)
  OBVIOUS
<1>6. CASE node.type = "array" /\ n \in 1..CJSON_NESTING_LIMIT
           /\ node.kids \in Elements(Tree[n - 1]) /\ node = Node("array", <<>>, node.kids)
  <2>0. PICK S : S = Tree[n - 1]
    OBVIOUS
  <2>1. PICK kids \in Elements(S) : kids = node.kids /\ node = Node("array", <<>>, kids)
    BY <1>6, <2>0, Zenon
  <2>2. print_value(node, format, depth, g) = print_array(kids, format, g)
    BY <1>6, <2>1 DEF print_value
  <2>3. n > 0
    BY <1>6
  <2>4. (\A v \in S : g[v] \in Seq(Pieces)) /\ Inside(t, S, inside) /\ ReadBack(t, S, g, inside)
    BY <2>0, <2>3, Zenon
  <2>5. text = TextOf(print_array(kids, format, g))
    BY <2>2, Zenon
  <2>6. t[at] = 91 /\ Is(t, at, text, Node("array", <<>>, kids), parse_group(t, at, "array", inside))
    BY <2>4, <2>5, ArrayRead
  <2>7. at \in 1..Len(t)
    BY <1>4, <2>1, <2>6
  <2>8. ValueIs(t, at, depth, inside, u)
    BY <1>5, <2>7, ValueCases, Zenon
  <2>9. u = parse_group(t, at, "array", inside)
    BY <1>1, <2>3, <2>6, <2>8, Zenon DEF ValueIs
  <2>10. 91 \in Firsts
    BY DEF Firsts
  <2>11. QED
    BY <1>5, <2>1, <2>6, <2>9, <2>10
<1>7. CASE node.type = "object" /\ n \in 1..CJSON_NESTING_LIMIT
           /\ node.kids \in Members(Tree[n - 1]) /\ node = Node("object", <<>>, node.kids)
  <2>0. PICK S : S = Tree[n - 1]
    OBVIOUS
  <2>1. PICK kids \in Members(S) : kids = node.kids /\ node = Node("object", <<>>, kids)
    BY <1>7, <2>0, Zenon
  <2>2. print_value(node, format, depth, g) = print_object(kids, format, depth, g)
    BY <1>7, <2>1 DEF print_value
  <2>3. n > 0
    BY <1>7
  <2>4. (\A v \in S : g[v] \in Seq(Pieces)) /\ Inside(t, S, inside) /\ ReadBack(t, S, g, inside)
    BY <2>0, <2>3, Zenon
  <2>5. text = TextOf(print_object(kids, format, depth, g))
    BY <2>2, Zenon
  <2>6. t[at] = 123 /\ Is(t, at, text, Node("object", <<>>, kids), parse_group(t, at, "object", inside))
    BY <1>1, <2>4, <2>5, ObjectRead
  <2>7. at \in 1..Len(t)
    BY <1>4, <2>1, <2>6
  <2>8. ValueIs(t, at, depth, inside, u)
    BY <1>5, <2>7, ValueCases, Zenon
  <2>9. u = parse_group(t, at, "object", inside)
    BY <1>1, <2>3, <2>6, <2>8, Zenon DEF ValueIs
  <2>10. 123 \in Firsts
    BY DEF Firsts
  <2>11. QED
    BY <1>5, <2>1, <2>6, <2>9, <2>10
<1>8. QED
  BY <1>2, <1>3, <1>6, <1>7, NodeCases, Zenon

\* So are the nodes of every level, by induction over the levels.
LEMMA TreesRead ==
  ASSUME NEW t, Ended(t), NEW format \in BOOLEAN, NEW P, Printers(format, P), NEW V, Parsers(t, V)
  PROVE  ReadBack(t, Tree[CJSON_NESTING_LIMIT], P[CJSON_NESTING_LIMIT], V[CJSON_NESTING_LIMIT])
<1>0. PICK N \in Nat : N = CJSON_NESTING_LIMIT
  BY NestingLimit DEF NestingLimit
<1> DEFINE T == {n \in Nat : n \in 0..CJSON_NESTING_LIMIT => ReadBack(t, Tree[n], P[n], V[n])}
<1>1. ASSUME NEW n \in 0..CJSON_NESTING_LIMIT,
             n > 0 => n - 1 \in 0..CJSON_NESTING_LIMIT /\ ReadBack(t, Tree[n - 1], P[n - 1], V[n - 1])
      PROVE  ReadBack(t, Tree[n], P[n], V[n])
  <2>1. ASSUME NEW node \in Tree[n], NEW at \in Nat \ {0}, Occurs(t, at, TextOf(P[n][node]))
        PROVE  Is(t, at, TextOf(P[n][node]), node, V[n][at]) /\ t[at] \in Firsts
    <3>1. PICK depth : depth = CJSON_NESTING_LIMIT - n
      OBVIOUS
    <3>2. PICK text : text = TextOf(P[n][node])
      OBVIOUS
    <3>3. text = TextOf(print_value(node, format, depth, P[n - 1]))
      BY <3>1, <3>2, Zenon DEF Printers
    <3>4. n > 0 => /\ \A v \in Tree[n - 1] : P[n - 1][v] \in Seq(Pieces)
                   /\ Inside(t, Tree[n - 1], V[n - 1]) /\ ReadBack(t, Tree[n - 1], P[n - 1], V[n - 1])
      BY <1>1, Zenon DEF Printers, Parsers
    <3>5. Occurs(t, at, text)
      BY <2>1, <3>2, Zenon
    <3>6. Is(t, at, text, node, parse_value(t, at, depth, V[n - 1])) /\ t[at] \in Firsts
      BY <3>1, <3>3, <3>4, <3>5, NodeRead, Zenon
    <3>7. Len(t) \in Nat
      BY DEF Ended
    <3>8. at \in 1..Len(t)
      BY <3>6, <3>7, Within, Zenon
    <3>9. V[n][at] = parse_value(t, at, depth, V[n - 1])
      BY <3>1, <3>8, Zenon DEF Parsers
    <3>10. QED
      BY <3>2, <3>6, <3>9, Zenon
  <2>2. QED
    BY <2>1, Zenon DEF ReadBack
<1>2. 0 \in T
  <2>1. 0 \in 0..CJSON_NESTING_LIMIT /\ ~(0 > 0)
    BY <1>0
  <2>2. ReadBack(t, Tree[0], P[0], V[0])
    BY <1>1, <2>1, Zenon
  <2>3. QED
    BY <2>2
<1>3. ASSUME NEW n \in Nat, n \in T PROVE n + 1 \in T
  <2> SUFFICES ASSUME n + 1 \in 0..CJSON_NESTING_LIMIT PROVE ReadBack(t, Tree[n + 1], P[n + 1], V[n + 1])
    OBVIOUS
  <2>1. n \in 0..CJSON_NESTING_LIMIT /\ (n + 1) - 1 = n
    BY <1>0
  <2>2. ReadBack(t, Tree[n], P[n], V[n])
    BY <1>3, <2>1
  <2>3. QED
    BY <1>1, <2>1, <2>2, Zenon
<1>4. Nat \subseteq T
  <2> HIDE DEF T
  <2> QED BY <1>2, <1>3, Induction
<1>5. N \in T /\ N \in 0..N
  <2> HIDE DEF T
  <2> QED BY <1>4
<1>6. QED
  BY <1>0, <1>5

\* A byte order mark is known by its first byte.
LEMMA BomFirst ==
  ASSUME NEW t, Ended(t), NEW at \in 1..Len(t), StartsWith(t, at, Utf8Mark) PROVE t[at] = 239
<1>0. Utf8Mark \in Seq(Octet) /\ Utf8Mark # <<>> /\ Len(Utf8Mark) = 3 /\ Utf8Mark[1] = 239 /\ Utf8Mark[3] # 0
  BY DEF Utf8Mark, Octet
<1>1. Utf8Mark \in Seq(Octet) /\ Utf8Mark # <<>> /\ Utf8Mark[Len(Utf8Mark)] # 0 /\ Utf8Mark[1] = 239
  BY <1>0
<1>3. at + Len(Utf8Mark) \in (at + 1)..Len(t) /\ t[at] = Utf8Mark[1]
  BY <1>1, WordBefore
<1>4. QED
  BY <1>1, <1>3, Zenon

\* Whatever the layout, the text of a tree is parsed to that tree.
LEMMA TreeRead ==
  ASSUME NEW root \in Tree[CJSON_NESTING_LIMIT], NEW format \in BOOLEAN, NEW text, text = Printed(root, format)
  PROVE  Parse(text).node = root /\ Parse(text).at # 0
<1>0. PICK P : Printers(format, P)
  BY PrintersExist, Zenon
<1>1. CJSON_NESTING_LIMIT \in 0..CJSON_NESTING_LIMIT
  BY NestingLimit DEF NestingLimit
<1>2. PICK N : N = CJSON_NESTING_LIMIT
  OBVIOUS
<1>3. print(root, format) = P[N][root] /\ P[N][root] \in Seq(Pieces)
  BY <1>0, <1>1, <1>2, Zenon DEF Printers
<1>4. text = TextOf(P[N][root])
  BY <1>3, Zenon DEF Printed, TextOf
<1>5. text \in Seq(Byte) /\ text \in Seq(Octet)
  <2>1. text \in Seq(Byte)
    BY <1>3, <1>4, TextType, Zenon
  <2>2. QED
    BY <2>1, Octets, Zenon
<1>6. PICK t : t = CText(text)
  OBVIOUS
<1>7. Ended(t) /\ t = text \o <<0>>
  BY <1>5, <1>6, CTextEnded, Whole, Zenon DEF CText
<1>8. t \in Seq(Octet) /\ Len(t) \in Nat
  BY <1>7 DEF Ended
<1>9. Occurs(t, 1, text)
  <2>1. PICK n \in Nat : n = Len(text)
    BY <1>5
  <2>2. Len(t) = n + 1 /\ \A i \in 1..n : t[i] = text[i]
    BY <1>5, <1>7, <2>1 DEF Octet
  <2>3. 1 + n <= (n + 1) + 1 /\ \A i \in 1..n : 1 + i - 1 = i
    OBVIOUS
  <2>4. QED
    BY <2>1, <2>2, <2>3, Zenon DEF Occurs
<1>10. PICK V : Parsers(t, V)
  BY <1>7, ParsersExist, Zenon
<1>11. ReadBack(t, Tree[N], P[N], V[N])
  BY <1>0, <1>2, <1>7, <1>10, TreesRead, Zenon
<1>12. Is(t, 1, text, root, V[N][1]) /\ t[1] \in Firsts
  <2>1. 1 \in Nat \ {0}
    OBVIOUS
  <2>2. root \in Tree[N] /\ Occurs(t, 1, TextOf(P[N][root]))
    BY <1>2, <1>4, <1>9, Zenon
  <2>3. QED
    BY <1>4, <1>11, <2>1, <2>2, Zenon DEF ReadBack
<1>13. 1 \in 1..Len(t) /\ V[N][1].node = root /\ V[N][1].at # 0
  <2>1. 1 \in Nat \ {0}
    OBVIOUS
  <2>2. PICK v : v = V[N][1]
    OBVIOUS
  <2>3. Is(t, 1, text, root, v)
    BY <1>12, <2>2, Zenon
  <2>4. 1 \in 1..Len(t) /\ v.at = 1 + Len(text) /\ v.node = root /\ v.at # 0 /\ v.at \in Nat
    BY <1>8, <2>1, <2>3, Within
  <2>5. QED
    BY <2>2, <2>4, Zenon
<1>14. Start(t) = 1
  <2>0. Ended(t) /\ 1 \in 1..Len(t)
    BY <1>7, <1>13, Zenon
  <2>1. ~StartsWith(t, 1, <<239, 187, 191>>)
    <3>1. 239 \notin Firsts
      BY DEF Firsts
    <3>2. ~StartsWith(t, 1, Utf8Mark)
      <4>1. ASSUME StartsWith(t, 1, Utf8Mark) PROVE t[1] = 239
        BY <2>0, <4>1, BomFirst
      <4>2. QED
        BY <1>12, <3>1, <4>1, Zenon
    <3>3. QED
      BY <3>2, Zenon DEF Utf8Mark
  <2>2. Start(t) = Skip(t, 1)
    BY <2>1, Zenon DEF Start
  <2>3. t[1] > 32 /\ Gap(t, 1, 1)
    <3>1. t[1] > 32
      BY <1>12, FirstsVisible, Zenon
    <3>2. 1 \in Nat \ {0}
      OBVIOUS
    <3>3. QED
      BY <3>1, <3>2, NoGap, Zenon
  <2>4. Skip(t, 1) = 1
    BY <1>8, <1>13, <2>3, GapSkipped
  <2>5. QED
    BY <2>2, <2>4, Zenon
<1>15. Parse(text) = parse(t, Start(t))
  BY <1>6, Zenon DEF Parse, CText, Start
<1>16. Parse(text) = V[N][1]
  BY <1>2, <1>10, <1>14, <1>15, Zenon DEF Parsers
<1>17. QED
  BY <1>13, <1>16, Zenon

\* What GetJsonParse finds under one of the three keys of a message is the field with that key.
LEMMA FieldFound ==
  ASSUME NEW fields \in [1..3 -> Seq(Byte)], NEW root, root = Message(fields), NEW i \in 1..3, NEW old
  PROVE  GetJsonParse(root, Keys[i], old) = fields[i]
<1>1. PICK kids : kids = <<Field(fields, 1), Field(fields, 2), Field(fields, 3)>>
  OBVIOUS
<1>2. Len(kids) = 3 /\ \A j \in 1..3 : kids[j] = Field(fields, j)
  BY <1>1
<1>3. root = Node("object", <<>>, kids)
  BY <1>1, MessageKids, Zenon
<1>4. root.kids = kids
  BY <1>3 DEF Node
<1>5. \A j \in 1..3 : kids[j].key = Keys[j] /\ kids[j].val.type = "string" /\ kids[j].val.str = fields[j]
  BY <1>2 DEF Field, CreateString, Node
<1>6. \A j \in 1..3 : SameKey(Keys[i], kids[j].key) <=> j = i
  BY <1>5, ThreeKeys DEF ThreeKeys
<1>7. PICK I : I = {j \in 1..3 : SameKey(Keys[i], kids[j].key)}
  OBVIOUS
<1>8. I = {i}
  BY <1>6, <1>7
<1>9. Min(I) = i /\ I # {}
  BY <1>8 DEF Min
<1>10. GetObjectItem(root, Keys[i]) = IF I # {} THEN Min(I) ELSE 0
  BY <1>2, <1>4, <1>7, Zenon DEF GetObjectItem, SelectInSeq
<1>11. GetObjectItem(root, Keys[i]) = i
  BY <1>9, <1>10, Zenon
<1>12. i # 0
  OBVIOUS
<1>13. QED
  BY <1>4, <1>5, <1>11, <1>12, Zenon DEF GetJsonParse

\* TextsKept for texts of any length and trees of any depth the parser takes: what GetWarnSendData prints of
\* three strings is read back by WarnMsgParse as the same three, with whatever bytes they have; and what was
\* read from any text, printed with layout or without, is read back as the same tree, blanks, escapes, pairs of
\* surrogates and all.  Numbers are not modelled, so the texts are those in which cJSON finds none.
THEOREM TextsCorrect ==
  ASSUME kind = "message" => input \in [1..3 -> Seq(Byte)],
         kind = "text" => input \in Seq(Seq(Octet))
  PROVE  TextsKept
<1>1. ASSUME kind = "message", NEW old PROVE WarnMsgParse(GetWarnSendData(input), old) = input
  <2>1. PICK fields \in [1..3 -> Seq(Byte)] : fields = input
    BY <1>1
  <2>2. PICK root : root = Message(fields)
    OBVIOUS
  <2>3. root \in Tree[CJSON_NESTING_LIMIT]
    BY <2>2, MessageKids, TreesDeep, Zenon
  <2>4. PICK text : text = Printed(root, FALSE)
    OBVIOUS
  <2>5. Parse(text).node = root /\ Parse(text).at # 0
    <3>1. FALSE \in BOOLEAN
      OBVIOUS
    <3>2. QED
      BY <2>3, <2>4, <3>1, TreeRead, Zenon
  <2>6. \A i \in 1..3 : GetJsonParse(root, Keys[i], old[i]) = fields[i]
    BY <2>2, FieldFound, Zenon
  <2>7. WarnMsgParse(text, old) = [i \in 1..3 |-> GetJsonParse(root, Keys[i], old[i])]
    BY <2>5, Zenon DEF WarnMsgParse
  <2>8. [i \in 1..3 |-> GetJsonParse(root, Keys[i], old[i])] = [i \in 1..3 |-> fields[i]]
    BY <2>6, Zenon
  <2>9. [i \in 1..3 |-> fields[i]] = fields
    OBVIOUS
  <2>10. GetWarnSendData(input) = text
    BY <2>1, <2>2, <2>4, Zenon DEF GetWarnSendData
  <2>11. QED
    BY <2>1, <2>7, <2>8, <2>9, <2>10, Zenon
<1>2. ASSUME kind = "text", Parse(FlattenSeq(input)).at > 0, NEW format \in BOOLEAN
      PROVE  Parse(Printed(Parse(FlattenSeq(input)).node, format)).node = Parse(FlattenSeq(input)).node
  <2>1. FlattenSeq(input) \in Seq(Octet)
    BY <1>2, FlattenType, Zenon
  <2>2. Parse(FlattenSeq(input)).at # 0
    <3>1. ~(0 > 0)
      OBVIOUS
    <3>2. QED
      BY <1>2, <3>1, Zenon
  <2>3. PICK root \in Tree[CJSON_NESTING_LIMIT] : root = Parse(FlattenSeq(input)).node
    BY <2>1, <2>2, ParsedTree, Zenon
  <2>4. Parse(Printed(root, format)).node = root
    BY TreeRead, Zenon
  <2>5. QED
    BY <2>3, <2>4, Zenon
<1>3. QED
  BY <1>1, <1>2, Zenon DEF TextsKept

-----------------------------------------------------------------------------
(* Files *)

\* Each of these recursions has a solution.
LEMMA LoopExists ==
  ASSUME NEW loop, NEW s, NEW base, NEW L \in Nat PROVE \E f : LoopOf(loop, s, base, L, f)
<1> DEFINE B(n, f) == IF n = 0 THEN base ELSE LoopStep(loop, s, n, f[n - 1])
           A(f, k) == f = [n \in 0..L |-> f[n]] /\ \A n \in 0..L : n <= k => f[n] = B(n, f)
           T == {k \in Nat : \E f : A(f, k)}
<1>1. 0 \in T
  <2>1. PICK f : f = [n \in 0..L |-> base]
    OBVIOUS
  <2>2. f = [n \in 0..L |-> f[n]]
    BY <2>1
  <2>3. \A n \in 0..L : n <= 0 => f[n] = B(n, f)
    BY <2>1
  <2>4. A(f, 0)
    BY <2>2, <2>3, Zenon
  <2>5. QED
    <3> HIDE DEF A
    <3> QED BY <2>4
<1>2. ASSUME NEW k \in Nat, k \in T PROVE k + 1 \in T
  <2>1. PICK f : A(f, k)
    BY <1>2
  <2>2. PICK v : v = B(k + 1, f)
    OBVIOUS
  <2>3. PICK g : g = [n \in 0..L |-> IF n = k + 1 THEN v ELSE f[n]]
    OBVIOUS
  <2>4. g = [n \in 0..L |-> g[n]]
    BY <2>3
  <2>5. ASSUME NEW n \in 0..L, n <= k + 1 PROVE g[n] = B(n, g)
    <3>1. CASE n = 0
      <4>1. g[0] = f[0]
        BY <2>3
      <4>2. f[0] = B(0, f)
        <5>1. 0 \in 0..L /\ 0 <= k
          OBVIOUS
        <5>2. QED
          BY <2>1, <5>1, Zenon
      <4>3. QED
        BY <3>1, <4>1, <4>2, Zenon
    <3>2. CASE n # 0
      <4>1. n - 1 \in 0..L /\ n - 1 # k + 1
        BY <2>5, <3>2
      <4>2. g[n - 1] = f[n - 1]
        BY <2>3, <4>1
      <4>3. B(n, g) = B(n, f)
        BY <4>2, Zenon
      <4>4. CASE n = k + 1
        <5>1. g[n] = v
          BY <2>3, <4>4
        <5>2. QED
          BY <2>2, <4>3, <4>4, <5>1, Zenon
      <4>5. CASE n # k + 1
        <5>1. n <= k /\ g[n] = f[n]
          BY <2>3, <2>5, <4>5
        <5>2. f[n] = B(n, f)
          BY <2>1, <5>1, Zenon
        <5>3. QED
          BY <4>3, <5>1, <5>2, Zenon
      <4>6. QED
        BY <4>4, <4>5
    <3>3. QED
      BY <3>1, <3>2
  <2>6. A(g, k + 1)
    BY <2>4, <2>5, Zenon
  <2>7. QED
    <3> HIDE DEF A
    <3> QED BY <2>6
<1>3. Nat \subseteq T
  <2> HIDE DEF T
  <2> QED BY <1>1, <1>2, Induction
<1>4. PICK f : A(f, L)
  <2> HIDE DEF A
  <2> QED BY <1>3
<1>5. \A n \in 0..L : n <= L
  OBVIOUS
<1>6. \A n \in 0..L : f[n] = B(n, f)
  BY <1>4, <1>5, Zenon
<1>7. f = [n \in 0..L |-> f[n]]
  BY <1>4, Zenon
<1>8. LoopOf(loop, s, base, L, f)
  BY <1>6, <1>7, Zenon DEF LoopOf
<1>9. QED
  BY <1>8, Zenon

\* Such a solution starts at the base and takes each step.
LEMMA LoopTakes ==
  ASSUME NEW loop, NEW s, NEW base, NEW L \in Nat, NEW f, LoopOf(loop, s, base, L, f)
  PROVE  Takes(loop, s, base, L, f)
<1>1. 0 \in 0..L /\ \A n \in 1..L : n \in 0..L /\ n # 0
  OBVIOUS
<1>2. \A n \in 0..L : f[n] = IF n = 0 THEN base ELSE LoopStep(loop, s, n, f[n - 1])
  BY Zenon DEF LoopOf
<1>3. QED
  BY <1>1, <1>2, Zenon DEF Takes

\* The recursive functions of the readers have their equations.
LEMMA NumSteps ==
  ASSUME NEW value, Len(value) \in Nat
  PROVE  \E f : Takes("digit", value, 0, Len(value), f) /\ GetIntNum(value) = f[Len(value)]
<1> DEFINE D(f) == f = [n \in 0..Len(value) |->
                          IF n = 0 THEN 0
                          ELSE IF value[n] \in DOMAIN Digit THEN 10 * f[n - 1] + Digit[value[n]]
                          ELSE f[n - 1]]
<1>1. \A f : LoopOf("digit", value, 0, Len(value), f) <=> D(f)
  BY Zenon DEF LoopOf, LoopStep
<1>2. \E f : D(f)
  <2> HIDE DEF D
  <2> QED BY <1>1, LoopExists, Zenon
<1>3. PICK g : g = (CHOOSE h : D(h)) /\ D(g)
  <2> HIDE DEF D
  <2> QED BY <1>2
<1>4. GetIntNum(value) = g[Len(value)]
  BY <1>3, Zenon DEF GetIntNum
<1> HIDE DEF D
<1>5. QED
  BY <1>1, <1>3, <1>4, LoopTakes, Zenon

\* Those of a view.
LEMMA InfoSteps ==
  ASSUME NEW attrs, Len(attrs) \in Nat
  PROVE  \E f : Takes("viewAttr", attrs, NoView, Len(attrs), f) /\ ViewInfoOf(attrs) = f[Len(attrs)]
<1> DEFINE D(f) == f = [n \in 0..Len(attrs) |-> IF n = 0 THEN NoView ELSE XmlAttrParse(f[n - 1], attrs[n])]
<1>0. "viewAttr" # "digit"
  OBVIOUS
<1>1. \A f : LoopOf("viewAttr", attrs, NoView, Len(attrs), f) <=> D(f)
  BY <1>0, Zenon DEF LoopOf, LoopStep
<1>2. \E f : D(f)
  <2> HIDE DEF D
  <2> QED BY <1>1, LoopExists, Zenon
<1>3. PICK g : g = (CHOOSE h : D(h)) /\ D(g)
  <2> HIDE DEF D
  <2> QED BY <1>2
<1>4. ViewInfoOf(attrs) = g[Len(attrs)]
  BY <1>3, Zenon DEF ViewInfoOf
<1> HIDE DEF D
<1>5. QED
  BY <1>1, <1>3, <1>4, LoopTakes, Zenon

\* Those of the elements in it.
LEMMA KidSteps ==
  ASSUME NEW e, Len(e.kids) \in Nat
  PROVE  \E f : Takes("kid", e.kids, ViewInfoOf(e.attrs), Len(e.kids), f) /\ ViewOf(e) = f[Len(e.kids)]
<1> DEFINE D(f) == f = [n \in 0..Len(e.kids) |-> IF n = 0 THEN ViewInfoOf(e.attrs) ELSE PushChildViewName(f[n - 1], e.kids[n])]
<1>0. "kid" # "digit" /\ "kid" # "viewAttr"
  OBVIOUS
<1>1. \A f : LoopOf("kid", e.kids, ViewInfoOf(e.attrs), Len(e.kids), f) <=> D(f)
  BY <1>0, Zenon DEF LoopOf, LoopStep
<1>2. \E f : D(f)
  <2> HIDE DEF D
  <2> QED BY <1>1, LoopExists, Zenon
<1>3. PICK g : g = (CHOOSE h : D(h)) /\ D(g)
  <2> HIDE DEF D
  <2> QED BY <1>2
<1>4. ViewOf(e) = g[Len(e.kids)]
  BY <1>3, Zenon DEF ViewOf
<1> HIDE DEF D
<1>5. QED
  BY <1>1, <1>3, <1>4, LoopTakes, Zenon

\* Those of view.xml.
LEMMA MapSteps ==
  ASSUME NEW file, Len(file) \in Nat
  PROVE  \E f : Takes("view", file, Empty, Len(file), f) /\ XmlParse(file) = ParsedAs(file, f[Len(file)])
<1> DEFINE D(f) == f = [n \in 0..Len(file) |-> IF n = 0 THEN Empty ELSE AddView(f[n - 1], ViewOf(file[n]))]
<1>0. "view" # "digit" /\ "view" # "viewAttr" /\ "view" # "kid"
  OBVIOUS
<1>1. \A f : LoopOf("view", file, Empty, Len(file), f) <=> D(f)
  BY <1>0, Zenon DEF LoopOf, LoopStep
<1>2. \E f : D(f)
  <2> HIDE DEF D
  <2> QED BY <1>1, LoopExists, Zenon
<1>3. PICK g : g = (CHOOSE h : D(h)) /\ D(g)
  <2> HIDE DEF D
  <2> QED BY <1>2
<1>4. XmlParse(file) = ParsedAs(file, g[Len(file)])
  BY <1>3, Zenon DEF XmlParse, ParsedAs
<1> HIDE DEF D
<1>5. QED
  BY <1>1, <1>3, <1>4, LoopTakes, Zenon

\* Those of a sound.
LEMMA SoundSteps ==
  ASSUME NEW attrs, Len(attrs) \in Nat
  PROVE  \E f : Takes("soundAttr", attrs, NoSound, Len(attrs), f) /\ SoundOf(attrs) = f[Len(attrs)]
<1> DEFINE D(f) == f = [n \in 0..Len(attrs) |-> IF n = 0 THEN NoSound ELSE paraseAttr(f[n - 1], attrs[n])]
<1>0. "soundAttr" # "digit" /\ "soundAttr" # "viewAttr" /\ "soundAttr" # "kid" /\ "soundAttr" # "view"
  OBVIOUS
<1>1. \A f : LoopOf("soundAttr", attrs, NoSound, Len(attrs), f) <=> D(f)
  BY <1>0, Zenon DEF LoopOf, LoopStep
<1>2. \E f : D(f)
  <2> HIDE DEF D
  <2> QED BY <1>1, LoopExists, Zenon
<1>3. PICK g : g = (CHOOSE h : D(h)) /\ D(g)
  <2> HIDE DEF D
  <2> QED BY <1>2
<1>4. SoundOf(attrs) = g[Len(attrs)]
  BY <1>3, Zenon DEF SoundOf
<1> HIDE DEF D
<1>5. QED
  BY <1>1, <1>3, <1>4, LoopTakes, Zenon

\* Those of audio.xml.
LEMMA SoundsSteps ==
  ASSUME NEW file, Len(file) \in Nat
  PROVE  \E f : Takes("sound", file, Empty, Len(file), f) /\ paraseNode(file) = f[Len(file)]
<1> DEFINE D(f) == f = [n \in 0..Len(file) |-> IF n = 0 THEN Empty ELSE AddSound(f[n - 1], SoundOf(file[n].attrs))]
<1>0. "sound" # "digit" /\ "sound" # "viewAttr" /\ "sound" # "kid" /\ "sound" # "view" /\ "sound" # "soundAttr"
  OBVIOUS
<1>1. \A f : LoopOf("sound", file, Empty, Len(file), f) <=> D(f)
  BY <1>0, Zenon DEF LoopOf, LoopStep
<1>2. \E f : D(f)
  <2> HIDE DEF D
  <2> QED BY <1>1, LoopExists, Zenon
<1>3. PICK g : g = (CHOOSE h : D(h)) /\ D(g)
  <2> HIDE DEF D
  <2> QED BY <1>2
<1>4. paraseNode(file) = g[Len(file)]
  BY <1>3, Zenon DEF paraseNode
<1> HIDE DEF D
<1>5. QED
  BY <1>1, <1>3, <1>4, LoopTakes, Zenon

-----------------------------------------------------------------------------
(* The last attribute of a name *)

\* No attribute has no last one.
LEMMA LastNone ==
  ASSUME NEW attrs, NEW name PROVE Lasts(attrs, 0, name) = {} /\ \A d : LastAt(attrs, 0, name, d) = d
  BY DEF Lasts, LastAt

\* The attribute that is added is the last of its name.
LEMMA LastHere ==
  ASSUME NEW attrs, NEW n \in Nat \ {0}, NEW name, attrs[n].name = name
  PROVE  Newest(Lasts(attrs, n, name)) = n /\ Lasts(attrs, n, name) # {}
<1>1. PICK T : T = Lasts(attrs, n, name)
  OBVIOUS
<1>2. n \in T /\ \A j \in T : n >= j /\ j \in Nat
  BY <1>1 DEF Lasts
<1>3. Newest(T) = n
  <2>1. \A i \in T : (\A j \in T : i >= j) => i = n
    BY <1>2
  <2>2. \E i \in T : \A j \in T : i >= j
    BY <1>2, Zenon
  <2>3. QED
    BY <2>1, <2>2, Zenon DEF Newest
<1>4. T # {}
  BY <1>2
<1>5. QED
  BY <1>1, <1>3, <1>4, Zenon

\* Its value is that of the last.
LEMMA LastHereIs ==
  ASSUME NEW attrs, NEW n \in Nat \ {0}, NEW name, attrs[n].name = name, NEW d
  PROVE  LastAt(attrs, n, name, d) = attrs[n].value
<1>1. Newest(Lasts(attrs, n, name)) = n /\ Lasts(attrs, n, name) # {}
  BY LastHere
<1>2. QED
  BY <1>1, Zenon DEF LastAt

\* It is not the last of another name.
LEMMA LastBefore ==
  ASSUME NEW attrs, NEW n \in Nat \ {0}, NEW m, m = n - 1, NEW name, attrs[n].name # name
  PROVE  /\ Lasts(attrs, n, name) = Lasts(attrs, m, name)
         /\ \A d : LastAt(attrs, n, name, d) = LastAt(attrs, m, name, d)
<1>1. Lasts(attrs, n, name) = Lasts(attrs, m, name)
  BY DEF Lasts
<1>2. QED
  BY <1>1, Zenon DEF LastAt

\* The property and the proof mean the same by the last of a name.
LEMMA LastAll ==
  ASSUME NEW X, NEW attrs \in Seq(X), NEW name, NEW d
  PROVE  LastOf(attrs, name, d) = LastAt(attrs, Len(attrs), name, d)
<1>1. DOMAIN attrs = 1..Len(attrs)
  OBVIOUS
<1> DEFINE at == {i \in DOMAIN attrs : attrs[i].name = name}
<1>2. LastOf(attrs, name, d) = IF at = {} THEN d ELSE attrs[Newest(at)].value
  BY Zenon DEF LastOf, Newest
<1>3. at = Lasts(attrs, Len(attrs), name)
  BY <1>1, Zenon DEF Lasts
<1>4. LastOf(attrs, name, d) = IF Lasts(attrs, Len(attrs), name) = {} THEN d
                               ELSE attrs[Newest(Lasts(attrs, Len(attrs), name))].value
  <2> HIDE DEF at
  <2> QED BY <1>2, <1>3, Zenon
<1>5. QED
  BY <1>4, Zenon DEF LastAt

-----------------------------------------------------------------------------
(* The attributes of a view *)

\* The defaults of a view.
LEMMA NoViewIs == ViewWith(NoView, <<>>, <<>>, -1, <<>>)
  BY DEF ViewWith, ViewFields, NoView

\* One field of a record is replaced.
LEMMA FieldPut ==
  ASSUME NEW F, NEW info, info = [f \in F |-> info[f]], NEW n, NEW v, NEW r, r = [info EXCEPT ![n] = v]
  PROVE  r = [f \in F |-> r[f]] /\ \A f \in F : r[f] = IF f = n THEN v ELSE info[f]
  OBVIOUS

\* An attribute sets its own fields.
LEMMA AttrParsed ==
  ASSUME NEW info, NEW name, NEW pid, NEW loop, NEW kids, ViewWith(info, name, pid, loop, kids), NEW a
  PROVE  ViewWith(XmlAttrParse(info, a),
                  IF a.name = "name" THEN a.value ELSE name,
                  IF a.name = "pid" THEN a.value ELSE pid,
                  IF a.name = "loop" THEN GetIntNum(a.value) ELSE loop, kids)
<1>1. PICK n, v, i : n = a.name /\ v = a.value /\ i = GetIntNum(a.value)
  OBVIOUS
<1> DEFINE P == [info EXCEPT !.pid = a.value, !.extra = a.value]
           Q == [info EXCEPT ![a.name] = a.value]
           R == [info EXCEPT ![a.name] = GetIntNum(a.value)]
<1>2. XmlAttrParse(info, a) = CASE a.name = "pid" -> P [] a.name \in ViewTexts -> Q
                                [] a.name \in ViewNumbers -> R [] OTHER -> info
  BY Zenon DEF XmlAttrParse
<1>3. /\ P = [info EXCEPT !.pid = v, !.extra = v] /\ Q = [info EXCEPT ![n] = v]
      /\ R = [info EXCEPT ![n] = i]
  BY <1>1, Zenon
<1> HIDE DEF P, Q, R
<1>4. XmlAttrParse(info, a) = CASE n = "pid" -> P [] n \in ViewTexts -> Q
                                [] n \in ViewNumbers -> R [] OTHER -> info
  BY <1>1, <1>2, Zenon
<1>5. n = "pid" => n \notin ViewTexts /\ n \notin ViewNumbers
  BY DEF ViewTexts, ViewNumbers
<1>6. n \in ViewTexts => n \notin ViewNumbers
  BY DEF ViewTexts, ViewNumbers
<1>7. PICK r : r = XmlAttrParse(info, a)
  OBVIOUS
<1>8. PICK F : F = ViewFields
  OBVIOUS
<1>9. /\ "name" \in F /\ "pid" \in F /\ "extra" \in F /\ "loop" \in F /\ "children" \in F
  BY <1>8 DEF ViewFields
<1>10. info = [f \in F |-> info[f]]
  BY <1>8, Zenon DEF ViewWith
<1>11. /\ info["name"] = name /\ info["pid"] = pid /\ info["extra"] = pid /\ info["loop"] = loop
       /\ info["children"] = kids
  BY Zenon DEF ViewWith
<1> DEFINE Goal == /\ r = [f \in F |-> r[f]]
                   /\ r["name"] = IF n = "name" THEN v ELSE name
                   /\ r["pid"] = IF n = "pid" THEN v ELSE pid
                   /\ r["extra"] = IF n = "pid" THEN v ELSE pid
                   /\ r["loop"] = IF n = "loop" THEN i ELSE loop
                   /\ r["children"] = kids
<1>12. ASSUME n = "pid" PROVE Goal
  <2>1. r = P
    BY <1>4, <1>5, <1>7, <1>12
  <2>2. PICK q : q = [info EXCEPT !["pid"] = v]
    OBVIOUS
  <2>3. q = [f \in F |-> q[f]] /\ \A f \in F : q[f] = IF f = "pid" THEN v ELSE info[f]
    BY <1>10, <2>2, FieldPut, Zenon
  <2>4. r = [q EXCEPT !["extra"] = v]
    BY <1>3, <2>1, <2>2
  <2>5. r = [f \in F |-> r[f]] /\ \A f \in F : r[f] = IF f = "extra" THEN v ELSE q[f]
    BY <2>3, <2>4, FieldPut, Zenon
  <2>6. QED
    BY <1>9, <1>11, <1>12, <2>3, <2>5
<1>13. ASSUME n \in ViewTexts PROVE Goal
  <2>1. r = [info EXCEPT ![n] = v]
    BY <1>3, <1>4, <1>5, <1>6, <1>7, <1>13
  <2>2. r = [f \in F |-> r[f]] /\ \A f \in F : r[f] = IF f = n THEN v ELSE info[f]
    BY <1>10, <2>1, FieldPut, Zenon
  <2>3. n # "pid" /\ n # "extra" /\ n # "loop" /\ n # "children"
    BY <1>13 DEF ViewTexts
  <2>4. QED
    BY <1>9, <1>11, <2>2, <2>3
<1>14. ASSUME n \in ViewNumbers PROVE Goal
  <2>1. r = [info EXCEPT ![n] = i]
    BY <1>3, <1>4, <1>5, <1>6, <1>7, <1>14
  <2>2. r = [f \in F |-> r[f]] /\ \A f \in F : r[f] = IF f = n THEN i ELSE info[f]
    BY <1>10, <2>1, FieldPut, Zenon
  <2>3. n # "name" /\ n # "pid" /\ n # "extra" /\ n # "children"
    BY <1>14 DEF ViewNumbers
  <2>4. QED
    BY <1>9, <1>11, <2>2, <2>3
<1>15. ASSUME n # "pid" /\ n \notin ViewTexts /\ n \notin ViewNumbers PROVE Goal
  <2>1. r = info
    BY <1>4, <1>7, <1>15
  <2>2. n # "name" /\ n # "pid" /\ n # "loop"
    BY <1>15 DEF ViewTexts, ViewNumbers
  <2>3. QED
    BY <1>10, <1>11, <2>1, <2>2
<1>16. Goal
  BY <1>12, <1>13, <1>14, <1>15
<1>17. QED
  BY <1>1, <1>7, <1>8, <1>16, Zenon DEF ViewWith

\* The loop is that of the last attribute of that name.
LEMMA LoopNext ==
  ASSUME NEW attrs, NEW n \in Nat \ {0}
  PROVE  LoopAt(attrs, n) = IF attrs[n].name = "loop" THEN GetIntNum(attrs[n].value) ELSE LoopAt(attrs, n - 1)
<1>1. CASE attrs[n].name = "loop"
  <2>1. Lasts(attrs, n, "loop") # {} /\ LastAt(attrs, n, "loop", <<>>) = attrs[n].value
    <3>1. PICK nm, d : nm = "loop" /\ d = <<>>
      OBVIOUS
    <3>2. attrs[n].name = nm
      BY <1>1, <3>1, Zenon
    <3>3. Newest(Lasts(attrs, n, nm)) = n /\ Lasts(attrs, n, nm) # {}
      BY <3>2, LastHere
    <3>4. LastAt(attrs, n, nm, d) = attrs[n].value
      BY <3>2, LastHereIs
    <3>5. QED
      BY <3>1, <3>3, <3>4, Zenon
  <2>2. QED
    BY <1>1, <2>1, Zenon DEF LoopAt
<1>2. CASE attrs[n].name # "loop"
  <2>1. PICK m : m = n - 1
    OBVIOUS
  <2>2. /\ Lasts(attrs, n, "loop") = Lasts(attrs, m, "loop")
        /\ \A d : LastAt(attrs, n, "loop", d) = LastAt(attrs, m, "loop", d)
    BY <1>2, <2>1, LastBefore
  <2>3. LoopAt(attrs, n) = LoopAt(attrs, m)
    BY <2>2, Zenon DEF LoopAt
  <2>4. QED
    BY <1>2, <2>1, <2>3, Zenon
<1>3. QED
  BY <1>1, <1>2, Zenon

\* A view has the last value of each attribute.
LEMMA InfoRead ==
  ASSUME NEW X, NEW attrs \in Seq(X)
  PROVE  ViewWith(ViewInfoOf(attrs), LastOf(attrs, "name", <<>>), LastOf(attrs, "pid", <<>>),
                  LoopAt(attrs, Len(attrs)), <<>>)
<1>1. PICK L \in Nat : L = Len(attrs)
  OBVIOUS
<1>2. PICK f : Takes("viewAttr", attrs, NoView, L, f) /\ ViewInfoOf(attrs) = f[L]
  BY <1>1, InfoSteps, Zenon
<1> DEFINE Reached(n) == ViewWith(f[n], LastAt(attrs, n, "name", <<>>), LastAt(attrs, n, "pid", <<>>),
                             LoopAt(attrs, n), <<>>)
           T == {n \in Nat : n <= L => Reached(n)}
<1>3. Reached(0)
  <2>1. f[0] = NoView
    BY <1>2, Zenon DEF Takes
  <2>2. LoopAt(attrs, 0) = -1
    BY LastNone, Zenon DEF LoopAt
  <2>3. QED
    BY <2>1, <2>2, NoViewIs, LastNone, Zenon
<1>4. ASSUME NEW n \in Nat, n \in T PROVE n + 1 \in T
  <2>1. CASE n + 1 <= L
    <3>1. PICK m \in Nat \ {0} : m = n + 1 /\ m - 1 = n /\ m \in 1..L /\ n <= L
      BY <2>1
    <3>2. Reached(n)
      BY <1>4, <3>1, Zenon
    <3>3. f[m] = LoopStep("viewAttr", attrs, m, f[n])
      BY <1>2, <3>1, Zenon DEF Takes
    <3>4. "viewAttr" # "digit"
      OBVIOUS
    <3>5. f[m] = XmlAttrParse(f[n], attrs[m])
      BY <3>3, <3>4, Zenon DEF LoopStep
    <3>6. ViewWith(f[m], IF attrs[m].name = "name" THEN attrs[m].value ELSE LastAt(attrs, n, "name", <<>>),
                   IF attrs[m].name = "pid" THEN attrs[m].value ELSE LastAt(attrs, n, "pid", <<>>),
                   IF attrs[m].name = "loop" THEN GetIntNum(attrs[m].value) ELSE LoopAt(attrs, n), <<>>)
      BY <3>2, <3>5, AttrParsed, Zenon
    <3>7. ASSUME NEW name
          PROVE  LastAt(attrs, m, name, <<>>)
                   = IF attrs[m].name = name THEN attrs[m].value ELSE LastAt(attrs, n, name, <<>>)
      <4>1. CASE attrs[m].name = name
        BY <4>1, LastHereIs
      <4>2. CASE attrs[m].name # name
        <5>1. n = m - 1
          BY <3>1
        <5>2. /\ Lasts(attrs, m, name) = Lasts(attrs, n, name)
              /\ \A d : LastAt(attrs, m, name, d) = LastAt(attrs, n, name, d)
          BY <4>2, <5>1, LastBefore
        <5>3. QED
          BY <4>2, <5>2, Zenon
      <4>3. QED
        BY <4>1, <4>2, Zenon
    <3>8. LoopAt(attrs, m) = IF attrs[m].name = "loop" THEN GetIntNum(attrs[m].value) ELSE LoopAt(attrs, n)
      <4>1. LoopAt(attrs, m) = IF attrs[m].name = "loop" THEN GetIntNum(attrs[m].value) ELSE LoopAt(attrs, m - 1)
        BY LoopNext, Zenon
      <4>2. QED
        BY <3>1, <4>1, Zenon
    <3>9. Reached(m)
      <4>1. PICK x : x = LastAt(attrs, m, "name", <<>>)
        OBVIOUS
      <4>2. PICK y : y = LastAt(attrs, m, "pid", <<>>)
        OBVIOUS
      <4>3. x = IF attrs[m].name = "name" THEN attrs[m].value ELSE LastAt(attrs, n, "name", <<>>)
        BY <3>7, <4>1, Zenon
      <4>4. y = IF attrs[m].name = "pid" THEN attrs[m].value ELSE LastAt(attrs, n, "pid", <<>>)
        BY <3>7, <4>2, Zenon
      <4>5. ViewWith(f[m], x, y, LoopAt(attrs, m), <<>>)
        BY <3>6, <3>8, <4>3, <4>4, Zenon
      <4>6. QED
        BY <4>1, <4>2, <4>5, Zenon
    <3> HIDE DEF Reached
    <3>10. QED
      BY <3>1, <3>9
  <2>2. CASE ~(n + 1 <= L)
    BY <2>2
  <2>3. QED
    BY <2>1, <2>2
<1>5. Nat \subseteq T
  <2>1. 0 \in T
    <3> HIDE DEF Reached
    <3> QED BY <1>3
  <2>2. QED
    <3> HIDE DEF T
    <3> QED BY <1>4, <2>1, Induction
<1>6. Reached(L)
  <2> HIDE DEF Reached
  <2> QED BY <1>5
<1>7. QED
  BY <1>1, <1>2, <1>6, LastAll, Zenon

\* A view is named if its element is complete.
LEMMA NamedIf ==
  ASSUME NEW info, NEW name, NEW pid, NEW loop, NEW kids, ViewWith(info, name, pid, loop, kids)
  PROVE  /\ Named(info) <=> name # <<>> /\ pid # <<>>
         /\ info.name = name /\ info.pid = pid /\ info.loop = loop /\ info.children = kids
<1>1. info["name"] = name /\ info["pid"] = pid /\ info["extra"] = pid /\ info["loop"] = loop /\ info["children"] = kids
  BY Zenon DEF ViewWith
<1>2. info.name = name /\ info.extra = pid /\ info.pid = pid /\ info.loop = loop /\ info.children = kids
  BY <1>1
<1>3. QED
  BY <1>2, Zenon DEF Named

\* The name of a complete element is added to the view it is in.
LEMMA ChildPushed ==
  ASSUME NEW X, NEW kid \in Seq(X), NEW Y, NameOf(kid) \in Y, NEW c \in Seq(Y),
         NEW info, NEW name, NEW pid, NEW loop, ViewWith(info, name, pid, loop, c)
  PROVE  ViewWith(PushChildViewName(info, kid), name, pid, loop, c \o NameIn(kid))
<1>1. PICK nm, pd, son : nm = NameOf(kid) /\ pd = PidOf(kid) /\ son = ViewInfoOf(kid)
  OBVIOUS
<1>2. ViewWith(son, nm, pd, LoopAt(kid, Len(kid)), <<>>)
  BY <1>1, InfoRead, Zenon DEF NameOf, PidOf
<1>3. (Named(son) <=> nm # <<>> /\ pd # <<>>) /\ son.name = nm
  <2>1. /\ Named(son) <=> nm # <<>> /\ pd # <<>>
        /\ son.name = nm /\ son.pid = pd /\ son.loop = LoopAt(kid, Len(kid)) /\ son.children = <<>>
    BY <1>2, NamedIf, Zenon
  <2>2. QED
    BY <2>1, Zenon
<1>4. Complete(kid) <=> nm # <<>> /\ pd # <<>>
  BY <1>1, Zenon DEF Complete, NameOf, PidOf
<1>5. CASE ~Complete(kid)
  <2>1. PushChildViewName(info, kid) = info
    BY <1>1, <1>3, <1>4, <1>5, Zenon DEF PushChildViewName
  <2>2. NameIn(kid) = <<>>
    BY <1>5, Zenon DEF NameIn
  <2>3. c \o <<>> = c
    OBVIOUS
  <2>4. QED
    BY <2>1, <2>2, <2>3, Zenon
<1>6. CASE Complete(kid)
  <2>1. PushChildViewName(info, kid) = [info EXCEPT !.children = Append(@, son.name)]
    BY <1>1, <1>3, <1>4, <1>6, Zenon DEF PushChildViewName
  <2>2. PICK r : r = PushChildViewName(info, kid)
    OBVIOUS
  <2>3. info["children"] = c /\ info = [f \in ViewFields |-> info[f]]
    BY Zenon DEF ViewWith
  <2>4. PICK d : d = Append(c, nm)
    OBVIOUS
  <2>5. r = [info EXCEPT !["children"] = d]
    BY <1>3, <2>1, <2>2, <2>3, <2>4
  <2>6. PICK F : F = ViewFields
    OBVIOUS
  <2>7. /\ "name" \in F /\ "pid" \in F /\ "extra" \in F /\ "loop" \in F /\ "children" \in F
    BY <2>6 DEF ViewFields
  <2>8. info = [f \in F |-> info[f]]
    BY <2>3, <2>6, Zenon
  <2>9. r = [f \in F |-> r[f]] /\ \A f \in F : r[f] = IF f = "children" THEN d ELSE info[f]
    BY <2>5, <2>8, FieldPut, Zenon
  <2>10. /\ r["name"] = info["name"] /\ r["pid"] = info["pid"] /\ r["extra"] = info["extra"]
         /\ r["loop"] = info["loop"] /\ r["children"] = d
    BY <2>7, <2>9
  <2>11. NameIn(kid) = <<nm>>
    BY <1>1, <1>6, Zenon DEF NameIn, NameOf
  <2>12. c \o <<nm>> = d
    BY <1>1, <2>4
  <2>13. r = [f \in ViewFields |-> r[f]]
    BY <2>6, <2>9, Zenon
  <2>14. QED
    BY <2>2, <2>10, <2>11, <2>12, <2>13, Zenon DEF ViewWith
<1>7. QED
  BY <1>5, <1>6

\* A family of texts as a sequence
LEMMA Family ==
  ASSUME NEW Z, NEW L \in Nat, NEW s, s = [k \in 1..L |-> s[k]], \A k \in 1..L : s[k] \in Z
  PROVE  s \in Seq(Z) /\ Len(s) = L
  OBVIOUS

\* The beginnings of a sequence of sequences, flattened
LEMMA FlattenNext ==
  ASSUME NEW Y, NEW s \in Seq(Seq(Y)), NEW n \in 1..Len(s), NEW m, m = n - 1
  PROVE  /\ FlattenSeq(SubSeq(s, 1, n)) = FlattenSeq(SubSeq(s, 1, m)) \o s[n]
         /\ FlattenSeq(SubSeq(s, 1, m)) \in Seq(Y)
<1>1. PICK Z : Z = Seq(Y)
  OBVIOUS
<1>2. PICK b \in Seq(Z) : b = SubSeq(s, 1, m) /\ SubSeq(s, 1, n) = Append(b, s[n]) /\ s[n] \in Z
  <2>1. s \in Seq(Z)
    BY <1>1
  <2>2. SubSeq(s, 1, m) \in Seq(Z) /\ SubSeq(s, 1, n) = Append(SubSeq(s, 1, m), s[n]) /\ s[n] \in Z
    BY <2>1
  <2>3. QED
    BY <2>2
<1>3. FlattenSeq(Append(b, s[n])) = FlattenSeq(b) \o s[n]
  BY <1>1, <1>2, FlattenAppend
<1>4. FlattenSeq(b) \in Seq(Y)
  BY <1>1, <1>2, FlattenType
<1>5. QED
  BY <1>2, <1>3, <1>4, Zenon

\* A view has the last value of each attribute, and the names of the complete
\* elements in it.
LEMMA ViewRead ==
  ASSUME NEW X, NEW e, Elemental(X, e)
  PROVE  ViewWith(ViewOf(e), NameOf(e.attrs), PidOf(e.attrs), LoopAt(e.attrs, Len(e.attrs)), NamesIn(e))
<1>1. e.attrs \in Seq(X) /\ e.kids \in Seq(Seq(X))
  BY DEF Elemental
<1>2. PICK a \in Seq(X), kids \in Seq(Seq(X)) : a = e.attrs /\ kids = e.kids
  BY <1>1
<1>3. PICK L \in Nat : L = Len(kids) /\ DOMAIN kids = 1..L /\ \A k \in 1..L : kids[k] \in Seq(X)
  <2>1. PICK Z : Z = Seq(X)
    OBVIOUS
  <2>2. kids \in Seq(Z)
    BY <2>1
  <2>3. Len(kids) \in Nat /\ DOMAIN kids = 1..Len(kids) /\ \A k \in 1..Len(kids) : kids[k] \in Z
    BY <2>2
  <2>4. QED
    BY <2>1, <2>3, Zenon
<1>4. PICK f : Takes("kid", kids, ViewInfoOf(a), L, f) /\ ViewOf(e) = f[L]
  BY <1>2, <1>3, KidSteps, Zenon
<1>5. PICK nm, pd, lp : nm = NameOf(a) /\ pd = PidOf(a) /\ lp = LoopAt(a, Len(a))
  OBVIOUS
<1>6. PICK Y : Y = {NameOf(k) : k \in Seq(X)}
  OBVIOUS
<1>7. PICK s : s = [k \in 1..L |-> NameIn(kids[k])]
  OBVIOUS
<1>8. \A k \in 1..L : NameOf(kids[k]) \in Y /\ s[k] = NameIn(kids[k]) /\ NameIn(kids[k]) \in Seq(Y)
  <2> SUFFICES ASSUME NEW k \in 1..L
               PROVE  NameOf(kids[k]) \in Y /\ s[k] = NameIn(kids[k]) /\ NameIn(kids[k]) \in Seq(Y)
    OBVIOUS
  <2>1. NameOf(kids[k]) \in Y
    BY <1>3, <1>6, Zenon
  <2>2. s[k] = NameIn(kids[k])
    BY <1>7, Zenon
  <2>3. <<NameOf(kids[k])>> \in Seq(Y) /\ <<>> \in Seq(Y)
    BY <2>1
  <2>4. NameIn(kids[k]) \in Seq(Y)
    BY <2>3, Zenon DEF NameIn, NameOf
  <2>5. QED
    BY <2>1, <2>2, <2>4
<1>9. s \in Seq(Seq(Y)) /\ Len(s) = L
  <2>1. PICK Z : Z = Seq(Y)
    OBVIOUS
  <2>2. s = [k \in 1..L |-> s[k]] /\ \A k \in 1..L : s[k] \in Z
    BY <1>7, <1>8, <2>1
  <2>3. s \in Seq(Z) /\ Len(s) = L
    BY <2>2, Family, Zenon
  <2>4. QED
    BY <2>1, <2>3, Zenon
<1> DEFINE G(n) == FlattenSeq(SubSeq(s, 1, n))
           Reached(n) == ViewWith(f[n], nm, pd, lp, G(n))
           T == {n \in Nat : n <= L => Reached(n)}
<1>10. Reached(0)
  <2>1. f[0] = ViewInfoOf(a)
    BY <1>4, Zenon DEF Takes
  <2>2. ViewWith(ViewInfoOf(a), nm, pd, lp, <<>>)
    BY <1>5, InfoRead, Zenon DEF NameOf, PidOf
  <2>3. SubSeq(s, 1, 0) = <<>>
    BY <1>9
  <2>4. G(0) = <<>>
    BY <2>3, FlattenEmpty, Zenon
  <2>5. QED
    BY <2>1, <2>2, <2>4, Zenon
<1>11. ASSUME NEW n \in Nat, n \in T PROVE n + 1 \in T
  <2>1. CASE n + 1 <= L
    <3>1. PICK m \in 1..L : m = n + 1 /\ n = m - 1 /\ m - 1 = n
      BY <2>1
    <3>2. Reached(n)
      <4>1. n <= L
        BY <2>1
      <4>2. QED
        BY <1>11, <4>1, Zenon
    <3>3. f[m] = LoopStep("kid", kids, m, f[n])
      BY <1>4, <3>1, Zenon DEF Takes
    <3>4. "kid" # "digit" /\ "kid" # "viewAttr"
      OBVIOUS
    <3>5. f[m] = PushChildViewName(f[n], kids[m])
      BY <3>3, <3>4, Zenon DEF LoopStep
    <3>6. G(m) = G(n) \o s[m] /\ G(n) \in Seq(Y)
      BY <1>9, <3>1, FlattenNext, ZenonT(60)
    <3>7. kids[m] \in Seq(X) /\ NameOf(kids[m]) \in Y /\ s[m] = NameIn(kids[m])
      BY <1>3, <1>8, <3>1, Zenon
    <3>8. PICK c \in Seq(Y) : c = G(n)
      BY <3>6, Zenon
    <3>9. ViewWith(PushChildViewName(f[n], kids[m]), nm, pd, lp, c \o NameIn(kids[m]))
      BY <3>2, <3>7, <3>8, ChildPushed, Zenon
    <3>10. Reached(m)
      BY <3>5, <3>6, <3>7, <3>8, <3>9, Zenon
    <3> HIDE DEF Reached
    <3>11. QED
      BY <3>1, <3>10
  <2>2. CASE ~(n + 1 <= L)
    BY <2>2
  <2>3. QED
    BY <2>1, <2>2
<1>12. Nat \subseteq T
  <2>1. 0 \in T
    <3> HIDE DEF Reached
    <3> QED BY <1>10
  <2>2. QED
    <3> HIDE DEF T
    <3> QED BY <1>11, <2>1, Induction
<1>13. Reached(L)
  <2> HIDE DEF Reached
  <2> QED BY <1>12
<1>14. SubSeq(s, 1, L) = s
  BY <1>9
<1>15. NamesIn(e) = FlattenSeq(s)
  BY <1>2, <1>3, <1>7, Zenon DEF NamesIn
<1>16. QED
  BY <1>2, <1>4, <1>5, <1>13, <1>14, <1>15, Zenon

-----------------------------------------------------------------------------
(* The map of a file *)

\* A name that is there keeps what it has.
LEMMA InsertedNew ==
  ASSUME NEW map, NEW name, NEW v PROVE InsertedNow(Inserted(map, name, v), map, name, v)
  BY DEF Inserted, InsertedNow

\* The map has the names of the good ones, and for each name the first of them.
LEMMA InsertsFirst ==
  ASSUME NEW f, NEW L, NEW good, NEW name, NEW info, Inserts(f, L, good, name, info)
  PROVE  FirstsIn(f[L], good, name, info)
<1> DEFINE Upto(n) == {i \in good : i <= n}
           Reached(n) == /\ DOMAIN f[n] = {name[i] : i \in Upto(n)}
                    /\ \A i \in Upto(n) : FirstOf(good, name, i) => f[n][name[i]] = info[i]
           T == {n \in Nat : n <= L => Reached(n)}
<1>1. L \in Nat /\ good \subseteq 1..L
  BY Zenon DEF Inserts
<1>0. \A i \in good : i \in Nat /\ i >= 1 /\ i <= L
  BY <1>1
<1>2. Reached(0)
  <2>1. f[0] = Empty
    BY Zenon DEF Inserts
  <2>2. Upto(0) = {}
    BY <1>0
  <2>3. DOMAIN Empty = {}
    BY DEF Empty
  <2>4. {name[i] : i \in Upto(0)} = {}
    BY <2>2, Zenon
  <2>5. QED
    BY <2>1, <2>2, <2>3, <2>4, Zenon
<1>3. ASSUME NEW n \in Nat, n \in T PROVE n + 1 \in T
  <2>1. CASE n + 1 <= L
    <3>1. PICK m \in 1..L : m = n + 1 /\ n = m - 1
      BY <1>1, <2>1
    <3>2. Reached(n)
      <4>1. n <= L
        BY <1>1, <2>1
      <4>2. QED
        BY <1>3, <4>1, Zenon
    <3>3. f[m] = IF m \in good THEN Inserted(f[n], name[m], info[m]) ELSE f[n]
      BY <3>1, Zenon DEF Inserts
    <3>4. Upto(m) = IF m \in good THEN Upto(n) \cup {m} ELSE Upto(n)
      <4>1. \A i \in good : i <= m <=> i <= n \/ i = m
        BY <1>0, <3>1
      <4>2. QED
        BY <4>1
    <3>5. \A i \in Upto(n) : i \in Int /\ i < m /\ i \in good
      BY <1>1, <3>1
    <3>6. PICK u : u = Upto(n)
      OBVIOUS
    <3>7. PICK w : w = Upto(m)
      OBVIOUS
    <3>8. PICK p : p = f[n] /\ DOMAIN p = {name[i] : i \in u}
      BY <3>2, <3>6, Zenon
    <3>9. \A i \in u : FirstOf(good, name, i) => p[name[i]] = info[i]
      BY <3>2, <3>6, <3>8, Zenon
    <3>10. PICK r : r = f[m]
      OBVIOUS
    <3> DEFINE Goal == DOMAIN r = {name[i] : i \in w} /\ \A i \in w : FirstOf(good, name, i) => r[name[i]] = info[i]
    <3>11. ASSUME m \notin good PROVE Goal
      <4>1. w = u /\ r = p
        BY <3>3, <3>4, <3>6, <3>7, <3>8, <3>10, <3>11, Zenon
      <4>2. QED
        BY <3>8, <3>9, <4>1, Zenon
    <3>12. ASSUME m \in good PROVE Goal
      <4>1. w = u \cup {m} /\ r = Inserted(p, name[m], info[m])
        BY <3>3, <3>4, <3>6, <3>7, <3>8, <3>10, <3>12, Zenon
      <4>2. InsertedNow(r, p, name[m], info[m])
        BY <4>1, InsertedNew, Zenon
      <4>3. DOMAIN r = {name[i] : i \in w}
        BY <3>8, <4>1, <4>2 DEF InsertedNow
      <4>4. ASSUME NEW i \in w, FirstOf(good, name, i) PROVE r[name[i]] = info[i]
        <5>1. CASE i \in u
          <6>1. name[i] \in DOMAIN p
            BY <3>8, <5>1, Zenon
          <6>2. QED
            BY <3>9, <4>2, <4>4, <5>1, <6>1, Zenon DEF InsertedNow
        <5>2. CASE i = m
          <6>1. name[m] \notin DOMAIN p
            <7>1. SUFFICES ASSUME NEW j \in u, name[j] = name[m] PROVE FALSE
              BY <3>8, Zenon
            <7>2. j \in good /\ j \in Int /\ j < m
              BY <3>5, <3>6, <7>1, Zenon
            <7>3. m <= j
              BY <4>4, <5>2, <7>1, <7>2, Zenon DEF FirstOf
            <7>4. QED
              BY <7>2, <7>3
          <6>2. QED
            BY <4>2, <5>2, <6>1, Zenon DEF InsertedNow
        <5>3. QED
          BY <4>1, <5>1, <5>2, Zenon
      <4>5. QED
        BY <4>3, <4>4, Zenon
    <3>13. Reached(m)
      BY <3>7, <3>10, <3>11, <3>12, Zenon
    <3> HIDE DEF Reached
    <3>14. QED
      BY <3>1, <3>13
  <2>2. CASE ~(n + 1 <= L)
    BY <2>2
  <2>3. QED
    BY <2>1, <2>2
<1>4. Nat \subseteq T
  <2>1. 0 \in T
    <3> HIDE DEF Reached
    <3> QED BY <1>2
  <2>2. QED
    <3> HIDE DEF T
    <3> QED BY <1>3, <2>1, Induction
<1>5. Reached(L)
  <2>1. L <= L
    BY <1>1
  <2> HIDE DEF Reached
  <2> QED BY <1>1, <1>4, <2>1
<1>6. Upto(L) = good
  BY <1>0
<1>7. QED
  <2> HIDE DEF Upto
  <2> QED BY <1>5, <1>6, Zenon DEF FirstsIn

-----------------------------------------------------------------------------
(* The numbers of a loop *)

\* The digits of the loops.
LEMMA DigitValues ==
  /\ "1" \in DOMAIN Digit /\ "5" \in DOMAIN Digit /\ "s" \notin DOMAIN Digit /\ "-" \notin DOMAIN Digit
  /\ Digit["1"] = 1 /\ Digit["5"] = 5
<1>1. DOMAIN Digits10 = 1..10
  BY DEF Digits10
<1>2. \A n \in 1..10 : Digits10[n] # "s" /\ Digits10[n] # "-"
  BY DEF Digits10
<1>3. Digits10[2] = "1" /\ Digits10[6] = "5"
  BY DEF Digits10
<1>4. \A n \in 1..10 : (Digits10[n] = "1" => n = 2) /\ (Digits10[n] = "5" => n = 6)
  BY DEF Digits10
<1>5. PICK D : D = Range(Digits10)
  OBVIOUS
<1>6. "1" \in D /\ "5" \in D /\ "s" \notin D /\ "-" \notin D
  BY <1>1, <1>2, <1>3, <1>5 DEF Range
<1>7. (CHOOSE n \in 1..10 : Digits10[n] = "1") = 2 /\ (CHOOSE n \in 1..10 : Digits10[n] = "5") = 6
  <2>1. 2 \in 1..10 /\ 6 \in 1..10
    OBVIOUS
  <2>2. QED
    BY <1>3, <1>4, <2>1, Zenon
<1>8. DOMAIN Digit = D
  BY <1>5 DEF Digit
<1>9. Digit["1"] = 2 - 1 /\ Digit["5"] = 6 - 1
  <2>1. "1" \in Range(Digits10) /\ "5" \in Range(Digits10)
    BY <1>5, <1>6, Zenon
  <2>2. Digit["1"] = (CHOOSE n \in 1..10 : Digits10[n] = "1") - 1
    BY <2>1, Zenon DEF Digit
  <2>3. Digit["5"] = (CHOOSE n \in 1..10 : Digits10[n] = "5") - 1
    BY <2>1, Zenon DEF Digit
  <2>4. QED
    BY <1>7, <2>2, <2>3, Zenon
<1>10. QED
  BY <1>6, <1>8, <1>9

\* A number grows by its digits.
LEMMA NumbersTaken ==
  ASSUME NEW value, NEW L, NEW f, Takes("digit", value, 0, L, f) PROVE f[0] = 0 /\ NumbersAre(f, value, L)
<1>1. f[0] = 0
  BY Zenon DEF Takes
<1>2. ASSUME NEW n \in 1..L
      PROVE  f[n] = IF value[n] \in DOMAIN Digit THEN 10 * f[n - 1] + Digit[value[n]] ELSE f[n - 1]
  BY Zenon DEF Takes, LoopStep
<1>3. QED
  BY <1>1, <1>2, Zenon DEF NumbersAre

\* "15s" and "15" are 15.
LEMMA Fifteen == ASSUME NEW v, IsFifteen(v) PROVE GetIntNum(v) = 15
<1>1. PICK L \in Nat : L = Len(v) /\ L \in {2, 3}
  BY DEF IsFifteen
<1>2. PICK f : Takes("digit", v, 0, L, f) /\ GetIntNum(v) = f[L]
  BY <1>1, NumSteps, Zenon
<1>3. f[0] = 0 /\ NumbersAre(f, v, L)
  BY <1>2, NumbersTaken, Zenon
<1>4. \A n \in 1..L : f[n] = IF v[n] \in DOMAIN Digit THEN 10 * f[n - 1] + Digit[v[n]] ELSE f[n - 1]
  BY <1>3, Zenon DEF NumbersAre
<1>5. v[1] = "1" /\ v[2] = "5" /\ (L = 3 => v[3] = "s")
  BY <1>1, Zenon DEF IsFifteen
<1>6. f[1] = 1
  BY <1>1, <1>3, <1>4, <1>5, DigitValues
<1>7. f[2] = 15
  BY <1>1, <1>4, <1>5, <1>6, DigitValues
<1>8. L = 3 => f[3] = 15
  BY <1>4, <1>5, <1>7, DigitValues
<1>9. QED
  BY <1>1, <1>2, <1>7, <1>8

\* "-1" and "1" are 1.
LEMMA OneNumber == ASSUME NEW v, IsOne(v) PROVE GetIntNum(v) = 1
<1>1. PICK L \in Nat : L = Len(v) /\ L \in {1, 2}
  BY DEF IsOne
<1>2. PICK f : Takes("digit", v, 0, L, f) /\ GetIntNum(v) = f[L]
  BY <1>1, NumSteps, Zenon
<1>3. f[0] = 0 /\ NumbersAre(f, v, L)
  BY <1>2, NumbersTaken, Zenon
<1>4. \A n \in 1..L : f[n] = IF v[n] \in DOMAIN Digit THEN 10 * f[n - 1] + Digit[v[n]] ELSE f[n - 1]
  BY <1>3, Zenon DEF NumbersAre
<1>5. v[L] = "1" /\ (L = 2 => v[1] = "-")
  BY <1>1, Zenon DEF IsOne
<1>6. L = 2 => f[1] = 0
  BY <1>3, <1>4, <1>5, DigitValues
<1>7. f[L] = 1
  BY <1>1, <1>3, <1>4, <1>5, <1>6, DigitValues
<1>8. QED
  BY <1>2, <1>7

\* "15s" is 15, and "-1" is 1 for a view.
LEMMA ViewLoops == GetIntNum(LoopSounding) = 15 /\ GetIntNum(LoopForever) = 1
<1>1. IsFifteen(<<"1", "5", "s">>)
  BY DEF IsFifteen
<1>2. IsOne(<<"-", "1">>)
  BY DEF IsOne
<1>3. QED
  BY <1>1, <1>2, Fifteen, OneNumber, Zenon DEF LoopSounding, LoopForever

\* A sequence of two members is a pair.
LEMMA TupleOfTwo ==
  ASSUME NEW S, NEW w \in Seq(S), Len(w) = 2, NEW a, NEW b, w[1] = a, w[2] = b PROVE w = <<a, b>>
  OBVIOUS

\* The digits before the s.
LEMMA LeadingFifteen == Leading(LoopSounding) = <<"1", "5">>
<1>1. PICK v : v = LoopSounding
  OBVIOUS
<1>2. v \in Seq({"1", "5", "s"}) /\ Len(v) = 3 /\ v[1] = "1" /\ v[2] = "5" /\ v[3] = "s"
  BY <1>1 DEF LoopSounding
<1> DEFINE stops == {i \in DOMAIN v : v[i] \notin DOMAIN Digit}
           first == CHOOSE i \in stops : \A j \in stops : i <= j
<1>3. Leading(v) = IF stops = {} THEN v ELSE SubSeq(v, 1, first - 1)
  BY Zenon DEF Leading
<1>4. DOMAIN v = {1, 2, 3}
  BY <1>2
<1>5. stops = {3}
  BY <1>2, <1>4, DigitValues
<1>6. first = 3
  BY <1>5
<1> HIDE DEF stops, first
<1>7. SubSeq(v, 1, 2) = <<"1", "5">>
  <2>1. PICK w : w = SubSeq(v, 1, 2)
    OBVIOUS
  <2>2. w \in Seq({"1", "5", "s"}) /\ Len(w) = 2 /\ w[1] = "1" /\ w[2] = "5"
    BY <1>2, <2>1
  <2>3. w = <<"1", "5">>
    BY <2>2, TupleOfTwo
  <2>4. QED
    BY <2>1, <2>3, Zenon
<1>8. stops # {} /\ first - 1 = 2
  BY <1>5, <1>6
<1>9. Leading(v) = SubSeq(v, 1, 2)
  BY <1>3, <1>8, Zenon
<1>10. QED
  BY <1>1, <1>7, <1>9, Zenon

\* The digits after the sign.
LEMMA LeadingOne == Leading(<<"1">>) = <<"1">>
<1>1. PICK v : v = <<"1">>
  OBVIOUS
<1>2. DOMAIN v = {1} /\ v[1] = "1"
  BY <1>1
<1>3. {i \in DOMAIN v : v[i] \notin DOMAIN Digit} = {}
  BY <1>2, DigitValues
<1>4. Leading(v) = v
  BY <1>3, Zenon DEF Leading
<1>5. QED
  BY <1>1, <1>4, Zenon

\* For a sound "-1" is -1.
LEMMA SoundLoops == atoi(LoopSounding) = 15 /\ atoi(LoopForever) = -1
<1>1. atoi(LoopSounding) = 15
  <2>1. LoopSounding[1] # "-"
    BY DEF LoopSounding
  <2>2. atoi(LoopSounding) = GetIntNum(<<"1", "5">>)
    BY <2>1, LeadingFifteen, Zenon DEF atoi
  <2>3. IsFifteen(<<"1", "5">>)
    BY DEF IsFifteen
  <2>4. QED
    BY <2>2, <2>3, Fifteen, Zenon
<1>2. atoi(LoopForever) = -1
  <2>1. LoopForever # <<>> /\ LoopForever[1] = "-" /\ Tail(LoopForever) = <<"1">>
    BY DEF LoopForever
  <2>2. atoi(LoopForever) = -GetIntNum(<<"1">>)
    BY <2>1, LeadingOne, Zenon DEF atoi
  <2>3. IsOne(<<"1">>)
    BY DEF IsOne
  <2>4. GetIntNum(<<"1">>) = 1
    BY <2>3, OneNumber, Zenon
  <2>5. QED
    BY <2>2, <2>4
<1>3. QED
  BY <1>1, <1>2, Zenon

-----------------------------------------------------------------------------
(* The attributes of a sound *)

\* The defaults of a sound.
LEMMA NoSoundIs == SoundWith(NoSound, <<>>, -1)
  BY DEF SoundWith, SoundFields, NoSound

\* An attribute other than the name and the loop leaves them.
LEMMA OtherPut ==
  ASSUME NEW sound, NEW name, NEW loop, SoundWith(sound, name, loop), NEW n, n # "name", n # "loop", NEW v
  PROVE  SoundWith([sound EXCEPT ![n] = v], name, loop)
<1>1. PICK r : r = [sound EXCEPT ![n] = v]
  OBVIOUS
<1>2. PICK F : F = SoundFields
  OBVIOUS
<1>3. sound = [f \in F |-> sound[f]] /\ sound["name"] = name /\ sound["loop"] = loop
  BY <1>2, Zenon DEF SoundWith
<1>4. r = [f \in F |-> r[f]] /\ \A f \in F : r[f] = IF f = n THEN v ELSE sound[f]
  BY <1>1, <1>3, FieldPut, Zenon
<1>5. "name" \in F /\ "loop" \in F
  BY <1>2 DEF SoundFields
<1>6. r["name"] = name /\ r["loop"] = loop
  BY <1>3, <1>4, <1>5, Zenon
<1>7. QED
  BY <1>1, <1>2, <1>4, <1>6, Zenon DEF SoundWith

\* The name is set.
LEMMA NamePut ==
  ASSUME NEW sound, NEW name, NEW loop, SoundWith(sound, name, loop), NEW v
  PROVE  SoundWith([sound EXCEPT !["name"] = v], v, loop)
<1>1. PICK r : r = [sound EXCEPT !["name"] = v]
  OBVIOUS
<1>2. PICK F : F = SoundFields
  OBVIOUS
<1>3. sound = [f \in F |-> sound[f]] /\ sound["loop"] = loop
  BY <1>2, Zenon DEF SoundWith
<1>4. r = [f \in F |-> r[f]] /\ \A f \in F : r[f] = IF f = "name" THEN v ELSE sound[f]
  BY <1>1, <1>3, FieldPut, Zenon
<1>5. "name" \in F /\ "loop" \in F /\ "loop" # "name"
  BY <1>2 DEF SoundFields
<1>6. r["name"] = v /\ r["loop"] = loop
  BY <1>3, <1>4, <1>5, Zenon
<1>7. QED
  BY <1>1, <1>2, <1>4, <1>6, ZenonT(60) DEF SoundWith

\* The loop is set.
LEMMA LoopPut ==
  ASSUME NEW sound, NEW name, NEW loop, SoundWith(sound, name, loop), NEW v
  PROVE  SoundWith([sound EXCEPT !["loop"] = v], name, v)
<1>1. PICK r : r = [sound EXCEPT !["loop"] = v]
  OBVIOUS
<1>2. PICK F : F = SoundFields
  OBVIOUS
<1>3. sound = [f \in F |-> sound[f]] /\ sound["name"] = name
  BY <1>2, Zenon DEF SoundWith
<1>4. r = [f \in F |-> r[f]] /\ \A f \in F : r[f] = IF f = "loop" THEN v ELSE sound[f]
  BY <1>1, <1>3, FieldPut, Zenon
<1>5. "name" \in F /\ "loop" \in F /\ "loop" # "name"
  BY <1>2 DEF SoundFields
<1>6. r["name"] = name /\ r["loop"] = v
  BY <1>3, <1>4, <1>5, Zenon
<1>7. QED
  BY <1>1, <1>2, <1>4, <1>6, Zenon DEF SoundWith

\* An attribute of a sound sets its own field.
LEMMA SoundAttrParsed ==
  ASSUME NEW sound, NEW name, NEW loop, SoundWith(sound, name, loop), NEW a
  PROVE  SoundWith(paraseAttr(sound, a),
                   IF a.name = "name" THEN a.value ELSE name,
                   IF a.name = "loop" THEN atoi(a.value) ELSE loop)
<1>1. PICK n, v, r : n = a.name /\ v = a.value /\ r = paraseAttr(sound, a)
  OBVIOUS
<1> DEFINE A == [sound EXCEPT ![a.name] = a.value]
           B == [sound EXCEPT !.priority = GetIntNum(a.value)]
           C == [sound EXCEPT ![a.name] = atoi(a.value)]
           D == [sound EXCEPT !.selfcheck = (a.value = <<"delay">>)]
           E == [sound EXCEPT !.oninterrupt = (a.value = <<"true">>)]
<1>2. paraseAttr(sound, a) = CASE a.name \in SoundTexts -> A [] a.name = "priority" -> B
                               [] a.name \in {"loop", "ontime"} -> C [] a.name = "selfcheck" -> D
                               [] a.name = "oninterrupt" -> E [] OTHER -> sound
  BY Zenon DEF paraseAttr
<1>3. PICK i, j, p, q : i = GetIntNum(a.value) /\ j = atoi(a.value) /\ p = (a.value = <<"delay">>)
                        /\ q = (a.value = <<"true">>)
  OBVIOUS
<1>4. A = [sound EXCEPT ![n] = v]
  BY <1>1, Zenon
<1>5. B = [sound EXCEPT !["priority"] = i]
  BY <1>3, Zenon
<1>6. C = [sound EXCEPT ![n] = j]
  BY <1>1, <1>3, Zenon
<1>7. D = [sound EXCEPT !["selfcheck"] = p]
  BY <1>3, Zenon
<1>8. E = [sound EXCEPT !["oninterrupt"] = q]
  BY <1>3, Zenon
<1> HIDE DEF A, B, C, D, E
<1>9. r = CASE n \in SoundTexts -> A [] n = "priority" -> B [] n \in {"loop", "ontime"} -> C
            [] n = "selfcheck" -> D [] n = "oninterrupt" -> E [] OTHER -> sound
  BY <1>1, <1>2, Zenon
<1>10. /\ n \in SoundTexts => n # "priority" /\ n # "loop" /\ n # "ontime" /\ n # "selfcheck" /\ n # "oninterrupt"
       /\ "name" \in SoundTexts
  BY DEF SoundTexts
<1> DEFINE Goal == SoundWith(r, IF n = "name" THEN v ELSE name, IF n = "loop" THEN j ELSE loop)
<1>11. ASSUME n \in SoundTexts PROVE Goal
  <2>1. r = A
    BY <1>9, <1>10, <1>11
  <2>2. CASE n = "name"
    <3>1. SoundWith([sound EXCEPT !["name"] = v], v, loop)
      BY NamePut, Zenon
    <3>2. "name" # "loop"
      OBVIOUS
    <3>3. QED
      BY <1>4, <2>1, <2>2, <3>1, <3>2, Zenon
  <2>3. CASE n # "name"
    <3>1. SoundWith([sound EXCEPT ![n] = v], name, loop)
      BY <1>10, <1>11, <2>3, OtherPut, Zenon
    <3>2. QED
      BY <1>4, <1>10, <1>11, <2>1, <2>3, <3>1, Zenon
  <2>4. QED
    BY <2>2, <2>3, Zenon
<1>12. ASSUME n = "priority" PROVE Goal
  <2>1. r = B
    BY <1>9, <1>10, <1>12
  <2>2. "priority" # "name" /\ "priority" # "loop"
    OBVIOUS
  <2>3. SoundWith([sound EXCEPT !["priority"] = i], name, loop)
    BY <2>2, OtherPut, Zenon
  <2>4. QED
    BY <1>5, <1>12, <2>1, <2>2, <2>3, Zenon
<1>13. ASSUME n = "loop" PROVE Goal
  <2>1. r = C
    BY <1>9, <1>10, <1>13
  <2>2. "loop" # "name"
    OBVIOUS
  <2>3. SoundWith([sound EXCEPT !["loop"] = j], name, j)
    BY LoopPut, Zenon
  <2>4. QED
    BY <1>6, <1>13, <2>1, <2>2, <2>3, Zenon
<1>14. ASSUME n = "ontime" PROVE Goal
  <2>1. r = C
    BY <1>9, <1>10, <1>14
  <2>2. "ontime" # "name" /\ "ontime" # "loop"
    OBVIOUS
  <2>3. SoundWith([sound EXCEPT !["ontime"] = j], name, loop)
    BY <2>2, OtherPut, Zenon
  <2>4. QED
    BY <1>6, <1>14, <2>1, <2>2, <2>3, Zenon
<1>15. ASSUME n = "selfcheck" PROVE Goal
  <2>1. r = D
    BY <1>9, <1>10, <1>15
  <2>2. "selfcheck" # "name" /\ "selfcheck" # "loop"
    OBVIOUS
  <2>3. SoundWith([sound EXCEPT !["selfcheck"] = p], name, loop)
    BY <2>2, OtherPut, Zenon
  <2>4. QED
    BY <1>7, <1>15, <2>1, <2>2, <2>3, Zenon
<1>16. ASSUME n = "oninterrupt" PROVE Goal
  <2>1. r = E
    BY <1>9, <1>10, <1>16
  <2>2. "oninterrupt" # "name" /\ "oninterrupt" # "loop"
    OBVIOUS
  <2>3. SoundWith([sound EXCEPT !["oninterrupt"] = q], name, loop)
    BY <2>2, OtherPut, Zenon
  <2>4. QED
    BY <1>8, <1>16, <2>1, <2>2, <2>3, Zenon
<1>17. ASSUME n \notin SoundTexts, n # "priority", n # "loop", n # "ontime", n # "selfcheck", n # "oninterrupt"
       PROVE  Goal
  <2>1. r = sound
    BY <1>9, <1>17
  <2>2. n # "name"
    BY <1>10, <1>17
  <2>3. QED
    BY <1>17, <2>1, <2>2, Zenon
<1>18. Goal
  <2> HIDE DEF Goal
  <2> QED BY <1>11, <1>12, <1>13, <1>14, <1>15, <1>16, <1>17, ZenonT(60)
<1>19. QED
  BY <1>1, <1>3, <1>18, Zenon

\* The loop of a sound is that of the last attribute of that name.
LEMMA SoundLoopNext ==
  ASSUME NEW attrs, NEW n \in Nat \ {0}
  PROVE  SoundLoopAt(attrs, n)
           = IF attrs[n].name = "loop" THEN atoi(attrs[n].value) ELSE SoundLoopAt(attrs, n - 1)
<1>1. CASE attrs[n].name = "loop"
  <2>1. Lasts(attrs, n, "loop") # {} /\ LastAt(attrs, n, "loop", <<>>) = attrs[n].value
    <3>1. PICK nm, d : nm = "loop" /\ d = <<>>
      OBVIOUS
    <3>2. attrs[n].name = nm
      BY <1>1, <3>1, Zenon
    <3>3. Newest(Lasts(attrs, n, nm)) = n /\ Lasts(attrs, n, nm) # {}
      BY <3>2, LastHere
    <3>4. LastAt(attrs, n, nm, d) = attrs[n].value
      BY <3>2, LastHereIs
    <3>5. QED
      BY <3>1, <3>3, <3>4, Zenon
  <2>2. QED
    BY <1>1, <2>1, Zenon DEF SoundLoopAt
<1>2. CASE attrs[n].name # "loop"
  <2>1. PICK m : m = n - 1
    OBVIOUS
  <2>2. /\ Lasts(attrs, n, "loop") = Lasts(attrs, m, "loop")
        /\ \A d : LastAt(attrs, n, "loop", d) = LastAt(attrs, m, "loop", d)
    BY <1>2, <2>1, LastBefore
  <2>3. SoundLoopAt(attrs, n) = SoundLoopAt(attrs, m)
    BY <2>2, Zenon DEF SoundLoopAt
  <2>4. QED
    BY <1>2, <2>1, <2>3, Zenon
<1>3. QED
  BY <1>1, <1>2, Zenon

\* A sound has the last name and the last loop.
LEMMA SoundRead ==
  ASSUME NEW X, NEW attrs \in Seq(X)
  PROVE  SoundWith(SoundOf(attrs), NameOf(attrs), SoundLoopAt(attrs, Len(attrs)))
<1>1. PICK L \in Nat : L = Len(attrs)
  OBVIOUS
<1>2. PICK f : Takes("soundAttr", attrs, NoSound, L, f) /\ SoundOf(attrs) = f[L]
  BY <1>1, SoundSteps, Zenon
<1> DEFINE Reached(n) == SoundWith(f[n], LastAt(attrs, n, "name", <<>>), SoundLoopAt(attrs, n))
           T == {n \in Nat : n <= L => Reached(n)}
<1>3. Reached(0)
  <2>1. f[0] = NoSound
    BY <1>2, Zenon DEF Takes
  <2>2. SoundLoopAt(attrs, 0) = -1
    BY LastNone, Zenon DEF SoundLoopAt
  <2>3. QED
    BY <2>1, <2>2, NoSoundIs, LastNone, Zenon
<1>4. ASSUME NEW n \in Nat, n \in T PROVE n + 1 \in T
  <2>1. CASE n + 1 <= L
    <3>1. PICK m \in Nat \ {0} : m = n + 1 /\ m - 1 = n /\ m \in 1..L /\ n <= L
      BY <2>1
    <3>2. Reached(n)
      BY <1>4, <3>1, Zenon
    <3>3. f[m] = LoopStep("soundAttr", attrs, m, f[n])
      BY <1>2, <3>1, Zenon DEF Takes
    <3>4. "soundAttr" # "digit" /\ "soundAttr" # "viewAttr" /\ "soundAttr" # "kid" /\ "soundAttr" # "view"
      OBVIOUS
    <3>5. f[m] = paraseAttr(f[n], attrs[m])
      BY <3>3, <3>4, Zenon DEF LoopStep
    <3>6. SoundWith(f[m], IF attrs[m].name = "name" THEN attrs[m].value ELSE LastAt(attrs, n, "name", <<>>),
                    IF attrs[m].name = "loop" THEN atoi(attrs[m].value) ELSE SoundLoopAt(attrs, n))
      <4>1. PICK s, a, nm, lp : s = f[n] /\ a = attrs[m] /\ nm = LastAt(attrs, n, "name", <<>>) /\ lp = SoundLoopAt(attrs, n)
        OBVIOUS
      <4>2. SoundWith(s, nm, lp)
        BY <3>2, <4>1, Zenon
      <4>3. SoundWith(paraseAttr(s, a), IF a.name = "name" THEN a.value ELSE nm, IF a.name = "loop" THEN atoi(a.value) ELSE lp)
        BY <4>2, SoundAttrParsed
      <4>4. QED
        BY <3>5, <4>1, <4>3, Zenon
    <3>7. LastAt(attrs, m, "name", <<>>)
            = IF attrs[m].name = "name" THEN attrs[m].value ELSE LastAt(attrs, n, "name", <<>>)
      <4>1. CASE attrs[m].name = "name"
        <5>1. PICK nm, d : nm = "name" /\ d = <<>>
          OBVIOUS
        <5>2. attrs[m].name = nm
          BY <4>1, <5>1, Zenon
        <5>3. LastAt(attrs, m, nm, d) = attrs[m].value
          BY <5>2, LastHereIs
        <5>4. QED
          BY <4>1, <5>1, <5>3, Zenon
      <4>2. CASE attrs[m].name # "name"
        <5>1. n = m - 1
          BY <3>1
        <5>2. /\ Lasts(attrs, m, "name") = Lasts(attrs, n, "name")
              /\ \A d : LastAt(attrs, m, "name", d) = LastAt(attrs, n, "name", d)
          BY <4>2, <5>1, LastBefore, SMTT(60)
        <5>3. QED
          BY <4>2, <5>2, Zenon
      <4>3. QED
        BY <4>1, <4>2, Zenon
    <3>8. SoundLoopAt(attrs, m) = IF attrs[m].name = "loop" THEN atoi(attrs[m].value) ELSE SoundLoopAt(attrs, n)
      <4>1. SoundLoopAt(attrs, m) = IF attrs[m].name = "loop" THEN atoi(attrs[m].value) ELSE SoundLoopAt(attrs, m - 1)
        BY SoundLoopNext, Zenon
      <4>2. QED
        BY <3>1, <4>1, Zenon
    <3>9. Reached(m)
      BY <3>6, <3>7, <3>8, Zenon
    <3> HIDE DEF Reached
    <3>10. QED
      BY <3>1, <3>9
  <2>2. CASE ~(n + 1 <= L)
    BY <2>2
  <2>3. QED
    BY <2>1, <2>2
<1>5. Nat \subseteq T
  <2>1. 0 \in T
    <3> HIDE DEF Reached
    <3> QED BY <1>3
  <2>2. QED
    <3> HIDE DEF T
    <3> QED BY <1>4, <2>1, Induction
<1>6. Reached(L)
  <2> HIDE DEF Reached
  <2> QED BY <1>5
<1>7. LastOf(attrs, "name", <<>>) = LastAt(attrs, L, "name", <<>>)
  BY <1>1, LastAll, Zenon
<1>8. QED
  BY <1>1, <1>2, <1>6, <1>7, Zenon DEF NameOf

-----------------------------------------------------------------------------
(* The last loop *)

\* The last of a name is one of the attributes.
LEMMA LastMember ==
  ASSUME NEW attrs, NEW L \in Nat, NEW name, Lasts(attrs, L, name) # {}
  PROVE  \E i \in 1..L : attrs[i].name = name /\ LastAt(attrs, L, name, <<>>) = attrs[i].value
<1> DEFINE Reached(n) == Lasts(attrs, n, name) # {} =>
                      \E i \in 1..n : attrs[i].name = name /\ LastAt(attrs, n, name, <<>>) = attrs[i].value
           T == {n \in Nat : Reached(n)}
<1>1. Reached(0)
  BY LastNone, Zenon
<1>2. ASSUME NEW n \in Nat, n \in T PROVE n + 1 \in T
  <2>1. PICK m \in Nat \ {0} : m = n + 1 /\ n = m - 1 /\ m \in 1..m /\ 1..n \subseteq 1..m
    OBVIOUS
  <2>2. Reached(n)
    BY <1>2, Zenon
  <2>3. Reached(m)
    <3>1. CASE attrs[m].name = name
      <4>1. LastAt(attrs, m, name, <<>>) = attrs[m].value
        BY <3>1, LastHereIs
      <4>2. QED
        BY <2>1, <3>1, <4>1, Zenon
    <3>2. CASE attrs[m].name # name
      <4>1. /\ Lasts(attrs, m, name) = Lasts(attrs, n, name)
            /\ \A d : LastAt(attrs, m, name, d) = LastAt(attrs, n, name, d)
        BY <2>1, <3>2, LastBefore
      <4>2. LastAt(attrs, m, name, <<>>) = LastAt(attrs, n, name, <<>>)
        BY <4>1, Zenon
      <4>3. SUFFICES ASSUME Lasts(attrs, n, name) # {}
                     PROVE  \E i \in 1..m : attrs[i].name = name /\ LastAt(attrs, m, name, <<>>) = attrs[i].value
        BY <4>1, Zenon
      <4>4. PICK i \in 1..n : attrs[i].name = name /\ LastAt(attrs, n, name, <<>>) = attrs[i].value
        BY <2>2, <4>3, Zenon
      <4>5. i \in 1..m
        BY <2>1, <4>4
      <4>6. QED
        BY <4>2, <4>4, <4>5, Zenon
    <3>3. QED
      BY <3>1, <3>2, Zenon
  <2> HIDE DEF Reached
  <2>4. QED
    BY <2>1, <2>3
<1>3. 0 \in T
  <2> HIDE DEF Reached
  <2> QED BY <1>1
<1>4. Nat \subseteq T
  <2> HIDE DEF T
  <2> QED BY <1>2, <1>3, Induction
<1>5. Reached(L)
  <2> HIDE DEF Reached
  <2> QED BY <1>4
<1>6. QED
  BY <1>5, Zenon

\* A loop that is given is of one of the two forms.
LEMMA LoopKnown ==
  ASSUME NEW X, LoopsKnown(X), NEW attrs \in Seq(X), NEW L, L = Len(attrs), Lasts(attrs, L, "loop") # {}
  PROVE  LastOf(attrs, "loop", <<>>) \in {LoopSounding, LoopForever}
<1>1. L \in Nat /\ \A i \in 1..L : attrs[i] \in X
  OBVIOUS
<1>2. PICK i \in 1..L : attrs[i].name = "loop" /\ LastAt(attrs, L, "loop", <<>>) = attrs[i].value
  <2>1. L \in Nat
    BY <1>1, Zenon
  <2>2. \E i \in 1..L : attrs[i].name = "loop" /\ LastAt(attrs, L, "loop", <<>>) = attrs[i].value
    BY <2>1, LastMember
  <2>3. QED
    BY <2>2, Zenon
<1>3. attrs[i] \in X
  BY <1>1, <1>2, Zenon
<1>4. attrs[i].value \in {LoopSounding, LoopForever}
  BY <1>2, <1>3, Zenon DEF LoopsKnown
<1>5. LastOf(attrs, "loop", <<>>) = attrs[i].value
  BY <1>2, LastAll, Zenon
<1>6. QED
  BY <1>4, <1>5, Zenon

\* The forms differ, and neither is missing.
LEMMA LoopsDiffer == LoopSounding # <<>> /\ LoopForever # <<>> /\ LoopSounding # LoopForever
<1>1. Len(LoopSounding) = 3 /\ Len(LoopForever) = 2
  BY DEF LoopSounding, LoopForever
<1>2. LoopForever # <<>>
  BY DEF LoopForever
<1>3. LoopSounding # <<>>
  BY DEF LoopSounding
<1>4. QED
  BY <1>1, <1>2, <1>3

\* The loop of a view and of a sound.
LEMMA LoopsRead ==
  ASSUME NEW X, LoopsKnown(X), NEW attrs \in Seq(X)
  PROVE  LoopAt(attrs, Len(attrs)) = ViewLoop(attrs) /\ SoundLoopAt(attrs, Len(attrs)) = SoundLoop(attrs)
<1>1. PICK L \in Nat : L = Len(attrs)
  OBVIOUS
<1>2. PICK v : v = LastOf(attrs, "loop", <<>>)
  OBVIOUS
<1>3. v = LastAt(attrs, L, "loop", <<>>)
  BY <1>1, <1>2, LastAll, Zenon
<1>4. ViewLoop(attrs) = CASE v = <<>> -> -1 [] v = LoopForever -> 1 [] OTHER -> 15
  BY <1>2, Zenon DEF ViewLoop, LoopForever
<1>5. SoundLoop(attrs) = IF v = LoopSounding THEN 15 ELSE -1
  BY <1>2, Zenon DEF SoundLoop, LoopSounding
<1>6. PICK x : x = LoopAt(attrs, L)
  OBVIOUS
<1>7. PICK y : y = SoundLoopAt(attrs, L)
  OBVIOUS
<1>8. CASE Lasts(attrs, L, "loop") = {}
  <2>1. x = -1 /\ y = -1
    BY <1>6, <1>7, <1>8, Zenon DEF LoopAt, SoundLoopAt
  <2>2. v = <<>>
    BY <1>3, <1>8, Zenon DEF LastAt
  <2>3. ViewLoop(attrs) = -1
    BY <1>4, <2>2, LoopsDiffer
  <2>4. SoundLoop(attrs) = -1
    BY <1>5, <2>2, LoopsDiffer
  <2>5. QED
    BY <1>1, <1>6, <1>7, <2>1, <2>3, <2>4, Zenon
<1>9. CASE Lasts(attrs, L, "loop") # {}
  <2>1. x = GetIntNum(v) /\ y = atoi(v)
    BY <1>3, <1>6, <1>7, <1>9, Zenon DEF LoopAt, SoundLoopAt
  <2>2. v \in {LoopSounding, LoopForever}
    BY <1>1, <1>2, <1>9, LoopKnown, Zenon
  <2>3. CASE v = LoopSounding
    <3>1. x = 15 /\ y = 15
      BY <2>1, <2>3, ViewLoops, SoundLoops, Zenon
    <3>2. ViewLoop(attrs) = 15 /\ SoundLoop(attrs) = 15
      BY <1>4, <1>5, <2>3, LoopsDiffer
    <3>3. QED
      BY <1>1, <1>6, <1>7, <3>1, <3>2, Zenon
  <2>4. CASE v = LoopForever
    <3>1. x = 1 /\ y = -1
      BY <2>1, <2>4, ViewLoops, SoundLoops, Zenon
    <3>2. ViewLoop(attrs) = 1 /\ SoundLoop(attrs) = -1
      BY <1>4, <1>5, <2>4, LoopsDiffer
    <3>3. QED
      BY <1>1, <1>6, <1>7, <3>1, <3>2, Zenon
  <2>5. QED
    BY <2>2, <2>3, <2>4, Zenon
<1>10. QED
  BY <1>8, <1>9, Zenon

-----------------------------------------------------------------------------
(* The two files *)

\* The elements of a file.
LEMMA FileParts ==
  ASSUME NEW X, NEW file \in FilesOf(X)
  PROVE  /\ Len(file) \in Nat /\ DOMAIN file = 1..Len(file)
         /\ \A i \in 1..Len(file) : Elemental(X, file[i])
<1>1. PICK A, K : A = Seq(X) /\ K = Seq(Seq(X))
  OBVIOUS
<1>2. file \in Seq([attrs : A, kids : K])
  BY <1>1, Zenon DEF FilesOf
<1>3. /\ Len(file) \in Nat /\ DOMAIN file = 1..Len(file)
      /\ \A i \in 1..Len(file) : file[i].attrs \in A /\ file[i].kids \in K
  <2>1. PICK R : R = [attrs : A, kids : K]
    OBVIOUS
  <2>2. file \in Seq(R)
    BY <1>2, <2>1, Zenon
  <2>3. Len(file) \in Nat /\ DOMAIN file = 1..Len(file) /\ \A i \in 1..Len(file) : file[i] \in R
    BY <2>2
  <2>4. \A r \in R : r.attrs \in A /\ r.kids \in K
    BY <2>1
  <2>5. QED
    BY <2>3, <2>4, Zenon
<1>4. QED
  BY <1>1, <1>3, Zenon DEF Elemental

\* What an element says of its view.
LEMMA ViewKnown ==
  ASSUME NEW X, LoopsKnown(X), NEW e, Elemental(X, e)
  PROVE  /\ Named(ViewOf(e)) <=> Complete(e.attrs)
         /\ ViewOf(e).name = NameOf(e.attrs) /\ ViewIs(e, ViewOf(e))
<1>1. PICK v, nm, pd, lp, c : /\ v = ViewOf(e) /\ nm = NameOf(e.attrs) /\ pd = PidOf(e.attrs)
                              /\ lp = LoopAt(e.attrs, Len(e.attrs)) /\ c = NamesIn(e)
  OBVIOUS
<1>2. ViewWith(v, nm, pd, lp, c)
  BY <1>1, ViewRead, Zenon
<1>3. /\ Named(v) <=> nm # <<>> /\ pd # <<>>
      /\ v.name = nm /\ v.pid = pd /\ v.loop = lp /\ v.children = c
  BY <1>2, NamedIf, Zenon
<1>4. lp = ViewLoop(e.attrs)
  <2>1. e.attrs \in Seq(X)
    BY Zenon DEF Elemental
  <2>2. LoopAt(e.attrs, Len(e.attrs)) = ViewLoop(e.attrs)
    BY <2>1, LoopsRead, Zenon
  <2>3. QED
    BY <1>1, <2>2, Zenon
<1>5. Complete(e.attrs) <=> nm # <<>> /\ pd # <<>>
  BY <1>1, Zenon DEF Complete, NameOf, PidOf
<1>6. ViewIs(e, v)
  BY <1>1, <1>3, <1>4, Zenon DEF ViewIs, PidOf, NamesIn
<1>7. QED
  BY <1>1, <1>3, <1>5, <1>6, Zenon

\* The views of view.xml are inserted in their order.
LEMMA ViewsInsert ==
  ASSUME NEW X, LoopsKnown(X), NEW file \in FilesOf(X), NEW L, L = Len(file)
  PROVE  \E f, good, name, info : ViewsInserted(file, L, f, good, name, info) /\ XmlParse(file) = ParsedAs(file, f[L])
<1>1. L \in Nat /\ \A i \in 1..L : Elemental(X, file[i])
  BY FileParts, Zenon
<1>2. PICK f : Takes("view", file, Empty, L, f) /\ XmlParse(file) = ParsedAs(file, f[L])
  BY <1>1, MapSteps, Zenon
<1>3. PICK good : good = {i \in 1..L : Complete(file[i].attrs)}
  OBVIOUS
<1>4. PICK name : name = [i \in 1..L |-> NameOf(file[i].attrs)]
  OBVIOUS
<1>5. PICK info : info = [i \in 1..L |-> ViewOf(file[i])]
  OBVIOUS
<1>6. \A i \in 1..L : /\ name[i] = NameOf(file[i].attrs) /\ info[i] = ViewOf(file[i])
                      /\ (i \in good <=> Complete(file[i].attrs))
  BY <1>3, <1>4, <1>5, Zenon
<1>7. \A i \in 1..L : /\ Named(ViewOf(file[i])) <=> Complete(file[i].attrs)
                      /\ ViewOf(file[i]).name = NameOf(file[i].attrs) /\ ViewIs(file[i], ViewOf(file[i]))
  BY <1>1, ViewKnown, Zenon
<1>8. \A n \in 1..L : f[n] = IF n \in good THEN Inserted(f[n - 1], name[n], info[n]) ELSE f[n - 1]
  <2> SUFFICES ASSUME NEW n \in 1..L
               PROVE  f[n] = IF n \in good THEN Inserted(f[n - 1], name[n], info[n]) ELSE f[n - 1]
    OBVIOUS
  <2>1. f[n] = LoopStep("view", file, n, f[n - 1])
    BY <1>2, Zenon DEF Takes
  <2>2. "view" # "digit" /\ "view" # "viewAttr" /\ "view" # "kid"
    OBVIOUS
  <2>3. f[n] = AddView(f[n - 1], ViewOf(file[n]))
    BY <2>1, <2>2, Zenon DEF LoopStep
  <2>4. PICK v : v = ViewOf(file[n])
    OBVIOUS
  <2>5. f[n] = IF Named(v) THEN Inserted(f[n - 1], v.name, v) ELSE f[n - 1]
    BY <2>3, <2>4, Zenon DEF AddView
  <2>6. info[n] = v /\ v.name = name[n] /\ (Named(v) <=> n \in good)
    BY <1>6, <1>7, <2>4, Zenon
  <2>7. QED
    BY <2>5, <2>6, Zenon
<1>9. f[0] = Empty
  BY <1>2, Zenon DEF Takes
<1>10. good \subseteq 1..L
  BY <1>3
<1>11. Inserts(f, L, good, name, info)
  BY <1>1, <1>8, <1>9, <1>10, Zenon DEF Inserts
<1>12. ViewsInserted(file, L, f, good, name, info)
  BY <1>6, <1>7, <1>11, Zenon DEF ViewsInserted
<1>13. QED
  BY <1>2, <1>12, Zenon

\* A file is read without an error exactly if no attribute is repeated.
LEMMA LoadsIf == ASSUME NEW file PROVE LoadFile(file) <=> ~\E i \in DOMAIN file : Repeats(file[i])
<1>1. \A attrs : Repeated(attrs) = Again(attrs)
  BY Zenon DEF Repeated, Again
<1>2. \A e : Repeats(e) <=> Repeated(e.attrs) # {} \/ BrokenKids(e) # {}
  BY <1>1, Zenon DEF Repeats, BrokenKids
<1>3. QED
  BY <1>2, Zenon DEF LoadFile, Broken

\* The fields of what XmlParse gives.
LEMMA ParsedParts ==
  ASSUME NEW file, NEW map, NEW parsed, parsed = ParsedAs(file, map)
  PROVE  /\ parsed.exit <=> ~LoadFile(file)
         /\ ~parsed.exit => parsed.views = map
<1>1. CASE LoadFile(file)
  <2>1. parsed = [exit |-> FALSE, views |-> map]
    BY <1>1, Zenon DEF ParsedAs
  <2>2. parsed.exit = FALSE /\ parsed.views = map
    BY <2>1
  <2>3. QED
    BY <1>1, <2>2, Zenon
<1>2. CASE ~LoadFile(file)
  <2>1. parsed = [exit |-> TRUE, views |-> Empty]
    BY <1>2, Zenon DEF ParsedAs
  <2>2. parsed.exit = TRUE
    BY <2>1
  <2>3. QED
    BY <1>2, <2>2, Zenon
<1>3. QED
  BY <1>1, <1>2, Zenon

\* view.xml is read as it should be.
LEMMA ViewsCorrect ==
  ASSUME NEW X, LoopsKnown(X), input \in FilesOf(X)
  PROVE  ViewsRead
<1>1. PICK L \in Nat : L = Len(input) /\ DOMAIN input = 1..L
  BY FileParts, Zenon
<1>2. PICK f, good, name, info : ViewsInserted(input, L, f, good, name, info) /\ XmlParse(input) = ParsedAs(input, f[L])
  BY <1>1, ViewsInsert, Zenon
<1>3. /\ Inserts(f, L, good, name, info)
      /\ \A i \in 1..L : name[i] = NameOf(input[i].attrs) /\ info[i] = ViewOf(input[i])
                         /\ (i \in good <=> Complete(input[i].attrs)) /\ ViewIs(input[i], info[i])
  BY <1>2, Zenon DEF ViewsInserted
<1>4. good \subseteq 1..L
  BY <1>3, Zenon DEF Inserts
<1>5. /\ DOMAIN f[L] = {name[i] : i \in good}
      /\ \A i \in good : FirstOf(good, name, i) => f[L][name[i]] = info[i]
  <2>1. FirstsIn(f[L], good, name, info)
    BY <1>3, InsertsFirst
  <2>2. QED
    BY <2>1, Zenon DEF FirstsIn
<1>b. PICK parsed : parsed = XmlParse(input)
  OBVIOUS
<1>a. /\ parsed.exit <=> \E i \in DOMAIN input : Repeats(input[i])
      /\ ~parsed.exit => parsed.views = f[L]
  BY <1>b, <1>2, LoadsIf, ParsedParts, Zenon
<1> DEFINE map == f[L]
           complete == {i \in DOMAIN input : Complete(input[i].attrs)}
           Called(i) == LastOf(input[i].attrs, "name", <<>>)
           IsFirst(i) == \A j \in complete : Called(j) = Called(i) => i <= j
<1>6. complete = good
  BY <1>1, <1>3, <1>4
<1>7. \A i \in good : name[i] = Called(i) /\ ViewIs(input[i], info[i])
  BY <1>3, <1>4, Zenon DEF NameOf
<1>8. DOMAIN map = {Called(i) : i \in complete}
  <2>1. DOMAIN map = {name[i] : i \in good}
    BY <1>5, Zenon
  <2> HIDE DEF Called, complete, map
  <2>2. QED
    BY <1>6, <1>7, <2>1
<1>9. ASSUME NEW i \in complete, IsFirst(i) PROVE ViewIs(input[i], map[Called(i)])
  <2>1. i \in good
    <3> HIDE DEF complete
    <3> QED BY <1>6
  <2>2. FirstOf(good, name, i)
    <3> SUFFICES ASSUME NEW j \in good, name[j] = name[i] PROVE i <= j
      BY Zenon DEF FirstOf
    <3>1. Called(j) = Called(i)
      BY <1>7, <2>1, Zenon
    <3>2. j \in complete
      <4> HIDE DEF complete
      <4> QED BY <1>6
    <3>3. QED
      BY <1>9, <3>1, <3>2, Zenon
  <2>3. f[L][name[i]] = info[i]
    BY <1>5, <2>1, <2>2, Zenon
  <2>4. map[Called(i)] = info[i]
    BY <1>7, <2>1, <2>3, Zenon
  <2>5. QED
    BY <1>7, <2>1, <2>4, Zenon
<1>10. \A i \in {j \in complete : IsFirst(j)} : ViewIs(input[i], map[Called(i)])
  <2> HIDE DEF complete, IsFirst, map, Called
  <2> QED BY <1>9
<1>11. /\ ~parsed.exit => DOMAIN parsed.views = {Called(i) : i \in complete}
       /\ ~parsed.exit => \A i \in {j \in complete : IsFirst(j)} : ViewIs(input[i], parsed.views[Called(i)])
  <2> HIDE DEF complete, IsFirst, Called
  <2> QED BY <1>a, <1>8, <1>10, Zenon
<1>12. QED
  BY <1>b, <1>a, <1>11, Zenon DEF ViewsRead, ViewIs, ViewLoop

\* The sounds are inserted in the order of their elements.
LEMMA SoundsInsert ==
  ASSUME NEW X, LoopsKnown(X), NEW file \in FilesOf(X)
  PROVE  SoundsOf(file, paraseNode(file))
<1>1. PICK L \in Nat : L = Len(file) /\ DOMAIN file = 1..L /\ \A i \in 1..L : Elemental(X, file[i])
  BY FileParts, Zenon
<1>2. PICK f : Takes("sound", file, Empty, L, f) /\ paraseNode(file) = f[L]
  BY <1>1, SoundsSteps, Zenon
<1>3. PICK good : good = 1..L
  OBVIOUS
<1>4. PICK name : name = [i \in 1..L |-> NameOf(file[i].attrs)]
  OBVIOUS
<1>5. PICK info : info = [i \in 1..L |-> SoundOf(file[i].attrs)]
  OBVIOUS
<1>6. \A i \in 1..L : name[i] = NameOf(file[i].attrs) /\ info[i] = SoundOf(file[i].attrs)
  BY <1>4, <1>5, Zenon
<1>7. ASSUME NEW i \in 1..L PROVE info[i].name = name[i] /\ info[i].loop = SoundLoop(file[i].attrs)
  <2>1. file[i].attrs \in Seq(X)
    BY <1>1, Zenon DEF Elemental
  <2>2. SoundWith(SoundOf(file[i].attrs), NameOf(file[i].attrs), SoundLoopAt(file[i].attrs, Len(file[i].attrs)))
    BY <2>1, SoundRead, Zenon
  <2>3. SoundLoopAt(file[i].attrs, Len(file[i].attrs)) = SoundLoop(file[i].attrs)
    BY <2>1, LoopsRead, Zenon
  <2>4. info[i]["name"] = name[i] /\ info[i]["loop"] = SoundLoop(file[i].attrs)
    BY <1>6, <2>2, <2>3, Zenon DEF SoundWith
  <2>5. QED
    BY <2>4
<1>8. \A n \in 1..L : f[n] = IF n \in good THEN Inserted(f[n - 1], name[n], info[n]) ELSE f[n - 1]
  <2> SUFFICES ASSUME NEW n \in 1..L
               PROVE  f[n] = IF n \in good THEN Inserted(f[n - 1], name[n], info[n]) ELSE f[n - 1]
    OBVIOUS
  <2>1. f[n] = LoopStep("sound", file, n, f[n - 1])
    BY <1>2, Zenon DEF Takes
  <2>2. "sound" # "digit" /\ "sound" # "viewAttr" /\ "sound" # "kid" /\ "sound" # "view" /\ "sound" # "soundAttr"
    OBVIOUS
  <2>3. f[n] = AddSound(f[n - 1], SoundOf(file[n].attrs))
    BY <2>1, <2>2, Zenon DEF LoopStep
  <2>4. f[n] = Inserted(f[n - 1], info[n].name, info[n])
    BY <1>6, <2>3, Zenon DEF AddSound
  <2>5. QED
    BY <1>3, <1>7, <2>4, Zenon
<1>9. f[0] = Empty /\ good \subseteq 1..L
  BY <1>2, <1>3, Zenon DEF Takes
<1>10. Inserts(f, L, good, name, info)
  BY <1>8, <1>9, Zenon DEF Inserts
<1>11. /\ DOMAIN f[L] = {name[i] : i \in good}
       /\ \A i \in good : FirstOf(good, name, i) => f[L][name[i]] = info[i]
  <2>1. FirstsIn(f[L], good, name, info)
    BY <1>10, InsertsFirst
  <2>2. QED
    BY <2>1, Zenon DEF FirstsIn
<1> DEFINE map == paraseNode(file)
           Called(i) == LastOf(file[i].attrs, "name", <<>>)
           IsFirst(i) == \A j \in DOMAIN file : Called(j) = Called(i) => i <= j
<1>12. \A i \in good : name[i] = Called(i)
  BY <1>3, <1>6, Zenon DEF NameOf
<1>13. DOMAIN map = {Called(i) : i \in DOMAIN file}
  <2>1. DOMAIN map = {name[i] : i \in good}
    BY <1>2, <1>11, Zenon
  <2>2. good = DOMAIN file
    BY <1>1, <1>3, Zenon
  <2> HIDE DEF Called, map
  <2>3. QED
    BY <1>12, <2>1, <2>2
<1>14. ASSUME NEW i \in DOMAIN file, IsFirst(i) PROVE map[Called(i)].loop = SoundLoop(file[i].attrs)
  <2>1. i \in good /\ good = DOMAIN file /\ good = 1..L
    BY <1>1, <1>3, <1>14, Zenon
  <2>2. FirstOf(good, name, i)
    <3> SUFFICES ASSUME NEW j \in good, name[j] = name[i] PROVE i <= j
      BY Zenon DEF FirstOf
    <3>1. Called(j) = Called(i)
      BY <1>12, <2>1, Zenon
    <3>2. j \in DOMAIN file
      BY <2>1, Zenon
    <3>3. QED
      BY <1>14, <3>1, <3>2, Zenon
  <2>3. f[L][name[i]] = info[i]
    BY <1>11, <2>1, <2>2, Zenon
  <2>4. map[Called(i)] = info[i]
    BY <1>2, <1>12, <2>1, <2>3, Zenon
  <2>5. info[i].loop = SoundLoop(file[i].attrs)
    BY <1>7, <2>1, Zenon
  <2>6. QED
    BY <2>4, <2>5, Zenon
<1>15. \A i \in {j \in DOMAIN file : IsFirst(j)} : map[Called(i)].loop = SoundLoop(file[i].attrs)
  <2> HIDE DEF IsFirst, map, Called
  <2> QED BY <1>14
<1>16. QED
  BY <1>13, <1>15, Zenon DEF SoundsOf

\* A set of numbers has its first.
LEMMA FirstIs ==
  ASSUME NEW T, T \subseteq Nat, T # {}
  PROVE  FirstOfSet(T) \in T /\ \A i \in T : FirstOfSet(T) <= i
<1>1. \E x \in T : \A y \in T : x <= y
  BY SmallestOf, Zenon
<1>2. QED
  BY <1>1, Zenon DEF FirstOfSet

\* One that is bounded has its last.
LEMMA NewestIs ==
  ASSUME NEW L \in Nat, NEW T, T \subseteq 1..L, T # {}
  PROVE  Newest(T) \in T
<1>1. PICK U : U = {L - t : t \in T}
  OBVIOUS
<1>2. U \subseteq Nat /\ U # {}
  <2>1. \A t \in T : t \in Int /\ L - t \in Nat
    OBVIOUS
  <2>2. U \subseteq Nat
    BY <1>1, <2>1
  <2>3. U # {}
    BY <1>1, Zenon
  <2>4. QED
    BY <2>2, <2>3
<1>3. PICK x \in U : \A y \in U : x <= y
  BY <1>2, SmallestOf, Zenon
<1>4. PICK i \in T : x = L - i
  BY <1>1, <1>3
<1>5. ASSUME NEW j \in T PROVE i >= j
  <2>1. L - j \in U
    BY <1>1
  <2>2. L - i <= L - j
    BY <1>3, <1>4, <2>1
  <2>3. QED
    BY <1>4, <2>2
<1>6. QED
  BY <1>5, Zenon DEF Newest

\* What is read of some attributes has the last of each name up to the repeated one.
LEMMA LastRead ==
  ASSUME NEW X, NEW attrs \in Seq(X)
  PROVE  /\ ReadAttributes(attrs) \in Seq(X)
         /\ \A name, d : LastOf(ReadAttributes(attrs), name, d) = LastOf(Until(attrs), name, d)
<1>1. PICK L \in Nat : L = Len(attrs) /\ DOMAIN attrs = 1..L
  OBVIOUS
<1>2. PICK R : R = Repeated(attrs) /\ R = Again(attrs) /\ R \subseteq 1..L
  BY <1>1, Zenon DEF Repeated, Again
<1>3. CASE R = {}
  <2>1. ReadAttributes(attrs) = attrs /\ Until(attrs) = attrs
    BY <1>2, <1>3, Zenon DEF ReadAttributes, Until
  <2>2. QED
    BY <2>1, Zenon
<1>4. CASE R # {}
  <2>1. PICK n \in 1..L : n = FirstOfSet(R) /\ \E i \in 1..(n - 1) : attrs[i].name = attrs[n].name
    <3>1. R \subseteq Nat
      BY <1>2
    <3>2. FirstOfSet(R) \in R
      BY <1>4, <3>1, FirstIs, Zenon
    <3>3. \A n \in R : \E i \in 1..(n - 1) : attrs[i].name = attrs[n].name
      BY <1>2, Zenon DEF Repeated
    <3>4. QED
      BY <1>2, <3>2, <3>3, Zenon
  <2>2. PICK m \in Nat : m = n - 1
    BY <2>1
  <2>3. PICK b : b = [i \in 1..m |-> IF attrs[i].name = attrs[n].name THEN attrs[n] ELSE attrs[i]]
    OBVIOUS
  <2>4. PICK c : c = SubSeq(attrs, 1, n)
    OBVIOUS
  <2>5. ReadAttributes(attrs) = b
    BY <1>2, <1>4, <2>1, <2>2, <2>3, Zenon DEF ReadAttributes
  <2>6. Until(attrs) = c
    BY <1>2, <1>4, <2>1, <2>4, Zenon DEF Until, FirstOfSet
  <2>7. /\ b \in Seq(X) /\ Len(b) = m
        /\ \A i \in 1..m : b[i] = IF attrs[i].name = attrs[n].name THEN attrs[n] ELSE attrs[i]
    <3>1. \A i \in 1..m : i \in 1..L /\ attrs[i] \in X
      BY <1>1, <2>1, <2>2
    <3>2. attrs[n] \in X
      BY <1>1, <2>1
    <3>3. \A i \in 1..m : b[i] \in X
      BY <2>3, <3>1, <3>2
    <3>4. b = [i \in 1..m |-> b[i]]
      BY <2>3
    <3>5. QED
      BY <2>2, <2>3, <3>3, <3>4
  <2>8. c \in Seq(X) /\ Len(c) = n /\ \A i \in 1..n : c[i] = attrs[i]
    BY <1>1, <2>1, <2>4
  <2>9. ASSUME NEW name, NEW d PROVE LastOf(b, name, d) = LastOf(c, name, d)
    <3>1. LastOf(b, name, d) = LastAt(b, m, name, d) /\ LastOf(c, name, d) = LastAt(c, n, name, d)
      BY <2>7, <2>8, LastAll, Zenon
    <3>2. n \in Nat \ {0} /\ n \in 1..n /\ \A i \in 1..m : i \in 1..n
      BY <2>1, <2>2
    <3>3. \A i \in 1..m : b[i].name = c[i].name
      BY <2>7, <2>8, <3>2, Zenon
    <3>4. Lasts(b, m, name) = Lasts(c, m, name)
      BY <3>3, Zenon DEF Lasts
    <3>5. CASE c[n].name = name
      <4>1. LastAt(c, n, name, d) = c[n].value
        BY <3>2, <3>5, LastHereIs
      <4>2. PICK T : T = Lasts(b, m, name)
        OBVIOUS
      <4>3. T # {} /\ T \subseteq 1..m
        <5>1. PICK i \in 1..m : attrs[i].name = attrs[n].name
          BY <2>1, <2>2, Zenon
        <5>2. b[i].name = name
          BY <2>8, <3>2, <3>3, <3>5, <5>1, Zenon
        <5>3. QED
          BY <4>2, <5>1, <5>2, Zenon DEF Lasts
      <4>4. PICK i \in T : i = Newest(T)
        BY <2>2, <4>3, NewestIs, Zenon
      <4>5. i \in 1..m /\ b[i].name = name
        BY <4>2, <4>4, Zenon DEF Lasts
      <4>6. b[i] = c[n]
        BY <2>7, <2>8, <3>2, <3>5, <4>5, Zenon
      <4>7. LastAt(b, m, name, d) = b[i].value
        BY <4>2, <4>3, <4>4, Zenon DEF LastAt
      <4>8. QED
        BY <3>1, <4>1, <4>6, <4>7, Zenon
    <3>6. CASE c[n].name # name
      <4>1. LastAt(c, n, name, d) = LastAt(c, m, name, d)
        <5>1. /\ Lasts(c, n, name) = Lasts(c, m, name)
              /\ \A e : LastAt(c, n, name, e) = LastAt(c, m, name, e)
          <6>1. n \in Nat \ {0}
            BY <3>2, Zenon
          <6>2. QED
            BY <2>2, <3>6, <6>1, LastBefore
        <5>2. QED
          BY <5>1, Zenon
      <4>2. PICK T : T = Lasts(b, m, name) /\ T = Lasts(c, m, name)
        BY <3>4, Zenon
      <4>3. CASE T = {}
        BY <3>1, <4>1, <4>2, <4>3, Zenon DEF LastAt
      <4>4. CASE T # {}
        <5>1. T \subseteq 1..m
          BY <4>2, Zenon DEF Lasts
        <5>2. PICK i \in T : i = Newest(T)
          BY <2>2, <4>4, <5>1, NewestIs, Zenon
        <5>3. i \in 1..m /\ c[i].name = name
          BY <4>2, <5>2, Zenon DEF Lasts
        <5>4. b[i] = c[i]
          BY <2>7, <2>8, <3>2, <3>6, <5>3, Zenon
        <5>5. LastAt(b, m, name, d) = b[i].value /\ LastAt(c, m, name, d) = c[i].value
          BY <4>2, <4>4, <5>2, Zenon DEF LastAt
        <5>6. QED
          BY <3>1, <4>1, <5>4, <5>5, Zenon
      <4>5. QED
        BY <4>3, <4>4
    <3>7. QED
      BY <3>5, <3>6
  <2>10. QED
    BY <2>5, <2>6, <2>7, <2>9, Zenon
<1>5. QED
  BY <1>3, <1>4

\* What is read of an element has the attributes that are read of it.
LEMMA ElementOnceRead ==
  ASSUME NEW X, NEW e \in [attrs : Seq(X), kids : Seq(Seq(X))]
  PROVE  /\ ReadElement(e) \in [attrs : Seq(X), kids : Seq(Seq(X))]
         /\ ReadElement(e).attrs = ReadAttributes(e.attrs)
<1>1. PICK S : S = Seq(X)
  OBVIOUS
<1>2. PICK a, K : a = e.attrs /\ K = e.kids
  OBVIOUS
<1>3. a \in S /\ K \in Seq(S) /\ e = [attrs |-> a, kids |-> K]
  BY <1>1, <1>2
<1>4. \A t \in S : ReadAttributes(t) \in S
  BY <1>1, LastRead, Zenon
<1>5. PICK r \in S : r = ReadAttributes(a)
  BY <1>3, <1>4, Zenon
<1>6. CASE Repeated(a) # {}
  <2>1. ReadElement(e) = [attrs |-> r, kids |-> <<>>]
    BY <1>2, <1>5, <1>6, Zenon DEF ReadElement, Element
  <2>2. QED
    BY <1>1, <1>2, <1>5, <2>1
<1>7. CASE Repeated(a) = {} /\ BrokenKids(e) # {}
  <2>1. r = a
    BY <1>5, <1>7, Zenon DEF ReadAttributes
  <2>2. PICK L \in Nat : L = Len(K) /\ DOMAIN K = 1..L /\ \A k \in 1..L : K[k] \in S
    BY <1>3
  <2>3. PICK T : T = BrokenKids(e) /\ T \subseteq 1..L
    BY <1>2, <2>2, Zenon DEF BrokenKids
  <2>4. PICK n \in 1..L : n = FirstOfSet(T)
    <3>1. T \subseteq Nat
      BY <2>3
    <3>2. FirstOfSet(T) \in T
      BY <1>7, <2>3, <3>1, FirstIs, Zenon
    <3>3. QED
      BY <2>3, <3>2, Zenon
  <2>5. PICK q : q = [k \in 1..n |-> ReadAttributes(K[k])]
    OBVIOUS
  <2>6. q \in Seq(S)
    <3>1. \A k \in 1..n : k \in 1..L
      BY <2>4
    <3>2. \A k \in 1..n : ReadAttributes(K[k]) \in S
      BY <1>4, <2>2, <3>1, Zenon
    <3>3. n \in Nat
      BY <2>4
    <3>4. QED
      BY <2>5, <3>2, <3>3
  <2>7. ReadElement(e) = [attrs |-> a, kids |-> q]
    BY <1>2, <1>7, <2>3, <2>4, <2>5, Zenon DEF ReadElement, Element
  <2>8. QED
    BY <1>1, <1>2, <1>3, <1>5, <2>1, <2>6, <2>7
<1>8. CASE Repeated(a) = {} /\ BrokenKids(e) = {}
  <2>1. r = a
    BY <1>5, <1>8, Zenon DEF ReadAttributes
  <2>2. ReadElement(e) = e
    BY <1>2, <1>8, Zenon DEF ReadElement
  <2>3. QED
    BY <1>2, <1>5, <2>1, <2>2
<1>9. QED
  BY <1>6, <1>7, <1>8, Zenon

\* The elements up to the first that repeats an attribute are read.
LEMMA FileRead ==
  ASSUME NEW X, NEW file \in FilesOf(X)
  PROVE  /\ ElementsRead(file) \in FilesOf(X) /\ DOMAIN ElementsRead(file) = Kept(file)
         /\ \A i \in Kept(file) : ElementsRead(file)[i].attrs = ReadAttributes(file[i].attrs)
<1>1. PICK S : S = [attrs : Seq(X), kids : Seq(Seq(X))]
  OBVIOUS
<1>2. file \in Seq(S) /\ FilesOf(X) = Seq(S)
  BY <1>1, Zenon DEF FilesOf
<1>3. PICK L \in Nat : L = Len(file) /\ DOMAIN file = 1..L /\ \A i \in 1..L : file[i] \in S
  BY <1>2
<1>4. \A e \in S : ReadElement(e) \in S /\ ReadElement(e).attrs = ReadAttributes(e.attrs)
  BY <1>1, ElementOnceRead, Zenon
<1>5. PICK B : B = Broken(file) /\ B \subseteq 1..L
  BY <1>3, Zenon DEF Broken
<1>6. \A i \in 1..L : i \in B <=> Repeats(file[i])
  <2>1. \A attrs : Repeated(attrs) = Again(attrs)
    BY Zenon DEF Repeated, Again
  <2>2. \A e : Repeats(e) <=> Repeated(e.attrs) # {} \/ BrokenKids(e) # {}
    BY <2>1, Zenon DEF Repeats, BrokenKids
  <2>3. QED
    BY <1>3, <1>5, <2>2, Zenon DEF Broken
<1>7. CASE B = {}
  <2>1. ElementsRead(file) = file
    BY <1>5, <1>7, Zenon DEF ElementsRead, LoadFile
  <2>2. \A i \in 1..L : ~Repeats(file[i]) /\ \A j \in 1..(i - 1) : j \in 1..L
    BY <1>6, <1>7
  <2>3. Kept(file) = DOMAIN file
    BY <1>3, <2>2, Zenon DEF Kept
  <2>4. \A i \in 1..L : Repeated(file[i].attrs) = {}
    BY <1>3, <1>5, <1>7, Zenon DEF Broken
  <2>5. \A i \in 1..L : ReadAttributes(file[i].attrs) = file[i].attrs
    BY <2>4, Zenon DEF ReadAttributes
  <2>6. QED
    BY <1>3, <2>1, <2>3, <2>5, Zenon
<1>8. CASE B # {}
  <2>1. PICK n \in 1..L : n = FirstOfSet(B) /\ n \in B /\ \A i \in B : n <= i
    <3>1. B \subseteq Nat
      BY <1>5
    <3>2. FirstOfSet(B) \in B /\ \A i \in B : FirstOfSet(B) <= i
      BY <1>8, <3>1, FirstIs, Zenon
    <3>3. QED
      BY <1>5, <3>2, Zenon
  <2>2. PICK E : E = [i \in 1..n |-> ReadElement(file[i])]
    OBVIOUS
  <2>3. ElementsRead(file) = E
    BY <1>5, <1>8, <2>1, <2>2, Zenon DEF ElementsRead, LoadFile
  <2>4. \A i \in 1..n : i \in 1..L /\ file[i] \in S
    BY <1>3, <2>1
  <2>5. E \in Seq(S)
    <3>1. \A i \in 1..n : ReadElement(file[i]) \in S
      BY <1>4, <2>4, Zenon
    <3>2. n \in Nat
      BY <2>1
    <3>3. QED
      BY <2>2, <3>1, <3>2
  <2>6. ASSUME NEW i \in 1..L PROVE i \in Kept(file) <=> i <= n
    <3>1. CASE i <= n
      <4>1. \A j \in 1..(i - 1) : j \in 1..L /\ ~(n <= j)
        BY <2>1, <3>1
      <4>2. \A j \in 1..(i - 1) : ~Repeats(file[j])
        BY <1>6, <2>1, <4>1, Zenon
      <4>3. QED
        BY <1>3, <3>1, <4>2, Zenon DEF Kept
    <3>2. CASE ~(i <= n)
      <4>1. n \in 1..(i - 1)
        BY <2>1, <3>2
      <4>2. Repeats(file[n])
        BY <1>6, <2>1, Zenon
      <4>3. QED
        BY <3>2, <4>1, <4>2, Zenon DEF Kept
    <3>3. QED
      BY <3>1, <3>2
  <2>7. Kept(file) \subseteq 1..L
    BY <1>3, Zenon DEF Kept
  <2>8. \A i \in 1..L : i \in 1..n <=> i <= n
    BY <2>1
  <2>9. Kept(file) = 1..n
    BY <2>4, <2>6, <2>7, <2>8, Zenon
  <2>10. \A i \in 1..n : E[i].attrs = ReadAttributes(file[i].attrs)
    BY <1>4, <2>2, <2>4, Zenon
  <2>11. DOMAIN E = 1..n
    BY <2>2
  <2>12. QED
    BY <1>2, <2>3, <2>5, <2>9, <2>10, <2>11, Zenon
<1>9. QED
  BY <1>7, <1>8

\* audio.xml is read as it should be.
LEMMA SoundsCorrect ==
  ASSUME NEW X, LoopsKnown(X), input \in FilesOf(X)
  PROVE  SoundsRead
<1>1. PICK E : E = ElementsRead(input)
  OBVIOUS
<1>2. PICK K : K = Kept(input)
  OBVIOUS
<1>3. /\ E \in FilesOf(X) /\ DOMAIN E = K
      /\ \A i \in K : E[i].attrs = ReadAttributes(input[i].attrs)
  BY <1>1, <1>2, FileRead, Zenon
<1>4. PICK map : map = paraseNode(E) /\ SoundsOf(E, map)
  BY <1>3, SoundsInsert, Zenon
<1> DEFINE Called(i) == LastOf(Until(input[i].attrs), "name", <<>>)
           IsFirst(i) == \A j \in K : Called(j) = Called(i) => i <= j
           Loop(i) == SoundLoop(Until(input[i].attrs))
<1>5. ASSUME NEW i \in K PROVE LastOf(E[i].attrs, "name", <<>>) = Called(i) /\ SoundLoop(E[i].attrs) = Loop(i)
  <2>1. input[i].attrs \in Seq(X)
    <3>1. i \in DOMAIN input
      BY <1>2, Zenon DEF Kept
    <3>2. QED
      BY <3>1, FileParts, Zenon DEF Elemental
  <2>2. \A name, d : LastOf(ReadAttributes(input[i].attrs), name, d) = LastOf(Until(input[i].attrs), name, d)
    BY <2>1, LastRead, Zenon
  <2>3. E[i].attrs = ReadAttributes(input[i].attrs)
    BY <1>3, Zenon
  <2>4. QED
    BY <2>2, <2>3, Zenon DEF SoundLoop
<1>6. /\ DOMAIN map = {LastOf(E[i].attrs, "name", <<>>) : i \in K}
      /\ \A i \in {j \in K : \A k \in K : LastOf(E[k].attrs, "name", <<>>) = LastOf(E[j].attrs, "name", <<>>) => j <= k} :
           map[LastOf(E[i].attrs, "name", <<>>)].loop = SoundLoop(E[i].attrs)
  BY <1>3, <1>4, Zenon DEF SoundsOf
<1>7. DOMAIN map = {Called(i) : i \in K}
  <2>1. {LastOf(E[i].attrs, "name", <<>>) : i \in K} = {Called(i) : i \in K}
    <3> HIDE DEF Called
    <3> QED BY <1>5, Zenon
  <2> QED BY <1>6, <2>1, Zenon
<1>8. \A i \in {j \in K : IsFirst(j)} : map[Called(i)].loop = Loop(i)
  <2> SUFFICES ASSUME NEW i \in K, IsFirst(i) PROVE map[Called(i)].loop = Loop(i)
    OBVIOUS
  <2>1. \A k \in K : LastOf(E[k].attrs, "name", <<>>) = LastOf(E[i].attrs, "name", <<>>) => i <= k
    <3> HIDE DEF Called
    <3> QED BY <1>5, Zenon
  <2>2. map[LastOf(E[i].attrs, "name", <<>>)].loop = SoundLoop(E[i].attrs)
    BY <1>6, <2>1, Zenon
  <2>3. QED
    <3> HIDE DEF Called, Loop
    <3> QED BY <1>5, <2>2, Zenon
<1>9. paraseFile(input) = map
  BY <1>1, <1>4, Zenon DEF paraseFile
<1>10. QED
  BY <1>2, <1>7, <1>8, <1>9, Zenon DEF SoundsRead, SoundLoop, Kept

\* Both files are read as FilesRead says, however many elements and attributes
\* they have, from whatever set the attributes are: with a repeated attribute
\* view.xml is not read at all and audio.xml up to there; XmlParse and paraseNode
\* take the first element of a name and the last attribute of a name.
THEOREM FilesCorrect ==
  ASSUME NEW X, LoopsKnown(X), kind = "file" => input \in Seq([attrs : Seq(X), kids : Seq(Seq(X))])
  PROVE  FilesRead
<1> SUFFICES ASSUME kind = "file" PROVE ViewsRead /\ SoundsRead
  BY Zenon DEF FilesRead
<1>1. input \in FilesOf(X)
  BY Zenon DEF FilesOf
<1>2. QED
  BY <1>1, ViewsCorrect, SoundsCorrect, Zenon

\* The loops of ViewParts are of the two forms.
LEMMA PartsKnown == LoopsKnown(ViewParts)
<1> SUFFICES ASSUME NEW a \in ViewParts, a.name = "loop" PROVE a.value \in {LoopSounding, LoopForever}
  BY Zenon DEF LoopsKnown
<1>1. \A n, v : Attribute(n, v).name = n /\ Attribute(n, v).value = v
  BY DEF Attribute
<1>2. "loop" # "name" /\ "loop" # "pid"
  OBVIOUS
<1>3. \/ a = Attribute("name", <<"a">>) \/ a = Attribute("name", <<"b">>) \/ a = Attribute("pid", <<"p">>)
      \/ a = Attribute("pid", <<"q">>) \/ a = Attribute("loop", LoopSounding) \/ a = Attribute("loop", LoopForever)
  BY Zenon DEF ViewParts, LoopSounding, LoopForever
<1>4. \A v : a # Attribute("name", v) /\ a # Attribute("pid", v)
  BY <1>1, <1>2, Zenon
<1>5. a = Attribute("loop", LoopSounding) \/ a = Attribute("loop", LoopForever)
  BY <1>3, <1>4, Zenon
<1>6. a.value = LoopSounding \/ a.value = LoopForever
  <2>1. CASE a = Attribute("loop", LoopSounding)
    BY <1>1, <2>1, Zenon
  <2>2. CASE a = Attribute("loop", LoopForever)
    BY <1>1, <2>2, Zenon
  <2>3. QED
    BY <1>5, <2>1, <2>2, Zenon
<1>7. QED
  BY <1>6

\* A member of a sequence may be replaced.
LEMMA SeqPut ==
  ASSUME NEW R, NEW s \in Seq(R), NEW n \in 1..Len(s), NEW r \in R PROVE [s EXCEPT ![n] = r] \in Seq(R)
  OBVIOUS

\* Every step makes such a file.
LEMMA FileGrows ==
  ASSUME AddPart, input \in FilesOf(ViewParts) PROVE input' \in FilesOf(ViewParts)
<1>1. PICK X, A, K : X = ViewParts /\ A = Seq(X) /\ K = Seq(A)
  OBVIOUS
<1>2. PICK R : R = [attrs : A, kids : K]
  OBVIOUS
<1>3. FilesOf(ViewParts) = Seq(R)
  BY <1>1, <1>2, Zenon DEF FilesOf
<1>4. PICK s, n : s = input /\ n = Len(input)
  OBVIOUS
<1>5. s \in Seq(R) /\ n = Len(s)
  BY <1>3, <1>4, Zenon
<1>6. PICK e : e = s[n]
  OBVIOUS
<1>7. PICK k : k = Len(e.kids)
  OBVIOUS
<1>8. \/ input' = Append(s, Element(<<>>, <<>>))
      \/ n > 0 /\ \E a \in X : input' = [s EXCEPT ![n].attrs = Append(@, a)]
      \/ n > 0 /\ input' = [s EXCEPT ![n].kids = Append(@, <<>>)]
      \/ n > 0 /\ k > 0 /\ \E a \in X : input' = [s EXCEPT ![n].kids[k] = Append(@, a)]
  BY <1>1, <1>4, <1>6, <1>7, Zenon DEF AddPart
<1>9. n > 0 => n \in 1..Len(s) /\ e \in R
  BY <1>5, <1>6
<1>10. <<>> \in A /\ <<>> \in K
  BY <1>1
<1>11. CASE input' = Append(s, Element(<<>>, <<>>))
  <2>1. Element(<<>>, <<>>) \in R
    BY <1>2, <1>10 DEF Element
  <2>2. PICK r \in R : r = Element(<<>>, <<>>)
    BY <2>1, Zenon
  <2>3. Append(s, r) \in Seq(R)
    BY <1>5
  <2>4. QED
    BY <1>3, <1>11, <2>2, <2>3, Zenon
<1>12. CASE n > 0 /\ \E a \in X : input' = [s EXCEPT ![n].attrs = Append(@, a)]
  <2>1. PICK a \in X : input' = [s EXCEPT ![n].attrs = Append(@, a)]
    BY <1>12, Zenon
  <2>2. e.attrs \in A /\ e.kids \in K /\ n \in 1..Len(s)
    BY <1>2, <1>9, <1>12
  <2>3. Append(e.attrs, a) \in A
    BY <1>1, <2>2
  <2>4. [e EXCEPT !.attrs = Append(e.attrs, a)] \in R
    BY <1>2, <1>9, <1>12, <2>2, <2>3
  <2>5. PICK r \in R : r = [e EXCEPT !.attrs = Append(e.attrs, a)]
    BY <2>4, Zenon
  <2>6. input' = [s EXCEPT ![n] = r]
    BY <1>6, <2>1, <2>5, Zenon
  <2>7. QED
    BY <1>3, <1>5, <2>2, <2>6, SeqPut, Zenon
<1>13. CASE n > 0 /\ input' = [s EXCEPT ![n].kids = Append(@, <<>>)]
  <2>1. e.attrs \in A /\ e.kids \in K /\ n \in 1..Len(s)
    BY <1>2, <1>9, <1>13
  <2>2. Append(e.kids, <<>>) \in K
    BY <1>1, <1>10, <2>1
  <2>3. [e EXCEPT !.kids = Append(e.kids, <<>>)] \in R
    BY <1>2, <1>9, <1>13, <2>1, <2>2
  <2>4. PICK r \in R : r = [e EXCEPT !.kids = Append(e.kids, <<>>)]
    BY <2>3, Zenon
  <2>5. input' = [s EXCEPT ![n] = r]
    BY <1>6, <1>13, <2>4, Zenon
  <2>6. QED
    BY <1>3, <1>5, <2>1, <2>5, SeqPut, Zenon
<1>14. CASE n > 0 /\ k > 0 /\ \E a \in X : input' = [s EXCEPT ![n].kids[k] = Append(@, a)]
  <2>1. PICK a \in X : input' = [s EXCEPT ![n].kids[k] = Append(@, a)]
    BY <1>14, Zenon
  <2>2. e.attrs \in A /\ e.kids \in K /\ n \in 1..Len(s)
    BY <1>2, <1>9, <1>14
  <2>3. PICK q : q = e.kids
    OBVIOUS
  <2>4. q \in Seq(A) /\ k \in 1..Len(q) /\ q[k] \in A
    BY <1>1, <1>7, <1>14, <2>2, <2>3
  <2>5. PICK p : p = Append(q[k], a)
    OBVIOUS
  <2>6. p \in A
    BY <1>1, <2>4, <2>5
  <2>7. [q EXCEPT ![k] = p] \in K
    BY <1>1, <2>4, <2>6, SeqPut, Zenon
  <2>8. PICK w : w = [q EXCEPT ![k] = p]
    OBVIOUS
  <2>9. [e EXCEPT !.kids = w] \in R
    BY <1>2, <1>9, <1>14, <2>2, <2>7, <2>8
  <2>10. PICK r \in R : r = [e EXCEPT !.kids = w]
    BY <2>9, Zenon
  <2>11. input' = [s EXCEPT ![n] = r]
    BY <1>6, <2>1, <2>3, <2>5, <2>8, <2>10, Zenon
  <2>12. QED
    BY <1>3, <1>5, <2>2, <2>11, SeqPut, Zenon
<1>15. QED
  BY <1>8, <1>11, <1>12, <1>13, <1>14, Zenon

-----------------------------------------------------------------------------
(* Pages *)

\* A byte is read back from its two digits.
LEMMA HexBack ==
  ASSUME NEW b \in 0..255
  PROVE  16 * HexOf(HexCode(b \div 16)) + HexOf(HexCode(b % 16)) = b
<1>1. PICK h, l : h = b \div 16 /\ l = b % 16
  OBVIOUS
<1>2. h \in 0..15 /\ l \in 0..15 /\ b = 16 * h + l
  BY <1>1, SMT
<1>3. \A x \in 0..15 : HexOf(HexCode(x)) = x
  BY SMT DEF HexOf, HexCode
<1>4. HexOf(HexCode(h)) = h /\ HexOf(HexCode(l)) = l
  BY <1>2, <1>3, ZenonT(60)
<1>5. QED
  BY <1>1, <1>2, <1>4

\* A byte has two digits.
LEMMA HexTyped == ASSUME NEW b \in 0..255 PROVE HexToStr(b) \in Seq(Int) /\ Len(HexToStr(b)) = 2
<1>1. PICK x : x = HexCode(b \div 16)
  OBVIOUS
<1>2. PICK y : y = HexCode(b % 16)
  OBVIOUS
<1>3. x \in Int /\ y \in Int
  BY <1>1, <1>2, SMT DEF HexCode
<1>4. <<x, y>> \in Seq(Int) /\ Len(<<x, y>>) = 2
  BY <1>3
<1>5. QED
  BY <1>1, <1>2, <1>4, Zenon DEF HexToStr

\* One text after another
LEMMA Joined ==
  ASSUME NEW s \in Seq(Int), NEW t \in Seq(Int)
  PROVE  /\ s \o t \in Seq(Int) /\ Len(s \o t) = Len(s) + Len(t)
         /\ \A i \in 1..Len(s) : (s \o t)[i] = s[i]
         /\ \A i \in 1..Len(t) : (s \o t)[Len(s) + i] = t[i]
  OBVIOUS

\* The bytes of two texts are those of the one and then of the other.
LEMMA SpelledJoin ==
  ASSUME NEW n \in Nat, NEW m \in Nat, NEW s, NEW t, NEW a, NEW b, NEW c,
         Spelled(s, a, n), Spelled(t, b, m),
         \A i \in 1..n : c[i] = a[i], \A i \in 1..m : c[n + i] = b[i]
  PROVE  Spelled(s \o t, c, n + m)
<1>1. s \in Seq(Int) /\ Len(s) = 2 * n /\ t \in Seq(Int) /\ Len(t) = 2 * m
  BY Zenon DEF Spelled
<1>2. PICK r : r = s \o t
  OBVIOUS
<1>3. /\ r \in Seq(Int) /\ Len(r) = Len(s) + Len(t)
      /\ \A i \in 1..Len(s) : r[i] = s[i]
      /\ \A i \in 1..Len(t) : r[Len(s) + i] = t[i]
  BY <1>1, <1>2, Joined, Zenon
<1>4. Len(r) = 2 * (n + m)
  BY <1>1, <1>3, SMT
<1>5. ASSUME NEW i \in 1..(n + m) PROVE 16 * HexOf(r[2 * i - 1]) + HexOf(r[2 * i]) = c[i]
  <2>1. CASE i <= n
    <3>1. i \in 1..n /\ 2 * i - 1 \in 1..Len(s) /\ 2 * i \in 1..Len(s)
      BY <1>1, <2>1, SMT
    <3>2. r[2 * i - 1] = s[2 * i - 1] /\ r[2 * i] = s[2 * i]
      BY <1>3, <3>1, Zenon
    <3>3. 16 * HexOf(s[2 * i - 1]) + HexOf(s[2 * i]) = a[i]
      BY <3>1, Zenon DEF Spelled
    <3>4. c[i] = a[i]
      BY <3>1, Zenon
    <3>5. QED
      BY <3>2, <3>3, <3>4, Zenon
  <2>2. CASE ~(i <= n)
    <3>1. PICK j \in 1..m : i = n + j
      <4>1. i - n \in 1..m /\ i = n + (i - n)
        BY <2>2, SMT
      <4>2. QED
        BY <4>1, Zenon
    <3>2. PICK p \in 1..Len(t) : p = 2 * j - 1 /\ 2 * i - 1 = Len(s) + p
      BY <1>1, <3>1, SMT
    <3>3. PICK q \in 1..Len(t) : q = 2 * j /\ 2 * i = Len(s) + q
      BY <1>1, <3>1, SMT
    <3>4. r[2 * i - 1] = t[2 * j - 1] /\ r[2 * i] = t[2 * j]
      BY <1>3, <3>2, <3>3, Zenon
    <3>5. 16 * HexOf(t[2 * j - 1]) + HexOf(t[2 * j]) = b[j]
      BY <3>1, Zenon DEF Spelled
    <3>6. c[i] = b[j]
      BY <3>1, Zenon
    <3>7. QED
      BY <3>4, <3>5, <3>6, Zenon
  <2>3. QED
    BY <2>1, <2>2, Zenon
<1>6. Spelled(r, c, n + m)
  BY <1>3, <1>4, <1>5, Zenon DEF Spelled
<1>7. QED
  BY <1>2, <1>6, Zenon

\* The text of one byte
LEMMA ByteSpelled ==
  ASSUME NEW c \in 0..255, NEW b, b[1] = c PROVE Spelled(HexToStr(c), b, 1)
<1>1. PICK h : h = HexToStr(c)
  OBVIOUS
<1>2. h \in Seq(Int) /\ Len(h) = 2
  BY <1>1, HexTyped, Zenon
<1>3. h[1] = HexCode(c \div 16) /\ h[2] = HexCode(c % 16)
  BY <1>1 DEF HexToStr
<1>4. 16 * HexOf(h[1]) + HexOf(h[2]) = c
  BY <1>3, HexBack, Zenon
<1>5. Spelled(h, b, 1)
  BY <1>2, <1>4, SMT DEF Spelled
<1>6. QED
  BY <1>1, <1>5, Zenon

\* The text of bytes has two digits of each.
LEMMA BytesSpelled ==
  ASSUME NEW L \in Nat, NEW b, DOMAIN b = 1..L, \A i \in 1..L : b[i] \in 0..255
  PROVE  Spelled(UCharArrToStr(b), b, L)
<1>1. PICK s : s = [i \in 1..L |-> HexToStr(b[i])]
  OBVIOUS
<1>2. \A i \in 1..L : s[i] = HexToStr(b[i]) /\ s[i] \in Seq(Int)
  BY <1>1, HexTyped
<1>3. s \in Seq(Seq(Int)) /\ Len(s) = L
  <2>1. PICK Z : Z = Seq(Int)
    OBVIOUS
  <2>2. s = [k \in 1..L |-> s[k]] /\ \A k \in 1..L : s[k] \in Z
    BY <1>1, <1>2, <2>1
  <2>3. s \in Seq(Z) /\ Len(s) = L
    BY <2>2, Family, ZenonT(60)
  <2>4. QED
    BY <2>1, <2>3, Zenon
<1> DEFINE G(n) == FlattenSeq(SubSeq(s, 1, n))
           Reached(n) == Spelled(G(n), b, n)
           T == {n \in Nat : n <= L => Reached(n)}
<1>4. Reached(0)
  <2>1. SubSeq(s, 1, 0) = <<>>
    BY <1>3
  <2>2. G(0) = <<>>
    BY <2>1, FlattenEmpty, Zenon
  <2>3. Spelled(<<>>, b, 0)
    BY DEF Spelled
  <2>4. QED
    BY <2>2, <2>3, Zenon
<1>5. ASSUME NEW n \in Nat, n \in T PROVE n + 1 \in T
  <2>1. CASE n + 1 <= L
    <3>1. PICK m \in 1..L : m = n + 1 /\ n = m - 1
      BY <2>1
    <3>2. Reached(n)
      <4>1. n <= L
        BY <2>1
      <4>2. QED
        BY <1>5, <4>1, Zenon
    <3>3. G(m) = G(n) \o s[m]
      BY <1>3, <3>1, FlattenNext, ZenonT(60)
    <3>4. Spelled(G(n) \o HexToStr(b[n + 1]), b, n + 1)
      <4>1. b[m] \in 0..255 /\ n + 1 = m
        BY <3>1
      <4>2. PICK d : d = [i \in {1} |-> b[m]]
        OBVIOUS
      <4>3. d[1] = b[m]
        BY <4>2
      <4>4. Spelled(HexToStr(b[m]), d, 1)
        BY <4>1, <4>3, ByteSpelled, Zenon
      <4>5. \A i \in 1..n : b[i] = b[i]
        OBVIOUS
      <4>6. \A i \in 1..1 : b[n + i] = d[i]
        BY <4>1, <4>3
      <4>7. 1 \in Nat
        OBVIOUS
      <4>8. Spelled(G(n) \o HexToStr(b[m]), b, n + 1)
        BY <3>2, <4>4, <4>5, <4>6, <4>7, SpelledJoin, Zenon
      <4>9. QED
        BY <4>1, <4>8, Zenon
    <3>5. Reached(n + 1)
      BY <1>2, <3>1, <3>3, <3>4, ZenonT(60)
    <3> HIDE DEF Reached
    <3>6. QED
      BY <3>5
  <2>2. CASE ~(n + 1 <= L)
    BY <2>2
  <2>3. QED
    BY <2>1, <2>2
<1>6. Nat \subseteq T
  <2>1. 0 \in T
    <3> HIDE DEF Reached
    <3> QED BY <1>4
  <2>2. QED
    <3> HIDE DEF T
    <3> QED BY <1>5, <2>1, Induction
<1>7. Reached(L)
  <2> HIDE DEF Reached
  <2> QED BY <1>6
<1>8. SubSeq(s, 1, L) = s
  BY <1>3
<1>9. UCharArrToStr(b) = FlattenSeq(s)
  BY <1>1, Zenon DEF UCharArrToStr
<1>10. QED
  BY <1>7, <1>8, <1>9, Zenon

\* And is read as those bytes.
LEMMA SpelledRead ==
  ASSUME NEW text, NEW b, NEW n \in Nat, Spelled(text, b, n)
  PROVE  StrToUCharArr(text) = [i \in 1..n |-> b[i]]
<1>1. Len(text) % 2 # 1 /\ Len(text) \div 2 = n
  BY DEF Spelled
<1>2. StrToUCharArr(text) = [i \in 1..n |-> 16 * HexOf(text[2 * i - 1]) + HexOf(text[2 * i])]
  BY <1>1, Zenon DEF StrToUCharArr
<1>3. \A i \in 1..n : 16 * HexOf(text[2 * i - 1]) + HexOf(text[2 * i]) = b[i]
  BY Zenon DEF Spelled
<1>4. QED
  BY <1>2, <1>3, Zenon

\* The views have different numbers.
LEMMA ViewNumber ==
  /\ DoorViews \subseteq Views
  /\ \A v \in Views : HMI_MGS_WARNING_ID[v] \in 0..255
  /\ \A v, w \in Views : HMI_MGS_WARNING_ID[v] = HMI_MGS_WARNING_ID[w] => v = w
<1>1. PICK f : f = HMI_MGS_WARNING_ID
  OBVIOUS
<1>2. DOMAIN f = {"speedlimit", "doorwarn", "tiresystemfault", "oillow", "pepsnotfindb",
                  "pepsbatterylow", "pepsswitchtoPStart", "doorinfo", "parking", "WrongGear_P"}
  BY <1>1 DEF HMI_MGS_WARNING_ID
<1>3. /\ f["speedlimit"] = 1 /\ f["doorwarn"] = 2 /\ f["tiresystemfault"] = 11 /\ f["oillow"] = 19
      /\ f["pepsnotfindb"] = 29 /\ f["pepsbatterylow"] = 33 /\ f["pepsswitchtoPStart"] = 36
      /\ f["doorinfo"] = 38 /\ f["parking"] = 80 /\ f["WrongGear_P"] = 82
  BY <1>1 DEF HMI_MGS_WARNING_ID
<1>4. \A v \in DOMAIN f : f[v] \in 0..255
  BY <1>2, <1>3
<1>5. \A v, w \in DOMAIN f : f[v] = f[w] => v = w
  BY <1>2, <1>3
<1>6. DoorViews \subseteq DOMAIN f
  BY <1>2 DEF DoorViews
<1>7. QED
  BY <1>1, <1>4, <1>5, <1>6, ZenonT(60) DEF Views

\* There are six flags.
LEMMA FlagsTyped ==
  ASSUME NEW on PROVE DOMAIN Flags(on) = 1..6 /\ Len(Flags(on)) = 6 /\ \A i \in 1..6 : Flags(on)[i] \in {0, 1}
  BY DEF Flags

\* The bytes after the length field
LEMMA DataTyped ==
  ASSUME NEW node
  PROVE  /\ DOMAIN DataOf(node) = 1..SizeOf(node) /\ Len(DataOf(node)) = SizeOf(node)
         /\ SizeOf(node) \in {1, 6} /\ \A i \in 1..SizeOf(node) : DataOf(node)[i] \in {0, 1}
<1>1. CASE node.view \in DoorViews
  <2>1. DataOf(node) = Flags(node.doors) /\ SizeOf(node) = 6
    BY <1>1, Zenon DEF DataOf, SizeOf
  <2>2. QED
    BY <2>1, FlagsTyped
<1>2. CASE node.view \notin DoorViews
  <2>1. PICK x : x = IF node.on THEN 1 ELSE 0
    OBVIOUS
  <2>2. x \in {0, 1}
    BY <2>1
  <2>3. DataOf(node) = <<x>> /\ SizeOf(node) = 1
    BY <1>2, <2>1, Zenon DEF DataOf, SizeOf
  <2>4. DOMAIN <<x>> = 1..1 /\ Len(<<x>>) = 1 /\ <<x>>[1] = x
    OBVIOUS
  <2>5. QED
    BY <2>2, <2>3, <2>4
<1>3. QED
  BY <1>1, <1>2, Zenon

\* Every view of the list has such a page.
LEMMA PageRead ==
  ASSUME NEW node, node.view \in Views
  PROVE  PageBytes(StrToUCharArr(GetWarnPageDataToHMI(node)), node)
<1>1. PICK id : id = HMI_MGS_WARNING_ID[node.view] /\ id \in 0..255
  BY ViewNumber, Zenon
<1>2. PICK L : L = SizeOf(node) /\ L \in {1, 6}
  BY DataTyped, Zenon
<1>3. PICK d : /\ d = DataOf(node) /\ DOMAIN d = 1..L /\ Len(d) = L
               /\ \A i \in 1..L : d[i] \in 0..255
  <2>1. \A x \in {0, 1} : x \in 0..255
    OBVIOUS
  <2>2. PICK d : d = DataOf(node)
    OBVIOUS
  <2>3. DOMAIN DataOf(node) = 1..SizeOf(node) /\ Len(DataOf(node)) = SizeOf(node)
    BY DataTyped, Zenon
  <2>4. \A i \in 1..SizeOf(node) : DataOf(node)[i] \in {0, 1}
    BY DataTyped, Zenon
  <2>5. DOMAIN d = 1..L /\ Len(d) = L
    BY <1>2, <2>2, <2>3, Zenon
  <2>6. \A i \in 1..L : d[i] \in 0..255
    BY <1>2, <2>1, <2>2, <2>4, Zenon
  <2>7. QED
    BY <2>2, <2>5, <2>6, ZenonT(60)
<1>4. PICK page : page = GetWarnPageDataToHMI(node)
  OBVIOUS
<1>5. page = HexToStr(4) \o HexToStr(id) \o HexToStr(L) \o UCharArrToStr(d)
  BY <1>1, <1>3, <1>4, ZenonT(60) DEF GetWarnPageDataToHMI, Views, DataOf, HMI_MSG_TYPE_WARNING
<1>6. PICK c : c = [i \in 1..(3 + L) |-> IF i = 1 THEN 4 ELSE IF i = 2 THEN id ELSE IF i = 3 THEN L ELSE d[i - 3]]
  OBVIOUS
<1>7. c[1] = 4 /\ c[2] = id /\ c[3] = L /\ \A i \in 1..L : c[3 + i] = d[i]
  BY <1>2, <1>6
<1>8. Spelled(HexToStr(4), c, 1)
  <2>1. 4 \in 0..255
    OBVIOUS
  <2>2. QED
    BY <1>7, <2>1, ByteSpelled
<1>9. PICK e : e = [i \in {1} |-> id]
  OBVIOUS
<1>10. Spelled(HexToStr(id), e, 1)
  BY <1>1, <1>9, ByteSpelled
<1>11. PICK g : g = [i \in {1} |-> L]
  OBVIOUS
<1>12. Spelled(HexToStr(L), g, 1)
  BY <1>2, <1>11, ByteSpelled
<1>13. Spelled(UCharArrToStr(d), d, L)
  <2>1. L \in Nat
    BY <1>2
  <2>2. QED
    BY <1>3, <2>1, BytesSpelled
<1>14. Spelled(HexToStr(4) \o HexToStr(id), c, 2)
  <2>1. Spelled(HexToStr(4) \o HexToStr(id), c, 1 + 1)
    BY <1>7, <1>8, <1>9, <1>10, SpelledJoin
  <2>2. QED
    BY <2>1
<1>15. Spelled(HexToStr(4) \o HexToStr(id) \o HexToStr(L), c, 3)
  <2>1. Spelled(HexToStr(4) \o HexToStr(id) \o HexToStr(L), c, 2 + 1)
    BY <1>7, <1>11, <1>12, <1>14, SpelledJoin
  <2>2. QED
    BY <2>1
<1>16. Spelled(page, c, 3 + L)
  <2>1. L \in Nat
    BY <1>2
  <2>2. Spelled(HexToStr(4) \o HexToStr(id) \o HexToStr(L) \o UCharArrToStr(d), c, 3 + L)
    BY <1>7, <1>13, <1>15, <2>1, SpelledJoin
  <2>3. QED
    BY <1>5, <2>2, Zenon
<1>17. PICK q : q = StrToUCharArr(page)
  OBVIOUS
<1>18. q = [i \in 1..(3 + L) |-> c[i]]
  <2>1. 3 + L \in Nat
    BY <1>2
  <2>2. QED
    BY <1>16, <1>17, <2>1, SpelledRead, ZenonT(60)
<1>19. /\ DOMAIN q = 1..(3 + L) /\ Len(q) = 3 + L /\ q[2] = id /\ q[3] = L
       /\ \A i \in 1..L : q[3 + i] = d[i]
  BY <1>2, <1>7, <1>18
<1>20. PageBytes(q, node)
  BY <1>1, <1>2, <1>3, <1>19, ZenonT(60) DEF PageBytes
<1>21. QED
  BY <1>4, <1>17, <1>20, Zenon

\* The flags tell the doors.
LEMMA FlagsTell ==
  ASSUME NEW a \in SUBSET Doors, NEW b \in SUBSET Doors, \A i \in 1..6 : Flags(a)[i] = Flags(b)[i]
  PROVE  a = b
<1>1. \A on : \A i \in 1..6 : Flags(on)[i] = IF \E d \in on : DoorByte[d] = i THEN 1 ELSE 0
  BY DEF Flags
<1>2. \A d, e \in Doors : DoorByte[d] \in 1..6 /\ (DoorByte[d] = DoorByte[e] => d = e)
  BY DEF Doors, DoorByte
<1>3. \A on \in SUBSET Doors : \A d \in Doors : Flags(on)[DoorByte[d]] = 1 <=> d \in on
  BY <1>1, <1>2
<1>4. \A d \in Doors : Flags(a)[DoorByte[d]] = Flags(b)[DoorByte[d]]
  BY <1>2, Zenon
<1>5. \A d \in Doors : d \in a <=> d \in b
  BY <1>3, <1>4, Zenon
<1>6. QED
  BY <1>5

\* So do those by which two door warnings are compared, which have their own places.
LEMMA PlacesTell ==
  ASSUME NEW n, NEW m, n.doors \in SUBSET Doors, m.doors \in SUBSET Doors,
         GetDoorInfoFlagStr(n) = GetDoorInfoFlagStr(m)
  PROVE  n.doors = m.doors
<1>1. PICK a, b \in SUBSET Doors : a = n.doors /\ b = m.doors
  OBVIOUS
<1>2. PICK F : F = [on \in SUBSET Doors |->
                      [i \in 1..6 |-> IF \E d \in on : DoorPlace[d] + 1 = i THEN 49 ELSE 48]]
  OBVIOUS
<1>3. F[a] = F[b]
  BY <1>1, <1>2 DEF GetDoorInfoFlagStr
<1>4. \A d, e \in Doors : DoorPlace[d] + 1 \in 1..6 /\ (DoorPlace[d] + 1 = DoorPlace[e] + 1 => d = e)
  BY DEF Doors, DoorPlace
<1>5. ASSUME NEW on \in SUBSET Doors, NEW d \in Doors
      PROVE  F[on][DoorPlace[d] + 1] = 49 <=> d \in on
  <2>1. F[on] = [i \in 1..6 |-> IF \E e \in on : DoorPlace[e] + 1 = i THEN 49 ELSE 48]
    BY <1>2, Zenon
  <2>2. DoorPlace[d] + 1 \in 1..6 /\ \A e \in on : DoorPlace[e] + 1 = DoorPlace[d] + 1 => e = d
    BY <1>4, <1>5
  <2>3. F[on][DoorPlace[d] + 1] = IF \E e \in on : DoorPlace[e] + 1 = DoorPlace[d] + 1 THEN 49 ELSE 48
    BY <2>1, <2>2, Zenon
  <2>4. QED
    BY <2>2, <2>3
<1>6. ASSUME NEW d \in Doors PROVE d \in a <=> d \in b
  <2>1. F[a][DoorPlace[d] + 1] = 49 <=> d \in a
    BY <1>5, Zenon
  <2>2. F[b][DoorPlace[d] + 1] = 49 <=> d \in b
    BY <1>5, Zenon
  <2>3. QED
    BY <1>3, <2>1, <2>2, Zenon
<1>7. a = b
  BY <1>6
<1>8. QED
  BY <1>1, <1>7

\* Every node has such parts.
LEMMA NodeParts == ASSUME NEW n \in Nodes PROVE NodeOK(n)
<1>1. PICK V, D : V = Views /\ D = DoorViews
  OBVIOUS
<1>2. D \subseteq V
  BY <1>1, ViewNumber, Zenon
<1> DEFINE Plain == [view : V \ D, on : BOOLEAN, doors : {{}}]
           Doored == [view : D, on : BOOLEAN, doors : SUBSET Doors]
<1>3. Nodes = Plain \cup {m \in Doored : m.on <=> m.doors # {}}
  BY <1>1, Zenon DEF Nodes
<1>4. ASSUME n \in Plain PROVE n.view \in V /\ n.view \notin D /\ n.doors = {}
  BY <1>4
<1>5. ASSUME n \in Doored PROVE n.view \in D /\ n.doors \in SUBSET Doors
  BY <1>5
<1> HIDE DEF Plain, Doored
<1>6. CASE n \in Plain
  <2>1. {} \in SUBSET Doors
    OBVIOUS
  <2>2. n.view \in V /\ n.view \notin D /\ n.doors = {}
    BY <1>4, <1>6
  <2>3. QED
    BY <1>1, <2>1, <2>2, Zenon DEF NodeOK
<1>7. CASE n \in Doored /\ (n.on <=> n.doors # {})
  <2>1. n.view \in D /\ n.view \in V /\ n.doors \in SUBSET Doors
    BY <1>2, <1>5, <1>7
  <2>2. QED
    BY <1>1, <1>7, <2>1, Zenon DEF NodeOK
<1>8. QED
  BY <1>3, <1>6, <1>7, Zenon

\* A node is its parts.
LEMMA SameNode ==
  ASSUME NEW n \in Nodes, NEW m \in Nodes, n.view = m.view, n.doors = m.doors, n.on <=> m.on
  PROVE  n = m
<1>1. PICK V, D, S : V = Views \ DoorViews /\ D = DoorViews /\ S = SUBSET Doors
  OBVIOUS
<1>2. PICK U : U = V \cup D
  OBVIOUS
<1>3. \A k \in Nodes : k \in [view : V, on : BOOLEAN, doors : {{}}] \/ k \in [view : D, on : BOOLEAN, doors : S]
  BY <1>1, Zenon DEF Nodes
<1>4. ASSUME NEW k \in Nodes
      PROVE  k.on \in BOOLEAN /\ k = [view |-> k.view, on |-> k.on, doors |-> k.doors]
  <2>1. CASE k \in [view : V, on : BOOLEAN, doors : {{}}]
    BY <2>1
  <2>2. CASE k \in [view : D, on : BOOLEAN, doors : S]
    BY <2>2
  <2>3. QED
    BY <1>3, <2>1, <2>2, Zenon
<1>5. n.on = m.on
  <2>1. n.on \in BOOLEAN /\ m.on \in BOOLEAN
    BY <1>4, Zenon
  <2>2. QED
    BY <2>1, Zenon
<1>6. QED
  BY <1>4, <1>5, Zenon

\* No two nodes have the same page.
LEMMA PagesDiffer ==
  ASSUME NEW n \in Nodes, NEW m \in Nodes, GetWarnPageDataToHMI(n) = GetWarnPageDataToHMI(m)
  PROVE  n = m
<1>1. NodeOK(n) /\ NodeOK(m)
  BY NodeParts, Zenon
<1>2. PICK q : q = StrToUCharArr(GetWarnPageDataToHMI(n))
  OBVIOUS
<1>3. PageBytes(q, n) /\ PageBytes(q, m)
  BY <1>1, <1>2, PageRead, Zenon DEF NodeOK
<1>4. n.view = m.view
  <2>1. HMI_MGS_WARNING_ID[n.view] = HMI_MGS_WARNING_ID[m.view]
    BY <1>3, Zenon DEF PageBytes
  <2>2. QED
    BY <1>1, <2>1, ViewNumber, Zenon DEF NodeOK
<1>5. SizeOf(n) = SizeOf(m)
  BY <1>4, Zenon DEF SizeOf
<1>6. \A i \in 1..SizeOf(n) : DataOf(n)[i] = DataOf(m)[i]
  BY <1>3, <1>5, Zenon DEF PageBytes
<1>7. CASE n.view \in DoorViews
  <2>1. SizeOf(n) = 6 /\ DataOf(n) = Flags(n.doors) /\ DataOf(m) = Flags(m.doors)
    BY <1>4, <1>7, Zenon DEF SizeOf, DataOf
  <2>2. \A i \in 1..6 : Flags(n.doors)[i] = Flags(m.doors)[i]
    BY <1>6, <2>1, Zenon
  <2>3. n.doors = m.doors
    BY <1>1, <2>2, FlagsTell, Zenon DEF NodeOK
  <2>4. n.on <=> m.on
    BY <1>1, <1>4, <1>7, <2>3, Zenon DEF NodeOK
  <2>5. QED
    BY <1>4, <2>3, <2>4, SameNode, Zenon
<1>8. CASE n.view \notin DoorViews
  <2>1. PICK x, y : x = (IF n.on THEN 1 ELSE 0) /\ y = (IF m.on THEN 1 ELSE 0)
    OBVIOUS
  <2>2. SizeOf(n) = 1 /\ DataOf(n) = <<x>> /\ DataOf(m) = <<y>>
    BY <1>4, <1>8, <2>1, Zenon DEF SizeOf, DataOf
  <2>3. <<x>>[1] = <<y>>[1]
    <3>1. 1 \in 1..1
      OBVIOUS
    <3>2. QED
      BY <1>6, <2>2, <3>1, Zenon
  <2>4. x = y
    BY <2>3
  <2>5. 0 # 1
    OBVIOUS
  <2>6. n.on <=> m.on
    BY <2>1, <2>4, <2>5, Zenon
  <2>7. n.doors = m.doors
    BY <1>1, <1>4, <1>8, Zenon DEF NodeOK
  <2>8. QED
    BY <1>4, <2>6, <2>7, SameNode, Zenon
<1>9. QED
  BY <1>7, <1>8, Zenon

\* Nor two nodes of a door view the same flags.
LEMMA FlagsDiffer ==
  ASSUME NEW n \in Nodes, NEW m \in Nodes, n.view = m.view, n.view \in DoorViews,
         GetDoorInfoFlagStr(n) = GetDoorInfoFlagStr(m)
  PROVE  n = m
<1>1. NodeOK(n) /\ NodeOK(m)
  BY NodeParts, Zenon
<1>2. n.doors = m.doors
  <2>1. n.doors \in SUBSET Doors /\ m.doors \in SUBSET Doors
    BY <1>1, Zenon DEF NodeOK
  <2>2. QED
    BY <2>1, PlacesTell, Zenon
<1>3. n.on <=> m.on
  BY <1>1, <1>2, Zenon DEF NodeOK
<1>4. QED
  BY <1>2, <1>3, SameNode, Zenon

\* The display can tell the page of every warning from that of every other, by
\* what the length field says, and Notify compares two door warnings by flags
\* that differ with their pages.
THEOREM PagesCorrect ==
  ASSUME kind = "node" => input \in Nodes PROVE PageTells
<1> DEFINE page == GetWarnPageDataToHMI(input)
           bytes == StrToUCharArr(page)
<1>1. SUFFICES ASSUME kind = "node"
               PROVE  /\ Len(bytes) > 3 /\ bytes[3] = Len(bytes) - 3
                      /\ \A n \in Nodes :
                           /\ GetWarnPageDataToHMI(n) = page => n = input
                           /\ n.view = input.view /\ n.view \in DoorViews =>
                                (GetDoorInfoFlagStr(n) = GetDoorInfoFlagStr(input) <=> n = input)
  BY Zenon DEF PageTells
<1>2. input \in Nodes
  BY <1>1, Zenon
<1>3. PageBytes(bytes, input)
  BY <1>2, NodeParts, PageRead, Zenon DEF NodeOK
<1>4. Len(bytes) > 3 /\ bytes[3] = Len(bytes) - 3
  <2>1. SizeOf(input) \in {1, 6}
    BY DataTyped, Zenon
  <2>2. Len(bytes) = 3 + SizeOf(input) /\ bytes[3] = SizeOf(input)
    BY <1>3, Zenon DEF PageBytes
  <2> HIDE DEF bytes
  <2>3. QED
    BY <2>1, <2>2
<1>5. ASSUME NEW n \in Nodes, GetWarnPageDataToHMI(n) = page PROVE n = input
  BY <1>2, <1>5, PagesDiffer, Zenon
<1>6. ASSUME NEW n \in Nodes, n.view = input.view, n.view \in DoorViews,
             GetDoorInfoFlagStr(n) = GetDoorInfoFlagStr(input)
      PROVE  n = input
  BY <1>2, <1>6, FlagsDiffer, Zenon
<1>7. QED
  BY <1>4, <1>5, <1>6, Zenon

-----------------------------------------------------------------------------
(* The machine that makes the inputs *)

\* Three members of a set
LEMMA AllOfThree ==
  ASSUME NEW S, NEW a \in S, NEW b \in S, NEW c \in S PROVE \A t \in {a, b, c} : t \in S
  OBVIOUS

\* Eight members of a set
LEMMA AllOfEight ==
  ASSUME NEW S, NEW a \in S, NEW b \in S, NEW c \in S, NEW d \in S,
         NEW e \in S, NEW f \in S, NEW g \in S, NEW h \in S
  PROVE  \A t \in {a, b, c, d, e, f, g, h} : t \in S
  OBVIOUS

\* Three fields
LEMMA Triple ==
  ASSUME NEW S, NEW a \in S, NEW b \in S, NEW c \in S PROVE <<a, b, c>> \in [1..3 -> S]
<1>1. <<a, b, c>> \in Seq(S) /\ Len(<<a, b, c>>) = 3
  OBVIOUS
<1>2. <<a, b, c>> \in [1..Len(<<a, b, c>>) -> S]
  BY <1>1, LenProperties, Zenon
<1>3. QED
  BY <1>1, <1>2, Zenon

\* A token is made of bytes.
LEMMA TokensTyped == \A t \in Openings \cup Tokens : t \in Seq(Octet)
<1>1. \A x \in {10, 34, 44, 48, 49, 51, 52, 53, 56, 57, 58, 91, 92, 93, 97, 100, 101, 108, 110, 117, 123, 125} : x \in Octet
  BY DEF Octet
<1> HIDE DEF Octet
<1>2. \A b \in Octet : <<b>> \in Seq(Octet)
  BY SMT
<1> DEFINE w1 == <<34, 97, 34>>
           w2 == <<34, 97, 34, 58>>
           w3 == <<34, 97, 34, 58, 110, 117, 108, 108>>
           w4 == <<110, 117, 108, 108>>
           w5 == <<92, 117, 48, 48, 52, 49>>
           w6 == <<92, 117, 48, 48, 101, 57>>
           w7 == <<92, 117, 100, 56, 51, 100>>
           w8 == <<92, 117, 100, 101, 48, 48>>
<1>3. w1 \in Seq(Octet) /\ w2 \in Seq(Octet) /\ w3 \in Seq(Octet) /\ w4 \in Seq(Octet)
  BY <1>1, SMT
<1>4. w5 \in Seq(Octet) /\ w6 \in Seq(Octet) /\ w7 \in Seq(Octet) /\ w8 \in Seq(Octet)
  BY <1>1, SMT
<1> DEFINE Long == {w1, w2, w3, w4, w5, w6, w7, w8}
           Marks == {123, 125, 91, 93, 58, 44, 34, 92, 97, 10}
<1>5. Tokens = {<<b>> : b \in Marks} \cup Long
  BY Zenon DEF Tokens
<1>6. \A t \in Openings : t \in Seq(Octet)
  <2>1. <<123>> \in Seq(Octet) /\ <<91>> \in Seq(Octet) /\ <<34>> \in Seq(Octet)
    BY <1>1, SMT
  <2>2. QED
    BY <2>1, AllOfThree, ZenonT(60) DEF Openings
<1>7. \A t \in Tokens : t \in Seq(Octet)
  <2> HIDE DEF w1, w2, w3, w4, w5, w6, w7, w8
  <2>1. \A t \in Long : t \in Seq(Octet)
    BY <1>3, <1>4, AllOfEight, Zenon
  <2>2. \A b \in Marks : b \in Octet
    BY <1>1, SMT
  <2> HIDE DEF Marks, Long
  <2>3. QED
    BY <1>2, <1>5, <2>1, <2>2, Zenon
<1>8. QED
  BY <1>6, <1>7, Zenon

\* Every step of the machine makes such an input.
LEMMA InputStays ==
  ASSUME InputOK, [Next]_vars PROVE InputOK'
<1>1. CASE UNCHANGED vars
  BY <1>1 DEF vars, InputOK
<1>2. CASE Next
  <2>1. kind' = kind
    BY <1>2 DEF Next
  <2>2. CASE TypeByte
    <3>1. kind = "message" /\ input \in [1..3 -> Seq(Byte)]
      BY <2>2 DEF TypeByte, InputOK
    <3>2. PICK i \in 1..3, b \in FieldBytes : input' = [input EXCEPT ![i] = Append(@, b)]
      BY <2>2 DEF TypeByte
    <3>3. b \in Byte
      BY DEF FieldBytes, Byte
    <3>4. input' \in [1..3 -> Seq(Byte)]
      <4> HIDE DEF Byte
      <4> QED BY <3>1, <3>2, <3>3
    <3> QED BY <2>1, <3>1, <3>4 DEF InputOK
  <2>3. CASE AddToken
    <3>1. kind = "text" /\ input \in Seq(Seq(Octet))
      BY <2>3 DEF AddToken, InputOK
    <3>2. PICK t \in Openings \cup Tokens : input' = Append(input, t)
      BY <2>3 DEF AddToken
    <3>3. t \in Seq(Octet)
      BY TokensTyped
    <3>4. input' \in Seq(Seq(Octet))
      <4> HIDE DEF Octet
      <4> QED BY <3>1, <3>2, <3>3
    <3> QED BY <2>1, <3>1, <3>4 DEF InputOK
  <2>4. CASE NextWord
    <3>1. kind = "float" /\ input \in Words
      BY <2>4 DEF NextWord, InputOK
    <3>2. CASE ~Greatest(input) /\ input' = Following(input)
      BY <2>1, <3>1, <3>2, WordParts DEF InputOK
    <3>3. CASE input' = [input EXCEPT !.negative = ~@]
      <4>1. [input EXCEPT !.negative = ~@] \in Words
        BY <3>1 DEF Words
      <4> QED BY <2>1, <3>1, <3>3, <4>1 DEF InputOK
    <3> QED BY <2>4, <3>2, <3>3 DEF NextWord
  <2>5. CASE TypeDigit
    <3>1. kind = "gauge" /\ input \in Nat /\ input < 10000000
      BY <2>5, SMT DEF TypeDigit, InputOK, Below
    <3>2. PICK d \in {0, 5, 9} : input' = 10 * input + d
      BY <2>5, SMT DEF TypeDigit
    <3>3. Below(input')
      BY <3>1, <3>2, SMT DEF Below
    <3> QED BY <2>1, <3>1, <3>3 DEF InputOK
  <2>6. CASE ChangeNode
    <3>1. kind = "node" /\ input' \in Nodes
      BY <2>6, Zenon DEF ChangeNode
    <3> QED BY <2>1, <3>1 DEF InputOK
  <2>7. CASE AddPart
    <3>1. kind = "file"
      BY <2>7, Zenon DEF AddPart
    <3>2. input' \in FilesOf(ViewParts)
      BY <2>7, <3>1, FileGrows, Zenon DEF InputOK
    <3> QED BY <2>1, <3>1, <3>2 DEF InputOK
  <2>8. QED
    BY <1>2, <2>2, <2>3, <2>4, <2>5, <2>6, <2>7 DEF Next
<1>3. QED
  BY <1>1, <1>2

\* Whatever message, text, word, gauge, node or file the inputs grow to, it
\* is converted as it was meant: the bounds of the run do not matter, as the
\* theorems hold of every input of its type.
THEOREM ConversionsCorrect ==
  Spec => [](TextsKept /\ BuffersKept /\ FloatClose /\ LengthTold /\ PageTells /\ FilesRead)
<1>1. Init => InputOK
  <2> SUFFICES ASSUME Init PROVE InputOK
    OBVIOUS
  <2>1. input = First(kind)
    BY DEF Init
  <2>2. kind = "message" => input \in [1..3 -> Seq(Byte)]
    <3> HIDE DEF Byte
    <3>1. <<>> \in Seq(Byte)
      OBVIOUS
    <3>2. PICK none : none = <<>> /\ none \in Seq(Byte)
      BY <3>1, Zenon
    <3>3. PICK S : S = Seq(Byte)
      OBVIOUS
    <3>4. <<none, none, none>> \in [1..3 -> S]
      BY <3>2, <3>3, Triple, Zenon
    <3>5. <<<<>>, <<>>, <<>>>> \in [1..3 -> Seq(Byte)]
      BY <3>2, <3>3, <3>4, Zenon
    <3> QED BY <2>1, <3>5 DEF First
  <2>3. kind = "text" => input \in Seq(Seq(Octet))
    BY <2>1 DEF First
  <2>4. [negative |-> FALSE, power |-> 0, fraction |-> 0] \in Words
    <3>1. 0 \in 0..(2 * Bias + 1) /\ 0 \in 0..(One - 1)
      BY FloatParts
    <3> QED BY <3>1 DEF Words
  <2>5. kind = "float" => input \in Words
    BY <2>1, <2>4 DEF First
  <2>6. kind = "gauge" => Below(input)
    <3>1. Below(0)
      BY SMT DEF Below
    <3> QED BY <2>1, <3>1 DEF First
  <2>7. kind = "file" => input \in FilesOf(ViewParts)
    <3>1. <<>> \in FilesOf(ViewParts)
      BY DEF FilesOf
    <3> QED BY <2>1, <3>1 DEF First
  <2>8. kind = "node" => input \in Nodes
    <3>0. "doorinfo" \in DoorViews
      BY DEF DoorViews
    <3>1. PICK D : D = DoorViews /\ "doorinfo" \in D
      BY <3>0, Zenon
    <3>2. {} \in SUBSET Doors
      OBVIOUS
    <3>3. PICK n : n = [view |-> "doorinfo", on |-> FALSE, doors |-> {}]
      OBVIOUS
    <3>4. n \in {m \in [view : D, on : BOOLEAN, doors : SUBSET Doors] : m.on <=> m.doors # {}}
      BY <3>1, <3>2, <3>3
    <3>5. n \in Nodes
      BY <3>1, <3>4, Zenon DEF Nodes
    <3>6. kind = "node" => input = n
      BY <2>1, <3>3 DEF First
    <3> QED BY <3>5, <3>6, Zenon
  <2> QED BY <2>2, <2>3, <2>5, <2>6, <2>7, <2>8 DEF InputOK
<1>2. InputOK /\ [Next]_vars => InputOK'
  BY InputStays
<1>3. InputOK => TextsKept /\ BuffersKept /\ FloatClose /\ LengthTold /\ PageTells /\ FilesRead
  <2> SUFFICES ASSUME InputOK PROVE TextsKept /\ BuffersKept /\ FloatClose /\ LengthTold /\ PageTells /\ FilesRead
    OBVIOUS
  <2>1. TextsKept
    BY TextsCorrect, Zenon DEF InputOK
  <2>2. BuffersKept
    BY BuffersCorrect, Zenon DEF InputOK
  <2>3. FloatClose
    BY FloatCorrect, Zenon DEF InputOK
  <2>4. kind = "gauge" => input \in Nat /\ input \div 10 ^ 4 < 10 ^ 4
    <3>1. 10 ^ 4 = 10000
      BY SMT
    <3> QED BY <3>1, SMT DEF InputOK, Below
  <2>5. LengthTold
    BY <2>4, LengthCorrect, Zenon
  <2>6. FilesRead
    <3>1. kind = "file" => input \in Seq([attrs : Seq(ViewParts), kids : Seq(Seq(ViewParts))])
      BY Zenon DEF InputOK, FilesOf
    <3> QED BY <3>1, PartsKnown, FilesCorrect, Zenon
  <2>7. PageTells
    BY PagesCorrect, Zenon DEF InputOK
  <2> QED BY <2>1, <2>2, <2>3, <2>5, <2>6, <2>7
<1>4. QED
  BY <1>1, <1>2, <1>3, PTL DEF Spec

=============================================================================
