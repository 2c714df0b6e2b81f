-------------------------- MODULE CanonicityProofs --------------------------
(***************************************************************************)
(* A value has one canonical artifact: two artifacts that hold the same    *)
(* value are the same bytes.                                               *)
(***************************************************************************)
EXTENDS ArtifactProofs

(***************************************************************************)
(* Arguments: the shortest head that announces a number is determined by   *)
(* the number.                                                             *)
(***************************************************************************)
\* The radix, and the bytes of an artifact.
LEMMA RadixType == Radix \in Nat \ {0} /\ Radix > Imm /\ AiCodes \in Nat \ {0}
BY ImmAssumption DEF Radix, AiCodes

\* A byte of an artifact is a number below the radix.
LEMMA ByteType ==
  ASSUME NEW d \in Bytes, NEW i \in 1..Len(d)
  PROVE  d[i] \in Byte /\ d[i] \in Nat /\ d[i] < Radix
<1>1. d[i] \in Byte
  BY ElementOfSeq DEF Bytes
<1> QED
  BY <1>1, RadixType DEF Byte

\* A product grows with its factor.
LEMMA Monotone ==
  ASSUME NEW x \in Nat, NEW y \in Nat, NEW m \in Nat, x <= y
  PROVE  x * m <= y * m /\ x * m \in Nat /\ y * m \in Nat
OBVIOUS

\* Quotient and remainder determine the number.
LEMMA Division ==
  ASSUME NEW x \in Nat, NEW m \in Nat \ {0}
  PROVE  x = m * (x \div m) + (x % m) /\ x \div m \in Nat /\ x % m \in 0 .. m - 1
OBVIOUS

\* Major type and additional information determine the head byte.
LEMMA HeadJoin ==
  ASSUME NEW h \in Byte, NEW g \in Byte, Major(h) = Major(g), Ai(h) = Ai(g)
  PROVE  h = g
<1>1. h \in Nat /\ g \in Nat
  BY RadixType DEF Byte
<1>2. h = AiCodes * Major(h) + Ai(h) /\ g = AiCodes * Major(g) + Ai(g)
  BY <1>1, RadixType, Division DEF Major, Ai
<1> QED
  BY <1>2

\* One step of Horner's rule loses nothing.
LEMMA HornerInjective ==
  ASSUME NEW x \in Nat, NEW y \in Nat, NEW c \in 0 .. Radix - 1, NEW f \in 0 .. Radix - 1,
         x * Radix + c = y * Radix + f
  PROVE  x = y /\ c = f
<1> DEFINE m == Radix
<1>1. m \in Nat \ {0} /\ c \in 0 .. m - 1 /\ f \in 0 .. m - 1 /\ x * m + c = y * m + f
  BY RadixType
<1> HIDE DEF m
<1>2. /\ (x + 1) * m = x * m + m /\ (y + 1) * m = y * m + m
      /\ x * m \in Nat /\ y * m \in Nat
  BY <1>1
<1>3. CASE x < y
  <2>1. (x + 1) * m <= y * m
    BY <1>1, <1>3, Monotone
  <2> QED
    BY <1>1, <1>2, <2>1
<1>4. CASE y < x
  <2>1. (y + 1) * m <= x * m
    BY <1>1, <1>4, Monotone
  <2> QED
    BY <1>1, <1>2, <2>1
<1>5. CASE x = y
  <2>1. c = f
    BY <1>1, <1>2, <1>5
  <2> QED
    BY <1>5, <2>1
<1> QED
  BY <1>3, <1>4, <1>5

\* Nor does it leave the next power.
LEMMA HornerBound ==
  ASSUME NEW n \in 0 .. Widths[4] - 1, NEW x \in Nat, x < Radix ^ n, NEW c \in 0 .. Radix - 1
  PROVE  x * Radix + c < Radix ^ (n + 1)
<1> DEFINE m == Radix
<1> DEFINE P == Radix ^ n
<1>1. m \in Nat \ {0} /\ P \in Nat \ {0} /\ c \in 0 .. m - 1 /\ x < P
  <2>1. n \in 0..Widths[4]
    BY WidthsAssumption
  <2> QED
    BY <2>1, RadixType, PowerType
<1>2. Radix ^ (n + 1) = m * P
  BY PowerAssumption
<1> HIDE DEF m, P
<1>3. (x + 1) * m <= P * m
  BY <1>1, Monotone
<1>4. (x + 1) * m = x * m + m /\ P * m = m * P /\ x * m \in Nat /\ m * P \in Nat
  BY <1>1
<1>5. x * m + c < m * P
  BY <1>1, <1>3, <1>4
<1> QED
  BY <1>2, <1>5 DEF m

\* Powers of the radix grow with the exponent.
LEMMA PowersAscend ==
  ASSUME NEW a \in 0..Widths[4], NEW s \in 0..Widths[4], a <= s
  PROVE  Radix ^ a \in Nat /\ Radix ^ s \in Nat /\ Radix ^ a <= Radix ^ s
<1> DEFINE P(n) == n <= Widths[4] => \A k \in 0..n : Radix ^ k <= Radix ^ n
<1>1. Radix \in Nat \ {0} /\ Widths[4] \in 1..8
  BY RadixType, WidthsAssumption
<1>2. \A n \in 0..Widths[4] : Radix ^ n \in Nat
  BY PowerType
<1>3. P(0)
  BY <1>1, <1>2
<1>4. ASSUME NEW n \in Nat, P(n) PROVE P(n + 1)
  <2> SUFFICES ASSUME n + 1 <= Widths[4], NEW k \in 0..n + 1
               PROVE  Radix ^ k <= Radix ^ (n + 1)
    OBVIOUS
  <2>1. Radix ^ (n + 1) = Radix * Radix ^ n
    BY <1>1, PowerAssumption
  <2>2. \A m, y \in Nat : m # 0 => y <= m * y
    OBVIOUS
  <2>3. Radix ^ n \in Nat /\ Radix ^ (n + 1) \in Nat /\ Radix ^ k \in Nat
    BY <1>1, <1>2
  <2>4. Radix ^ n <= Radix ^ (n + 1)
    BY <1>1, <2>1, <2>2, <2>3
  <2>5. CASE k \in 0..n
    <3>1. Radix ^ k <= Radix ^ n
      BY <1>1, <1>4, <2>5
    <3> QED
      BY <2>3, <2>4, <3>1
  <2>6. CASE k = n + 1
    BY <2>3, <2>6
  <2> QED
    BY <2>5, <2>6
<1> HIDE DEF P
<1>5. P(1) BY <1>3, <1>4
<1>6. P(2) BY <1>4, <1>5
<1>7. P(3) BY <1>4, <1>6
<1>8. P(4) BY <1>4, <1>7
<1>9. P(5) BY <1>4, <1>8
<1>10. P(6) BY <1>4, <1>9
<1>11. P(7) BY <1>4, <1>10
<1>12. P(8) BY <1>4, <1>11
<1>13. s \in {0, 1, 2, 3, 4, 5, 6, 7, 8}
  BY <1>1
<1>14. P(s)
  BY <1>3, <1>5, <1>6, <1>7, <1>8, <1>9, <1>10, <1>11, <1>12, <1>13
<1> QED
  BY <1>1, <1>2, <1>14 DEF P

\* The j-th digit of an argument from its end; the absent ones are zero.
Digit(s, j) == IF j <= Len(s) THEN s[Len(s) + 1 - j] ELSE 0

\* Digits are digits.
LEMMA DigitType ==
  ASSUME NEW s \in Bytes, NEW j \in 1..8
  PROVE  /\ Digit(s, j) \in 0 .. Radix - 1 /\ Digit(s, j) \in Nat
         /\ j > Len(s) => Digit(s, j) = 0
<1>1. CASE j <= Len(s)
  <2>1. Len(s) + 1 - j \in 1..Len(s)
    BY <1>1, LenProperties DEF Bytes
  <2> QED
    BY <1>1, <2>1, ByteType, LenProperties DEF Digit, Bytes, Byte
<1>2. CASE ~(j <= Len(s))
  BY <1>2, RadixType DEF Digit
<1> QED
  BY <1>1, <1>2, LenProperties DEF Bytes

\* One step of Horner's rule.
Joined(x, c) == x * Radix + c

\* It can be undone.
LEMMA JoinFacts ==
  /\ \A x \in Nat, c \in 0 .. Radix - 1 : Joined(x, c) \in Nat
  /\ \A x, y \in Nat, c, f \in 0 .. Radix - 1 : Joined(x, c) = Joined(y, f) => x = y /\ c = f
<1>1. \A x \in Nat, c \in 0 .. Radix - 1 : Joined(x, c) \in Nat
  BY RadixType, HornerStep DEF Joined
<1>2. \A x, y \in Nat, c, f \in 0 .. Radix - 1 : Joined(x, c) = Joined(y, f) => x = y /\ c = f
  BY HornerInjective DEF Joined
<1> QED
  BY <1>1, <1>2

\* Two arguments of one length that stand for one number have the same digits.
LEMMA UintInjective ==
  ASSUME NEW s \in Bytes, NEW t \in Bytes, Len(s) = Len(t), Len(s) <= 8, Uint(s) = Uint(t)
  PROVE  \A k \in 1..Len(s) : s[k] = t[k]
<1> DEFINE D(j) == Digit(s, j)
           E(j) == Digit(t, j)
<1>0. /\ \A j \in 1..8 : D(j) \in 0 .. Radix - 1 /\ D(j) \in Nat
      /\ \A j \in 1..8 : E(j) \in 0 .. Radix - 1 /\ E(j) \in Nat
  BY DigitType
<1>1. /\ D(1) \in 0 .. Radix - 1 /\ D(1) \in Nat /\ E(1) \in 0 .. Radix - 1 /\ E(1) \in Nat
      /\ D(2) \in 0 .. Radix - 1 /\ D(2) \in Nat /\ E(2) \in 0 .. Radix - 1 /\ E(2) \in Nat
      /\ D(3) \in 0 .. Radix - 1 /\ D(3) \in Nat /\ E(3) \in 0 .. Radix - 1 /\ E(3) \in Nat
      /\ D(4) \in 0 .. Radix - 1 /\ D(4) \in Nat /\ E(4) \in 0 .. Radix - 1 /\ E(4) \in Nat
      /\ D(5) \in 0 .. Radix - 1 /\ D(5) \in Nat /\ E(5) \in 0 .. Radix - 1 /\ E(5) \in Nat
      /\ D(6) \in 0 .. Radix - 1 /\ D(6) \in Nat /\ E(6) \in 0 .. Radix - 1 /\ E(6) \in Nat
      /\ D(7) \in 0 .. Radix - 1 /\ D(7) \in Nat /\ E(7) \in 0 .. Radix - 1 /\ E(7) \in Nat
      /\ D(8) \in 0 .. Radix - 1 /\ D(8) \in Nat /\ E(8) \in 0 .. Radix - 1 /\ E(8) \in Nat
  BY <1>0
<1> DEFINE h7 == Joined(D(8), D(7))
           h6 == Joined(h7, D(6))
           h5 == Joined(h6, D(5))
           h4 == Joined(h5, D(4))
           h3 == Joined(h4, D(3))
           h2 == Joined(h3, D(2))
           g7 == Joined(E(8), E(7))
           g6 == Joined(g7, E(6))
           g5 == Joined(g6, E(5))
           g4 == Joined(g5, E(4))
           g3 == Joined(g4, E(3))
           g2 == Joined(g3, E(2))
<1>2. Joined(h2, D(1)) = Joined(g2, E(1))
  BY DEF Uint, Digit, Joined
<1> HIDE DEF D, E
<1>3. h7 \in Nat /\ g7 \in Nat
  BY <1>1, JoinFacts
<1> HIDE DEF h7, g7
<1>4. h6 \in Nat /\ g6 \in Nat
  BY <1>1, <1>3, JoinFacts
<1> HIDE DEF h6, g6
<1>5. h5 \in Nat /\ g5 \in Nat
  BY <1>1, <1>4, JoinFacts
<1> HIDE DEF h5, g5
<1>6. h4 \in Nat /\ g4 \in Nat
  BY <1>1, <1>5, JoinFacts
<1> HIDE DEF h4, g4
<1>7. h3 \in Nat /\ g3 \in Nat
  BY <1>1, <1>6, JoinFacts
<1> HIDE DEF h3, g3
<1>8. h2 \in Nat /\ g2 \in Nat
  BY <1>1, <1>7, JoinFacts
<1> HIDE DEF h2, g2
<1>17. \A x, y \in Nat, c, f \in 0 .. Radix - 1 : Joined(x, c) = Joined(y, f) => x = y /\ c = f
  BY JoinFacts
<1>9. h2 = g2 /\ D(1) = E(1)
  <2>1. D(1) \in 0 .. Radix - 1 /\ E(1) \in 0 .. Radix - 1
    BY <1>1
  <2> QED
    BY ONLY <1>2, <1>8, <1>17, <2>1
<1>10. h3 = g3 /\ D(2) = E(2)
  <2>1. Joined(h3, D(2)) = Joined(g3, E(2))
    BY <1>9 DEF h2, g2
  <2>2. h3 \in Nat /\ g3 \in Nat /\ D(2) \in 0 .. Radix - 1 /\ E(2) \in 0 .. Radix - 1
    BY <1>1, <1>7
  <2> QED
    BY ONLY <2>1, <2>2, <1>17
<1>11. h4 = g4 /\ D(3) = E(3)
  <2>1. Joined(h4, D(3)) = Joined(g4, E(3))
    BY <1>10 DEF h3, g3
  <2>2. h4 \in Nat /\ g4 \in Nat /\ D(3) \in 0 .. Radix - 1 /\ E(3) \in 0 .. Radix - 1
    BY <1>1, <1>6
  <2> QED
    BY ONLY <2>1, <2>2, <1>17
<1>12. h5 = g5 /\ D(4) = E(4)
  <2>1. Joined(h5, D(4)) = Joined(g5, E(4))
    BY <1>11 DEF h4, g4
  <2>2. h5 \in Nat /\ g5 \in Nat /\ D(4) \in 0 .. Radix - 1 /\ E(4) \in 0 .. Radix - 1
    BY <1>1, <1>5
  <2> QED
    BY ONLY <2>1, <2>2, <1>17
<1>13. h6 = g6 /\ D(5) = E(5)
  <2>1. Joined(h6, D(5)) = Joined(g6, E(5))
    BY <1>12 DEF h5, g5
  <2>2. h6 \in Nat /\ g6 \in Nat /\ D(5) \in 0 .. Radix - 1 /\ E(5) \in 0 .. Radix - 1
    BY <1>1, <1>4
  <2> QED
    BY ONLY <2>1, <2>2, <1>17
<1>14. h7 = g7 /\ D(6) = E(6)
  <2>1. Joined(h7, D(6)) = Joined(g7, E(6))
    BY <1>13 DEF h6, g6
  <2>2. h7 \in Nat /\ g7 \in Nat /\ D(6) \in 0 .. Radix - 1 /\ E(6) \in 0 .. Radix - 1
    BY <1>1, <1>3
  <2> QED
    BY ONLY <2>1, <2>2, <1>17
<1>15. D(8) = E(8) /\ D(7) = E(7)
  <2>1. Joined(D(8), D(7)) = Joined(E(8), E(7))
    BY <1>14 DEF h7, g7
  <2>2. /\ D(8) \in Nat /\ E(8) \in Nat
        /\ D(7) \in 0 .. Radix - 1 /\ E(7) \in 0 .. Radix - 1
    BY <1>1
  <2> QED
    BY ONLY <2>1, <2>2, <1>17
<1>16. \A j \in 1..8 : D(j) = E(j)
  <2> TAKE j \in 1..8
  <2>1. j \in {1, 2, 3, 4, 5, 6, 7, 8}
    OBVIOUS
  <2> QED
    BY <1>9, <1>10, <1>11, <1>12, <1>13, <1>14, <1>15, <2>1
<1> TAKE k \in 1..Len(s)
<1>19. Len(s) \in Nat
  BY LenProperties DEF Bytes
<1> DEFINE j == Len(s) + 1 - k
<1>20. j \in 1..8 /\ j <= Len(s) /\ Len(s) + 1 - j = k
  BY <1>19
<1>21. D(j) = s[k] /\ E(j) = t[k]
  BY <1>20 DEF D, E, Digit
<1> QED
  BY <1>16, <1>20, <1>21

\* What the digits of an n-digit number amount to, read down to the j-th.
DigitsBelow(n, j, h) ==
  /\ h \in Nat
  /\ j > n => h = 0
  /\ j <= n => h < Radix ^ (n + 1 - j)

\* One digit more.
LEMMA DigitStep ==
  ASSUME NEW n \in 0..Widths[4], NEW j \in 1..8, NEW h, DigitsBelow(n, j + 1, h),
         NEW c \in 0 .. Radix - 1, j > n => c = 0
  PROVE  DigitsBelow(n, j, Joined(h, c))
<1>1. Widths[4] \in 1..8 /\ h \in Nat /\ c \in Nat /\ n \in Nat
  BY RadixType, WidthsAssumption DEF DigitsBelow
<1>2. Joined(h, c) \in Nat
  BY <1>1, JoinFacts
<1>3. ASSUME j > n PROVE Joined(h, c) = 0
  <2>1. h = 0 /\ c = 0
    BY <1>1, <1>3 DEF DigitsBelow
  <2> QED
    BY <2>1, RadixType DEF Joined
<1>4. ASSUME j <= n PROVE Joined(h, c) < Radix ^ (n + 1 - j)
  <2>1. n - j \in 0 .. Widths[4] - 1 /\ n - j + 1 = n + 1 - j /\ n + 1 - (j + 1) = n - j
    BY <1>1, <1>4
  <2>2. h < Radix ^ (n - j)
    <3>1. CASE j + 1 > n
      <4>1. h = 0 /\ n - j = 0
        BY <1>1, <1>4, <3>1 DEF DigitsBelow
      <4> QED
        BY <4>1, PowerAssumption
    <3>2. CASE j + 1 <= n
      BY <1>1, <2>1, <3>2 DEF DigitsBelow
    <3> QED
      BY <1>1, <3>1, <3>2
  <2> QED
    BY <1>1, <2>1, <2>2, HornerBound DEF Joined
<1> QED
  BY <1>2, <1>3, <1>4 DEF DigitsBelow

\* A number of n digits is below the n-th power of the radix.
LEMMA UintBound ==
  ASSUME NEW s \in Bytes, Len(s) <= Widths[4]
  PROVE  Uint(s) \in Nat /\ Uint(s) < Radix ^ Len(s)
<1> DEFINE n == Len(s)
<1>0. n \in 0..Widths[4] /\ n \in Nat /\ n <= 8
  BY LenProperties, WidthsAssumption DEF Bytes
<1>1. \A j \in 1..8 : Digit(s, j) \in 0 .. Radix - 1 /\ (j > n => Digit(s, j) = 0)
  BY DigitType
<1> DEFINE h8 == Digit(s, 8)
           h7 == Joined(h8, Digit(s, 7))
           h6 == Joined(h7, Digit(s, 6))
           h5 == Joined(h6, Digit(s, 5))
           h4 == Joined(h5, Digit(s, 4))
           h3 == Joined(h4, Digit(s, 3))
           h2 == Joined(h3, Digit(s, 2))
           h1 == Joined(h2, Digit(s, 1))
<1>2. Uint(s) = h1
  BY DEF Uint, Digit, Joined
<1> HIDE DEF n
<1>3. DigitsBelow(n, 8, h8)
  <2>1. DigitsBelow(n, 8 + 1, 0)
    BY <1>0 DEF DigitsBelow
  <2>2. Digit(s, 8) \in 0 .. Radix - 1 /\ (8 > n => Digit(s, 8) = 0)
    BY <1>1
  <2>3. DigitsBelow(n, 8, Joined(0, Digit(s, 8)))
    BY <1>0, <2>1, <2>2, DigitStep
  <2>4. Joined(0, Digit(s, 8)) = Digit(s, 8)
    BY <2>2, RadixType DEF Joined
  <2> QED
    BY <2>3, <2>4
<1> HIDE DEF h8
<1>4. DigitsBelow(n, 7, h7)
  <2>1. DigitsBelow(n, 7 + 1, h8) /\ Digit(s, 7) \in 0 .. Radix - 1 /\ (7 > n => Digit(s, 7) = 0)
    BY <1>1, <1>3
  <2> QED
    BY <1>0, <2>1, DigitStep
<1> HIDE DEF h7
<1>5. DigitsBelow(n, 6, h6)
  <2>1. DigitsBelow(n, 6 + 1, h7) /\ Digit(s, 6) \in 0 .. Radix - 1 /\ (6 > n => Digit(s, 6) = 0)
    BY <1>1, <1>4
  <2> QED
    BY <1>0, <2>1, DigitStep
<1> HIDE DEF h6
<1>6. DigitsBelow(n, 5, h5)
  <2>1. DigitsBelow(n, 5 + 1, h6) /\ Digit(s, 5) \in 0 .. Radix - 1 /\ (5 > n => Digit(s, 5) = 0)
    BY <1>1, <1>5
  <2> QED
    BY <1>0, <2>1, DigitStep
<1> HIDE DEF h5
<1>7. DigitsBelow(n, 4, h4)
  <2>1. DigitsBelow(n, 4 + 1, h5) /\ Digit(s, 4) \in 0 .. Radix - 1 /\ (4 > n => Digit(s, 4) = 0)
    BY <1>1, <1>6
  <2> QED
    BY <1>0, <2>1, DigitStep
<1> HIDE DEF h4
<1>8. DigitsBelow(n, 3, h3)
  <2>1. DigitsBelow(n, 3 + 1, h4) /\ Digit(s, 3) \in 0 .. Radix - 1 /\ (3 > n => Digit(s, 3) = 0)
    BY <1>1, <1>7
  <2> QED
    BY <1>0, <2>1, DigitStep
<1> HIDE DEF h3
<1>9. DigitsBelow(n, 2, h2)
  <2>1. DigitsBelow(n, 2 + 1, h3) /\ Digit(s, 2) \in 0 .. Radix - 1 /\ (2 > n => Digit(s, 2) = 0)
    BY <1>1, <1>8
  <2> QED
    BY <1>0, <2>1, DigitStep
<1> HIDE DEF h2
<1>10. DigitsBelow(n, 1, h1)
  <2>1. DigitsBelow(n, 1 + 1, h2) /\ Digit(s, 1) \in 0 .. Radix - 1 /\ (1 > n => Digit(s, 1) = 0)
    BY <1>1, <1>9
  <2> QED
    BY <1>0, <2>1, DigitStep
<1> HIDE DEF h1
<1>11. h1 \in Nat /\ h1 < Radix ^ n
  <2>1. CASE n = 0
    <3>1. h1 = 0
      BY <1>10, <2>1 DEF DigitsBelow
    <3> QED
      BY <2>1, <3>1, PowerAssumption
  <2>2. CASE 1 <= n
    <3>1. n + 1 - 1 = n
      BY <1>0
    <3> QED
      BY <1>10, <2>2, <3>1 DEF DigitsBelow
  <2> QED
    BY <1>0, <2>1, <2>2
<1> QED
  BY <1>2, <1>11 DEF n

\* The bytes of a part.
LEMMA PartFacts ==
  ASSUME NEW d \in Bytes, NEW from \in Nat, NEW to \in Nat, from <= to, to <= Len(d)
  PROVE  /\ Part(d, from, to) \in Bytes /\ Len(Part(d, from, to)) = to - from
         /\ \A k \in 1..to - from : Part(d, from, to)[k] = d[from + k]
<1>1. \A i \in from + 1 .. to : d[i] \in Byte
  BY ElementOfSeq DEF Bytes
<1>2. /\ SubSeq(d, from + 1, to) \in Seq(Byte)
      /\ Len(SubSeq(d, from + 1, to)) = IF from + 1 <= to THEN to - (from + 1) + 1 ELSE 0
      /\ \A k \in 1..to - (from + 1) + 1 : SubSeq(d, from + 1, to)[k] = d[from + 1 + k - 1]
  BY <1>1, SubSeqProperties
<1>3. \A k \in 1..to - from : k \in 1..to - (from + 1) + 1 /\ from + 1 + k - 1 = from + k
  OBVIOUS
<1> QED
  BY <1>2, <1>3 DEF Part, Bytes

\* The first number a form does not hold.
Over(a) == IF a < Imm THEN Imm ELSE Radix ^ Width(a)

\* A longer form starts where a shorter one ends, or later.
LEMMA FormsAscend ==
  ASSUME NEW a \in 0 .. Imm + 3, NEW k \in Imm .. Imm + 3, a < k
  PROVE  Over(a) \in Nat /\ Least(k) \in Nat /\ Over(a) <= Least(k)
<1>0. /\ \A i \in 1..4 : Widths[i] \in 1..8
      /\ Widths[1] < Widths[2] /\ Widths[2] < Widths[3] /\ Widths[3] < Widths[4]
  BY WidthsAssumption
<1>1. Radix \in Nat /\ Imm \in Nat /\ Imm <= Radix
  BY RadixType, ImmAssumption
<1>2. CASE a < Imm
  <2>1. Over(a) = Imm
    BY <1>2 DEF Over
  <2>2. CASE k = Imm
    BY <1>1, <2>1, <2>2 DEF Least
  <2>3. CASE k # Imm
    <3>1. PICK i \in 1..3 : k = Imm + i
      BY <1>1, <2>3
    <3>2. Least(k) = Radix ^ Widths[i]
      BY <1>1, <3>1 DEF Least
    <3>3. 1 \in 0..Widths[4] /\ Widths[i] \in 0..Widths[4] /\ 1 <= Widths[i]
      BY <1>0
    <3>4. Radix ^ 1 = Radix
      <4>1. 0 \in 0 .. Widths[4] - 1 /\ 0 + 1 = 1
        BY <1>0
      <4>2. Radix ^ (0 + 1) = Radix * Radix ^ 0 /\ Radix ^ 0 = 1
        BY <4>1, PowerAssumption
      <4> QED
        BY <1>1, <4>1, <4>2
    <3>5. Radix ^ 1 <= Radix ^ Widths[i] /\ Radix ^ Widths[i] \in Nat
      BY <3>3, PowersAscend
    <3> QED
      BY <1>1, <2>1, <3>2, <3>4, <3>5
  <2> QED
    BY <2>2, <2>3
<1>3. CASE ~(a < Imm)
  <2>1. PICK i \in 1..4, j \in 1..3 : a = Imm + i - 1 /\ k = Imm + j /\ i <= j
    <3>1. a - Imm + 1 \in 1..4 /\ k - Imm \in 1..3 /\ a - Imm + 1 <= k - Imm
      BY <1>1, <1>3
    <3>2. a = Imm + (a - Imm + 1) - 1 /\ k = Imm + (k - Imm)
      BY <1>1, <1>3
    <3> QED
      BY <3>1, <3>2
  <2>2. Over(a) = Radix ^ Widths[i]
    <3>1. a \in Imm .. Imm + 3 /\ a - Imm + 1 = i
      BY <1>1, <2>1
    <3> QED
      BY <1>3, <3>1 DEF Over, Width
  <2>3. Least(k) = Radix ^ Widths[j]
    BY <1>1, <2>1 DEF Least
  <2>4. Widths[i] \in 0..Widths[4] /\ Widths[j] \in 0..Widths[4] /\ Widths[i] <= Widths[j]
    BY <1>0, <2>1
  <2>5. Radix ^ Widths[i] \in Nat /\ Radix ^ Widths[j] \in Nat
        /\ Radix ^ Widths[i] <= Radix ^ Widths[j]
    BY <2>4, PowersAscend
  <2> QED
    BY <2>2, <2>3, <2>5
<1> QED
  BY <1>2, <1>3

\* A number is announced by one form only.
LEMMA OneForm ==
  ASSUME NEW a \in 0 .. Imm + 3, NEW k \in 0 .. Imm + 3, NEW v \in Nat,
         Least(a) <= v, v < Over(a), a < Imm => v = a,
         Least(k) <= v, v < Over(k), k < Imm => v = k
  PROVE  a = k
<1>1. Imm \in Nat /\ a \in Nat /\ k \in Nat
  BY ImmAssumption
<1>2. ASSUME a < k PROVE FALSE
  <2>1. CASE k < Imm
    BY <1>1, <1>2, <2>1
  <2>2. CASE ~(k < Imm)
    <3>1. k \in Imm .. Imm + 3
      BY <1>1, <2>2
    <3> QED
      BY <1>2, <3>1, FormsAscend
  <2> QED
    BY <2>1, <2>2
<1>3. ASSUME k < a PROVE FALSE
  <2>1. CASE a < Imm
    BY <1>1, <1>3, <2>1
  <2>2. CASE ~(a < Imm)
    <3>1. a \in Imm .. Imm + 3
      BY <1>1, <2>2
    <3> QED
      BY <1>3, <3>1, FormsAscend
  <2> QED
    BY <2>1, <2>2
<1> QED
  BY <1>1, <1>2, <1>3

-----------------------------------------------------------------------------
(***************************************************************************)
(* Heads: what a head announces determines its bytes.                      *)
(***************************************************************************)
\* d is an artifact, and w its marks.
Marked(d, w) == d \in Bytes /\ w \in Markings(d) /\ Parse(d, w)

\* What is marked at a head, and its first byte.
LEMMA PlaceFacts ==
  ASSUME NEW d, NEW w, Marked(d, w), NEW p \in DOMAIN w
  PROVE  /\ p \in Nat /\ p < Len(d) /\ Len(d) \in Nat
         /\ w[p].end \in Nat /\ p < w[p].end /\ w[p].end <= Len(d)
         /\ w[p].height \in Nat
         /\ Len(w[p].kids) \in Nat
         /\ ShortestHead(d, p) /\ RightContent(d, w, p)
         /\ d[p + 1] \in Byte /\ MajorOf(d, p) \in 0..7 /\ MajorOf(d, p) # 6
         /\ BodyOf(d, p) = p + 1 + Width(AiOf(d, p)) /\ BodyOf(d, p) \in Nat /\ p < BodyOf(d, p)
<1>1. /\ p \in Nat /\ p < Len(d) /\ Len(d) \in Nat
      /\ w[p].end \in Nat /\ p < w[p].end /\ w[p].end <= Len(d)
      /\ w[p].height \in Nat
      /\ Len(w[p].kids) \in Nat
      /\ ShortestHead(d, p) /\ RightContent(d, w, p)
  BY ParseFacts DEF Marked
<1>2. p + 1 \in 1..Len(d)
  BY ONLY <1>1
<1>3. d[p + 1] \in Byte
  BY <1>2, ByteType DEF Marked
<1>4. MajorOf(d, p) \in 0..7
  BY <1>3, HeadType DEF MajorOf
<1>5. MajorOf(d, p) # 6
  BY <1>1 DEF ShortestHead
<1>6. Width(AiOf(d, p)) \in 0..8
  BY WidthType
<1>7. BodyOf(d, p) = p + 1 + Width(AiOf(d, p))
  BY DEF BodyOf
<1>8. BodyOf(d, p) \in Nat /\ p < BodyOf(d, p)
  <2>1. p \in Nat
    BY ONLY <1>1
  <2> QED
    BY ONLY <1>6, <1>7, <2>1
<1> QED
  BY ONLY <1>1, <1>3, <1>4, <1>5, <1>7, <1>8

\* The argument of a head is in the range of its form, and its bytes are there.
LEMMA ArgRange ==
  ASSUME NEW d, NEW w, Marked(d, w), NEW p \in DOMAIN w, MajorOf(d, p) # 7
  PROVE  /\ AiOf(d, p) \in 0 .. Imm + 3 /\ BodyOf(d, p) <= Len(d)
         /\ ArgOf(d, p) \in Nat
         /\ Least(AiOf(d, p)) <= ArgOf(d, p) /\ ArgOf(d, p) < Over(AiOf(d, p))
         /\ AiOf(d, p) < Imm => ArgOf(d, p) = AiOf(d, p)
<1> DEFINE a == AiOf(d, p)
           B == BodyOf(d, p)
<1>1. /\ p \in Nat /\ Len(d) \in Nat /\ B \in Nat /\ B = p + 1 + Width(a) /\ p < B
  BY PlaceFacts
<1>2. a \in 0 .. Imm + 3 /\ B <= Len(d) /\ ArgOf(d, p) >= Least(a)
  <2>1. ShortestHead(d, p) /\ MajorOf(d, p) # 7
    BY PlaceFacts
  <2> QED
    BY ONLY <2>1 DEF ShortestHead
<1>3. Imm \in Nat /\ Imm >= 4 /\ d \in Bytes
  BY ImmAssumption DEF Marked
<1>4. Least(a) \in Nat
  BY LeastType
<1>5. CASE a < Imm
  <2>1. Width(a) = 0
    BY <1>2, <1>3, <1>5 DEF Width
  <2>2. ArgOf(d, p) = a /\ Over(a) = Imm
    BY <1>5, <2>1 DEF ArgOf, Over
  <2> QED
    BY <1>2, <1>3, <1>5, <2>2
<1>6. CASE ~(a < Imm)
  <2>1. a \in Imm .. Imm + 3 /\ a - Imm + 1 \in 1..4
    BY <1>2, <1>3, <1>6
  <2>2. Width(a) = Widths[a - Imm + 1]
    BY <2>1 DEF Width
  <2>3. Width(a) \in 1..8 /\ Width(a) <= Widths[4]
    BY <2>1, <2>2, WidthsAssumption
  <2>4. Part(d, p + 1, B) \in Bytes /\ Len(Part(d, p + 1, B)) = Width(a)
    <3>1. p + 1 \in Nat /\ p + 1 <= B /\ B <= Len(d) /\ B - (p + 1) = Width(a)
      <4>1. p \in Nat /\ B = p + 1 + Width(a) /\ B <= Len(d) /\ Width(a) \in 1..8
        BY <1>1, <1>2, <2>3
      <4> HIDE DEF a, B
      <4> QED
        BY ONLY <4>1
    <3> QED
      BY <1>1, <1>3, <3>1, PartFacts
  <2>5. ArgOf(d, p) = Uint(Part(d, p + 1, B))
    BY <2>3 DEF ArgOf
  <2>6. Uint(Part(d, p + 1, B)) \in Nat /\ Uint(Part(d, p + 1, B)) < Radix ^ Width(a)
    BY <2>3, <2>4, UintBound
  <2>7. Over(a) = Radix ^ Width(a)
    BY <1>6 DEF Over
  <2> QED
    BY <1>2, <1>4, <1>6, <2>5, <2>6, <2>7
<1> QED
  BY <1>5, <1>6

\* n bytes of d after p are those of e after q.
SameBytes(d, p, e, q, n) == \A k \in 1..n : d[p + k] = e[q + k]

\* Heads that announce the same are the same.
LEMMA HeadMatch ==
  ASSUME NEW d, NEW w, Marked(d, w), NEW p \in DOMAIN w,
         NEW e, NEW x, Marked(e, x), NEW q \in DOMAIN x,
         MajorOf(d, p) = MajorOf(e, q),
         MajorOf(d, p) = 7 => AiOf(d, p) = AiOf(e, q),
         MajorOf(d, p) # 7 => ArgOf(d, p) = ArgOf(e, q)
  PROVE  /\ BodyOf(d, p) - p = BodyOf(e, q) - q
         /\ SameBytes(d, p, e, q, BodyOf(d, p) - p)
<1> DEFINE a == AiOf(d, p)
           B == BodyOf(d, p)
           C == BodyOf(e, q)
<1>1. /\ p \in Nat /\ B \in Nat /\ B = p + 1 + Width(a) /\ d[p + 1] \in Byte /\ d \in Bytes
      /\ q \in Nat /\ C \in Nat /\ C = q + 1 + Width(AiOf(e, q)) /\ e[q + 1] \in Byte /\ e \in Bytes
  BY PlaceFacts DEF Marked
<1>2. Width(a) \in 0..8
  BY WidthType
<1>3. AiOf(e, q) = a
  <2>1. CASE MajorOf(d, p) = 7
    BY <2>1
  <2>2. CASE MajorOf(d, p) # 7
    BY <2>2, ArgRange, OneForm
  <2> QED
    BY <2>1, <2>2
<1>4. B - p = C - q /\ B - p = Width(a) + 1
  BY <1>1, <1>2, <1>3
<1>5. d[p + 1] = e[q + 1]
  BY <1>1, <1>3, HeadJoin DEF MajorOf, AiOf
<1>6. ASSUME NEW k \in 1..B - p, k # 1 PROVE d[p + k] = e[q + k]
  <2>1. /\ k - 1 \in 1..Width(a) /\ Width(a) # 0
        /\ p + 1 + (k - 1) = p + k /\ q + 1 + (k - 1) = q + k
    BY <1>1, <1>2, <1>4, <1>6
  <2>2. MajorOf(d, p) # 7
    <3>1. ASSUME MajorOf(d, p) = 7 PROVE Width(a) = 0
      <4>1. a \in {SimpleFalse, SimpleTrue}
        BY <3>1, PlaceFacts DEF ShortestHead
      <4> QED
        BY <4>1, ImmAssumption DEF Width, SimpleFalse, SimpleTrue
    <3> QED
      BY <2>1, <3>1
  <2>3. B <= Len(d) /\ C <= Len(e) /\ ArgOf(d, p) = ArgOf(e, q)
    BY <2>2, ArgRange
  <2>4. /\ p + 1 \in Nat /\ p + 1 <= B /\ B - (p + 1) = Width(a)
        /\ q + 1 \in Nat /\ q + 1 <= C /\ C - (q + 1) = Width(a)
    BY <1>1, <1>2, <1>3
  <2> DEFINE s == Part(d, p + 1, B)
             t == Part(e, q + 1, C)
  <2>5. s \in Bytes /\ Len(s) = Width(a) /\ s[k - 1] = d[p + k]
    <3>1. B \in Nat /\ B <= Len(d)
      BY <1>1, <2>3
    <3>2. /\ s \in Bytes /\ Len(s) = B - (p + 1)
          /\ \A i \in 1..B - (p + 1) : s[i] = d[p + 1 + i]
      BY <1>1, <2>4, <3>1, PartFacts
    <3> HIDE DEF s
    <3>3. s[k - 1] = d[p + 1 + (k - 1)]
      BY <2>1, <2>4, <3>2
    <3> QED
      BY <2>1, <2>4, <3>2, <3>3
  <2>6. t \in Bytes /\ Len(t) = Width(a) /\ t[k - 1] = e[q + k]
    <3>1. C \in Nat /\ C <= Len(e)
      BY <1>1, <2>3
    <3>2. /\ t \in Bytes /\ Len(t) = C - (q + 1)
          /\ \A i \in 1..C - (q + 1) : t[i] = e[q + 1 + i]
      BY <1>1, <2>4, <3>1, PartFacts
    <3> HIDE DEF t
    <3>3. t[k - 1] = e[q + 1 + (k - 1)]
      BY <2>1, <2>4, <3>2
    <3> QED
      BY <2>1, <2>4, <3>2, <3>3
  <2>7. Uint(s) = Uint(t)
    BY <1>3, <2>1, <2>3 DEF ArgOf
  <2>8. Len(s) <= 8 /\ k - 1 \in 1..Len(s)
    BY <1>2, <2>1, <2>5
  <2> HIDE DEF s, t
  <2>9. s[k - 1] = t[k - 1]
    BY <2>5, <2>6, <2>7, <2>8, UintInjective
  <2> QED
    BY <2>5, <2>6, <2>9
<1> QED
  BY <1>4, <1>5, <1>6 DEF SameBytes
-----------------------------------------------------------------------------
(***************************************************************************)
(* Values: related values are the same bytes, when their elements are.     *)
(***************************************************************************)
\* The value at p and the value at q are the same bytes.
SameValueBytes(d, w, p, e, x, q) ==
  /\ w[p].end - p = x[q].end - q
  /\ SameBytes(d, p, e, q, w[p].end - p)

\* Bytes that agree one stretch after the other.
LEMMA Stretches ==
  ASSUME NEW d, NEW e, NEW p \in Nat, NEW q \in Nat, NEW m \in Nat, NEW n \in Nat,
         SameBytes(d, p, e, q, m), SameBytes(d, p + m, e, q + m, n)
  PROVE  SameBytes(d, p, e, q, m + n)
<1> SUFFICES ASSUME NEW k \in 1..m + n PROVE d[p + k] = e[q + k]
  BY DEF SameBytes
<1>1. CASE k <= m
  BY <1>1 DEF SameBytes
<1>2. CASE ~(k <= m)
  <2>1. k - m \in 1..n /\ p + m + (k - m) = p + k /\ q + m + (k - m) = q + k
    BY <1>2
  <2> QED
    BY <2>1 DEF SameBytes
<1> QED
  BY <1>1, <1>2

\* Values without content.
LEMMA LeafMatch ==
  ASSUME NEW d, NEW w, Marked(d, w), NEW p \in DOMAIN w,
         NEW e, NEW x, Marked(e, x), NEW q \in DOMAIN x,
         NEW R, Alike(d, w, p, e, x, q, R), MajorOf(d, p) \in {0, 1, 7}
  PROVE  SameValueBytes(d, w, p, e, x, q)
<1>1. /\ BodyOf(d, p) - p = BodyOf(e, q) - q
      /\ SameBytes(d, p, e, q, BodyOf(d, p) - p)
  <2>1. /\ MajorOf(d, p) = MajorOf(e, q)
        /\ MajorOf(d, p) = 7 => AiOf(d, p) = AiOf(e, q)
        /\ MajorOf(d, p) # 7 => ArgOf(d, p) = ArgOf(e, q)
    BY DEF Alike
  <2> QED
    BY <2>1, HeadMatch
<1>2. w[p].end = BodyOf(d, p) /\ x[q].end = BodyOf(e, q)
  <2>1. RightContent(d, w, p) /\ RightContent(e, x, q) /\ MajorOf(e, q) \in {0, 1, 7}
    BY PlaceFacts DEF Alike
  <2> QED
    BY <2>1 DEF RightContent
<1> QED
  BY <1>1, <1>2 DEF SameValueBytes

\* Strings.
LEMMA StringMatch ==
  ASSUME NEW d, NEW w, Marked(d, w), NEW p \in DOMAIN w,
         NEW e, NEW x, Marked(e, x), NEW q \in DOMAIN x,
         NEW R, Alike(d, w, p, e, x, q, R), MajorOf(d, p) \in {2, 3}
  PROVE  SameValueBytes(d, w, p, e, x, q)
<1> DEFINE B == BodyOf(d, p)
           C == BodyOf(e, q)
           n == ArgOf(d, p)
<1>1. /\ w[p].end = B + n /\ x[q].end = C + ArgOf(e, q)
      /\ w[p].end <= Len(d) /\ x[q].end <= Len(e)
  <2>1. RightContent(d, w, p) /\ RightContent(e, x, q) /\ MajorOf(e, q) \in {2, 3}
    BY PlaceFacts DEF Alike
  <2> QED
    BY <2>1 DEF RightContent
<1>2. /\ p \in Nat /\ B \in Nat /\ p < B /\ q \in Nat /\ C \in Nat /\ q < C
      /\ n \in Nat /\ ArgOf(e, q) \in Nat /\ d \in Bytes /\ e \in Bytes
      /\ MajorOf(d, p) = MajorOf(e, q)
  <2>1. MajorOf(d, p) = MajorOf(e, q)
    BY DEF Alike
  <2>2. p \in Nat /\ B \in Nat /\ p < B /\ q \in Nat /\ C \in Nat /\ q < C
    BY PlaceFacts
  <2>3. n \in Nat /\ ArgOf(e, q) \in Nat
    BY <2>1, ArgRange
  <2>4. d \in Bytes /\ e \in Bytes
    BY DEF Marked
  <2> QED
    BY ONLY <2>1, <2>2, <2>3, <2>4
<1>3. /\ w[p].end \in Nat /\ B <= w[p].end /\ w[p].end - B = n
      /\ x[q].end \in Nat /\ C <= x[q].end /\ x[q].end - C = ArgOf(e, q)
  BY <1>1, <1>2
<1>4. /\ Len(Content(d, w, p)) = n
      /\ \A k \in 1..n : Content(d, w, p)[k] = d[B + k]
  <2>1. B \in Nat /\ w[p].end \in Nat /\ B <= w[p].end /\ w[p].end <= Len(d) /\ d \in Bytes
    BY <1>1, <1>2, <1>3
  <2>2. /\ Len(Content(d, w, p)) = w[p].end - B
        /\ \A k \in 1..w[p].end - B : Content(d, w, p)[k] = d[B + k]
    BY <2>1, PartFacts DEF Content
  <2> QED
    BY <1>3, <2>2
<1>5. /\ Len(Content(e, x, q)) = ArgOf(e, q)
      /\ \A k \in 1..ArgOf(e, q) : Content(e, x, q)[k] = e[C + k]
  <2>1. C \in Nat /\ x[q].end \in Nat /\ C <= x[q].end /\ x[q].end <= Len(e) /\ e \in Bytes
    BY <1>1, <1>2, <1>3
  <2>2. /\ Len(Content(e, x, q)) = x[q].end - C
        /\ \A k \in 1..x[q].end - C : Content(e, x, q)[k] = e[C + k]
    BY <2>1, PartFacts DEF Content
  <2> QED
    BY <1>3, <2>2
<1>6. Content(d, w, p) = Content(e, x, q)
  BY DEF Alike
<1>7. n = ArgOf(e, q) /\ SameBytes(d, B, e, C, n)
  BY <1>4, <1>5, <1>6 DEF SameBytes
<1>8. B - p = C - q /\ SameBytes(d, p, e, q, B - p)
  BY <1>2, <1>7, HeadMatch
<1>9. B - p \in Nat /\ p + (B - p) = B /\ q + (B - p) = C
  BY <1>2, <1>8
<1>10. SameBytes(d, p, e, q, B - p + n)
  BY <1>2, <1>7, <1>8, <1>9, Stretches
<1>11. w[p].end - p = B - p + n /\ x[q].end - q = B - p + n
  <2>1. /\ p \in Nat /\ B \in Nat /\ q \in Nat /\ C \in Nat /\ n \in Nat
        /\ B - p = C - q /\ w[p].end = B + n
    BY <1>1, <1>2, <1>8
  <2>2. x[q].end = C + n
    BY <1>1, <1>7
  <2> HIDE DEF B, C, n
  <2>3. w[p].end - p = B - p + n
    BY ONLY <2>1
  <2>4. x[q].end - q = B - p + n
    BY ONLY <2>1, <2>2
  <2> QED
    BY ONLY <2>3, <2>4
<1> QED
  BY <1>10, <1>11 DEF SameValueBytes

\* The elements of a container, and where they lie.
LEMMA KidsFacts ==
  ASSUME NEW d, NEW w, Marked(d, w), NEW p \in DOMAIN w, MajorOf(d, p) \in {4, 5}
  PROVE  /\ Len(w[p].kids) \in Nat
         /\ Len(w[p].kids) = SlotsOf(d, p) /\ ArgOf(d, p) \in Nat
         /\ \A j \in 1..Len(w[p].kids) :
              w[p].kids[j] \in DOMAIN w /\ w[w[p].kids[j]].height < w[p].height
         /\ Len(w[p].kids) = 0 => w[p].end = BodyOf(d, p)
         /\ Len(w[p].kids) # 0 => /\ w[p].kids[1] = BodyOf(d, p)
                                  /\ w[w[p].kids[Len(w[p].kids)]].end = w[p].end
         /\ \A j \in 1..Len(w[p].kids) - 1 : w[p].kids[j + 1] = w[w[p].kids[j]].end
<1>1. w[p].kids \in Seq(Nat) /\ Len(w[p].kids) \in Nat
  BY ParseFacts DEF Marked
<1>2. w[p].kids = <<>> <=> Len(w[p].kids) = 0
  BY <1>1, EmptySeq
<1>3. ArgOf(d, p) \in Nat
  BY ArgRange
<1> QED
  BY <1>1, <1>2, <1>3, ParsedKids DEF Marked

\* Every byte after the head of a container is in one of its elements.
LEMMA Covered ==
  ASSUME NEW d, NEW w, Marked(d, w), NEW p \in DOMAIN w, MajorOf(d, p) \in {4, 5},
         NEW i \in Nat, BodyOf(d, p) < i, i <= w[p].end
  PROVE  \E j \in 1..Len(w[p].kids) : w[p].kids[j] < i /\ i <= w[w[p].kids[j]].end
<1> DEFINE kids == w[p].kids
           S == {j \in 1..Len(kids) : i <= w[kids[j]].end}
<1>1. /\ Len(kids) \in Nat
      /\ \A j \in 1..Len(kids) : kids[j] \in DOMAIN w
      /\ Len(kids) = 0 => w[p].end = BodyOf(d, p)
      /\ Len(kids) # 0 => kids[1] = BodyOf(d, p) /\ w[kids[Len(kids)]].end = w[p].end
      /\ \A j \in 1..Len(kids) - 1 : kids[j + 1] = w[kids[j]].end
  BY KidsFacts
<1>2. BodyOf(d, p) \in Nat /\ w[p].end \in Nat
  BY PlaceFacts
<1>3. \A j \in 1..Len(kids) : kids[j] \in Nat /\ w[kids[j]].end \in Nat
  BY <1>1, PlaceFacts
<1> HIDE DEF kids
<1>4. Len(kids) # 0 /\ Len(kids) \in S
  BY <1>1, <1>2
<1>5. PICK j \in S : \A k \in S : j <= k
  <2>1. S \in SUBSET Nat /\ S # {}
    BY <1>4
  <2> HIDE DEF S
  <2> QED
    BY <2>1, LeastMember
<1>6. kids[j] < i
  <2>1. CASE j = 1
    BY <1>1, <1>4, <2>1
  <2>2. CASE j # 1
    <3>1. j - 1 \in 1..Len(kids) - 1 /\ j - 1 + 1 = j /\ j - 1 \in 1..Len(kids)
      BY <1>1, <2>2
    <3>2. j - 1 \notin S
      BY <1>1, <1>5
    <3>3. kids[j] = w[kids[j - 1]].end
      BY <1>1, <3>1
    <3> QED
      BY <1>3, <3>1, <3>2, <3>3
  <2> QED
    BY <2>1, <2>2
<1> QED
  BY <1>5, <1>6 DEF kids

\* Distances add up.
LEMMA Shift ==
  ASSUME NEW a \in Nat, NEW g \in Nat, NEW c \in Nat, NEW f \in Nat, NEW p \in Nat, NEW q \in Nat,
         c - a = f - g, a - p = g - q
  PROVE  c - p = f - q
OBVIOUS

\* A place in a container is a place in one of its elements.
LEMMA Inside ==
  ASSUME NEW a \in Nat, NEW g \in Nat, NEW c \in Nat, NEW k \in Nat, NEW p \in Nat, NEW q \in Nat,
         a < p + k, p + k <= c, a - p = g - q
  PROVE  p + k - a \in 1..c - a /\ a + (p + k - a) = p + k /\ g + (p + k - a) = q + k
OBVIOUS

\* Containers whose elements are the same bytes one by one.
LEMMA ContainerMatch ==
  ASSUME NEW d, NEW w, Marked(d, w), NEW p \in DOMAIN w,
         NEW e, NEW x, Marked(e, x), NEW q \in DOMAIN x,
         MajorOf(d, p) \in {4, 5}, MajorOf(d, p) = MajorOf(e, q),
         Len(w[p].kids) = Len(x[q].kids),
         \A j \in 1..Len(w[p].kids) :
            SameValueBytes(d, w, w[p].kids[j], e, x, x[q].kids[j])
  PROVE  SameValueBytes(d, w, p, e, x, q)
<1> DEFINE kids == w[p].kids
           sibs == x[q].kids
           n == Len(kids)
           B == BodyOf(d, p)
           C == BodyOf(e, q)
           Off == {j \in 1..n : kids[j] - p # sibs[j] - q}
<1>1. /\ n \in Nat /\ n = Len(sibs) /\ ArgOf(d, p) \in Nat /\ ArgOf(e, q) \in Nat
      /\ n = SlotsOf(d, p) /\ n = SlotsOf(e, q)
      /\ \A j \in 1..n : kids[j] \in DOMAIN w /\ sibs[j] \in DOMAIN x
      /\ n = 0 => w[p].end = B /\ x[q].end = C
      /\ n # 0 => /\ kids[1] = B /\ w[kids[n]].end = w[p].end
                  /\ sibs[1] = C /\ x[sibs[n]].end = x[q].end
      /\ \A j \in 1..n - 1 : kids[j + 1] = w[kids[j]].end /\ sibs[j + 1] = x[sibs[j]].end
  BY KidsFacts
<1>2. /\ p \in Nat /\ B \in Nat /\ p < B /\ w[p].end \in Nat
      /\ q \in Nat /\ C \in Nat /\ q < C /\ x[q].end \in Nat
      /\ \A j \in 1..n : /\ kids[j] \in Nat /\ w[kids[j]].end \in Nat
                         /\ sibs[j] \in Nat /\ x[sibs[j]].end \in Nat
  BY <1>1, PlaceFacts
<1>3. B - p = C - q /\ SameBytes(d, p, e, q, B - p)
  <2>1. ArgOf(d, p) = ArgOf(e, q)
    BY <1>1 DEF SlotsOf
  <2> QED
    BY <2>1, HeadMatch
<1>4. \A j \in 1..n : /\ w[kids[j]].end - kids[j] = x[sibs[j]].end - sibs[j]
                      /\ SameBytes(d, kids[j], e, sibs[j], w[kids[j]].end - kids[j])
  BY DEF SameValueBytes
<1>5. ASSUME NEW i \in Nat, B < i, i <= w[p].end
      PROVE  \E j \in 1..n : kids[j] < i /\ i <= w[kids[j]].end
  BY <1>5, Covered
<1> HIDE DEF kids, sibs, n, B, C
<1>6. Off = {}
  <2> SUFFICES ASSUME Off # {} PROVE FALSE
    OBVIOUS
  <2>1. PICK j \in Off : \A k \in Off : j <= k
    <3>1. Off \in SUBSET Nat
      BY <1>1
    <3> HIDE DEF Off
    <3> QED
      BY <3>1, LeastMember
  <2>2. CASE j = 1
    <3>1. n # 0
      BY <1>1, <2>1
    <3> QED
      BY <1>1, <1>3, <2>1, <2>2, <3>1
  <2>3. CASE j # 1
    <3> DEFINE k == j - 1
    <3>1. k \in 1..n - 1 /\ k + 1 = j /\ k \in 1..n /\ j \in 1..n /\ k < j
      BY <1>1, <2>1, <2>3
    <3> HIDE DEF k
    <3>2. k \notin Off
      BY <1>1, <2>1, <3>1
    <3>3. kids[j] = w[kids[k]].end /\ sibs[j] = x[sibs[k]].end
      BY <1>1, <3>1
    <3>4. kids[k] - p = sibs[k] - q
      BY <3>1, <3>2
    <3>5. /\ kids[k] \in Nat /\ sibs[k] \in Nat /\ kids[j] \in Nat /\ sibs[j] \in Nat
          /\ kids[j] - kids[k] = sibs[j] - sibs[k]
      BY <1>2, <1>4, <3>1, <3>3
    <3>6. kids[j] - p = sibs[j] - q
      <4>1. p \in Nat /\ q \in Nat
        BY <1>2
      <4> QED
        BY ONLY <3>4, <3>5, <4>1, Shift
    <3> QED
      BY <2>1, <3>6
  <2> QED
    BY <2>2, <2>3
<1>7. \A j \in 1..n : kids[j] - p = sibs[j] - q
  BY <1>6
<1>8. w[p].end - p = x[q].end - q
  <2>1. CASE n = 0
    BY <1>1, <1>3, <2>1
  <2>2. CASE n # 0
    <3>1. n \in 1..n
      BY <1>1, <2>2
    <3>2. w[kids[n]].end - kids[n] = x[sibs[n]].end - sibs[n] /\ kids[n] - p = sibs[n] - q
      BY <1>4, <1>7, <3>1
    <3>3. /\ kids[n] \in Nat /\ sibs[n] \in Nat
          /\ w[kids[n]].end = w[p].end /\ x[sibs[n]].end = x[q].end
      BY <1>1, <1>2, <2>2, <3>1
    <3>4. /\ p \in Nat /\ q \in Nat
          /\ w[p].end \in Nat /\ w[p].end - kids[n] = x[q].end - sibs[n]
      BY <1>2, <3>2, <3>3
    <3>5. x[q].end \in Nat
      BY <1>2
    <3> QED
      <4> DEFINE c == w[p].end
                 f == x[q].end
                 g == kids[n]
                 h == sibs[n]
      <4>1. c - g = f - h /\ g - p = h - q
        BY ONLY <3>2, <3>4
      <4>2. /\ p \in Nat /\ q \in Nat /\ g \in Nat /\ h \in Nat
            /\ c \in Nat /\ f \in Nat
        BY ONLY <3>3, <3>4, <3>5
      <4> HIDE DEF c, f, g, h
      <4>3. c - p = f - q
        BY ONLY <4>1, <4>2, Shift
      <4> QED
        BY ONLY <4>3 DEF c, f
  <2> QED
    BY <2>1, <2>2
<1>9. ASSUME NEW k \in 1..w[p].end - p PROVE d[p + k] = e[q + k]
  <2>1. CASE p + k <= B
    <3>1. k \in 1..B - p
      BY <1>2, <2>1
    <3> QED
      BY <1>3, <3>1 DEF SameBytes
  <2>2. CASE ~(p + k <= B)
    <3>1. p + k \in Nat /\ B < p + k /\ p + k <= w[p].end
      BY <1>2, <2>2
    <3>2. PICK j \in 1..n : kids[j] < p + k /\ p + k <= w[kids[j]].end
      BY <1>5, <3>1
    <3> DEFINE i == p + k - kids[j]
    <3>3. kids[j] \in Nat /\ sibs[j] \in Nat /\ w[kids[j]].end \in Nat /\ kids[j] - p = sibs[j] - q
      BY <1>2, <1>7
    <3>4. i \in 1..w[kids[j]].end - kids[j] /\ kids[j] + i = p + k /\ sibs[j] + i = q + k
      <4>1. p \in Nat /\ q \in Nat /\ k \in Nat
        BY <1>2
      <4> QED
        BY ONLY <3>2, <3>3, <4>1, Inside
    <3>5. d[kids[j] + i] = e[sibs[j] + i]
      <4> HIDE DEF i
      <4> QED
        BY <1>4, <3>4 DEF SameBytes
    <3> QED
      BY <3>4, <3>5
  <2> QED
    BY <2>1, <2>2
<1> QED
  BY <1>8, <1>9 DEF SameValueBytes, SameBytes

-----------------------------------------------------------------------------
(***************************************************************************)
(* Maps: one set of keys has one ascending order, so the entries pair up   *)
(* place by place.                                                         *)
(***************************************************************************)
\* No key is before itself.
LEMMA NeverBeforeItself ==
  ASSUME NEW s \in Bytes
  PROVE  ~BytesLess(s, s)
<1>1. Len(s) \in Nat /\ \A i \in 1..Len(s) : s[i] \in Nat
  BY ByteType, LenProperties DEF Bytes
<1> QED
  BY <1>1 DEF BytesLess

\* K is in strictly ascending order on the places in I.
Climbs(I, K) == \A i, j \in I : i < j => BytesLess(K[i], K[j])

\* Every key of K is one of L, and none of the places of K beyond one of L is
\* missing from L.
Within(I, K, J, L) ==
  /\ \A i \in I : K[i] \in Bytes /\ \E j \in J : K[i] = L[j]
  /\ \A i \in I, j \in J : i <= j => i \in J

\* Where all the places below agree, the key is found here or later.
LEMMA FoundLater ==
  ASSUME NEW I \in SUBSET Nat, NEW K, NEW J \in SUBSET Nat, NEW L, NEW m \in I,
         Climbs(I, K), Within(I, K, J, L),
         \A k \in J : k < m => k \in I /\ K[k] = L[k]
  PROVE  m \in J /\ \E j \in J : m <= j /\ K[m] = L[j]
<1>1. PICK j \in J : K[m] = L[j]
  BY DEF Within
<1>2. ASSUME j < m PROVE FALSE
  <2>1. j \in I /\ K[j] = K[m]
    BY <1>1, <1>2
  <2>2. BytesLess(K[j], K[m]) /\ K[m] \in Bytes
    BY <1>2, <2>1 DEF Climbs, Within
  <2> QED
    BY <2>1, <2>2, NeverBeforeItself
<1>3. m <= j
  <2>1. m \in Nat /\ j \in Nat
    OBVIOUS
  <2> QED
    BY ONLY <1>2, <2>1
<1>4. m \in J
  BY <1>3 DEF Within
<1> QED
  BY <1>1, <1>3, <1>4

\* Two ascending orders of one set of keys are the same.
LEMMA OneOrder ==
  ASSUME NEW I \in SUBSET Nat, NEW K, NEW J \in SUBSET Nat, NEW L,
         Climbs(I, K), Climbs(J, L), Within(I, K, J, L), Within(J, L, I, K)
  PROVE  I = J /\ \A i \in I : K[i] = L[i]
<1> DEFINE S == {i \in I \cup J : ~(i \in I /\ i \in J /\ K[i] = L[i])}
<1> SUFFICES ASSUME S # {} PROVE FALSE
  OBVIOUS
<1>1. PICK m \in S : \A k \in S : m <= k
  <2>1. S \in SUBSET Nat
    OBVIOUS
  <2> HIDE DEF S
  <2> QED
    BY <2>1, LeastMember
<1>2. m \in Nat /\ (m \in I \/ m \in J) /\ ~(m \in I /\ m \in J /\ K[m] = L[m])
  OBVIOUS
<1>3. \A k \in Nat : k < m => k \notin S
  BY <1>1, <1>2
<1>4. /\ \A k \in J : k < m => k \in I /\ K[k] = L[k]
      /\ \A k \in I : k < m => k \in J /\ L[k] = K[k]
  BY <1>3
<1> HIDE DEF S
<1>a. /\ I \in SUBSET Nat /\ Climbs(I, K) /\ Within(I, K, J, L)
      /\ J \in SUBSET Nat /\ Climbs(J, L) /\ Within(J, L, I, K)
  OBVIOUS
<1>5. m \in I => m \in J /\ \E j \in J : m <= j /\ K[m] = L[j]
  <2> SUFFICES ASSUME m \in I PROVE m \in J /\ \E j \in J : m <= j /\ K[m] = L[j]
    OBVIOUS
  <2>1. m \in I
    OBVIOUS
  <2> QED
    BY ONLY <2>1, <1>a, <1>4, FoundLater
<1>6. m \in J => m \in I /\ \E i \in I : m <= i /\ L[m] = K[i]
  <2> SUFFICES ASSUME m \in J PROVE m \in I /\ \E i \in I : m <= i /\ L[m] = K[i]
    OBVIOUS
  <2>1. m \in J
    OBVIOUS
  <2> QED
    BY ONLY <2>1, <1>a, <1>4, FoundLater
<1>7. PICK j \in J : m <= j /\ K[m] = L[j]
  BY <1>2, <1>5, <1>6
<1>8. PICK i \in I : m <= i /\ L[m] = K[i]
  BY <1>2, <1>5, <1>6
<1>9. m \in I /\ m \in J /\ K[m] # L[m] /\ m # j /\ m # i
  BY <1>2, <1>5, <1>6, <1>7, <1>8
<1>10. m < j /\ m < i
  BY <1>2, <1>7, <1>8, <1>9
<1>11. BytesLess(L[m], K[m]) /\ BytesLess(K[m], L[m]) /\ K[m] \in Bytes /\ L[m] \in Bytes
  BY <1>7, <1>8, <1>9, <1>10 DEF Climbs, Within
<1> QED
  BY <1>11, BytesLessTransitive, NeverBeforeItself

\* Values that are the same bytes have the same bytes as keys.
LEMMA SamePart ==
  ASSUME NEW d, NEW w, Marked(d, w), NEW p \in DOMAIN w,
         NEW e, NEW x, Marked(e, x), NEW q \in DOMAIN x,
         SameValueBytes(d, w, p, e, x, q)
  PROVE  Part(d, p, w[p].end) = Part(e, q, x[q].end)
<1> DEFINE s == Part(d, p, w[p].end)
           t == Part(e, q, x[q].end)
           n == w[p].end - p
<1>1. /\ p \in Nat /\ w[p].end \in Nat /\ p <= w[p].end /\ w[p].end <= Len(d) /\ d \in Bytes
      /\ q \in Nat /\ x[q].end \in Nat /\ q <= x[q].end /\ x[q].end <= Len(e) /\ e \in Bytes
  BY PlaceFacts DEF Marked
<1>2. s \in Seq(Byte) /\ Len(s) = n /\ \A k \in 1..n : s[k] = d[p + k]
  BY <1>1, PartFacts DEF Bytes
<1>3. /\ t \in Seq(Byte) /\ Len(t) = x[q].end - q
      /\ \A k \in 1..x[q].end - q : t[k] = e[q + k]
  BY <1>1, PartFacts DEF Bytes
<1>4. x[q].end - q = n /\ \A k \in 1..n : d[p + k] = e[q + k]
  BY DEF SameValueBytes, SameBytes
<1> HIDE DEF s, t, n
<1>5. \A k \in 1..Len(s) : s[k] = t[k]
  BY <1>2, <1>3, <1>4
<1>6. s = t
  BY <1>2, <1>3, <1>4, <1>5, SeqEqual
<1> QED
  BY <1>6 DEF s, t

\* The bytes of the keys of the map at p.
KeysOf(d, w, p) == [i \in KeyPlaces(w, p) |-> Part(d, w[p].kids[i], w[w[p].kids[i]].end)]

\* A place in a map is that of a key or of the value after it.
LEMMA KeyOrValue ==
  ASSUME NEW n \in Nat, NEW j \in 1..2 * n
  PROVE  /\ j % 2 = 1 \/ (j - 1 \in 1..2 * n /\ (j - 1) % 2 = 1)
         /\ n # 0 => 2 * n - 1 \in 1..2 * n /\ (2 * n - 1) % 2 = 1
         /\ j % 2 = 1 => j + 1 \in 1..2 * n
OBVIOUS

\* The keys of a map are in ascending order.
LEMMA KeysClimb ==
  ASSUME NEW d, NEW w, Marked(d, w), NEW p \in DOMAIN w, MajorOf(d, p) = 5
  PROVE  /\ KeyPlaces(w, p) \in SUBSET Nat
         /\ Climbs(KeyPlaces(w, p), KeysOf(d, w, p))
         /\ \A i \in KeyPlaces(w, p) : KeysOf(d, w, p)[i] \in Bytes
<1>1. Len(w[p].kids) \in Nat /\ \A j \in 1..Len(w[p].kids) : w[p].kids[j] \in DOMAIN w
  BY KidsFacts
<1>2. SortedKeys(d, w, p)
  BY PlaceFacts DEF RightContent
<1>3. KeyPlaces(w, p) \in SUBSET Nat
  BY <1>1 DEF KeyPlaces
<1>4. Climbs(KeyPlaces(w, p), KeysOf(d, w, p))
  BY <1>2 DEF Climbs, KeysOf, KeyPlaces, SortedKeys
<1>5. ASSUME NEW i \in KeyPlaces(w, p) PROVE KeysOf(d, w, p)[i] \in Bytes
  <2>1. w[p].kids[i] \in DOMAIN w
    BY <1>1 DEF KeyPlaces
  <2> DEFINE c == w[p].kids[i]
  <2>2. c \in Nat /\ w[c].end \in Nat /\ c <= w[c].end /\ w[c].end <= Len(d) /\ d \in Bytes
    BY <2>1, PlaceFacts DEF Marked
  <2>3. Part(d, c, w[c].end) \in Bytes
    BY <2>2, PartFacts
  <2> QED
    BY <2>3 DEF KeysOf
<1> QED
  BY <1>3, <1>4, <1>5

\* The entries of two maps that hold the same value pair up place by place.
LEMMA EntriesPair ==
  ASSUME NEW d, NEW w, Marked(d, w), NEW p \in DOMAIN w,
         NEW e, NEW x, Marked(e, x), NEW q \in DOMAIN x,
         NEW R, Alike(d, w, p, e, x, q, R), MajorOf(d, p) = 5,
         \A i \in 1..Len(w[p].kids), j \in 1..Len(x[q].kids) : SameKid(w, p, i, x, q, j, R) =>
            SameValueBytes(d, w, w[p].kids[i], e, x, x[q].kids[j])
  PROVE  /\ Len(w[p].kids) = Len(x[q].kids)
         /\ \A j \in 1..Len(w[p].kids) : SameKid(w, p, j, x, q, j, R)
<1> DEFINE I == KeyPlaces(w, p)
           J == KeyPlaces(x, q)
           K == KeysOf(d, w, p)
           L == KeysOf(e, x, q)
           m == ArgOf(d, p)
           n == ArgOf(e, q)
<1>1. MajorOf(e, q) = 5
  BY DEF Alike
<1>2. /\ Len(w[p].kids) = 2 * m /\ m \in Nat
      /\ Len(x[q].kids) = 2 * n /\ n \in Nat
      /\ \A i \in 1..Len(w[p].kids) : w[p].kids[i] \in DOMAIN w
      /\ \A j \in 1..Len(x[q].kids) : x[q].kids[j] \in DOMAIN x
  BY <1>1, KidsFacts DEF SlotsOf
<1>3. /\ I \in SUBSET Nat /\ Climbs(I, K) /\ \A i \in I : K[i] \in Bytes
      /\ J \in SUBSET Nat /\ Climbs(J, L) /\ \A j \in J : L[j] \in Bytes
  BY <1>1, KeysClimb
<1>4. /\ \A i \in I : i \in 1..Len(w[p].kids) /\ i % 2 = 1
      /\ \A j \in J : j \in 1..Len(x[q].kids) /\ j % 2 = 1
      /\ \A i \in 1..Len(w[p].kids) : i % 2 = 1 => i \in I
      /\ \A j \in 1..Len(x[q].kids) : j % 2 = 1 => j \in J
  BY DEF KeyPlaces
<1>5. ASSUME NEW i \in I, NEW j \in J, SameKid(w, p, i, x, q, j, R)
      PROVE  K[i] = L[j]
  <2>1. SameValueBytes(d, w, w[p].kids[i], e, x, x[q].kids[j])
    BY <1>4, <1>5
  <2>2. w[p].kids[i] \in DOMAIN w /\ x[q].kids[j] \in DOMAIN x
    BY <1>2, <1>4
  <2>3. Part(d, w[p].kids[i], w[w[p].kids[i]].end) = Part(e, x[q].kids[j], x[x[q].kids[j]].end)
    BY <2>1, <2>2, SamePart
  <2> QED
    BY <2>3 DEF KeysOf
<1>6. /\ \A i \in I : \E j \in J : SameEntry(w, p, i, x, q, j, R)
      /\ \A j \in J : \E i \in I : SameEntry(w, p, i, x, q, j, R)
  BY DEF Alike
<1> HIDE DEF I, J, K, L, m, n
<1>7. /\ \A i \in I : \E j \in J : SameEntry(w, p, i, x, q, j, R) /\ K[i] = L[j]
      /\ \A j \in J : \E i \in I : SameEntry(w, p, i, x, q, j, R) /\ K[i] = L[j]
  BY <1>5, <1>6 DEF SameEntry
<1>8. /\ \A i \in I, j \in J : i <= j => i \in J
      /\ \A j \in J, i \in I : j <= i => j \in I
  <2>1. \A i \in I : i \in Nat /\ i >= 1 /\ i <= 2 * m /\ i % 2 = 1
    BY ONLY <1>2, <1>4
  <2>2. \A j \in J : j \in Nat /\ j >= 1 /\ j <= 2 * n /\ j % 2 = 1
    BY ONLY <1>2, <1>4
  <2>3. ASSUME NEW i \in I, NEW j \in J, i <= j PROVE i \in J
    <3>1. i \in 1..2 * n /\ i % 2 = 1
      BY ONLY <1>2, <2>1, <2>2, <2>3
    <3> QED
      BY ONLY <1>2, <1>4, <3>1
  <2>4. ASSUME NEW i \in I, NEW j \in J, j <= i PROVE j \in I
    <3>1. j \in 1..2 * m /\ j % 2 = 1
      BY ONLY <1>2, <2>1, <2>2, <2>4
    <3> QED
      BY ONLY <1>2, <1>4, <3>1
  <2> QED
    BY ONLY <2>3, <2>4
<1>9. Within(I, K, J, L) /\ Within(J, L, I, K)
  <2>1. /\ \A i \in I : K[i] \in Bytes /\ \E j \in J : K[i] = L[j]
        /\ \A j \in J : L[j] \in Bytes /\ \E i \in I : L[j] = K[i]
    BY ONLY <1>3, <1>7
  <2> QED
    BY ONLY <1>8, <2>1 DEF Within
<1>10. I = J /\ \A i \in I : K[i] = L[i]
  BY ONLY <1>3, <1>9, OneOrder
<1>11. ASSUME NEW i \in I PROVE SameEntry(w, p, i, x, q, i, R)
  <2>1. PICK j \in J : SameEntry(w, p, i, x, q, j, R) /\ K[i] = L[j]
    BY ONLY <1>7
  <2>2. i \in J /\ L[i] = L[j] /\ i \in Nat /\ j \in Nat /\ L[j] \in Bytes
    BY ONLY <1>3, <1>10, <2>1
  <2>3. ~(i < j) /\ ~(j < i)
    BY ONLY <1>3, <2>2, NeverBeforeItself DEF Climbs
  <2>4. i = j
    BY ONLY <2>2, <2>3
  <2> QED
    BY <2>1, <2>4
<1>12. m = n
  <2>1. ASSUME m < n PROVE FALSE
    <3>1. 2 * n - 1 \in 1..2 * n /\ (2 * n - 1) % 2 = 1
      <4>1. n # 0 /\ 1 \in 1..2 * n
        BY ONLY <1>2, <2>1
      <4> QED
        BY ONLY <1>2, <4>1, KeyOrValue
    <3>2. 2 * n - 1 \in J
      BY ONLY <1>2, <1>4, <3>1
    <3>3. 2 * n - 1 <= 2 * m
      BY ONLY <1>2, <1>4, <1>10, <3>2
    <3> QED
      BY ONLY <1>2, <2>1, <3>3
  <2>2. ASSUME n < m PROVE FALSE
    <3>1. 2 * m - 1 \in 1..2 * m /\ (2 * m - 1) % 2 = 1
      <4>1. m # 0 /\ 1 \in 1..2 * m
        BY ONLY <1>2, <2>2
      <4> QED
        BY ONLY <1>2, <4>1, KeyOrValue
    <3>2. 2 * m - 1 \in I
      BY ONLY <1>2, <1>4, <3>1
    <3>3. 2 * m - 1 <= 2 * n
      BY ONLY <1>2, <1>4, <1>10, <3>2
    <3> QED
      BY ONLY <1>2, <2>2, <3>3
  <2> QED
    BY ONLY <1>2, <2>1, <2>2
<1>13. ASSUME NEW j \in 1..Len(w[p].kids) PROVE SameKid(w, p, j, x, q, j, R)
  <2>1. j \in 1..2 * m /\ m \in Nat
    BY ONLY <1>2
  <2>2. j % 2 = 1 \/ (j - 1 \in 1..2 * m /\ (j - 1) % 2 = 1)
    BY ONLY <2>1, KeyOrValue
  <2>3. CASE j % 2 = 1
    <3>1. SameEntry(w, p, j, x, q, j, R)
      BY ONLY <1>4, <1>11, <2>3
    <3> QED
      BY ONLY <3>1 DEF SameEntry
  <2>4. CASE j - 1 \in 1..2 * m /\ (j - 1) % 2 = 1
    <3>1. SameEntry(w, p, j - 1, x, q, j - 1, R)
      BY ONLY <1>2, <1>4, <1>11, <2>4
    <3>2. j - 1 + 1 = j
      BY ONLY <2>1
    <3> QED
      BY ONLY <3>1, <3>2 DEF SameEntry
  <2> QED
    BY ONLY <2>2, <2>3, <2>4
<1> QED
  BY ONLY <1>2, <1>12, <1>13
-----------------------------------------------------------------------------
(***************************************************************************)
(* The whole: by the least height at which related values could differ.    *)
(***************************************************************************)
\* Related values are the same bytes when their related elements are.
LEMMA NodeMatch ==
  ASSUME NEW d, NEW w, Marked(d, w), NEW p \in DOMAIN w,
         NEW e, NEW x, Marked(e, x), NEW q \in DOMAIN x,
         NEW R, Alike(d, w, p, e, x, q, R),
         \A i \in DOMAIN w, j \in DOMAIN x :
            <<i, j>> \in R /\ w[i].height < w[p].height => SameValueBytes(d, w, i, e, x, j)
  PROVE  SameValueBytes(d, w, p, e, x, q)
<1>1. MajorOf(d, p) \in {0, 1, 7} \/ MajorOf(d, p) \in {2, 3} \/ MajorOf(d, p) \in {4, 5}
  BY PlaceFacts
<1>2. CASE MajorOf(d, p) \in {0, 1, 7}
  BY <1>2, LeafMatch
<1>3. CASE MajorOf(d, p) \in {2, 3}
  BY <1>3, StringMatch
<1>4. CASE MajorOf(d, p) \in {4, 5}
  <2>1. MajorOf(e, q) = MajorOf(d, p)
    BY DEF Alike
  <2>2. /\ \A i \in 1..Len(w[p].kids) :
              w[p].kids[i] \in DOMAIN w /\ w[w[p].kids[i]].height < w[p].height
        /\ \A j \in 1..Len(x[q].kids) : x[q].kids[j] \in DOMAIN x
    BY <1>4, <2>1, KidsFacts
  <2>3. \A i \in 1..Len(w[p].kids), j \in 1..Len(x[q].kids) : SameKid(w, p, i, x, q, j, R) =>
           SameValueBytes(d, w, w[p].kids[i], e, x, x[q].kids[j])
    BY <2>2 DEF SameKid
  <2>4. /\ Len(w[p].kids) = Len(x[q].kids)
        /\ \A j \in 1..Len(w[p].kids) : SameKid(w, p, j, x, q, j, R)
    <3>1. CASE MajorOf(d, p) = 4
      BY <3>1 DEF Alike
    <3>2. CASE MajorOf(d, p) = 5
      BY <2>3, <3>2, EntriesPair
    <3> QED
      BY <1>4, <3>1, <3>2
  <2>5. \A j \in 1..Len(w[p].kids) : SameValueBytes(d, w, w[p].kids[j], e, x, x[q].kids[j])
    BY <2>3, <2>4
  <2> QED
    BY <1>4, <2>1, <2>4, <2>5, ContainerMatch
<1> QED
  BY <1>1, <1>2, <1>3, <1>4

\* Related values are the same bytes.
LEMMA RelatedMatch ==
  ASSUME NEW d, NEW w, Marked(d, w), NEW e, NEW x, Marked(e, x),
         NEW R, Equates(d, w, e, x, R)
  PROVE  \A p \in DOMAIN w, q \in DOMAIN x :
            <<p, q>> \in R => SameValueBytes(d, w, p, e, x, q)
<1> DEFINE Off(p, q) == <<p, q>> \in R /\ ~SameValueBytes(d, w, p, e, x, q)
           H == {h \in Nat : \E p \in DOMAIN w, q \in DOMAIN x : Off(p, q) /\ h = w[p].height}
<1> SUFFICES ASSUME H # {} PROVE FALSE
  BY PlaceFacts
<1>1. PICK h \in H : \A k \in H : h <= k
  <2>1. H \in SUBSET Nat
    OBVIOUS
  <2> HIDE DEF H
  <2> QED
    BY <2>1, LeastMember
<1>2. PICK p \in DOMAIN w, q \in DOMAIN x : Off(p, q) /\ h = w[p].height
  OBVIOUS
<1>3. ASSUME NEW i \in DOMAIN w, NEW j \in DOMAIN x, <<i, j>> \in R, w[i].height < w[p].height
      PROVE  SameValueBytes(d, w, i, e, x, j)
  <2>1. SUFFICES ASSUME Off(i, j) PROVE FALSE
    BY <1>3
  <2>2. w[i].height \in Nat /\ w[p].height \in Nat
    BY PlaceFacts
  <2>3. w[i].height \in H
    BY <2>1, <2>2
  <2>4. w[p].height <= w[i].height
    BY <1>1, <1>2, <2>3
  <2> QED
    BY ONLY <1>3, <2>2, <2>4
<1>4. Alike(d, w, p, e, x, q, R)
  BY <1>2 DEF Equates
<1> HIDE DEF H
<1>5. SameValueBytes(d, w, p, e, x, q)
  BY <1>3, <1>4, NodeMatch
<1> QED
  BY <1>2, <1>5

\* Two artifacts that hold the same value are the same bytes: whatever order
\* its maps were built in, a value has one form that Decode accepts, which is
\* what its content identifier and its signature rest on.
THEOREM OneArtifactPerValue ==
  ASSUME NEW d \in Bytes, NEW e \in Bytes, SameValue(d, e)
  PROVE  d = e
<1>1. PICK w \in Markings(d), x \in Markings(e) :
        /\ Parse(d, w) /\ Parse(e, x)
        /\ \E R \in SUBSET ((DOMAIN w) \X DOMAIN x) : Equates(d, w, e, x, R)
  BY DEF SameValue
<1>2. PICK R : Equates(d, w, e, x, R)
  BY <1>1
<1>3. Marked(d, w) /\ Marked(e, x)
  BY <1>1 DEF Marked
<1>4. 0 \in DOMAIN w /\ 0 \in DOMAIN x /\ w[0].end = Len(d) /\ x[0].end = Len(e) /\ <<0, 0>> \in R
  BY <1>1, <1>2 DEF Parse, Equates
<1>5. SameValueBytes(d, w, 0, e, x, 0)
  BY <1>2, <1>3, <1>4, RelatedMatch
<1>6. d \in Seq(Byte) /\ e \in Seq(Byte) /\ Len(d) \in Nat /\ Len(e) \in Nat
  BY LenProperties DEF Bytes
<1>7. Len(d) - 0 = Len(e) - 0 /\ \A k \in 1..Len(d) - 0 : d[0 + k] = e[0 + k]
  BY <1>4, <1>5 DEF SameValueBytes, SameBytes
<1>8. Len(d) = Len(e) /\ \A k \in 1..Len(d) : d[k] = e[k]
  BY ONLY <1>6, <1>7
<1> QED
  BY <1>6, <1>8, SeqEqual

\* The premise is no empty one: an artifact holds the value it holds.
LEMMA SameAsItself ==
  ASSUME NEW d \in Bytes, IsArtifact(d)
  PROVE  SameValue(d, d)
<1>1. PICK w \in Markings(d) : Parse(d, w)
  BY DEF IsArtifact
<1>2. Marked(d, w)
  BY <1>1 DEF Marked
<1> DEFINE R == {<<p, p>> : p \in DOMAIN w}
<1>3. R \in SUBSET ((DOMAIN w) \X DOMAIN w) /\ \A p \in DOMAIN w : <<p, p>> \in R
  OBVIOUS
<1>4. \A p, q : <<p, q>> \in R => p = q
  OBVIOUS
<1> HIDE DEF R
<1>5. ASSUME NEW p \in DOMAIN w PROVE Alike(d, w, p, d, w, p, R)
  <2>1. ASSUME MajorOf(d, p) \in {4, 5}, NEW j \in 1..Len(w[p].kids)
        PROVE  SameKid(w, p, j, w, p, j, R)
    BY <1>2, <1>3, <2>1, KidsFacts DEF SameKid
  <2>2. ASSUME MajorOf(d, p) = 5, NEW i \in KeyPlaces(w, p)
        PROVE  SameEntry(w, p, i, w, p, i, R)
    <3>1. Len(w[p].kids) = 2 * ArgOf(d, p) /\ ArgOf(d, p) \in Nat
      BY <1>2, <2>2, KidsFacts DEF SlotsOf
    <3>2. i \in 1..Len(w[p].kids) /\ i % 2 = 1
      BY DEF KeyPlaces
    <3>3. i + 1 \in 1..Len(w[p].kids)
      BY ONLY <3>1, <3>2, KeyOrValue
    <3> QED
      BY <2>1, <2>2, <3>2, <3>3 DEF SameEntry
  <2> QED
    BY <2>1, <2>2 DEF Alike
<1>6. Equates(d, w, d, w, R)
  BY <1>1, <1>3, <1>4, <1>5 DEF Equates, Parse
<1> QED
  BY <1>1, <1>3, <1>6 DEF SameValue

-----------------------------------------------------------------------------
(***************************************************************************)
(* The encoder's heads: what encoder.head writes, readArg reads back, and  *)
(* the heads of an artifact are those that encoder.head writes.            *)
(***************************************************************************)
\* Quotient and remainder are unique.
LEMMA DivisionUnique ==
  ASSUME NEW m \in Nat \ {0}, NEW x \in Nat, NEW y \in Nat, NEW c \in 0 .. m - 1,
         NEW f \in 0 .. m - 1, x * m + c = y * m + f
  PROVE  x = y /\ c = f
<1>1. /\ (x + 1) * m = x * m + m /\ (y + 1) * m = y * m + m
      /\ x * m \in Nat /\ y * m \in Nat
  OBVIOUS
<1>2. ASSUME x < y PROVE FALSE
  <2>1. (x + 1) * m <= y * m
    BY <1>2, Monotone
  <2> QED
    BY <1>1, <2>1
<1>3. ASSUME y < x PROVE FALSE
  <2>1. (y + 1) * m <= x * m
    BY <1>3, Monotone
  <2> QED
    BY <1>1, <2>1
<1>4. x = y
  BY <1>2, <1>3
<1>5. c = f
  BY <1>1, <1>4
<1> QED
  BY <1>4, <1>5

\* The quotient and the remainder of a number that was put together from them.
LEMMA Quotient ==
  ASSUME NEW m \in Nat \ {0}, NEW x \in Nat, NEW c \in 0 .. m - 1
  PROVE  (x * m + c) \div m = x /\ (x * m + c) % m = c
<1> DEFINE n == x * m + c
           y == n \div m
           f == n % m
<1>1. n \in Nat
  OBVIOUS
<1>2. n = m * y + f /\ y \in Nat /\ f \in 0 .. m - 1
  <2> HIDE DEF n
  <2> QED
    BY <1>1, Division
<1> HIDE DEF y, f
<1>3. m * y = y * m
  BY <1>2
<1>4. x * m + c = y * m + f
  BY <1>2, <1>3
<1>5. x = y /\ c = f
  BY <1>2, <1>4, DivisionUnique
<1> QED
  BY <1>5 DEF y, f

\* Dividing twice is dividing by the product.
LEMMA DivideTwice ==
  ASSUME NEW v \in Nat, NEW P \in Nat \ {0}, NEW m \in Nat \ {0}
  PROVE  (v \div P) \div m = v \div (m * P)
<1> DEFINE q == v \div P
           r == v % P
           s == q \div m
           t == q % m
<1>1. v = P * q + r /\ q \in Nat /\ r \in 0 .. P - 1
  BY Division
<1> HIDE DEF q, r
<1>2. q = m * s + t /\ s \in Nat /\ t \in 0 .. m - 1
  BY <1>1, Division
<1> HIDE DEF s, t
<1> DEFINE c == t * P + r
           M == m * P
<1>3. M \in Nat \ {0}
  <2>1. \A i, j \in Nat \ {0} : i * j \in Nat \ {0}
    OBVIOUS
  <2> QED
    BY <2>1
<1>4. c \in 0 .. M - 1
  <2>1. (t + 1) * P <= m * P
    BY <1>2, Monotone
  <2>2. (t + 1) * P = t * P + P /\ t * P \in Nat
    BY <1>2
  <2> QED
    BY <1>1, <2>1, <2>2
<1>5. v = s * M + c
  <2>1. P * (m * s + t) = s * (m * P) + t * P
    BY <1>2
  <2> QED
    BY <1>1, <1>2, <2>1
<1>6. v \div M = s
  <2> HIDE DEF M, c
  <2> QED
    BY <1>2, <1>3, <1>4, <1>5, Quotient
<1> QED
  BY <1>6 DEF q, s

\* The digits of a number that fits make the number.
LEMMA DigitsMakeIt ==
  ASSUME NEW w \in 0..Widths[4], NEW v \in Nat, v < Radix ^ w
  PROVE  /\ Digits(v, w) \in Bytes /\ Len(Digits(v, w)) = w
         /\ Uint(Digits(v, w)) = v
<1> DEFINE s == Digits(v, w)
<1>1. Widths[4] \in 1..8 /\ w \in Nat /\ w <= 8 /\ Radix \in Nat \ {0}
  BY RadixType, WidthsAssumption
<1>2. \A n \in 0..Widths[4] : Radix ^ n \in Nat \ {0} /\ v \div Radix ^ n \in Nat
  <2> TAKE n \in 0..Widths[4]
  <2>1. Radix ^ n \in Nat \ {0}
    BY PowerType
  <2> QED
    BY <2>1, DivFacts
<1>3. s \in Seq(Byte) /\ Len(s) = w
  <2>1. \A i \in 1..w : (v \div Radix ^ (w - i)) % Radix \in Byte
    <3> TAKE i \in 1..w
    <3>1. w - i \in 0..Widths[4]
      BY <1>1
    <3>2. v \div Radix ^ (w - i) \in Int
      BY <1>2, <3>1
    <3> HIDE DEF s
    <3> QED
      BY <1>1, <3>2, ModFacts DEF Byte
  <2>2. s \in [1..w -> Byte]
    BY <2>1 DEF Digits
  <2> HIDE DEF s
  <2> QED
    BY <1>1, <2>2, IsSequence
<1>4. ASSUME NEW j \in 1..8, j <= w PROVE Digit(s, j) = (v \div Radix ^ (j - 1)) % Radix
  <2>1. w + 1 - j \in 1..w /\ w - (w + 1 - j) = j - 1
    BY <1>1, <1>4
  <2>2. Digit(s, j) = s[w + 1 - j]
    BY <1>3, <1>4 DEF Digit
  <2>3. s[w + 1 - j] = (v \div Radix ^ (w - (w + 1 - j))) % Radix
    BY <2>1 DEF Digits
  <2> QED
    BY <2>1, <2>2, <2>3
<1>5. ASSUME NEW j \in 1..8, ~(j <= w) PROVE Digit(s, j) = 0
  BY <1>3, <1>5 DEF Digit
\* What has been read when the j-th digit from the end has been.
<1> DEFINE Read(j, h) == h \in Nat /\ h = IF j <= w THEN v \div Radix ^ (j - 1) ELSE 0
<1> HIDE DEF s
<1>6. ASSUME NEW j \in 1..8, NEW h, Read(j + 1, h) PROVE Read(j, Joined(h, Digit(s, j)))
  <2>1. CASE ~(j <= w)
    <3>1. h = 0 /\ Digit(s, j) = 0
      BY <1>1, <1>5, <1>6, <2>1
    <3> QED
      BY <1>1, <2>1, <3>1 DEF Joined
  <2>2. CASE j <= w
    <3> DEFINE P == Radix ^ (j - 1)
               q == v \div P
    <3>1. j - 1 \in 0 .. Widths[4] - 1 /\ j - 1 \in 0..Widths[4] /\ j - 1 + 1 = j
      BY <1>1, <2>2
    <3>2. P \in Nat \ {0} /\ q \in Nat /\ Radix ^ j = Radix * P
      BY <1>2, <3>1, PowerAssumption
    <3>3. Digit(s, j) = q % Radix
      BY <1>4, <2>2
    <3> HIDE DEF q
    <3>4. q = Radix * (q \div Radix) + (q % Radix) /\ q \div Radix \in Nat
      BY <1>1, <3>2, Division
    <3>5. h = q \div Radix
      <4>1. q \div Radix = v \div Radix ^ j
        <5>1. P \in Nat \ {0} /\ Radix \in Nat \ {0}
          BY <1>1, <3>2
        <5> HIDE DEF P
        <5>2. (v \div P) \div Radix = v \div (Radix * P)
          BY ONLY <5>1, v \in Nat, DivideTwice
        <5> QED
          BY <3>2, <5>2 DEF q
      <4>2. CASE j = w
        <5>1. h = 0
          BY <1>1, <1>6, <4>2
        <5>2. v < 1 * Radix ^ j /\ Radix ^ j \in Nat \ {0}
          <6>1. Radix ^ j \in Nat \ {0} /\ v < Radix ^ j
            BY <1>2, <4>2
          <6> QED
            BY <6>1
        <5>3. v \div Radix ^ j = 0
          <6> DEFINE M == Radix ^ j
          <6>1. M \in Nat \ {0} /\ v \in 0 .. M - 1 /\ 0 * M + v = v
            BY <5>2
          <6> HIDE DEF M
          <6>2. (0 * M + v) \div M = 0
            BY <6>1, Quotient
          <6> QED
            BY <6>1, <6>2 DEF M
        <5> QED
          BY <4>1, <5>1, <5>3
      <4>3. CASE j # w
        <5>1. j + 1 <= w /\ j + 1 - 1 = j
          BY <1>1, <2>2, <4>3
        <5>2. h = v \div Radix ^ (j + 1 - 1)
          BY <1>6, <5>1
        <5> QED
          BY <4>1, <5>1, <5>2
      <4> QED
        BY <4>2, <4>3
    <3>6. Joined(h, q % Radix) = q
      <4>1. Radix * (q \div Radix) = (q \div Radix) * Radix
        BY <1>1, <3>4
      <4> QED
        BY <3>4, <3>5, <4>1 DEF Joined
    <3> QED
      BY <2>2, <3>2, <3>3, <3>6 DEF q
  <2> QED
    BY <2>1, <2>2
<1> DEFINE h8 == Digit(s, 8)
           h7 == Joined(h8, Digit(s, 7))
           h6 == Joined(h7, Digit(s, 6))
           h5 == Joined(h6, Digit(s, 5))
           h4 == Joined(h5, Digit(s, 4))
           h3 == Joined(h4, Digit(s, 3))
           h2 == Joined(h3, Digit(s, 2))
           h1 == Joined(h2, Digit(s, 1))
<1>7. Uint(s) = h1
  BY DEF Uint, Digit, Joined
<1>8. Read(8, h8)
  <2>1. Read(8 + 1, 0)
    BY <1>1
  <2>2. Digit(s, 8) \in Nat
    BY <1>3, DigitType DEF Bytes
  <2>3. Joined(0, Digit(s, 8)) = Digit(s, 8)
    BY <2>2, RadixType DEF Joined
  <2> HIDE DEF Read
  <2> QED
    BY <1>6, <2>1, <2>3
<1> HIDE DEF Read, h8
<1>9. Read(7, h7)
  BY <1>6, <1>8
<1> HIDE DEF h7
<1>10. Read(6, h6)
  BY <1>6, <1>9
<1> HIDE DEF h6
<1>11. Read(5, h5)
  BY <1>6, <1>10
<1> HIDE DEF h5
<1>12. Read(4, h4)
  BY <1>6, <1>11
<1> HIDE DEF h4
<1>13. Read(3, h3)
  BY <1>6, <1>12
<1> HIDE DEF h3
<1>14. Read(2, h2)
  BY <1>6, <1>13
<1> HIDE DEF h2
<1>15. Read(1, h1)
  BY <1>6, <1>14
<1> HIDE DEF h1
<1>16. h1 = v
  <2>1. CASE 1 <= w
    <3>1. h1 = v \div Radix ^ (1 - 1) /\ 1 - 1 = 0 /\ Radix ^ 0 = 1
      BY <1>15, <2>1, PowerAssumption DEF Read
    <3>2. v \div 1 = v
      OBVIOUS
    <3> QED
      BY <3>1, <3>2
  <2>2. CASE w = 0
    <3>1. v = 0
      BY <2>2, PowerAssumption
    <3>2. h1 = 0
      BY <1>15, <2>2 DEF Read
    <3> QED
      BY <3>1, <3>2
  <2> QED
    BY <1>1, <2>1, <2>2
<1> QED
  BY <1>3, <1>7, <1>16 DEF s, Bytes

\* The form that encoder.head takes is the one whose range holds the argument.
LEMMA FormFits ==
  ASSUME NEW arg \in Nat, arg < Word
  PROVE  /\ EncForm(arg) \in 0 .. Imm + 3
         /\ Least(EncForm(arg)) <= arg /\ arg < Over(EncForm(arg))
         /\ EncForm(arg) < Imm => arg = EncForm(arg)
<1> DEFINE A == Radix ^ Widths[1]
           B == Radix ^ Widths[2]
           C == Radix ^ Widths[3]
           D == Radix ^ Widths[4]
<1>1. Imm \in Nat /\ A \in Nat /\ B \in Nat /\ C \in Nat /\ D \in Nat /\ arg < D
  BY ImmAssumption, PowerType DEF Word
<1>2. Over(Imm) = A /\ Over(Imm + 1) = B /\ Over(Imm + 2) = C /\ Over(Imm + 3) = D
  <2>1. \A i \in 1..4 : Over(Imm + (i - 1)) = Radix ^ Widths[i]
    <3> TAKE i \in 1..4
    <3> DEFINE a == Imm + (i - 1)
    <3>1. a \in Imm .. Imm + 3 /\ a - Imm + 1 = i /\ ~(a < Imm)
      BY ImmAssumption
    <3> HIDE DEF a
    <3>2. Width(a) = Widths[i]
      BY <3>1 DEF Width
    <3>3. Over(a) = Radix ^ Widths[i]
      BY <3>1, <3>2 DEF Over
    <3> QED
      BY <3>3 DEF a
  <2>2. Imm + (1 - 1) = Imm /\ Imm + (2 - 1) = Imm + 1 /\ Imm + (3 - 1) = Imm + 2 /\ Imm + (4 - 1) = Imm + 3
    BY ImmAssumption
  <2>3. Over(Imm + (1 - 1)) = A /\ Over(Imm + (2 - 1)) = B /\ Over(Imm + (3 - 1)) = C /\ Over(Imm + (4 - 1)) = D
    BY <2>1
  <2> QED
    BY <2>2, <2>3
<1>3. Least(Imm) = Imm /\ Least(Imm + 1) = A /\ Least(Imm + 2) = B /\ Least(Imm + 3) = C
  BY ImmAssumption DEF Least
<1>4. Imm <= A /\ A <= B /\ B <= C
  <2>1. \A i \in 0 .. 3 : Imm + i \in Imm .. Imm + 3 /\ Imm + i \in 0 .. Imm + 3
    BY ImmAssumption
  <2>2. Over(Imm) <= Least(Imm + 2) /\ Over(Imm + 1) <= Least(Imm + 3)
    <3>1. Imm \in 0 .. Imm + 3 /\ Imm + 2 \in Imm .. Imm + 3 /\ Imm < Imm + 2
      BY ImmAssumption
    <3>2. Imm + 1 \in 0 .. Imm + 3 /\ Imm + 3 \in Imm .. Imm + 3 /\ Imm + 1 < Imm + 3
      BY ImmAssumption
    <3> QED
      BY <3>1, <3>2, FormsAscend
  <2>3. Imm <= A
    <3>1. 0 \in 0 .. Imm + 3 /\ Imm + 1 \in Imm .. Imm + 3 /\ 0 < Imm + 1 /\ 0 < Imm
      BY ImmAssumption
    <3>2. Over(0) <= Least(Imm + 1) /\ Over(0) = Imm
      BY <3>1, FormsAscend DEF Over
    <3> QED
      BY <1>3, <3>2
  <2> QED
    BY <1>2, <1>3, <2>2, <2>3
<1>5. EncForm(arg) = CASE arg < Imm          -> arg
                       [] Imm <= arg /\ arg < A -> Imm
                       [] A <= arg /\ arg < B   -> Imm + 1
                       [] B <= arg /\ arg < C   -> Imm + 2
                       [] OTHER                 -> Imm + 3
  BY DEF EncForm
<1> HIDE DEF A, B, C, D
<1>6. CASE arg < Imm
  <2>1. EncForm(arg) = arg
    BY <1>1, <1>4, <1>5, <1>6
  <2>2. Least(arg) = 0 /\ Over(arg) = Imm
    BY <1>1, <1>6 DEF Least, Over
  <2> QED
    BY <1>1, <1>6, <2>1, <2>2
<1>7. CASE Imm <= arg /\ arg < A
  <2>1. EncForm(arg) = Imm
    BY <1>1, <1>4, <1>5, <1>7
  <2> QED
    BY <1>1, <1>2, <1>3, <1>7, <2>1
<1>8. CASE A <= arg /\ arg < B
  <2>1. EncForm(arg) = Imm + 1
    BY <1>1, <1>4, <1>5, <1>8
  <2> QED
    BY <1>1, <1>2, <1>3, <1>8, <2>1
<1>9. CASE B <= arg /\ arg < C
  <2>1. EncForm(arg) = Imm + 2
    BY <1>1, <1>4, <1>5, <1>9
  <2> QED
    BY <1>1, <1>2, <1>3, <1>9, <2>1
<1>10. CASE C <= arg
  <2>1. EncForm(arg) = Imm + 3
    BY <1>1, <1>4, <1>5, <1>10
  <2> QED
    BY <1>1, <1>2, <1>3, <1>10, <2>1
<1> QED
  BY <1>1, <1>6, <1>7, <1>8, <1>9, <1>10

\* The argument of a form fills its width.
LEMMA FormWidth ==
  ASSUME NEW a \in 0 .. Imm + 3, NEW v \in Nat, v < Over(a), a < Imm => v = a
  PROVE  /\ Width(a) \in 0..Widths[4] /\ Width(a) \in 0..8
         /\ Width(a) = 0 <=> a < Imm
         /\ Width(a) # 0 => v < Radix ^ Width(a)
<1>1. CASE a < Imm
  <2>1. Width(a) = 0
    BY <1>1, ImmAssumption DEF Width
  <2> QED
    BY <1>1, <2>1, WidthsAssumption
<1>2. CASE ~(a < Imm)
  <2>1. a \in Imm .. Imm + 3 /\ a - Imm + 1 \in 1..4
    BY <1>2, ImmAssumption
  <2>2. Width(a) = Widths[a - Imm + 1]
    BY <2>1 DEF Width
  <2>3. Width(a) \in 1..8 /\ Width(a) <= Widths[4] /\ Widths[4] \in 1..8
    BY <2>1, <2>2, WidthsAssumption
  <2>4. Over(a) = Radix ^ Width(a)
    BY <1>2 DEF Over
  <2> QED
    BY <1>2, <2>3, <2>4
<1> QED
  BY <1>1, <1>2

\* A head byte is put together as it is taken apart.
LEMMA HeadSplit ==
  ASSUME NEW major \in 0..7, NEW a \in 0 .. Imm + 3
  PROVE  /\ HeadByte(major, a) \in Byte
         /\ Major(HeadByte(major, a)) = major /\ Ai(HeadByte(major, a)) = a
<1>1. AiCodes \in Nat \ {0} /\ a \in 0 .. AiCodes - 1 /\ major \in Nat /\ a \in Nat
  BY ImmAssumption DEF AiCodes
<1>2. Major(HeadByte(major, a)) = major /\ Ai(HeadByte(major, a)) = a
  BY <1>1, Quotient DEF HeadByte, Major, Ai
<1>3. HeadByte(major, a) \in Byte
  <2> DEFINE m == AiCodes
  <2>1. (major + 1) * m <= 8 * m
    BY <1>1, Monotone
  <2>2. (major + 1) * m = major * m + m /\ major * m \in Nat
    BY <1>1
  <2>3. major * m + a \in 0 .. 8 * m - 1
    <3> HIDE DEF m
    <3>1. m \in Nat /\ a \in 0 .. m - 1
      BY <1>1 DEF m
    <3> QED
      BY <2>1, <2>2, <3>1
  <2> QED
    BY <2>3 DEF HeadByte, Byte, Radix
<1> QED
  BY <1>2, <1>3

\* What encoder.head writes for a major type and an argument below 2^64 reads
\* back as that major type and that argument, and is the shortest head for it.
THEOREM HeadsReadBack ==
  ASSUME NEW major \in 0..7, NEW arg \in Nat, arg < Word
  PROVE  LET h == EncHead(major, arg)
         IN  /\ h \in Bytes /\ Len(h) = BodyOf(h, 0)
             /\ MajorOf(h, 0) = major /\ AiOf(h, 0) \in 0 .. Imm + 3
             /\ ArgOf(h, 0) = arg /\ Least(AiOf(h, 0)) <= ArgOf(h, 0)
<1> DEFINE a == EncForm(arg)
           s == Digits(arg, Width(a))
           h == EncHead(major, arg)
           f == <<HeadByte(major, a)>>
<1>1. /\ a \in 0 .. Imm + 3 /\ Least(a) <= arg /\ arg < Over(a)
      /\ a < Imm => arg = a
  BY FormFits
<1> HIDE DEF a
<1>2. /\ Width(a) \in 0..Widths[4] /\ Width(a) \in 0..8
      /\ Width(a) = 0 <=> a < Imm
      /\ Width(a) # 0 => arg < Radix ^ Width(a)
  BY <1>1, FormWidth
<1>3. s \in Seq(Byte) /\ Len(s) = Width(a) /\ (Width(a) # 0 => Uint(s) = arg)
  <2>1. CASE Width(a) = 0
    <3>1. s \in [1..0 -> Byte]
      BY <2>1 DEF Digits
    <3> HIDE DEF s
    <3> QED
      BY <2>1, <3>1, IsSequence
  <2>2. CASE Width(a) # 0
    BY <1>2, <2>2, DigitsMakeIt DEF Bytes
  <2> QED
    BY <2>1, <2>2
<1>4. HeadByte(major, a) \in Byte /\ Major(HeadByte(major, a)) = major /\ Ai(HeadByte(major, a)) = a
  BY <1>1, HeadSplit
<1>5. f \in Seq(Byte) /\ Len(f) = 1 /\ f[1] = HeadByte(major, a)
  BY <1>4
<1>6. h = f \o s
  BY DEF EncHead, a
<1> HIDE DEF s, f, h
<1>7. /\ h \in Seq(Byte) /\ Len(h) = 1 + Width(a) /\ h[1] = HeadByte(major, a)
      /\ \A k \in 1..Width(a) : h[1 + k] = s[k]
  <2>1. h \in Seq(Byte) /\ Len(h) = Len(f) + Len(s)
    BY <1>3, <1>5, <1>6, ConcatProperties
  <2>2. \A i \in 1..Len(f) + Len(s) : h[i] = IF i <= Len(f) THEN f[i] ELSE s[i - Len(f)]
    BY <1>3, <1>5, <1>6, ConcatProperties
  <2>3. \A k \in 1..Width(a) : h[1 + k] = s[k]
    <3> TAKE k \in 1..Width(a)
    <3>1. 1 + k \in 1..Len(f) + Len(s) /\ ~(1 + k <= Len(f)) /\ 1 + k - Len(f) = k
      BY <1>2, <1>3, <1>5
    <3> QED
      BY <2>2, <3>1
  <2> QED
    BY <1>2, <1>3, <1>5, <2>1, <2>2, <2>3
<1>8. MajorOf(h, 0) = major /\ AiOf(h, 0) = a /\ BodyOf(h, 0) = 1 + Width(a)
  <2>1. 0 + 1 = 1
    OBVIOUS
  <2>2. MajorOf(h, 0) = major /\ AiOf(h, 0) = a
    BY <1>4, <1>7, <2>1 DEF MajorOf, AiOf
  <2> QED
    BY <1>2, <2>1, <2>2 DEF BodyOf
<1>9. ArgOf(h, 0) = arg
  <2>1. CASE Width(a) = 0
    BY <1>1, <1>2, <1>8, <2>1 DEF ArgOf
  <2>2. CASE Width(a) # 0
    <3> DEFINE B == 1 + Width(a)
               t == Part(h, 1, B)
    <3>1. t \in Bytes /\ Len(t) = B - 1 /\ \A k \in 1..B - 1 : t[k] = h[1 + k]
      <4>1. 1 \in Nat /\ B \in Nat /\ 1 <= B /\ B <= Len(h) /\ h \in Bytes
        BY <1>2, <1>7 DEF Bytes
      <4> HIDE DEF B
      <4> QED
        BY <4>1, PartFacts
    <3>2. t = s
      <4> HIDE DEF t
      <4>1. t \in Seq(Byte) /\ Len(t) = Len(s)
        BY <1>2, <1>3, <3>1 DEF Bytes
      <4>2. \A k \in 1..Len(t) : t[k] = s[k]
        <5>1. B - 1 = Width(a) /\ Len(t) = Width(a)
          BY <1>2, <1>3, <4>1
        <5> HIDE DEF B
        <5> QED
          BY ONLY <1>7, <3>1, <5>1
      <4> QED
        BY <1>3, <4>1, <4>2, SeqEqual
    <3>3. ArgOf(h, 0) = Uint(t)
      <4>1. 0 + 1 = 1
        OBVIOUS
      <4> QED
        BY <1>8, <2>2, <4>1 DEF ArgOf
    <3> QED
      BY <1>3, <2>2, <3>2, <3>3
  <2> QED
    BY <2>1, <2>2
<1>10. /\ h \in Bytes /\ Len(h) = BodyOf(h, 0)
       /\ MajorOf(h, 0) = major /\ AiOf(h, 0) \in 0 .. Imm + 3
       /\ ArgOf(h, 0) = arg /\ Least(AiOf(h, 0)) <= ArgOf(h, 0)
  BY <1>1, <1>7, <1>8, <1>9 DEF Bytes
<1> QED
  BY <1>10 DEF h

\* Every argument is below 2^64.
LEMMA OverWord ==
  ASSUME NEW a \in 0 .. Imm + 3
  PROVE  Over(a) \in Nat /\ Word \in Nat /\ Over(a) <= Word
<1>1. Radix ^ Widths[4] \in Nat /\ Widths[4] \in 0..Widths[4]
  BY PowerType, WidthsAssumption
<1>2. CASE a < Imm
  <2>1. a \in 0 .. Imm + 3 /\ Imm + 3 \in Imm .. Imm + 3 /\ a < Imm + 3
    BY <1>2, ImmAssumption
  <2>2. Over(a) \in Nat /\ Over(a) <= Least(Imm + 3)
    BY <2>1, FormsAscend
  <2>3. Least(Imm + 3) = Radix ^ Widths[3]
    BY ImmAssumption DEF Least
  <2>4. Widths[3] \in 0..Widths[4] /\ Widths[3] <= Widths[4]
    BY WidthsAssumption
  <2>5. Radix ^ Widths[3] \in Nat /\ Radix ^ Widths[3] <= Radix ^ Widths[4]
    BY <1>1, <2>4, PowersAscend
  <2> QED
    BY <1>1, <2>2, <2>3, <2>5 DEF Word
<1>3. CASE ~(a < Imm)
  <2>1. a \in Imm .. Imm + 3 /\ a - Imm + 1 \in 1..4
    BY <1>3, ImmAssumption
  <2>2. Width(a) = Widths[a - Imm + 1]
    BY <2>1 DEF Width
  <2>3. Width(a) \in 0..Widths[4] /\ Width(a) <= Widths[4]
    BY <2>1, <2>2, WidthsAssumption
  <2>4. Radix ^ Width(a) \in Nat /\ Radix ^ Width(a) <= Radix ^ Widths[4]
    BY <1>1, <2>3, PowersAscend
  <2> QED
    BY <1>1, <1>3, <2>4 DEF Word, Over
<1> QED
  BY <1>2, <1>3

\* Each head in an artifact is the one that encoder.head writes for its major
\* type and argument: re-encoding what was decoded changes no head.
THEOREM HeadsReencode ==
  ASSUME NEW d, NEW w, Marked(d, w), NEW p \in DOMAIN w, MajorOf(d, p) # 7
  PROVE  Part(d, p, BodyOf(d, p)) = EncHead(MajorOf(d, p), ArgOf(d, p))
<1> DEFINE B == BodyOf(d, p)
           a == AiOf(d, p)
           arg == ArgOf(d, p)
           g == Part(d, p, B)
           h == EncHead(MajorOf(d, p), arg)
           C == BodyOf(h, 0)
<1>1. /\ p \in Nat /\ B \in Nat /\ B = p + 1 + Width(a) /\ d[p + 1] \in Byte /\ d \in Bytes
      /\ MajorOf(d, p) \in 0..7
  BY PlaceFacts DEF Marked
<1>2. /\ a \in 0 .. Imm + 3 /\ B <= Len(d) /\ arg \in Nat
      /\ Least(a) <= arg /\ arg < Over(a) /\ (a < Imm => arg = a)
  BY ArgRange
<1>3. arg < Word
  BY <1>2, OverWord
<1>4. /\ h \in Bytes /\ Len(h) = C /\ MajorOf(h, 0) = MajorOf(d, p)
      /\ AiOf(h, 0) \in 0 .. Imm + 3 /\ ArgOf(h, 0) = arg /\ Least(AiOf(h, 0)) <= ArgOf(h, 0)
  BY <1>1, <1>2, <1>3, HeadsReadBack
<1> HIDE DEF h, g, a, arg, B
<1>5. Width(a) \in 0..8 /\ Width(AiOf(h, 0)) \in 0..8
  BY WidthType
<1>6. C = 1 + Width(AiOf(h, 0)) /\ C \in Nat
  <2>1. C = 0 + 1 + Width(AiOf(h, 0))
    BY DEF BodyOf
  <2> QED
    BY <1>5, <2>1
<1> HIDE DEF C
<1>7. h[1] \in Byte
  <2>1. 1 \in 1..Len(h)
    BY <1>4, <1>5, <1>6
  <2> QED
    BY <1>4, <2>1, ByteType
<1>8. AiOf(h, 0) = a
  <2> DEFINE k == AiOf(h, 0)
  <2>1. arg < Over(k) /\ (k < Imm => arg = k)
    <3>1. CASE k < Imm
      <4>1. Width(k) = 0
        BY <1>4, <3>1, ImmAssumption DEF Width
      <4>2. ArgOf(h, 0) = k
        BY <4>1 DEF ArgOf
      <4> QED
        BY <1>4, <3>1, <4>2 DEF Over
    <3>2. CASE ~(k < Imm)
      <4>1. k \in Imm .. Imm + 3 /\ k - Imm + 1 \in 1..4
        BY <1>4, <3>2, ImmAssumption
      <4>2. Width(k) = Widths[k - Imm + 1]
        BY <4>1 DEF Width
      <4>3. Width(k) \in 1..8 /\ Width(k) <= Widths[4]
        BY <4>1, <4>2, WidthsAssumption
      <4> DEFINE t == Part(h, 1, C)
      <4>4. t \in Bytes /\ Len(t) = Width(k)
        <5>1. 1 \in Nat /\ 1 <= C /\ C <= Len(h) /\ C - 1 = Width(k)
          BY <1>4, <1>5, <1>6
        <5> QED
          BY <1>4, <1>6, <5>1, PartFacts
      <4>5. ArgOf(h, 0) = Uint(t)
        <5>1. 0 + 1 = 1
          OBVIOUS
        <5> QED
          BY <4>3, <5>1 DEF ArgOf, C
      <4> HIDE DEF t
      <4>6. Uint(t) < Radix ^ Width(k)
        BY <4>3, <4>4, UintBound
      <4>7. Over(k) = Radix ^ Width(k)
        BY <3>2 DEF Over
      <4> QED
        BY <1>4, <3>2, <4>5, <4>6, <4>7
    <3> QED
      BY <3>1, <3>2
  <2> HIDE DEF k
  <2>2. k \in 0 .. Imm + 3 /\ Least(k) <= arg
    BY <1>4 DEF k
  <2>3. k = a
    BY <1>2, <2>1, <2>2, OneForm
  <2> QED
    BY <2>3 DEF k
<1>9. h[1] = d[p + 1]
  <2>1. Major(h[1]) = Major(d[p + 1]) /\ Ai(h[1]) = Ai(d[p + 1])
    <3>1. 0 + 1 = 1
      OBVIOUS
    <3> QED
      BY <1>4, <1>8, <3>1 DEF MajorOf, AiOf, a
  <2> QED
    BY <1>1, <1>7, <2>1, HeadJoin
<1>10. C = 1 + Width(a) /\ B - p = C
  BY <1>1, <1>5, <1>6, <1>8
<1>11. g \in Seq(Byte) /\ Len(g) = C /\ \A k \in 1..C : g[k] = d[p + k]
  <2>1. p <= B
    BY <1>1, <1>5
  <2>2. g \in Bytes /\ Len(g) = B - p /\ \A k \in 1..B - p : g[k] = d[p + k]
    BY <1>1, <1>2, <2>1, PartFacts DEF g
  <2> QED
    BY <1>10, <2>2 DEF Bytes
<1>12. ASSUME NEW k \in 1..C, k # 1 PROVE h[k] = d[p + k]
  <2> DEFINE s == Part(d, p + 1, B)
             t == Part(h, 1, C)
             i == k - 1
  <2>1. i \in 1..Width(a) /\ 1 + i = k /\ p + 1 + i = p + k /\ Width(a) # 0
    BY <1>1, <1>5, <1>10, <1>12
  <2>2. s \in Bytes /\ Len(s) = Width(a) /\ \A j \in 1..Width(a) : s[j] = d[p + 1 + j]
    <3>1. p + 1 \in Nat /\ p + 1 <= B /\ B - (p + 1) = Width(a)
      BY <1>1, <1>5
    <3>2. /\ s \in Bytes /\ Len(s) = B - (p + 1)
          /\ \A j \in 1..B - (p + 1) : s[j] = d[p + 1 + j]
      BY <1>1, <1>2, <3>1, PartFacts
    <3> HIDE DEF s
    <3> QED
      BY ONLY <3>1, <3>2
  <2>3. t \in Bytes /\ Len(t) = Width(a) /\ \A j \in 1..Width(a) : t[j] = h[1 + j]
    <3>1. 1 \in Nat /\ 1 <= C /\ C <= Len(h) /\ C - 1 = Width(a)
      BY <1>4, <1>5, <1>6, <1>10
    <3>2. t \in Bytes /\ Len(t) = C - 1 /\ \A j \in 1..C - 1 : t[j] = h[1 + j]
      BY <1>4, <1>6, <3>1, PartFacts
    <3> HIDE DEF t
    <3> QED
      BY ONLY <3>1, <3>2
  <2>4. Uint(s) = Uint(t)
    <3>1. arg = Uint(s)
      BY <2>1 DEF ArgOf, arg, B, a
    <3>2. ArgOf(h, 0) = Uint(t)
      <4>1. 0 + 1 = 1
        OBVIOUS
      <4> QED
        BY <1>8, <2>1, <4>1 DEF ArgOf, C
    <3> QED
      BY <1>4, <3>1, <3>2
  <2> HIDE DEF s, t, i
  <2>5. s[i] = t[i]
    BY <1>5, <2>1, <2>2, <2>3, <2>4, UintInjective
  <2>6. s[i] = d[p + 1 + i] /\ t[i] = h[1 + i]
    BY <2>1, <2>2, <2>3
  <2> QED
    BY <2>1, <2>5, <2>6
<1>13. \A k \in 1..C : g[k] = h[k]
  BY <1>9, <1>11, <1>12
<1>14. g = h
  BY <1>4, <1>11, <1>13, SeqEqual DEF Bytes
<1> QED
  BY <1>14 DEF g, h, B, arg
=============================================================================
